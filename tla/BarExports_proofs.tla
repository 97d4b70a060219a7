--------------------------- MODULE BarExports_proofs ---------------------------
(***************************************************************************)
(* Proofs about BarExports, for any number of sessions and minutes and     *)
(* whatever the bounds: no minute in progress reaches a file, the coverage *)
(* ledger is honest, no writer drops a minute it read, and every table,    *)
(* file and answer holds a day's rows.                                     *)
(***************************************************************************)
EXTENDS BarExports, TLAPS

\* A day's rows without a partial one.
Clean(r) == \A k \in Held(r) : r[k] # Partial

LEMMA OverClean == ASSUME NEW l, NEW r, Clean(l), Clean(r) PROVE Clean(Over(l, r))
  BY DEF Clean, Over, Held

LEMMA OverHolds == ASSUME NEW l, NEW r PROVE Held(Over(l, r)) = Held(l) \cup Held(r)
  BY DEF Over, Held

LEMMA RowHolds == ASSUME NEW k, NEW px PROVE Held(Row(k, px)) = {k}
  BY DEF Row, Held

LEMMA RowClean == ASSUME NEW k, NEW px, px # Partial PROVE Clean(Row(k, px))
  BY DEF Clean, Row, Held

LEMMA EndedClean ==
  ASSUME NEW r, NEW at, \A k \in Held(r) : r[k] = Partial => ~(k < at)
  PROVE  Clean(Ended(r, at))
  BY DEF Clean, Ended, Held, Restrict

LEMMA CleanEnded == ASSUME NEW r, NEW at, Clean(r) PROVE Clean(Ended(r, at))
  BY DEF Clean, Ended, Held, Restrict

LEMMA PutClean ==
  ASSUME NEW r, NEW k, NEW px, Clean(r), px # Partial PROVE Clean(Put(r, k, px))
  BY OverClean, RowClean DEF Put

LEMMA PutHolds == ASSUME NEW r, NEW k, NEW px PROVE Held(r) \subseteq Held(Put(r, k, px))
  BY OverHolds DEF Put

\* A refresh that merges keeps every minute of the day it read, and brings no
\* partial one in.
LEMMA MergedHolds == ASSUME NEW r, NEW got, NEW at PROVE Held(r) \subseteq Held(Merged(r, got, at))
  BY OverHolds DEF Merged

LEMMA MergedClean ==
  ASSUME NEW r, NEW got, NEW at, Clean(r), \A k \in Held(got) : got[k] = Partial => ~(k < at)
  PROVE  Clean(Merged(r, got, at))
  BY OverClean, EndedClean DEF Merged

-----------------------------------------------------------------------------
(* The inductive invariant, part by part.                                *)

IsOn(f) == f = [d \in Days |-> f[d]]

\* The tables are functions of the days, and two writers at most are at work.
Shape ==
  /\ clock \in [day : Days, at : 1..Complete]
  /\ IsOn(tape) /\ IsOn(rows) /\ IsOn(stamp) /\ IsOn(zip)
  /\ flight = [stream |-> flight.stream, rest |-> flight.rest]

\* An export in progress knows its days and their rows.
PassShape ==
  pass.step # "idle" =>
    /\ pass = [step |-> pass.step, todo |-> pass.todo, today |-> pass.today,
               rows |-> pass.rows, stamp |-> pass.stamp]
    /\ pass.todo \subseteq Days

\* What the ledger covers is over, and fetched where there was something.
Covered ==
  /\ cover \subseteq 1..(Today - 1)
  /\ \A d \in cover : Usable(tape[d]) => d \in hist

\* Partial rows are only in an answer of the vendor, at or behind the minute
\* in progress when it was asked.
StreamClean ==
  flight.stream # NoFlight => flight.stream.px # Partial /\ Clean(flight.stream.base)
AnswerClean ==
  flight.rest.who \in {"asked", "write"} =>
    \A d \in DOMAIN flight.rest.got : \A k \in Held(flight.rest.got[d]) :
      flight.rest.got[d][k] = Partial => ~(k < EndOf(d, flight.rest.at))
BaseClean ==
  flight.rest.who = "write" => \A d \in Days : Clean(flight.rest.base[d])
PassClean ==
  pass.step # "idle" => \A d \in pass.todo : Clean(pass.rows[d])
\* With a refresh that merges, nothing partial is read, written or filed.
MergeClean ==
  /\ \A d \in Days : Clean(rows[d])
  /\ StreamClean /\ BaseClean /\ PassClean
  /\ \A d \in Days : zip[d].kind = "live" => Clean(zip[d].rows)

\* The stream is owed candles the vendor has.
LateOnTape ==
  \A d \in Days, k \in AllBars : <<d, k>> \in late => k \in Held(tape[d])

NoPartials ==
  /\ \A d \in Days : Clean(tape[d])
  /\ LateOnTape /\ AnswerClean
  /\ vendor = "merge" => MergeClean

IInv == Shape /\ PassShape /\ Covered /\ NoPartials

LEMMA Bounds == LastDay \in Nat \ {0, 1} /\ Minutes \in Nat \ {0, 1}
  BY ExportAssumption

LEMMA InitInv == Init => IInv
<1> SUFFICES ASSUME Init PROVE IInv
  OBVIOUS
<1> USE Bounds
<1>1. Shape
  BY DEF Init, Shape, IsOn, Days, Complete
<1>2. Covered
  BY DEF Init, Covered
<1>3. NoPartials
  BY DEF Init, NoPartials, Clean, Held, NoRows, Nothing, NoFlight, Idle, AnswerClean, StreamClean,
         BaseClean, PassClean, MergeClean, LateOnTape
<1>4. PassShape
  BY DEF Init, PassShape, Idle
<1> QED BY <1>1, <1>2, <1>3, <1>4 DEF IInv

-----------------------------------------------------------------------------
LEMMA ShapeStep == ASSUME Shape, [Next]_vars PROVE Shape'
<1> USE Bounds DEF Shape, IsOn, Today
<1>1. CASE MinuteEnds
  BY <1>1 DEF MinuteEnds, tableVars, fileVars, Complete
<1>2. CASE DayEnds
  BY <1>2 DEF DayEnds, tableVars, Days, Complete
<1>3. CASE \E d \in Days, k \in AllBars : Correct(d, k)
  BY <1>3 DEF Correct, tableVars, fileVars
<1>4. CASE \E d \in Days, k \in AllBars : StreamReads(d, k)
  BY <1>4 DEF StreamReads, tableVars, fileVars
<1>5. CASE StreamCommits
  BY <1>5 DEF StreamCommits, Save, tableVars, feedVars, fileVars
<1>6. CASE RefreshAsks \/ RefreshReads
  BY <1>6 DEF RefreshAsks, RefreshReads, tableVars, feedVars, fileVars
<1>7. CASE RefreshCommits
  BY <1>7 DEF RefreshCommits, feedVars, fileVars
<1>8. CASE Backfill
  BY <1>8 DEF Backfill, tableVars, feedVars, fileVars
<1>9. CASE BackfillDies
  BY <1>9 DEF BackfillDies, tableVars, feedVars
<1>10. CASE ExportHistory
  BY <1>10 DEF ExportHistory, tableVars, feedVars
<1>11. CASE ExportReads \/ ExportSidecar \/ ExportDaily \/ Crash
  BY <1>11 DEF ExportReads, ExportSidecar, ExportDaily, Crash, tableVars, feedVars
<1>12. CASE ExportDay
  BY <1>12 DEF ExportDay, tableVars, feedVars
<1>13. CASE UNCHANGED vars
  BY <1>13 DEF vars
<1> QED BY <1>1, <1>2, <1>3, <1>4, <1>5, <1>6, <1>7, <1>8, <1>9, <1>10, <1>11, <1>12, <1>13
           DEF Next, Export

\* A gap ends before today, so what is recorded as covered stays as it was.
LEMMA GapsAreOver ==
  ASSUME Shape, NEW g \in Wanted
  PROVE  g[1]..g[2] \subseteq 1..(Today - 1)
  BY DEF Wanted, Gaps

LEMMA CoveredStep == ASSUME Shape, Covered, [Next]_vars PROVE Covered'
<1> USE Bounds DEF Today
<1>0. Today \in Nat /\ (UNCHANGED <<clock, tape, histVars>> => Covered')
  BY DEF Shape, Covered, Days, histVars
<1>1. CASE MinuteEnds
  <2>1. Today' = Today /\ cover' = cover /\ hist' = hist
    BY <1>1 DEF MinuteEnds, histVars, Shape
  <2>2. \A d \in cover : tape'[d] = tape[d]
    BY <1>1, <1>0 DEF MinuteEnds, Covered, Shape, IsOn
  <2> QED BY <2>1, <2>2 DEF Covered
<1>2. CASE DayEnds
  BY <1>2, <1>0 DEF DayEnds, histVars, Covered
<1>3. CASE \E d \in Days, k \in AllBars : Correct(d, k)
  <2> PICK d \in Days, k \in AllBars : Correct(d, k)
    BY <1>3
  <2>1. Held(tape'[d]) = Held(tape[d])
    <3>1. k \in Held(tape[d]) /\ tape'[d] = Over(Row(k, Corrected), tape[d])
      BY DEF Correct, Shape, IsOn
    <3>2. Held(Row(k, Corrected)) = {k}
      BY RowHolds
    <3>3. Held(Over(Row(k, Corrected), tape[d])) = Held(Row(k, Corrected)) \cup Held(tape[d])
      BY OverHolds
    <3>4. Held(Over(Row(k, Corrected), tape[d])) = Held(tape[d])
      BY <3>1, <3>2, <3>3
    <3> QED BY <3>1, <3>4
  <2>2. \A e \in Days \ {d} : tape'[e] = tape[e]
    BY DEF Correct, Shape, IsOn
  <2>3. cover \subseteq Days
    BY <1>0 DEF Covered, Days, Shape
  <2>4. \A e \in cover : Usable(tape'[e]) <=> Usable(tape[e])
    BY <2>1, <2>2, <2>3 DEF Usable
  <2> QED BY <2>4 DEF Correct, Covered, histVars
<1>4. CASE Backfill
  <2> PICK g \in Wanted : /\ hist' = hist \cup Given(g)
                          /\ cover' = cover \cup g[1]..g[2]
    BY <1>4 DEF Backfill
  <2> QED BY <1>4, GapsAreOver DEF Backfill, Covered, Given, feedVars
<1>5. CASE BackfillDies
  <2> PICK g \in Wanted : hist' = hist \cup Given(g)
    BY <1>5 DEF BackfillDies
  <2> QED BY <1>5 DEF BackfillDies, Covered, feedVars
<1>6. CASE (\E d \in Days, k \in AllBars : StreamReads(d, k)) \/ StreamCommits \/ RefreshAsks
             \/ RefreshReads \/ RefreshCommits \/ ExportHistory \/ Export \/ Crash
  BY <1>6, <1>0 DEF StreamReads, StreamCommits, RefreshAsks, RefreshReads, RefreshCommits, ExportHistory,
     Export, ExportReads, ExportDay, ExportSidecar, ExportDaily, Crash, feedVars
<1>7. CASE UNCHANGED vars
  BY <1>7, <1>0 DEF vars, histVars
<1> QED BY <1>1, <1>2, <1>3, <1>4, <1>5, <1>6, <1>7 DEF Next

-----------------------------------------------------------------------------
\* What the vendor answers is partial in the minute in progress only.
LEMMA AnswerStep ==
  ASSUME Shape, \A d \in Days : Clean(tape[d]), NEW d \in Days,
         NEW k \in Held(Answered(d)), Answered(d)[k] = Partial
  PROVE  ~(k < EndOf(d, clock))
<1> USE Bounds DEF Shape
<1>1. CASE d = Today /\ clock.at <= Minutes
  <2>1. Answered(d) = Over(Row(clock.at, Partial), tape[d])
    BY <1>1 DEF Answered
  <2>2. k = clock.at
    BY <2>1 DEF Over, Row, Held, Clean
  <2> QED BY <1>1, <2>2 DEF EndOf, Today, Complete
<1>2. CASE ~(d = Today /\ clock.at <= Minutes)
  BY <1>2 DEF Answered, Clean, Held
<1> QED BY <1>1, <1>2

LEMMA TapeStep ==
  ASSUME Shape, \A d \in Days : Clean(tape[d]), [Next]_vars
  PROVE  \A d \in Days : Clean(tape'[d])
<1>1. Final # Partial /\ Corrected # Partial
  BY DEF Final, Partial, Corrected
<1>2. CASE UNCHANGED tape
  BY <1>2
<1>3. CASE MinuteEnds
  BY <1>1, <1>3, OverClean, RowClean DEF MinuteEnds, Shape, IsOn
<1>4. CASE \E d \in Days, k \in AllBars : Correct(d, k)
  BY <1>1, <1>4, OverClean, RowClean DEF Correct, Shape, IsOn
<1> QED BY <1>2, <1>3, <1>4 DEF Next, vars, DayEnds, StreamReads, StreamCommits, RefreshAsks, RefreshReads,
     RefreshCommits, Backfill, BackfillDies, ExportHistory, Export, ExportReads, ExportDay,
     ExportSidecar, ExportDaily, Crash, feedVars

LEMMA AnswerCleanStep ==
  ASSUME Shape, \A d \in Days : Clean(tape[d]), AnswerClean, [Next]_vars
  PROVE  AnswerClean'
<1>1. CASE UNCHANGED flight
  BY <1>1 DEF AnswerClean, EndOf
<1>2. CASE \E d \in Days, k \in AllBars : StreamReads(d, k)
  <2>1. flight'.rest = flight.rest
    BY <1>2 DEF StreamReads, Shape
  <2> QED BY <2>1 DEF AnswerClean, EndOf
<1>3. CASE StreamCommits
  <2>1. flight'.rest = flight.rest
    BY <1>3 DEF StreamCommits, Shape
  <2> QED BY <2>1 DEF AnswerClean, EndOf
<1>4. CASE RefreshAsks
  <2>1. /\ flight'.rest.at = clock
        /\ flight'.rest.got = [d \in {e \in 1..Today : e > Today - RefreshDays} |-> Answered(d)]
    BY <1>4 DEF RefreshAsks, Shape
  <2>2. {e \in 1..Today : e > Today - RefreshDays} \subseteq Days
    BY Bounds DEF Shape, Today, Days
  <2>3. ASSUME NEW d \in DOMAIN flight'.rest.got, NEW k \in Held(flight'.rest.got[d]),
               flight'.rest.got[d][k] = Partial
        PROVE  ~(k < EndOf(d, flight'.rest.at))
    <3>1. d \in Days /\ flight'.rest.got[d] = Answered(d)
      BY <2>1, <2>2
    <3> QED BY <2>1, <2>3, <3>1, AnswerStep
  <2> QED BY <2>3 DEF AnswerClean, EndOf, Held
<1>5. CASE RefreshReads
  <2>1. flight.rest.who = "asked" /\ flight'.rest.at = flight.rest.at /\ flight'.rest.got = flight.rest.got
    BY <1>5 DEF RefreshReads, Shape
  <2> QED BY <2>1 DEF AnswerClean, EndOf, Held
<1>6. CASE RefreshCommits
  <2>1. flight'.rest = NoFlight
    BY <1>6 DEF RefreshCommits, Shape
  <2> QED BY <2>1 DEF AnswerClean, NoFlight
<1> QED BY <1>1, <1>2, <1>3, <1>4, <1>5, <1>6 DEF Next, vars, MinuteEnds, DayEnds, Correct, Backfill, BackfillDies,
     ExportHistory, Export, ExportReads, ExportDay, ExportSidecar, ExportDaily, Crash

LEMMA LateStep == ASSUME Shape, LateOnTape, [Next]_vars PROVE LateOnTape'
<1>1. CASE UNCHANGED tape /\ late' \subseteq late
  BY <1>1 DEF LateOnTape, Held
<1>2. CASE MinuteEnds
  <2>1. /\ tape'[Today] = Over(Row(clock.at, Final), tape[Today])
        /\ \A d \in Days \ {Today} : tape'[d] = tape[d]
        /\ late' = late \cup {<<Today, clock.at>>}
    BY <1>2 DEF MinuteEnds, Shape, IsOn, Today
  <2>2. Held(tape'[Today]) = {clock.at} \cup Held(tape[Today])
    BY <2>1, OverHolds, RowHolds
  <2> QED BY <2>1, <2>2 DEF LateOnTape, Shape, Today
<1>3. CASE \E d \in Days, k \in AllBars : Correct(d, k)
  <2> PICK d \in Days, k \in AllBars : Correct(d, k)
    BY <1>3
  <2>1. /\ tape'[d] = Over(Row(k, Corrected), tape[d])
        /\ \A e \in Days \ {d} : tape'[e] = tape[e]
        /\ late' = late \cup {<<d, k>>}
    BY DEF Correct, Shape, IsOn
  <2>2. Held(tape'[d]) = {k} \cup Held(tape[d])
    BY <2>1, OverHolds, RowHolds
  <2> QED BY <2>1, <2>2 DEF LateOnTape
<1> QED BY <1>1, <1>2, <1>3 DEF Next, vars, DayEnds, StreamReads, StreamCommits, RefreshAsks, RefreshReads,
     RefreshCommits, Backfill, BackfillDies, ExportHistory, Export, ExportReads, ExportDay,
     ExportSidecar, ExportDaily, Crash, feedVars

LEMMA PassShapeStep == ASSUME Shape, PassShape, [Next]_vars PROVE PassShape'
<1> USE DEF PassShape
<1>1. CASE UNCHANGED pass
  BY <1>1
<1>2. CASE pass' = Idle
  BY <1>2 DEF Idle
<1>3. CASE ExportReads
  BY <1>3, Bounds DEF ExportReads, Shape, Today, Days
<1>4. CASE ExportDay
  BY <1>4 DEF ExportDay
<1>5. CASE ExportSidecar
  BY <1>5 DEF ExportSidecar
<1> QED BY <1>1, <1>2, <1>3, <1>4, <1>5 DEF Next, vars, MinuteEnds, DayEnds, Correct, StreamReads, StreamCommits,
     RefreshAsks, RefreshReads, RefreshCommits, Backfill, BackfillDies, ExportHistory, Export,
     ExportDaily, Crash, fileVars

LEMMA StreamStep ==
  ASSUME Shape, \A d \in Days : Clean(tape[d]), MergeClean, LateOnTape,
         NEW d \in Days, NEW k \in AllBars, StreamReads(d, k)
  PROVE  MergeClean'
<1>1. /\ flight'.rest = flight.rest
      /\ flight'.stream.px = tape[d][k] /\ flight'.stream.base = rows[d]
  BY DEF StreamReads, Shape
<1>2. k \in Held(tape[d])
  BY DEF StreamReads, LateOnTape
<1>3. StreamClean'
  BY <1>1, <1>2 DEF StreamClean, Clean, MergeClean
<1>4. BaseClean'
  BY <1>1 DEF BaseClean, MergeClean
<1> QED BY <1>3, <1>4 DEF MergeClean, StreamReads, PassClean, tableVars, fileVars

LEMMA CommitStep ==
  ASSUME Shape, MergeClean, StreamCommits PROVE MergeClean'
<1>1. /\ flight'.rest = flight.rest /\ flight'.stream = NoFlight
      /\ UNCHANGED <<zip, pass>>
  BY DEF StreamCommits, Shape, fileVars
<1>2. Clean(Put(flight.stream.base, flight.stream.min, flight.stream.px))
  BY PutClean DEF StreamCommits, MergeClean, StreamClean
<1>3. \A d \in Days : Clean(rows'[d])
  BY <1>2 DEF StreamCommits, Save, tableVars, MergeClean, Shape, IsOn
<1>4. StreamClean' /\ BaseClean'
  BY <1>1 DEF StreamClean, BaseClean, MergeClean
<1> QED BY <1>1, <1>3, <1>4 DEF MergeClean, PassClean

LEMMA RefreshStep ==
  ASSUME Shape, AnswerClean, vendor = "merge", MergeClean, RefreshAsks \/ RefreshReads \/ RefreshCommits
  PROVE  MergeClean'
<1>1. flight'.stream = flight.stream /\ UNCHANGED <<zip, pass>>
  BY DEF RefreshAsks, RefreshReads, RefreshCommits, Shape, fileVars
<1>2. CASE RefreshAsks
  <2>1. flight'.rest.who = "asked" /\ UNCHANGED rows
    BY <1>2 DEF RefreshAsks, Shape, tableVars
  <2> QED BY <1>1, <2>1 DEF MergeClean, StreamClean, BaseClean, PassClean
<1>3. CASE RefreshReads
  <2>1. flight'.rest.base = rows /\ UNCHANGED rows
    BY <1>3 DEF RefreshReads, Shape, tableVars
  <2> QED BY <1>1, <2>1 DEF MergeClean, StreamClean, BaseClean, PassClean
<1>4. CASE RefreshCommits
  <2> DEFINE f == flight.rest
  <2>1. flight'.rest = NoFlight /\ f.who = "write"
    BY <1>4 DEF RefreshCommits, Shape
  <2>2. ASSUME NEW d \in Days, d \in DOMAIN f.got PROVE Clean(Refreshed(f, d))
    <3>1. Clean(f.base[d])
      BY <2>1 DEF MergeClean, BaseClean
    <3>2. \A k \in Held(f.got[d]) : f.got[d][k] = Partial => ~(k < EndOf(d, f.at))
      BY <2>1, <2>2 DEF AnswerClean
    <3> QED BY <3>1, <3>2, MergedClean DEF Refreshed
  <2>3. \A d \in Days : rows'[d] = rows[d] \/ (d \in DOMAIN f.got /\ rows'[d] = Refreshed(f, d))
    BY <1>4 DEF RefreshCommits
  <2>4. \A d \in Days : Clean(rows'[d])
    BY <2>2, <2>3 DEF MergeClean
  <2> QED BY <1>1, <2>1, <2>4 DEF MergeClean, StreamClean, BaseClean, PassClean, NoFlight
<1> QED BY <1>2, <1>3, <1>4

LEMMA ExportStep ==
  ASSUME Shape, PassShape, MergeClean, ExportHistory \/ Export PROVE MergeClean'
<1>1. UNCHANGED <<rows, flight>>
  BY DEF ExportHistory, Export, ExportReads, ExportDay, ExportSidecar, ExportDaily, tableVars
<1>2. StreamClean' /\ BaseClean' /\ \A d \in Days : Clean(rows'[d])
  BY <1>1 DEF StreamClean, BaseClean, MergeClean
<1>3. CASE ExportHistory
  <2>1. \A d \in Days : zip'[d] = zip[d] \/ zip'[d].kind # "live"
    BY <1>3 DEF ExportHistory, Old, Nothing
  <2> QED BY <1>2, <1>3, <2>1 DEF ExportHistory, MergeClean, PassClean
<1>4. CASE ExportReads
  <2>1. \A d \in Days : Clean(Cut(d))
    BY CleanEnded DEF MergeClean, Cut
  <2>2. \A d \in pass'.todo : d \in Days /\ pass'.rows[d] = Cut(d)
    BY <1>4, Bounds DEF ExportReads, Shape, Today, Days
  <2> QED BY <1>2, <1>4, <2>1, <2>2 DEF ExportReads, MergeClean, PassClean
<1>5. CASE ExportDay
  <2>1. /\ pass.step # "idle" /\ pass'.rows = pass.rows /\ pass'.todo \subseteq pass.todo
        /\ \A d \in Days : zip'[d] = zip[d] \/ (d \in pass.todo /\ zip'[d] = Zipped(d))
    BY <1>5 DEF ExportDay, PassShape, Shape, IsOn
  <2>2. PassClean'
    BY <2>1 DEF MergeClean, PassClean
  <2>3. \A d \in pass.todo : Clean(Zipped(d).rows)
    BY <2>1 DEF MergeClean, PassClean, Zipped
  <2>4. \A d \in Days : zip'[d].kind = "live" => Clean(zip'[d].rows)
    BY <2>1, <2>3 DEF MergeClean
  <2> QED BY <1>2, <2>2, <2>4 DEF MergeClean
<1>6. CASE ExportSidecar
  <2>1. pass.step # "idle" /\ pass'.rows = pass.rows /\ pass'.todo \subseteq pass.todo
    BY <1>6 DEF ExportSidecar, PassShape
  <2> QED BY <1>2, <1>6, <2>1 DEF ExportSidecar, MergeClean, PassClean
<1>7. CASE ExportDaily
  BY <1>2, <1>7 DEF ExportDaily, MergeClean, PassClean, Idle
<1> QED BY <1>3, <1>4, <1>5, <1>6, <1>7 DEF Export

LEMMA MergeStep ==
  ASSUME Shape, PassShape, NoPartials, vendor = "merge", [Next]_vars
  PROVE  MergeClean'
<1> USE DEF NoPartials
<1>1. CASE UNCHANGED <<rows, flight, zip>> /\ (pass' = pass \/ pass' = Idle)
  BY <1>1 DEF MergeClean, StreamClean, BaseClean, PassClean, Idle
<1>2. CASE \E d \in Days, k \in AllBars : StreamReads(d, k)
  BY <1>2, StreamStep
<1>3. CASE StreamCommits
  BY <1>3, CommitStep
<1>4. CASE RefreshAsks \/ RefreshReads \/ RefreshCommits
  BY <1>4, RefreshStep
<1>5. CASE ExportHistory \/ Export
  BY <1>5, ExportStep
<1> QED BY <1>1, <1>2, <1>3, <1>4, <1>5 DEF Next, vars, MinuteEnds, DayEnds, Correct, Backfill, BackfillDies,
     Crash, tableVars, fileVars

-----------------------------------------------------------------------------
(* The theorems.                                                           *)

LEMMA VendorStays == ASSUME [Next]_vars PROVE vendor' = vendor
  BY DEF Next, vars, MinuteEnds, DayEnds, Correct, StreamReads, StreamCommits, RefreshAsks, RefreshReads,
     RefreshCommits, Backfill, BackfillDies, ExportHistory, Export, ExportReads, ExportDay,
     ExportSidecar, ExportDaily, Crash

LEMMA InvStep == ASSUME IInv, [Next]_vars PROVE IInv'
<1> USE DEF IInv
<1>1. Shape' /\ PassShape' /\ Covered'
  BY ShapeStep, PassShapeStep, CoveredStep
<1>2. NoPartials'
  BY TapeStep, LateStep, AnswerCleanStep, MergeStep, VendorStays DEF NoPartials
<1> QED BY <1>1, <1>2

LEMMA InvHolds == Spec => []IInv
<1>1. Init => IInv
  BY InitInv
<1>2. IInv /\ [Next]_vars => IInv'
  BY InvStep
<1> QED BY <1>1, <1>2, PTL DEF Spec

\* Neither the exported files nor the coverage ledger claim what is not there
\* (data/liveexport.py, data/history.py and data/backfill.py): whatever the
\* interleaving of the writers and the exports, and however many sessions.
THEOREM StoreHonest == Spec => []StoreIsHonest
<1>1. IInv => StoreIsHonest
  BY DEF IInv, NoPartials, MergeClean, Clean, Covered, StoreIsHonest, NoPartialRow, CoverageHonest
<1> QED BY <1>1, InvHolds, PTL

\* A commit made from what is still stored keeps every stored minute.
LEMMA KeepsStep ==
  ASSUME Shape, [Next]_vars, vendor = "merge", OnWhatItRead, NEW d \in Days
  PROVE  Held(rows[d]) \subseteq Held(rows'[d])
<1>1. CASE UNCHANGED rows
  BY <1>1
<1>2. CASE StreamCommits
  <2>1. flight.stream.base = rows[flight.stream.day]
    BY <1>2 DEF StreamCommits, OnWhatItRead
  <2>2. rows'[d] = rows[d] \/
          (d = flight.stream.day /\ rows'[d] = Put(flight.stream.base, flight.stream.min, flight.stream.px))
    BY <1>2 DEF StreamCommits, Save, tableVars, Shape, IsOn
  <2> QED BY <2>1, <2>2, PutHolds
<1>3. CASE RefreshCommits
  <2>1. flight.rest.base = rows
    BY <1>3 DEF RefreshCommits, OnWhatItRead
  <2>2. rows'[d] = rows[d] \/
          rows'[d] = Merged(rows[d], flight.rest.got[d], EndOf(d, flight.rest.at))
    BY <1>3, <2>1 DEF RefreshCommits, Refreshed
  <2> QED BY <2>2, MergedHolds
<1> QED BY <1>1, <1>2, <1>3 DEF Next, vars, MinuteEnds, DayEnds, Correct, StreamReads, RefreshAsks, RefreshReads,
     Backfill, BackfillDies, ExportHistory, Export, ExportReads, ExportDay, ExportSidecar,
     ExportDaily, Crash, tableVars

\* A minute once stored stays stored, for every order of the stream's and the
\* refresh's commits in which each writes over what it read (BarDayStore.write,
\* history.refresh).
THEOREM MinutesKept == Spec => MinutesSurvive
<1>1. IInv /\ [Next]_vars =>
        [vendor = "merge" /\ OnWhatItRead => \A d \in Days : Held(rows[d]) \subseteq Held(rows'[d])]_vars
  BY KeepsStep DEF IInv
<1> QED BY <1>1, InvHolds, PTL DEF Spec, MinutesSurvive

-----------------------------------------------------------------------------
(* Type correctness: what is read, put together and written is a day's     *)
(* rows everywhere between the vendor and the files.                       *)

LEMMA DayRowsIs ==
  ASSUME NEW S \in SUBSET AllBars, NEW r \in [S -> Prices] PROVE r \in DayRows
  BY DEF DayRows

LEMMA OverType ==
  ASSUME NEW l \in DayRows, NEW r \in DayRows PROVE Over(l, r) \in DayRows
<1>1. PICK S \in SUBSET AllBars : l \in [S -> Prices]
  BY DEF DayRows
<1>2. PICK T \in SUBSET AllBars : r \in [T -> Prices]
  BY DEF DayRows
<1>3. Over(l, r) \in [S \cup T -> Prices]
  BY <1>1, <1>2 DEF Over, Held
<1> QED BY <1>3, DayRowsIs

LEMMA RowType ==
  ASSUME NEW k \in AllBars, NEW px \in Prices PROVE Row(k, px) \in DayRows
<1>1. Row(k, px) \in [{k} -> Prices]
  BY DEF Row
<1> QED BY <1>1, DayRowsIs

LEMMA EndedType == ASSUME NEW r \in DayRows, NEW at PROVE Ended(r, at) \in DayRows
<1>1. PICK S \in SUBSET AllBars : r \in [S -> Prices]
  BY DEF DayRows
<1>2. Ended(r, at) \in [{k \in S : k < at} -> Prices]
  BY <1>1 DEF Ended, Held, Restrict
<1> QED BY <1>2, DayRowsIs

LEMMA NoRowsType == NoRows \in DayRows
<1>1. NoRows \in [{} -> Prices]
  BY DEF NoRows
<1> QED BY <1>1, DayRowsIs

LEMMA HeldType ==
  ASSUME NEW r \in DayRows PROVE Held(r) \subseteq AllBars /\ \A k \in Held(r) : r[k] \in Prices
  BY DEF DayRows, Held

\* The part of the type invariant about what is in flight.
Carried == StreamType /\ AnswerType /\ BaseType /\ CarriedType

LEMMA InitTypes == Init => TypeOK /\ Carried
<1> SUFFICES ASSUME Init PROVE TypeOK /\ Carried
  OBVIOUS
<1>1. \A d \in Days : /\ tape[d] = NoRows /\ rows[d] = NoRows /\ stamp[d] = 0
                      /\ zip[d] = Nothing
  BY DEF Init
<1>2. 1 \in Days /\ 1 \in 1..Complete
  BY Bounds DEF Days, Complete
<1>3. Carried
  BY DEF Init, NoFlight, Idle, Carried, StreamType, AnswerType, BaseType, CarriedType
<1>4. \A d \in Days : daily.line[d] \in DayRows \cup {OldLine}
  BY NoRowsType DEF Init
<1> QED BY <1>1, <1>2, <1>3, <1>4, NoRowsType DEF Init, TypeOK, Nothing, Idle, Carried

LEMMA AnsweredType ==
  ASSUME Shape, TypeOK, NEW d \in Days PROVE Answered(d) \in DayRows
<1>1. Partial \in Prices
  BY DEF Partial, Prices, Corrected
<1>2. clock.at <= Minutes => clock.at \in AllBars
  BY Bounds DEF TypeOK, Complete, AllBars
<1>3. tape[d] \in DayRows
  BY DEF TypeOK
<1> QED BY <1>1, <1>2, <1>3, RowType, OverType DEF Answered

LEMMA ClockType == ASSUME TypeOK, Shape, [Next]_vars PROVE clock'.day \in Days /\ clock'.at \in 1..Complete
<1> USE Bounds
<1>1. CASE UNCHANGED clock
  BY <1>1 DEF TypeOK
<1>2. CASE MinuteEnds \/ DayEnds
  BY <1>2, ShapeStep DEF Shape, MinuteEnds, DayEnds
<1> QED
  BY <1>1, <1>2
  DEF Next, vars, Correct, StreamReads, StreamCommits, RefreshAsks, RefreshReads,
      RefreshCommits, Backfill, BackfillDies, ExportHistory, Export, ExportReads, ExportDay,
      ExportSidecar, ExportDaily, Crash

LEMMA TapeType ==
  ASSUME TypeOK, Shape, [Next]_vars
  PROVE  (\A d \in Days : tape'[d] \in DayRows) /\ late' \subseteq Days \X AllBars
<1>1. Final \in Prices /\ Corrected \in Prices
  BY DEF Final, Prices, Partial, Corrected
<1>2. CASE UNCHANGED tape /\ late' \subseteq late
  BY <1>2 DEF TypeOK
<1>3. ASSUME NEW d \in Days, NEW k \in AllBars, NEW px \in Prices,
             tape' = [tape EXCEPT ![d] = Over(Row(k, px), tape[d])],
             late' = late \cup {<<d, k>>}
      PROVE  (\A e \in Days : tape'[e] \in DayRows) /\ late' \subseteq Days \X AllBars
  <2>1. Over(Row(k, px), tape[d]) \in DayRows
    BY RowType, OverType DEF TypeOK
  <2>2. \A e \in Days : tape'[e] = IF e = d THEN Over(Row(k, px), tape[d]) ELSE tape[e]
    BY <1>3 DEF Shape, IsOn
  <2> QED BY <1>3, <2>1, <2>2 DEF TypeOK
<1>4. CASE MinuteEnds
  <2>1. Today \in Days /\ clock.at \in AllBars
    BY <1>4, Bounds DEF MinuteEnds, TypeOK, Today, Complete, AllBars
  <2> QED BY <1>1, <1>3, <1>4, <2>1 DEF MinuteEnds
<1>5. CASE \E d \in Days, k \in AllBars : Correct(d, k)
  BY <1>1, <1>3, <1>5 DEF Correct
<1> QED
  BY <1>2, <1>4, <1>5
  DEF Next, vars, DayEnds, StreamReads, StreamCommits, RefreshAsks, RefreshReads,
      RefreshCommits, Backfill, BackfillDies, ExportHistory, Export, ExportReads, ExportDay,
      ExportSidecar, ExportDaily, Crash, feedVars

LEMMA TablesType ==
  ASSUME TypeOK, Shape, Carried, [Next]_vars
  PROVE  \A d \in Days : rows'[d] \in DayRows /\ stamp'[d] \in Nat
<1>1. CASE UNCHANGED tableVars
  BY <1>1 DEF TypeOK, tableVars
<1>2. CASE StreamCommits
  <2> DEFINE f == flight.stream
             new == Put(f.base, f.min, f.px)
  <2>1. f.day \in Days /\ new \in DayRows
    BY <1>2, RowType, OverType DEF StreamCommits, Carried, StreamType, Put
  <2>2. UNCHANGED tableVars \/ Save(f.day, new)
    BY <1>2 DEF StreamCommits
  <2> HIDE DEF f, new
  <2> QED BY <2>1, <2>2 DEF Save, TypeOK, Shape, IsOn, tableVars
<1>3. CASE RefreshCommits
  <2> DEFINE f == flight.rest
             new == {d \in DOMAIN f.got : Refreshed(f, d) # f.base[d]}
  <2>1. f.who = "write"
    BY <1>3 DEF RefreshCommits
  <2>2. ASSUME NEW d \in Days, d \in new PROVE Refreshed(f, d) \in DayRows
    <3>1. f.base[d] \in DayRows /\ f.got[d] \in DayRows
      BY <2>1, <2>2 DEF Carried, BaseType, AnswerType
    <3> QED BY <3>1, EndedType, OverType DEF Refreshed, Merged, Thinner
  <2>3. /\ rows' = [d \in Days |-> IF d \in new THEN Refreshed(f, d) ELSE rows[d]]
        /\ stamp' = [d \in Days |-> IF d \in new THEN stamp[d] + 1 ELSE stamp[d]]
    BY <1>3 DEF RefreshCommits
  <2> HIDE DEF f, new
  <2> QED BY <2>2, <2>3 DEF TypeOK
<1> QED
  BY <1>1, <1>2, <1>3
  DEF Next, vars, MinuteEnds, DayEnds, Correct, StreamReads, RefreshAsks, RefreshReads,
      Backfill, BackfillDies, ExportHistory, Export, ExportReads, ExportDay,
      ExportSidecar, ExportDaily, Crash, tableVars

LEMMA FilesType ==
  ASSUME TypeOK, Shape, PassShape, Carried, [Next]_vars
  PROVE  \A d \in Days : /\ zip'[d].kind \in {"none", "curated", "hist", "live"}
                         /\ zip'[d].kind = "live" => zip'[d].rows \in DayRows
<1>1. CASE UNCHANGED zip
  BY <1>1 DEF TypeOK
<1>2. CASE ExportHistory
  <2>1. \A d \in Days : \/ zip'[d] = zip[d]
                        \/ zip'[d] \in {[kind |-> "curated"], [kind |-> "hist"]}
    BY <1>2 DEF ExportHistory, Old
  <2> QED BY <2>1 DEF TypeOK
<1>3. CASE ExportDay
  <2>1. /\ pass.step # "idle"
        /\ \A d \in Days : zip'[d] = zip[d] \/ (d \in pass.todo /\ zip'[d] = Zipped(d))
    BY <1>3 DEF ExportDay, PassShape, Shape, IsOn
  <2>2. \A d \in pass.todo : Zipped(d).kind = "live" /\ Zipped(d).rows \in DayRows
    BY <2>1 DEF Carried, CarriedType, Zipped
  <2> QED BY <2>1, <2>2 DEF TypeOK
<1> QED
  BY <1>1, <1>2, <1>3
  DEF Next, vars, MinuteEnds, DayEnds, Correct, StreamReads, StreamCommits, RefreshAsks,
      RefreshReads, RefreshCommits, Backfill, BackfillDies, Export, ExportReads,
      ExportSidecar, ExportDaily, Crash, fileVars

LEMMA HistType ==
  ASSUME TypeOK, Shape, [Next]_vars PROVE hist' \subseteq Days /\ cover' \subseteq Days
<1>1. CASE UNCHANGED histVars
  BY <1>1 DEF TypeOK, histVars
<1>2. CASE Backfill \/ BackfillDies
  <2>1. \A g \in Wanted : g[1]..g[2] \subseteq Days /\ Given(g) \subseteq Days
    <3>1. 1..(Today - 1) \subseteq Days
      BY Bounds DEF TypeOK, Today, Days
    <3> QED BY <3>1, GapsAreOver DEF Given
  <2> QED BY <1>2, <2>1 DEF Backfill, BackfillDies, TypeOK
<1> QED
  BY <1>1, <1>2
  DEF Next, vars, MinuteEnds, DayEnds, Correct, StreamReads, StreamCommits, RefreshAsks,
      RefreshReads, RefreshCommits, ExportHistory, Export, ExportReads, ExportDay,
      ExportSidecar, ExportDaily, Crash, histVars

LEMMA FlightType ==
  ASSUME TypeOK, Shape, LateOnTape, Carried, [Next]_vars
  PROVE  StreamType' /\ AnswerType' /\ BaseType'
<1> USE DEF Carried
<1>1. CASE UNCHANGED flight
  BY <1>1 DEF StreamType, AnswerType, BaseType
<1>2. ASSUME NEW d \in Days, NEW k \in AllBars, StreamReads(d, k)
      PROVE  StreamType' /\ AnswerType' /\ BaseType'
  <2>1. flight'.rest = flight.rest /\ <<d, k>> \in late
        /\ flight'.stream = [who |-> "stream", day |-> d, min |-> k, px |-> tape[d][k],
                             base |-> rows[d]]
    BY <1>2 DEF StreamReads, Shape
  <2>2. tape[d][k] \in Prices /\ rows[d] \in DayRows
    BY <2>1, HeldType DEF LateOnTape, TypeOK
  <2> QED BY <2>1, <2>2 DEF StreamType, AnswerType, BaseType
<1>3. CASE StreamCommits
  <2>1. flight'.rest = flight.rest /\ flight'.stream = NoFlight
    BY <1>3 DEF StreamCommits, Shape
  <2> QED BY <2>1 DEF StreamType, AnswerType, BaseType
<1>4. CASE RefreshAsks
  <2> DEFINE asked == {e \in 1..Today : e > Today - RefreshDays}
  <2>1. /\ flight'.stream = flight.stream /\ flight'.rest.who = "asked"
        /\ flight'.rest.got = [d \in asked |-> Answered(d)]
    BY <1>4 DEF RefreshAsks, Shape
  <2>2. asked \subseteq Days
    BY Bounds DEF TypeOK, Today, Days
  <2>3. \A d \in asked : Answered(d) \in DayRows
    BY <2>2, AnsweredType
  <2> HIDE DEF asked
  <2> QED BY <2>1, <2>3 DEF StreamType, AnswerType, BaseType
<1>5. CASE RefreshReads
  <2>1. /\ flight'.stream = flight.stream /\ flight.rest.who = "asked"
        /\ flight'.rest.got = flight.rest.got /\ flight'.rest.base = rows
    BY <1>5 DEF RefreshReads, Shape
  <2> QED BY <2>1 DEF StreamType, AnswerType, BaseType, TypeOK
<1>6. CASE RefreshCommits
  <2>1. flight'.stream = flight.stream /\ flight'.rest = NoFlight
    BY <1>6 DEF RefreshCommits, Shape
  <2> QED BY <2>1 DEF StreamType, AnswerType, BaseType, NoFlight
<1> QED
  BY <1>1, <1>2, <1>3, <1>4, <1>5, <1>6
  DEF Next, vars, MinuteEnds, DayEnds, Correct, Backfill, BackfillDies, ExportHistory,
      Export, ExportReads, ExportDay, ExportSidecar, ExportDaily, Crash

LEMMA PassType ==
  ASSUME TypeOK, Shape, PassShape, CarriedType, [Next]_vars
  PROVE  CarriedType' /\ pass'.step \in {"idle", "days", "sidecar"}
<1>1. CASE UNCHANGED pass
  BY <1>1 DEF CarriedType, TypeOK
<1>2. CASE pass' = Idle
  BY <1>2 DEF Idle, CarriedType
<1>3. CASE ExportReads
  <2>1. /\ pass'.step = "days" /\ pass'.todo \subseteq 1..Today
        /\ \A d \in pass'.todo : pass'.rows[d] = Cut(d)
    BY <1>3 DEF ExportReads
  <2>2. 1..Today \subseteq Days
    BY Bounds DEF TypeOK, Today, Days
  <2>3. \A d \in Days : Cut(d) \in DayRows
    BY EndedType DEF TypeOK, Cut
  <2> QED BY <2>1, <2>2, <2>3 DEF CarriedType
<1>4. CASE ExportDay \/ ExportSidecar
  <2>1. /\ pass.step # "idle" /\ pass'.rows = pass.rows /\ pass'.todo \subseteq pass.todo
        /\ pass'.step \in {"days", "sidecar"}
    BY <1>4 DEF ExportDay, ExportSidecar, PassShape
  <2> QED BY <2>1 DEF CarriedType
<1> QED
  BY <1>1, <1>2, <1>3, <1>4
  DEF Next, vars, MinuteEnds, DayEnds, Correct, StreamReads, StreamCommits, RefreshAsks,
      RefreshReads, RefreshCommits, Backfill, BackfillDies, ExportHistory, Export,
      ExportDaily, Crash, fileVars

\* A derived daily row comes from the day's zip or is the one the file had.
LEMMA DailyType ==
  ASSUME TypeOK, Shape, [Next]_vars
  PROVE  \A d \in Days : daily'.line[d] \in DayRows \cup {OldLine}
<1>1. CASE UNCHANGED daily
  BY <1>1 DEF TypeOK
<1>2. CASE ExportDaily
  <2>1. \A d \in Days : Derived(zip[d]) \in DayRows \cup {OldLine}
    BY DEF TypeOK, Derived
  <2>2. \A d \in Days : DailyLine(d) \in DayRows \cup {OldLine}
    BY <2>1 DEF TypeOK, DailyLine
  <2>3. \A d \in Days : daily'.line[d] = IF d \in DerivedDays THEN DailyLine(d) ELSE NoRows
    BY <1>2 DEF ExportDaily
  <2> QED BY <2>2, <2>3, NoRowsType
<1> QED
  BY <1>1, <1>2
  DEF Next, vars, MinuteEnds, DayEnds, Correct, StreamReads, StreamCommits, RefreshAsks,
      RefreshReads, RefreshCommits, Backfill, BackfillDies, ExportHistory, Export,
      ExportReads, ExportDay, ExportSidecar, Crash, fileVars

\* The vendor's record, bar_days, the minute zips, the derived daily rows,
\* what each writer and export in progress has read and the vendor's answers
\* hold a day's rows, at most one of each minute of the session; hist_bars
\* and its coverage ledger hold sessions there are.
THEOREM Types == Spec => []TypeOK
<1>1. IInv /\ TypeOK /\ Carried /\ [Next]_vars => TypeOK' /\ Carried'
  <2> SUFFICES ASSUME IInv, TypeOK, Carried, [Next]_vars PROVE TypeOK' /\ Carried'
    OBVIOUS
  <2>1. Carried'
    BY FlightType, PassType DEF Carried, IInv, NoPartials
  <2> QED
    BY <2>1, ClockType, TapeType, TablesType, FilesType, HistType, PassType, DailyType
    DEF TypeOK, Carried, IInv
<1> QED BY InvHolds, InitTypes, <1>1, PTL DEF Spec
=============================================================================
