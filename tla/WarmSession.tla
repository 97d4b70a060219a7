----------------------------- MODULE WarmSession -----------------------------
(***************************************************************************)
(* One minute-resolution deployment through a trading day and the next     *)
(* morning: the worker loop that decides when a tick is owed, the tick     *)
(* that steps a long-lived (warm) engine and falls back to a replay, the   *)
(* feed that stores bars and notifies, the sweep that ingests executions   *)
(* and marks the warm engine stale, and the nightly audit.                 *)
(*                                                                         *)
(* Time is counted in bar ends: a bar ending at t can be stored from clock *)
(* t on, 0 stands for "before the first bar" (the code's -1).  After Close *)
(* come Roll (close + 60 s, the forced roll tick), Morning (the pre-open   *)
(* window of the next day) and Tomorrow (its first bar events).            *)
(*                                                                         *)
(* A payload is abstracted to the scheduled decisions it contains (fires)  *)
(* and to how many broker rows it was computed from (truth).               *)
(***************************************************************************)
EXTENDS Integers, FiniteSets, FiniteSetsExt

CONSTANTS
    Syms,        \* the subscribed symbols
    Refuses,     \* those whose late bars late_bar_refusal refuses
    Close,       \* bar ends of the session are 1 .. Close
    Prints,      \* the ends at which each symbol prints a bar today
    Fires,       \* the times of the day's scheduled events
    OpenGrace,   \* before it the open waits for every symbol
    MaxRows,     \* bound: batches of executions ingested in the day
    MaxFaults    \* bound: failed engine calls and replays, lost markers,
                 \* rolled back ingests and worker crashes, all together

ASSUME WarmAssumption ==
    /\ Refuses \subseteq Syms /\ Syms # {} /\ IsFiniteSet(Syms)
    /\ Close \in Nat \ {0, 1}
    /\ Fires \subseteq 1..Close
    /\ Prints \in [Syms -> SUBSET (1..Close)]
    /\ {OpenGrace, MaxRows, MaxFaults} \subseteq Nat

Ends     == 1..Close
Roll     == Close + 1
Morning  == Close + 2
Tomorrow == Close + 3
NoFire   == 0

VARIABLES
    clock,      \* wall clock
    stored,     \* bar store: the ends stored for each symbol (today's bars)
    fresh,      \* a bar event is on the stream, not delivered yet
    taken,      \* events delivered to this worker and not acknowledged
    zip,        \* today's bars as last exported to the sandbox
    zipFresh,   \* the last export is younger than EXPORT_DEDUPE_S
    owes,       \* _PENDING_EXPORT: an export deferred past the publish
    rows,       \* committed batches of broker executions
    pending,    \* a batch is ingested, its transaction not committed
    marker,     \* warm:stale:<dep> on the bus
    engine,     \* the driver's entry and the engine it names, or NoEngine
    row,        \* the deployment's payload in the store
    unsent,     \* the payload was committed after the last intent
    pc,         \* where the worker is in run_once
    due,        \* why run_once ticks
    target,     \* next_fire_ms as read at the top of run_once
    seen,       \* the ledger this tick was handed
    done,       \* forced ticks this worker process already gave
    fired,      \* _fired_ms
    faults

vars == <<clock, stored, fresh, taken, zip, zipFresh, owes, rows, pending,
          marker, engine, row, unsent, pc, due, target, seen, done, fired,
          faults>>

busVars    == <<fresh, taken>>
zipVars    == <<zip, zipFresh, owes>>
truthVars  == <<rows, pending>>
loopVars   == <<due, target, seen, done, fired>>

Causes == {"bar", "roll", "prewarm", "close", "fire"}
Bars   == [Syms -> SUBSET Ends]
NoBars == [s \in Syms |-> {}]

NoEngine == [alive |-> FALSE]
Engine ==
    [alive : {TRUE}, day : {1, 2}, open : BOOLEAN, completed : BOOLEAN,
     held : Bars, frontier : 0..Close, slice : [Ends -> SUBSET Syms],
     primed : 0..Roll, ran : [Fires -> 0..3], truth : 0..MaxRows,
     audit : {"none", "ok", "failed"}]
Payload == [fires : SUBSET Fires, truth : 0..MaxRows]

\* One type invariant for the module: every variable has the shape the
\* worker, the driver's registry and the store give it.
TypeOK ==
    /\ clock \in 0..Tomorrow
    /\ stored \in Bars /\ zip \in Bars
    /\ {fresh, taken, zipFresh, owes, pending, marker, unsent} \subseteq BOOLEAN
    /\ rows \in 0..MaxRows /\ seen \in 0..MaxRows
    /\ engine \in Engine \cup {NoEngine}
    /\ row \in Payload
    /\ pc \in {"down", "idle", "tick", "publish", "ack"}
    /\ due \subseteq Causes
    /\ target \in Fires \cup {NoFire} /\ fired \in Fires \cup {NoFire}
    /\ done \subseteq {"roll", "prewarm", "close"}
    /\ faults \in 0..MaxFaults

Init ==
    /\ clock = 0
    /\ stored = NoBars /\ zip = NoBars
    /\ fresh = FALSE /\ taken = FALSE /\ zipFresh = FALSE /\ owes = FALSE
    /\ rows = 0 /\ pending = FALSE /\ marker = FALSE
    /\ engine = NoEngine
    /\ row = [fires |-> {}, truth |-> 0]
    /\ unsent = FALSE
    /\ pc = "down" /\ due = {} /\ target = NoFire /\ seen = 0
    /\ done = {} /\ fired = NoFire
    /\ faults = 0

-----------------------------------------------------------------------------
(* The feed, the sweep that ingests executions, and time. *)

\* The feed stores a closed bar and then says so on the stream; bars of one
\* symbol, and of two symbols, may land in any order or not at all.
StoreBar(s, t) ==
    /\ t \in Prints[s] \ stored[s]
    /\ t <= clock /\ clock <= Roll
    /\ stored' = [stored EXCEPT ![s] = @ \cup {t}]
    /\ fresh' = TRUE
    /\ UNCHANGED <<clock, taken, zipVars, truthVars, marker, engine, row,
                   unsent, pc, loopVars, faults>>

\* Bar events of the next day; the symbol's lone first bar opens nothing.
MorningEvent ==
    /\ clock = Tomorrow /\ ~fresh
    /\ fresh' = TRUE
    /\ UNCHANGED <<clock, stored, taken, zipVars, truthVars, marker, engine,
                   row, unsent, pc, loopVars, faults>>

\* A sweep inserts new executions and signals the warm engine, both inside a
\* transaction it has not committed.  The signal never raises: it can be lost.
Ingest ==
    /\ clock <= Roll /\ ~pending /\ rows < MaxRows
    /\ pending' = TRUE
    /\ \/ marker' = TRUE /\ UNCHANGED faults
       \/ faults < MaxFaults /\ faults' = faults + 1 /\ UNCHANGED marker
    /\ UNCHANGED <<clock, stored, busVars, zipVars, rows, engine, row, unsent,
                   pc, loopVars>>

CommitRows ==
    /\ pending
    /\ pending' = FALSE /\ rows' = rows + 1
    /\ UNCHANGED <<clock, stored, busVars, zipVars, marker, engine, row,
                   unsent, pc, loopVars, faults>>

Rollback ==
    /\ pending /\ faults < MaxFaults
    /\ pending' = FALSE /\ faults' = faults + 1
    /\ UNCHANGED <<clock, stored, busVars, zipVars, rows, marker, engine, row,
                   unsent, pc, loopVars>>

\* EXPORT_DEDUPE_S pass: the next export writes again.
DedupeEnds ==
    /\ zipFresh /\ zipFresh' = FALSE
    /\ UNCHANGED <<clock, stored, busVars, zip, owes, truthVars, marker,
                   engine, row, unsent, pc, loopVars, faults>>

-----------------------------------------------------------------------------
(* The worker loop, up to the tick. *)

Today == IF clock >= Morning THEN 2 ELSE 1

\* The earliest fire ahead of both cursors, as the engine's last tick told
\* the driver; none when no session is open.
NextFire(e) ==
    LET ahead == IF e.alive /\ e.open
                 THEN {f \in Fires : f > Max({e.frontier, e.primed})}
                 ELSE {}
    IN  IF ahead = {} THEN NoFire ELSE Min(ahead)

\* What run_once owes a tick for: an event (the backlog of an earlier crash
\* comes first), the roll, the pre-open warm-up, the forced tick before the
\* close, the engine's next scheduled fire.
Owed ==
    {c \in Causes :
        \/ c = "bar"     /\ (fresh \/ taken)
        \/ c = "roll"    /\ clock = Roll      /\ "roll" \notin done
        \/ c = "prewarm" /\ clock = Morning   /\ "prewarm" \notin done
        \/ c = "close"   /\ clock = Close - 1 /\ "close" \notin done
        \/ c = "fire"    /\ NextFire(engine) # NoFire
                         /\ clock >= NextFire(engine)
                         /\ fired # NextFire(engine)}

\* Events are delivered, the row and the ledger of this tick are read.
Wake ==
    /\ pc = "idle" /\ Owed # {}
    /\ due' = Owed /\ target' = NextFire(engine)
    /\ taken' = (taken \/ fresh) /\ fresh' = FALSE
    /\ seen' = rows
    /\ pc' = "tick"
    /\ UNCHANGED <<clock, stored, zipVars, truthVars, marker, engine, row,
                   unsent, done, fired, faults>>

\* A supervised worker starts: a tick at spawn, before any event is read, and
\* nothing published for it.
Restart ==
    /\ pc = "down"
    /\ due' = {} /\ target' = NoFire /\ seen' = rows
    /\ done' = {} /\ fired' = NoFire
    /\ pc' = "tick"
    /\ UNCHANGED <<clock, stored, busVars, zipVars, truthVars, marker, engine,
                   row, unsent, faults>>

\* The process dies anywhere in its cycle.  The registry and what it owed
\* die with it; the row, the zip and the stream's unacknowledged events stay.
Crash ==
    /\ pc # "down" /\ faults < MaxFaults
    /\ faults' = faults + 1
    /\ pc' = "down"
    /\ engine' = NoEngine /\ owes' = FALSE /\ zipFresh' = FALSE
    /\ due' = {} /\ target' = NoFire /\ seen' = 0 /\ done' = {} /\ fired' = NoFire
    /\ UNCHANGED <<clock, stored, busVars, zip, truthVars, marker, row,
                   unsent>>

PublishRollSilent ==    \* mutant: the roll, too, is taken to move no money
    /\ pc = "publish"
    /\ done' = done \cup (due \cap {"roll", "prewarm", "close"})
    /\ fired' = IF "roll" \in due THEN NoFire
                ELSE IF "fire" \in due THEN target ELSE fired
    /\ unsent' = (unsent /\ due \subseteq {"prewarm", "roll"})
    /\ pc' = IF due = {} THEN "idle" ELSE "ack"
    /\ UNCHANGED <<clock, stored, busVars, zipVars, truthVars, marker, engine,
                   row, due, target, seen, faults>>

\* The tick is done: forced causes are recorded, and unless this was a mere
\* pre-warm (or the tick at spawn) the executor is told the deployment acted.
Publish ==
    /\ pc = "publish"
    /\ done' = done \cup (due \cap {"roll", "prewarm", "close"})
    /\ fired' = IF "roll" \in due THEN NoFire
                ELSE IF "fire" \in due THEN target ELSE fired
    /\ unsent' = (unsent /\ due \subseteq {"prewarm"})
    /\ pc' = IF due = {} THEN "idle" ELSE "ack"
    /\ UNCHANGED <<clock, stored, busVars, zipVars, truthVars, marker, engine,
                   row, due, target, seen, faults>>

\* The deferred export is written (forced), then the events are acknowledged.
Ack ==
    /\ pc = "ack"
    /\ IF owes THEN zip' = stored /\ zipFresh' = TRUE /\ owes' = FALSE
               ELSE UNCHANGED zipVars
    /\ taken' = FALSE
    /\ pc' = "idle" /\ due' = {} /\ target' = NoFire /\ seen' = 0
    /\ UNCHANGED <<clock, stored, fresh, truthVars, marker, engine, row,
                   unsent, done, fired, faults>>

-----------------------------------------------------------------------------
(* Replay: the fallback, and what the audit compares with. *)

\* A replay decides every scheduled event that a bar of its data reaches.
ReplayFires(z) == {f \in Fires : \E s \in Syms : \E t \in z[s] : f <= t}

Replay(z, version) == [fires |-> ReplayFires(z), truth |-> version]

ExportedOnce(z, isFresh) ==    \* mutant: one export a day is taken to do
    IF isFresh \/ z # NoBars THEN z ELSE stored

\* What a replay reads: the export runs first, unless deduped.
Exported(z, isFresh) == IF isFresh THEN z ELSE stored

Commit(payload) == row' = payload /\ unsent' = TRUE

\* The replay serves this tick, after n failures within it.  It commits its
\* payload, or it fails (an error, the sandbox away) and leaves the row alone.
ServeReplay(z, isFresh, n) ==
    /\ zip' = Exported(z, isFresh) /\ zipFresh' = TRUE
    /\ \/ Commit(Replay(zip', seen)) /\ faults' = faults + n
       \/ /\ faults + n < MaxFaults /\ faults' = faults + n + 1
          /\ UNCHANGED <<row, unsent>>

-----------------------------------------------------------------------------
(* The engine: advance, prime and roll, in one round trip. *)

\* A build warms through yesterday and holds nothing of today.
Built(z) ==
    [alive |-> TRUE, day |-> Today, open |-> FALSE, completed |-> FALSE,
     held |-> NoBars, frontier |-> 0, slice |-> [t \in Ends |-> {}],
     primed |-> 0,
     ran |-> [f \in Fires |-> IF Today = 2 /\ f \in ReplayFires(z) THEN 1 ELSE 0],
     truth |-> seen, audit |-> "none"]

\* A symbol counts from its second bar on (the span needs two).
Pushed(known) ==
    [s \in Syms |-> IF Cardinality(known[s]) >= 2 THEN known[s] ELSE {}]

RefusedUnordered(e, push) ==    \* mutant: late bars are always absorbed
    /\ e.open
    /\ \E s \in Syms : e.held[s] # {} /\
                       \E t \in push[s] \ e.held[s] : t < Max(e.held[s])

\* A push the engine dies of: rows behind the last one held for the symbol,
\* or a late bar, or a late joiner, of a symbol that cannot absorb one.
Refused(e, push) ==
    /\ e.open
    /\ \E s \in Syms :
        \/ e.held[s] # {} /\ \E t \in push[s] \ e.held[s] : t < Max(e.held[s])
        \/ /\ s \in Refuses
           /\ \/ e.held[s] = {} /\ push[s] # {}
              \/ \E t \in push[s] \ e.held[s] : t <= e.frontier

\* The session opens on every symbol, or after the grace on those that came.
Opens(push) ==
    /\ \E s \in Syms : push[s] # {}
    /\ clock >= OpenGrace \/ \A s \in Syms : push[s] # {}

\* Bars ahead of the frontier are stepped end by end, one slice per end, and
\* run the events they pass that no prime ran; bars behind it are absorbed.
Advance(e, push) ==
    IF ~(e.open \/ Opens(push)) THEN e ELSE
    LET new   == [s \in Syms |-> push[s] \ e.held[s]]
        front == Max({e.frontier} \cup UNION {new[s] : s \in Syms})
    IN  [e EXCEPT
            !.open = TRUE, !.held = push, !.frontier = front,
            !.slice = [t \in Ends |-> @[t] \cup
                         {s \in Syms : t \in new[s] /\ t > e.frontier}],
            !.ran = [f \in Fires |->
                       IF e.frontier < f /\ f <= front /\ f > e.primed
                       THEN @[f] + 1 ELSE @[f]]]

PrimeAhead(e) ==    \* mutant: the cursor is moved past the clock
    LET passed == Max({e.frontier, e.primed})
        now    == {f \in Fires : passed < f /\ f <= clock}
    IN  IF ~e.open \/ now = {} THEN e
        ELSE [e EXCEPT !.ran = [f \in Fires |-> IF f \in now THEN @[f] + 1 ELSE @[f]],
                       !.primed = Max({e.primed, clock + 1})]

\* The events the clock has reached and no bar has run, on live prices.
Prime(e) ==
    LET passed == Max({e.frontier, e.primed})
        now    == {f \in Fires : passed < f /\ f <= clock}
    IN  IF ~e.open \/ now = {} THEN e
        ELSE [e EXCEPT !.ran = [f \in Fires |-> IF f \in now THEN @[f] + 1 ELSE @[f]],
                       !.primed = Max({e.primed, clock})]

\* From close + 60 s on the day is over, whether its session opened or not.
EndSession(e) ==
    IF clock # Roll THEN e ELSE [e EXCEPT !.open = FALSE, !.completed = TRUE]

EngineTick(e, push) == EndSession(Prime(Advance(e, push)))

Snapshot(e) == [fires |-> {f \in Fires : e.ran[f] > 0}, truth |-> e.truth]

BackwardsNever(e) == FALSE    \* mutant: the snapshot of an unopened day passes

\* An unopened engine would publish yesterday over today's decisions.
Backwards(e) == ~e.open /\ ~e.completed /\ e.day = 1 /\ row.fires # {}

-----------------------------------------------------------------------------
(* The tick. *)

Completed == engine.alive /\ engine.completed /\ engine.day = Today

Standing == engine.alive /\ engine.day = Today

\* What a tick starts from: the standing engine, or a new one, built after an
\* export that (unless deduped) also collects today's rows for the push.
Base == IF Standing THEN engine ELSE Built(Exported(zip, zipFresh))
Push == IF Today = 2 \/ (~Standing /\ zipFresh) THEN NoBars ELSE Pushed(stored)
BuildZip   == IF Standing THEN zip ELSE Exported(zip, zipFresh)
BuildFresh == zipFresh \/ ~Standing

\* The nightly audit: a replay on the uncapped ledger decides.  A mismatch
\* discards the engine and serves the replay; an absent sandbox leaves the
\* row and the audit for a later tick; an error is a failed audit.
Audit(e, z, isFresh) ==
    LET replay == Replay(Exported(z, isFresh), rows) IN
    /\ zip' = Exported(z, isFresh) /\ zipFresh' = TRUE
    /\ \/ /\ Snapshot(e) = replay
          /\ engine' = [e EXCEPT !.audit = "ok"]
          /\ Commit(Snapshot(e)) /\ UNCHANGED faults
       \/ /\ Snapshot(e) # replay
          /\ engine' = NoEngine
          /\ Commit(replay) /\ UNCHANGED faults
       \/ /\ faults < MaxFaults /\ faults' = faults + 1
          /\ \/ engine' = e /\ UNCHANGED <<row, unsent>>
             \/ engine' = [e EXCEPT !.audit = "failed"] /\ Commit(Snapshot(e))

TickFrame == UNCHANGED <<clock, stored, busVars, truthVars, loopVars>>

\* Broker truth arrived: the engine is dropped and this tick is a replay.
MarkerReplay ==
    /\ pc = "tick" /\ marker
    /\ marker' = FALSE /\ engine' = NoEngine
    /\ ServeReplay(zip, zipFresh, 0)
    /\ pc' = "publish"
    /\ TickFrame /\ UNCHANGED owes

\* The day is settled: its payload again, or the audit it still owes.
PostRoll ==
    /\ pc = "tick" /\ ~marker /\ Completed
    /\ \/ /\ engine.audit # "none"
          /\ Commit(Snapshot(engine))
          /\ UNCHANGED <<zip, zipFresh, engine, faults>>
       \/ engine.audit = "none" /\ Audit(engine, zip, zipFresh)
    /\ pc' = "publish"
    /\ TickFrame /\ UNCHANGED <<owes, marker>>

\* The engine is stepped and answers; at the roll its answer is audited.
LiveTick ==
    LET e == EngineTick(Base, Push) IN
    /\ pc = "tick" /\ ~marker /\ ~Completed
    /\ ~Refused(Base, Push) /\ ~Backwards(e)
    /\ IF e.completed
       THEN Audit(e, BuildZip, BuildFresh)
       ELSE /\ engine' = e /\ Commit(Snapshot(e))
            /\ zip' = BuildZip /\ zipFresh' = BuildFresh /\ UNCHANGED faults
    /\ owes' = (owes \/ Standing)
    /\ pc' = "publish"
    /\ TickFrame /\ UNCHANGED marker

\* It answers with yesterday: dropped, replayed on the bars already exported.
Declined ==
    /\ pc = "tick" /\ ~marker /\ ~Completed
    /\ ~Refused(Base, Push) /\ Backwards(EngineTick(Base, Push))
    /\ engine' = NoEngine
    /\ ServeReplay(BuildZip, BuildFresh, 0)
    /\ pc' = "publish"
    /\ TickFrame /\ UNCHANGED <<owes, marker>>

\* It refuses the push, or the call fails: dropped.  A standing engine's zip
\* is behind, so it is exported (forced) before the replay reads it.
EngineFails ==
    /\ pc = "tick" /\ ~marker /\ ~Completed
    /\ engine' = NoEngine
    /\ \E n \in {0, 1} :
        /\ IF n = 0 THEN Refused(Base, Push) ELSE faults < MaxFaults
        /\ IF Standing THEN ServeReplay(stored, TRUE, n) /\ owes' = FALSE
                       ELSE ServeReplay(zip, zipFresh, n) /\ UNCHANGED owes
    /\ pc' = "publish"
    /\ TickFrame /\ UNCHANGED marker

Tick == MarkerReplay \/ PostRoll \/ LiveTick \/ Declined \/ EngineFails

-----------------------------------------------------------------------------

\* Nothing is left for the worker to do and no sweep is in a transaction.
Quiet == pc = "idle" /\ Owed = {} /\ ~pending

\* A minute passes.  The night comes only after the worker is done with the
\* day and outlasts a marker's hour; a new day is a new key for the export.
ClockTick ==
    /\ clock < Tomorrow
    /\ clock >= Roll => Quiet
    /\ clock' = clock + 1
    /\ IF clock = Roll
       THEN marker' = FALSE /\ done' = {} /\ zipFresh' = FALSE
       ELSE UNCHANGED <<marker, done, zipFresh>>
    /\ UNCHANGED <<stored, busVars, zip, owes, truthVars, engine, row, unsent,
                   pc, due, target, seen, fired, faults>>

Worker == Restart \/ Wake \/ Tick \/ Publish \/ Ack

Next ==
    \/ \E s \in Syms, t \in Ends : StoreBar(s, t)
    \/ MorningEvent \/ Ingest \/ CommitRows \/ Rollback \/ DedupeEnds
    \/ Worker \/ Crash \/ ClockTick

Fairness ==
    /\ WF_vars(Worker)
    /\ WF_vars(ClockTick) /\ WF_vars(CommitRows) /\ WF_vars(MorningEvent)

Spec == Init /\ [][Next]_vars /\ Fairness

-----------------------------------------------------------------------------
(* Properties. *)

\* Between the bars' path and the wall clock's, a scheduled event of the open
\* day runs exactly once when either cursor has passed it and never before
\* (_step_bar's window against prime's floor).
FiresOnce ==
    engine.alive /\ engine.day = 1 =>
        \A f \in Fires :
            engine.ran[f] = IF f <= Max({engine.frontier, engine.primed})
                            THEN 1 ELSE 0

\* A symbol with per-bar code or a resting order got every bar the engine
\* holds in the slice of that bar's end, as the batch walk delivers it
\* (late_bar_refusal's reason to exist).
SlicesMatch ==
    engine.alive =>
        \A s \in Refuses, t \in Ends :
            t \in engine.held[s] <=> s \in engine.slice[t]

\* A live engine decides what a replay of the bars it holds would decide: each
\* event once, on every bar its code was to see.
LiveMatchesReplay == FiresOnce /\ SlicesMatch

\* The payload never returns to less broker truth than it once had
\* (the marker drops the engine built before it).
TruthStays == [][row'.truth >= row.truth]_vars

\* A decision that the exported bars reproduce is not taken back by a later
\* payload (warm_tick_python refuses to publish yesterday over today).  The
\* payload of a day whose audit failed is excepted: the roll completes a day
\* that never opened, and a failed audit lets its snapshot, yesterday's, stand.
PayloadStays ==
    [][\/ row.fires \cap ReplayFires(zip) \subseteq row'.fires
       \/ engine'.alive /\ engine'.audit = "failed"]_vars

\* Neither broker truth nor a decision that stands is taken back.
NeverBackwards == TruthStays /\ PayloadStays

\* A tick re-derives the payload from the bar store (live/bus.py): a decision
\* that the stored bars reproduce is not taken back by a later payload.
Rederives == [][row.fires \cap ReplayFires(stored) \subseteq row'.fires]_vars

\* No payload goes into the night without the executor being told.
SettledOvernight == [][clock = Roll /\ clock' = Morning => ~unsent]_vars

\* Broker rows reach the payload in the end, lost markers included.
TruthFolded == \A n \in 1..MaxRows : rows >= n ~> row.truth >= n

\* The payload settles on what a replay of every stored bar decides.
Converges == <>[](row.fires = ReplayFires(stored))

\* Both: the night leaves nothing behind.
Settles == TruthFolded /\ Converges
=============================================================================
