---------------------------- MODULE DirectSubmit ----------------------------
(***************************************************************************)
(* The direct-submit order path of one broker connection: the live book    *)
(* (dqengine/live/book.py), the fast pass that trades from it and the      *)
(* audit sweep that rebuilds it (sync_broker_account and section 2 of      *)
(* reconcile in dqengine/live/executor.py), composed with the write-ahead  *)
(* journal of OrderJournal, whose operators on rows are used as they are.  *)
(*                                                                         *)
(* One symbol, long only, traded by market deltas.  A client id is the     *)
(* pair of an intent <<side, quantity>> and an epoch.  Threads of one      *)
(* process share the book and the gather cache; the database, the venue    *)
(* and the deployment's payload are shared by all.  Clock windows          *)
(* (RECENT_S, GATHER_TTL_S, RECONCILE_FRESH_S) may end at any moment.      *)
(***************************************************************************)
EXTENDS Integers, FiniteSets, FiniteSetsExt

CONSTANTS
  Wants,        \* the share counts the strategy may ask for
  Sweeps,       \* threads that run passes over the connection
  FastLanes,    \* those of them that handle intents with a fast pass first
  MaxQty,       \* bound: the largest order
  MaxEpoch,     \* bound: the last epoch of any regime
  MaxSignals,   \* bound: the most any regime lets the strategy change its mind
  Regimes,      \* what a run may meet, see Regime
  SlowLock,     \* a fast pass may wait at the lock longer than RECENT_S
  AckMayFill    \* an ack may already report the order filled

ASSUME WantsAssumption == IsFiniteSet(Wants) /\ Wants \subseteq Nat /\ 0 \in Wants
ASSUME LimitsAssumption == {MaxQty, MaxEpoch, MaxSignals} \subseteq Nat
ASSUME LanesAssumption == FastLanes \subseteq Sweeps
ASSUME WindowsAssumption == {SlowLock, AckMayFill} \subseteq BOOLEAN

(* The threads that run; whether in the minutes around the close; whether  *)
(* the venue leaves a poll or a fetch unanswered; the last epoch an order  *)
(* is computed at; how often the strategy changes its mind; how many       *)
(* orders the venue refuses or does not answer; how often the book is lost *)
(* with its process or goes stale.                                         *)
Regime == [threads: SUBSET Sweeps, close: BOOLEAN, silent: BOOLEAN, epoch: 0 .. MaxEpoch,
           signals: 0 .. MaxSignals, faults: Nat, restarts: Nat]
ASSUME RegimesAssumption == Regimes \subseteq Regime /\ Regimes # {}

VARIABLES
  regime,   \* what this run may meet
  want,     \* the payload's desired position
  sleeve,   \* quantity of each order's fills the payload has folded
  rows,     \* the order journal
  stored,   \* quantity of each order's fills in the executions table
  venue,    \* what the venue did with each order
  book,     \* the live book
  cache,    \* _GATHER_CACHE: gates and fill sums a fast pass may reuse
  pass,     \* the passes in progress
  holder,   \* which thread holds the connection lock
  signals, faults, restarts

vars == <<regime, want, sleeve, rows, stored, venue, book, cache, pass, holder,
          signals, faults, restarts>>

Intents == {"buy", "sell"} \X (1 .. MaxQty)
SideOf == [i \in Intents |-> i[1]]
QtyOf == [i \in Intents |-> i[2]]
Cid == Intents \X (0 .. MaxEpoch)

J == INSTANCE OrderJournal WITH
       Resting <- {}, Passes <- Sweeps, MaxFresh <- 0,
       MaxCrashes <- 0, MaxLapses <- 0, Locked <- TRUE,
       FillsCarryCid <- TRUE, CancelSwallowed <- FALSE,
       wired <- [c \in Cid |-> 0], crashes <- restarts, lapses <- 0

Side(c) == c[1][1]
Qty(c) == c[1][2]
NoQty == [c \in Cid |-> 0]
Signed(c, n) == IF Side(c) = "buy" THEN n ELSE 0 - n
Net(qty) ==
  MapThenSumSet(LAMBDA c : Signed(c, qty[c]), {c \in Cid : qty[c] # 0})

(* The account at the venue.  A position is written as the quantity of     *)
(* each order's fills that is in it; the number of shares is its Net.      *)
Held == [c \in Cid |-> venue[c].done]
Working == {c \in Cid : venue[c].at = "working"}
(* open_orders: every adapter lists the quantity ordered.                  *)
Listed(cs) == [c \in Cid |-> IF c \in cs THEN Qty(c) ELSE 0]

(* based is history, which the code does not keep: the positions have been *)
(* read whole since the process started.                                   *)
Book == [pos: [Cid -> Nat], orders: [Cid -> Nat], recent: BOOLEAN, clean: BOOLEAN,
         based: BOOLEAN]
EmptyBook == [pos |-> NoQty, orders |-> NoQty, recent |-> FALSE, clean |-> FALSE,
              based |-> FALSE]
NoCache == [at |-> "none"]

IdlePass ==
  [pc |-> "idle", fast |-> FALSE, owner |-> FALSE, late |-> FALSE, want |-> 0,
   model |-> NoQty, gates |-> J!NoGates, exe |-> 0, pos |-> NoQty, listed |-> {},
   drift |-> FALSE, cid |-> <<>>, pollOk |-> FALSE]

Init ==
  /\ regime \in Regimes
  /\ want = 0
  /\ sleeve = NoQty /\ stored = NoQty
  /\ rows = [c \in Cid |-> J!NoRow]
  /\ venue = [c \in Cid |-> [at |-> "unsent", done |-> 0]]
  /\ book = [EmptyBook EXCEPT !.based = TRUE]   \* the account is flat
  /\ cache = NoCache
  /\ pass = [p \in Sweeps |-> IdlePass]
  /\ holder = {}
  /\ signals = 0 /\ faults = 0 /\ restarts = 0

At(p, step) == pass[p].pc = step
Becomes(p, r) == pass' = [pass EXCEPT ![p] = r]
Goto(p, step) == Becomes(p, [pass[p] EXCEPT !.pc = step])
End(p) == Becomes(p, IdlePass) /\ holder' = holder \ {p}
Fault == faults < regime.faults /\ faults' = faults + 1
(* A fast pass that did not submit: handle_intent runs the full sweep.     *)
GiveUp(p) ==
  /\ Becomes(p, IF pass[p].fast THEN [IdlePass EXCEPT !.pc = "fallback"] ELSE IdlePass)
  /\ holder' = holder \ {p}

-----------------------------------------------------------------------------
(* The live book. *)

NoteAck(c, status) ==
  IF status \in {"canceled", "rejected"} THEN book
  ELSE [book EXCEPT !.orders[c] = Qty(c)]

(* note_fills: the new fills move the position and shorten the entries of  *)
(* their orders.                                                           *)
NoteFillsNegative ==               \* mutant: a spent entry is not deleted
  LET new == [c \in Cid |-> venue[c].done - stored[c]]
  IN [book EXCEPT !.pos = [c \in Cid |-> @[c] + new[c]],
                  !.orders = [c \in Cid |-> @[c] - new[c]]]
NoteFills ==
  LET new == [c \in Cid |-> venue[c].done - stored[c]]
  IN [book EXCEPT
        !.pos = [c \in Cid |-> @[c] + new[c]],
        !.orders = [c \in Cid |-> IF @[c] > new[c] THEN @[c] - new[c] ELSE 0]]

(* apply_audit: the fetch replaces the book, except that a symbol with an  *)
(* order of our own in the settle window keeps the book's position and the *)
(* book's entries the fetch does not list.                                 *)
AuditedWholesale(pos, listed) ==   \* mutant: no settle window
  [book EXCEPT !.pos = pos, !.orders = Listed(listed), !.clean = TRUE]
Audited(pos, listed) ==
  [book EXCEPT
     !.pos = IF book.recent THEN @ ELSE pos,
     !.orders = [c \in Cid |-> IF c \notin listed /\ book.recent THEN @[c]
                               ELSE Listed(listed)[c]],
     !.clean = TRUE,
     !.based = @ \/ ~book.recent]

-----------------------------------------------------------------------------
(* The gather block, before the lock.  A fast pass is refused outright by  *)
(* a book that is frozen or stale, and within GATHER_TTL_S it reuses the   *)
(* gates and the fill sums of the gather before it.  Inside the close      *)
(* window (late) an audit puts the executions poll off until its orders    *)
(* are out and keeps what it gathered; otherwise it reads again after it.  *)
(* owner_fast, decided here too: with a clean book the fast path owns      *)
(* transmission and the audit only watches.                                *)
Gather(p, fast) ==
  /\ \/ At(p, "idle") /\ fast = (p \in FastLanes /\ book.clean)
     \/ At(p, "fallback") /\ ~fast
  /\ \E hit \in {FALSE, fast /\ cache # NoCache} :
     LET read == [at |-> "held", gates |-> J!GatesOf(rows, sleeve),
                  exe |-> Net(stored)]
         got == IF hit THEN cache ELSE read
         inputs == [IdlePass EXCEPT !.pc = "waiting", !.owner = ~fast /\ book.clean,
                      !.fast = fast, !.want = want, !.model = sleeve]
     IN /\ rows' = IF hit THEN rows ELSE J!Lifted(rows, sleeve)
        /\ cache' = got
        /\ \/ /\ fast \/ regime.close
              /\ Becomes(p, [inputs EXCEPT !.late = ~fast, !.gates = got.gates,
                                           !.exe = got.exe])
           \/ /\ ~fast
              /\ Becomes(p, inputs)
  /\ UNCHANGED <<want, sleeve, stored, venue, book, holder, signals, faults, restarts>>

-----------------------------------------------------------------------------
(* Section 2 of reconcile for the symbol.                                  *)

Magnitude(n) == IF n < 0 THEN 0 - n ELSE n

FrozenBlind(gates, orders) ==      \* mutant: no visibility rule
  gates.unresolved \/ gates.unfolded
Frozen(gates, orders) ==
  \/ gates.unresolved
  \/ gates.unfolded
  \/ \E c \in gates.open : orders[c] = 0

(* _fold_explains: folding the fills the sleeve lacks would shrink the     *)
(* delta.                                                                  *)
FoldExplains(delta, diff) == Magnitude(delta + diff) < Magnitude(delta)

(* The signed quantity a pass would trade on the positions and orders it   *)
(* is shown; 0 for none.                                                   *)
Delta(p, pos, orders) ==
  LET delta == pass[p].want - Net(pos) - Net(orders)
  IN IF \/ Frozen(pass[p].gates, orders)
        \/ FoldExplains(delta, pass[p].exe - Net(pass[p].model))
     THEN 0 ELSE delta

(* The decision is made: what the pass gathered is not read again.  A      *)
(* delta is sent by _launch_market_batch under its deterministic client id.*)
Decided(r) ==
  [r EXCEPT !.pc = "applying", !.want = 0, !.model = NoQty, !.gates = J!NoGates,
            !.exe = 0]
Bounded(p, delta) == pass[p].gates.epoch <= regime.epoch /\ Magnitude(delta) <= MaxQty
Sending(r, delta) ==
  [Decided(r) EXCEPT !.pc = "sending",
            !.cid = <<<<IF delta > 0 THEN "buy" ELSE "sell", Magnitude(delta)>>,
                      r.gates.epoch>>]

-----------------------------------------------------------------------------
(* The lock.  A fast pass looks at the book again under it: the audit it   *)
(* waited for may have frozen it.  It then trades on what the book says.   *)
AcquireFast(p) ==
  /\ At(p, "waiting") /\ pass[p].fast
  /\ holder = {}
  /\ LET delta == Delta(p, book.pos, book.orders)
     IN IF ~book.clean THEN GiveUp(p)
        ELSE IF delta = 0 THEN End(p)
        ELSE /\ Bounded(p, delta)
             /\ Becomes(p, Sending(pass[p], delta))
             /\ holder' = {p}
  /\ UNCHANGED <<want, sleeve, rows, stored, venue, book, cache, signals, faults, restarts>>

AcquireAudit(p) ==
  /\ At(p, "waiting") /\ ~pass[p].fast
  /\ holder = {}
  /\ holder' = {p}
  /\ Goto(p, IF pass[p].late THEN "positions" ELSE "polling")
  /\ UNCHANGED <<want, sleeve, rows, stored, venue, book, cache, signals, faults, restarts>>

(* The executions poll ahead of reconcile, and the gates and sums read     *)
(* again after it, into the gather cache too.                              *)
Regate(p, rs, fills, answered) ==
  LET gates == J!GatesOf(rs, pass[p].model)
  IN /\ rows' = J!Lifted(rs, pass[p].model)
     /\ cache' = IF cache = NoCache THEN cache
                 ELSE [cache EXCEPT !.gates = gates, !.exe = Net(fills)]
     /\ Becomes(p, [pass[p] EXCEPT !.pc = "positions", !.pollOk = answered,
                                   !.gates = gates, !.exe = Net(fills)])

PollAnswered(p) ==
  /\ At(p, "polling")
  /\ J!StoreAll
  /\ Regate(p, J!Polled, stored', TRUE)
  /\ book' = NoteFills
  /\ UNCHANGED <<want, sleeve, venue, holder, signals, faults, restarts>>

PollUnanswered(p) ==
  /\ regime.silent
  /\ At(p, "polling")
  /\ Regate(p, rows, stored, FALSE)
  /\ UNCHANGED <<want, sleeve, stored, venue, book, holder, signals, faults, restarts>>

(* The account is read in two calls: the positions, then the open orders.  *)
FetchPositions(p) ==
  /\ At(p, "positions")
  /\ Becomes(p, [pass[p] EXCEPT !.pc = "orders", !.pos = Held])
  /\ UNCHANGED <<want, sleeve, rows, stored, venue, book, cache, holder,
                 signals, faults, restarts>>

(* The open orders are in: the audit decides.  Where the fast path owns    *)
(* transmission a would-be order is not sent; outside the settle window it *)
(* is drift.                                                               *)
FetchOrders(p) ==
  /\ At(p, "orders")
  /\ LET got == [pass[p] EXCEPT !.listed = Working]
         delta == Delta(p, pass[p].pos, Listed(Working))
     IN IF delta = 0 \/ pass[p].owner
        THEN Becomes(p, [Decided(got) EXCEPT !.drift = delta # 0 /\ ~book.recent])
        ELSE /\ Bounded(p, delta)
             /\ Becomes(p, Sending(got, delta))
  /\ UNCHANGED <<want, sleeve, rows, stored, venue, book, cache, holder,
                 signals, faults, restarts>>

FetchUnanswered(p) ==
  /\ regime.silent
  /\ At(p, "positions") \/ At(p, "orders")
  /\ End(p)
  /\ UNCHANGED <<want, sleeve, rows, stored, venue, book, cache, signals, faults, restarts>>

(* The submission is over: an audit goes on, a fast pass is done.          *)
Sent(p) == IF pass[p].fast THEN End(p) ELSE Goto(p, "applying") /\ UNCHANGED holder

(* _journal_before, note_submit and the wire call.  The journal's verdict  *)
(* on the client id comes first.  The venue takes the order, refuses it,   *)
(* or does not answer: the pass then fails, and whether the order reached  *)
(* the venue nobody knows (an order that arrives after its call has timed  *)
(* out is left to OrderJournal).                                           *)
Submit(p) ==
  /\ At(p, "sending")
  /\ LET c == pass[p].cid
         sending == [rows EXCEPT ![c] = [J!NoRow EXCEPT !.state = "sending"]]
     IN \/ /\ ~J!MayInsert(c)
           /\ Sent(p)
           /\ UNCHANGED <<rows, venue, book, faults>>
        \/ /\ J!MayInsert(c)
           /\ rows' = sending
           /\ venue' = [venue EXCEPT ![c].at = "working"]
           /\ book' = [book EXCEPT !.recent = TRUE]
           /\ Goto(p, "acking")
           /\ UNCHANGED <<holder, faults>>
        \/ /\ J!MayInsert(c) /\ Fault
           /\ book' = [book EXCEPT !.recent = TRUE]
           /\ \/ /\ rows' = [sending EXCEPT ![c] = [@ EXCEPT !.state = "rejected", !.note = "text"]]
                 /\ UNCHANGED venue
                 /\ Sent(p)
              \/ /\ rows' = sending
                 /\ \E at \in {"working", "unsent"} :
                      venue' = [venue EXCEPT ![c].at = at]
                 /\ GiveUp(p)
  /\ UNCHANGED <<want, sleeve, stored, cache, signals, restarts>>

(* note_ack, then mark_submitted.  Only a `sending` row has an age that    *)
(* anything reads, so the age is dropped here; the broker's own id, which  *)
(* an ack may lack, is read by nothing where the fills carry the client id.*)
Ack(p) ==
  /\ At(p, "acking")
  /\ LET c == pass[p].cid
     IN \E st \in J!AckStates(c) :
          /\ rows' = [rows EXCEPT ![c] = [@ EXCEPT !.state = st, !.boid = TRUE,
                                                    !.age = "fresh"]]
          /\ book' = NoteAck(c, st)
  /\ Sent(p)
  /\ UNCHANGED <<want, sleeve, stored, venue, cache, signals, faults, restarts>>

(* The tail of an audit: the fetch goes into the book, drift freezes it,   *)
(* and resolve_stale settles the `sending` rows.  Inside the close window  *)
(* the poll comes in between, after the book was rebuilt.                  *)
Apply(p) ==
  /\ At(p, "applying")
  /\ book' = [Audited(pass[p].pos, pass[p].listed) EXCEPT !.clean = ~pass[p].drift]
  /\ IF pass[p].late
     THEN Goto(p, "latepoll") /\ UNCHANGED <<rows, holder>>
     ELSE rows' = [c \in Cid |-> J!Resolved(p, c)] /\ End(p)
  /\ UNCHANGED <<want, sleeve, stored, venue, cache, signals, faults, restarts>>

LatePoll(p) ==
  /\ At(p, "latepoll")
  /\ J!StoreAll
  /\ rows' = J!Polled
  /\ book' = NoteFills
  /\ Becomes(p, [pass[p] EXCEPT !.pc = "resolving", !.pollOk = TRUE])
  /\ UNCHANGED <<want, sleeve, venue, cache, holder, signals, faults, restarts>>

ResolveStale(p) ==
  /\ At(p, "resolving")
  /\ rows' = [c \in Cid |-> J!Resolved(p, c)]
  /\ End(p)
  /\ UNCHANGED <<want, sleeve, stored, venue, book, cache, signals, faults, restarts>>

-----------------------------------------------------------------------------
(* The clock.  The settle window closes, the book is too long without an   *)
(* audit or an order too long without an ack, and a `sending` row ages     *)
(* (see Age in OrderJournal).  GATHER_TTL_S is shorter than RECENT_S: when *)
(* an order's settle window closes, a cache from before that order has     *)
(* expired, the pass that sent it is over and, but for SlowLock, so is a   *)
(* fast pass that had gathered before it.  A market order the venue took   *)
(* has traded within ABANDON_S.                                            *)
Outdated(gates) == gates.epoch # J!Epoch(rows)

SettleEnds ==
  /\ book.recent
  /\ \A p \in holder : pass[p].cid = <<>>
  /\ SlowLock \/ \A p \in Sweeps : pass[p].fast => ~Outdated(pass[p].gates)
  /\ book' = [book EXCEPT !.recent = FALSE]
  /\ cache' = IF cache # NoCache /\ Outdated(cache.gates) THEN NoCache ELSE cache
  /\ UNCHANGED <<want, sleeve, rows, stored, venue, pass, holder,
                 signals, faults, restarts>>

BookStale ==
  /\ book.clean
  /\ restarts < regime.restarts
  /\ restarts' = restarts + 1
  /\ book' = [book EXCEPT !.clean = FALSE]
  /\ UNCHANGED <<want, sleeve, rows, stored, venue, cache, pass, holder,
                 signals, faults>>

Age(c) ==
  /\ rows[c].state = "sending"
  /\ \/ /\ rows[c].age = "fresh"
        /\ rows' = [rows EXCEPT ![c].age = "suspect"]
     \/ /\ rows[c].age = "suspect" /\ holder = {} /\ venue[c].at # "working"
        /\ rows' = [rows EXCEPT ![c].age = "old"]
  /\ UNCHANGED <<want, sleeve, stored, venue, book, cache, pass, holder,
                 signals, faults, restarts>>

(* The deployment's tick folds the stored fills into the payload; the      *)
(* strategy may change its mind.                                           *)
Tick ==
  /\ sleeve' = stored
  /\ \/ UNCHANGED <<want, signals>>
     \/ /\ signals < regime.signals
        /\ signals' = signals + 1
        /\ want' \in Wants \ {want}
  /\ UNCHANGED <<rows, stored, venue, book, cache, pass, holder, faults, restarts>>

(* The process that holds the book restarts: nothing of it was persisted.  *)
Restart ==
  /\ restarts < regime.restarts
  /\ restarts' = restarts + 1
  /\ book' = EmptyBook
  /\ cache' = NoCache
  /\ pass' = [p \in Sweeps |-> IdlePass]
  /\ holder' = {}
  /\ UNCHANGED <<want, sleeve, rows, stored, venue, signals, faults>>

(* The venue. *)
Fill(c) ==
  /\ venue[c].at = "working"
  /\ venue' = [venue EXCEPT ![c] = [at |-> "filled", done |-> Qty(c)]]
  /\ UNCHANGED <<want, sleeve, rows, stored, book, cache, pass, holder,
                 signals, faults, restarts>>

SweepStep(p) ==
  \/ \E fast \in BOOLEAN : Gather(p, fast)
  \/ AcquireFast(p) \/ AcquireAudit(p) \/ PollAnswered(p) \/ PollUnanswered(p)
  \/ FetchPositions(p) \/ FetchOrders(p) \/ FetchUnanswered(p)
  \/ Submit(p) \/ Ack(p) \/ Apply(p) \/ LatePoll(p) \/ ResolveStale(p)

Next ==
  \/ \E p \in regime.threads : SweepStep(p)
  \/ \E c \in Cid : Fill(c) \/ Age(c)
  \/ SettleEnds \/ BookStale \/ Tick \/ Restart

Spec == Init /\ [][Next /\ UNCHANGED regime]_vars

-----------------------------------------------------------------------------
TypeOK ==
  /\ regime \in Regimes
  /\ want \in Wants
  /\ {sleeve, stored} \subseteq [Cid -> Nat]
  /\ rows \in [Cid -> J!Row]
  /\ venue \in [Cid -> J!VenueOrder]
  /\ book \in Book
  /\ cache = NoCache \/ cache.gates \in J!Gates
  /\ \A p \in Sweeps : pass[p].gates \in J!Gates /\ pass[p].cid \in Cid \cup {<<>>}
  /\ Cardinality(holder) <= 1

(* Shares the account will hold once every working order has filled.       *)
Exposure == Net(Held) + Net(Listed(Working))

(* Never mis-order: whatever the two kinds of pass see late, the orders    *)
(* they send never add up to more than the strategy ever wanted, nor sell  *)
(* more than the account holds.  Claimed away from the close, where the    *)
(* poll counts a fill twice (see CountedOnce), as does an audit that polls *)
(* and then gets no answer to its fetch; for a book that was audited since *)
(* its process started: one rebuilt while it trades leaves a position out  *)
(* (book.py:171); and for orders that are answered, or of one quantity: a  *)
(* pass that gathered before an unanswered order is held back from sending *)
(* it again by its client id alone, and that names the quantity.           *)
NeverMisorders ==
  \/ regime.close \/ regime.silent \/ regime.restarts > 0
  \/ regime.faults > 0 /\ MaxQty > 1
  \/ Exposure \in 0 .. Max(Wants)

(* The book is never ahead of the venue: a fill moves its position once.   *)
CountedOnce == \A c \in Cid : book.pos[c] <= venue[c].done

(* Whenever a fast pass could start trading from the book, and no gate of  *)
(* the journal holds the symbol, the book knows the account: its position  *)
(* and pending orders add up to what the venue holds and works.  Two books *)
(* are excepted.  One has counted a fill twice (see CountedOnce).  The     *)
(* other was lost with its process and has not been read whole since: an   *)
(* audit that itself sends an order opens the settle window, in which      *)
(* apply_audit drops the fetched position of a symbol the empty book does  *)
(* not have (book.py:171); the book is then clean and trades without that  *)
(* position until an audit outside the window replaces it.                 *)
BookTrusted ==
  (/\ holder = {} /\ book.clean /\ book.based /\ CountedOnce
   /\ ~Frozen(J!GatesOf(rows, sleeve), book.orders))
  => Net(book.pos) + Net(book.orders) = Exposure

=============================================================================
