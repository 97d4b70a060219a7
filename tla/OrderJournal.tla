---------------------------- MODULE OrderJournal ----------------------------
(***************************************************************************)
(* The write-ahead order ledger of one broker connection                   *)
(* (dqengine/live/journal.py) together with the audit sweeps that write    *)
(* and read it (the _journal_* hooks, the executions poll and the recovery *)
(* step of sync_broker_account in dqengine/live/executor.py).              *)
(*                                                                         *)
(* Every gate of the journal is kept per symbol, so one symbol is          *)
(* modelled.  An order is an intent, a side and a quantity, and it is a    *)
(* market delta or a resting order (an exit or an entry).  The client id   *)
(* of a market delta is a hash of the intent and of the epoch, the number  *)
(* of journal rows the symbol has today, so here it is that pair; the id   *)
(* of a resting order is the intent and a fresh number.  Wall-clock ages   *)
(* are three classes: fresh (within ACK_DEADLINE_S), suspect, and old      *)
(* (beyond ABANDON_S).                                                     *)
(***************************************************************************)
EXTENDS Integers, FiniteSets, FiniteSetsExt

CONSTANTS
  Intents,       \* the orders the symbol may want
  Resting,       \* those of them that rest at the venue: exits and entries
  SideOf,        \* [Intents -> {"buy", "sell"}]
  QtyOf,         \* [Intents -> quantity in order steps]
  Passes,        \* concurrent audit sweeps: threads or processes
  MaxEpoch,      \* bound: the last epoch a market delta is computed at
  MaxFresh,      \* bound: the last number a resting order is given
  MaxCrashes,    \* bound: process deaths
  MaxLapses,     \* bound: journal writes around a wire call that fail
  Locked,        \* the connection lock really excludes the other sweeps
  FillsCarryCid, \* the venue's fill rows name the client order id
  AckMayFill,    \* an ack may already report the order filled
  CancelSwallowed \* a refused cancel looks like a successful one

ASSUME IntentsAssumption ==
  /\ IsFiniteSet(Intents) /\ Resting \subseteq Intents
  /\ SideOf \in [Intents -> {"buy", "sell"}]
  /\ QtyOf \in [Intents -> Nat \ {0}]
ASSUME BoundsAssumption == {MaxEpoch, MaxFresh, MaxCrashes, MaxLapses} \subseteq Nat
ASSUME FlagsAssumption ==
  {Locked, FillsCarryCid, AckMayFill, CancelSwallowed} \subseteq BOOLEAN

Cid == ((Intents \ Resting) \X (0 .. MaxEpoch)) \cup (Resting \X (0 .. MaxFresh))
Qty(c) == QtyOf[c[1]]
Side(c) == SideOf[c[1]]

VARIABLES
  rows,     \* the order_journal table: client id -> row
  venue,    \* what the venue did with the order of that id
  wired,    \* history: wire calls made with that id
  stored,   \* quantity of the order's fills in the executions table
  sleeve,   \* quantity of the order's fills folded by the deployment's tick
  pass,     \* the sweeps in progress
  holder,   \* which sweep holds the connection lock
  crashes,  \* process deaths so far
  lapses    \* journal writes that have failed

vars == <<rows, venue, wired, stored, sleeve, pass, holder, crashes, lapses>>

Open == {"sending", "submitted", "open"}
RowStates == Open \cup {"absent", "filled", "canceled", "rejected", "abandoned"}
Row == [state: RowStates, filled: Nat, boid: BOOLEAN,
        note: {"none", "folded", "text"}, age: {"fresh", "suspect", "old"}]
NoRow == [state |-> "absent", filled |-> 0, boid |-> FALSE, note |-> "none",
          age |-> "fresh"]

VenueOrder == [at: {"unsent", "flight", "working", "filled", "closed"},
               done: Nat]

Gates == [epoch: Nat, open: SUBSET Cid, unfolded: BOOLEAN, unresolved: BOOLEAN]
NoGates == [epoch |-> 0, open |-> {}, unfolded |-> FALSE, unresolved |-> FALSE]

PassSteps == {"idle", "gathered", "polling", "fetching", "deciding", "before",
              "wire", "nacking", "acking", "resting", "latepoll",
              "resolving"}
Sums == [Cid -> Nat]
NoSums == [c \in Cid |-> 0]
PassState == [pc: PassSteps, gates: Gates, model: Sums,
              listed: SUBSET Cid, cid: Cid \cup {<<>>}, pollOk: BOOLEAN,
              late: BOOLEAN]
IdlePass == [pc |-> "idle", gates |-> NoGates, model |-> NoSums,
             listed |-> {}, cid |-> <<>>, pollOk |-> FALSE, late |-> FALSE]

-----------------------------------------------------------------------------
(* gates(): the one query the delta pass is gated by.                      *)

Present(rs) == {c \in Cid : rs[c].state # "absent"}
Epoch(rs) == Cardinality(Present(rs))
OpenRows(rs) == {c \in Cid : rs[c].state \in Open /\ rs[c].filled < Qty(c)}
SideTotal(qty, cs, s) == MapThenSumSet(LAMBDA c : qty[c], {c \in cs : Side(c) = s})
FilledSide(rs, s) ==
  SideTotal([c \in Cid |-> rs[c].filled], {c \in Cid : rs[c].state = "filled"}, s)
(* A quantity, not a state: an ack that says filled moves the row before   *)
(* any of its quantity is known.                                           *)
Unfolded(rs) ==
  {c \in Cid : rs[c].state = "filled" /\ rs[c].note # "folded" /\ rs[c].filled > 0}
Unresolved(rs) == {c \in Cid : rs[c].state = "sending" /\ rs[c].age # "fresh"}

(* The enforce fold-lift of _journal_gates_read: when there is an unfolded *)
(* quantity and what the deployment's payload has folded today matches the *)
(* filled rows' totals on both sides, this pass is not frozen by it and     *)
(* every filled row without a note is marked folded.  A row whose note was *)
(* written when it was rejected or abandoned is never marked.              *)
MarkFolded(rs) ==
  [c \in Cid |-> IF rs[c].state = "filled" /\ rs[c].note = "none"
                 THEN [rs[c] EXCEPT !.note = "folded"] ELSE rs[c]]
MatchesNet(rs, model) ==        \* mutant: the sides are netted
  FilledSide(rs, "buy") - FilledSide(rs, "sell")
    = SideTotal(model, Cid, "buy") - SideTotal(model, Cid, "sell")
Matches(rs, model) ==
  \A s \in {"buy", "sell"} : FilledSide(rs, s) = SideTotal(model, Cid, s)
Lifted(rs, model) ==
  IF Unfolded(rs) # {} /\ Matches(rs, model) THEN MarkFolded(rs) ELSE rs

UnfoldedFreeze(rs, model) == Unfolded(rs) # {} /\ ~Matches(rs, model)
GatesOf(rs, model) ==
  [epoch |-> Epoch(rs), open |-> OpenRows(rs),
   unfolded |-> UnfoldedFreeze(rs, model), unresolved |-> Unresolved(rs) # {}]

-----------------------------------------------------------------------------
Init ==
  /\ rows = [c \in Cid |-> NoRow]
  /\ venue = [c \in Cid |-> [at |-> "unsent", done |-> 0]]
  /\ wired = [c \in Cid |-> 0]
  /\ stored = [c \in Cid |-> 0]
  /\ sleeve = [c \in Cid |-> 0]
  /\ pass = [p \in Passes |-> IdlePass]
  /\ holder = {}
  /\ crashes = 0
  /\ lapses = 0

At(p, step) == pass[p].pc = step
Becomes(p, r) == pass' = [pass EXCEPT ![p] = r]
Goto(p, step) == Becomes(p, [pass[p] EXCEPT !.pc = step])
(* The delta pass is over: what it gathered is not read again.             *)
Leave(p, step, c) ==
  Becomes(p, [pass[p] EXCEPT !.pc = step, !.gates = NoGates, !.model = NoSums,
                             !.cid = c])
Answered(p) == Becomes(p, [pass[p] EXCEPT !.pc = "resting", !.cid = <<>>])
End(p) ==
  /\ Becomes(p, IdlePass)
  /\ holder' = holder \ {p}

(* A journal write that fails is printed and swallowed.                    *)
Lapse ==
  /\ lapses < MaxLapses
  /\ lapses' = lapses + 1

(* The gather block: gates and payload are read before the lock.           *)
Gather(p) ==
  /\ At(p, "idle")
  /\ rows' = Lifted(rows, sleeve)
  /\ Becomes(p, [pass[p] EXCEPT !.pc = "gathered", !.model = sleeve,
                                !.gates = GatesOf(rows, sleeve)])
  /\ UNCHANGED <<venue, wired, stored, sleeve, holder, crashes, lapses>>

(* _conn_lock and conn_sweep_lock.  Without Locked the advisory lock has   *)
(* been lost (no such lock outside Postgres, or its session died) and the  *)
(* sweeps of two processes overlap.  Inside the close window (late) the    *)
(* executions poll is put off until the orders are out, and the gates read *)
(* before the lock stand; otherwise they are read again after the poll.    *)
Acquire(p) ==
  /\ At(p, "gathered")
  /\ Locked => holder = {}
  /\ holder' = holder \cup {p}
  /\ \E late \in BOOLEAN :
       Becomes(p, IF late
                  THEN [pass[p] EXCEPT !.pc = "fetching", !.late = TRUE, !.model = NoSums]
                  ELSE [pass[p] EXCEPT !.pc = "polling", !.gates = NoGates])
  /\ UNCHANGED <<rows, venue, wired, stored, sleeve, crashes, lapses>>

(* fold_execution for `n` more of the order's quantity: the row is found   *)
(* by client id, else by the broker id an ack or the recovery wrote.       *)
FoldExecution(c, row, n) ==
  IF n = 0 \/ row.state = "absent" \/ ~(FillsCarryCid \/ row.boid) THEN row
  ELSE [row EXCEPT !.filled = @ + n,
                   !.state = IF row.filled + n >= Qty(c) THEN "filled" ELSE @]

(* executions.poll and store: every fill not yet in the executions table   *)
(* is inserted and folded into its journal row in one transaction.         *)
PolledAgain ==                  \* mutant: stored fills are folded again
  [c \in Cid |-> FoldExecution(c, rows[c], venue[c].done)]
Polled ==
  [c \in Cid |-> FoldExecution(c, rows[c], venue[c].done - stored[c])]
StoreAll == stored' = [c \in Cid |-> venue[c].done]

(* The poll ahead of reconcile, then the second gates read.  A venue that  *)
(* does not answer the poll leaves the sweep to go on without it.          *)
Regate(p, rs, answered) ==
  /\ rows' = Lifted(rs, pass[p].model)
  /\ Becomes(p, [pass[p] EXCEPT !.pc = "fetching", !.pollOk = answered,
                                !.gates = GatesOf(rs, pass[p].model)])

PollAnswered(p) ==
  /\ At(p, "polling")
  /\ StoreAll
  /\ Regate(p, Polled, TRUE)
  /\ UNCHANGED <<venue, wired, sleeve, holder, crashes, lapses>>

PollUnanswered(p) ==
  /\ At(p, "polling")
  /\ Regate(p, rows, FALSE)
  /\ UNCHANGED <<venue, wired, stored, sleeve, holder, crashes, lapses>>

(* adapter.open_orders: the orders working at the venue now.  A venue that *)
(* does not answer ends the sweep.                                         *)
FetchAnswered(p) ==
  /\ At(p, "fetching")
  /\ Becomes(p, [pass[p] EXCEPT !.pc = "deciding",
                                !.listed = {c \in Cid : venue[c].at = "working"}])
  /\ UNCHANGED <<rows, venue, wired, stored, sleeve, holder, crashes, lapses>>

FetchUnanswered(p) ==
  /\ At(p, "fetching")
  /\ End(p)
  /\ UNCHANGED <<rows, venue, wired, stored, sleeve, crashes, lapses>>

(* The gates of section 2 of reconcile: no unacked order, no unfolded      *)
(* fill, and no open row the venue does not list.                          *)
Frozen(p) ==
  \/ pass[p].gates.unresolved
  \/ pass[p].gates.unfolded
  \/ ~(pass[p].gates.open \subseteq pass[p].listed)

(* The symbol's market delta, at most one a sweep, with its deterministic  *)
(* client id (market_cid).                                                 *)
MarketDelta(p, i) ==
  /\ At(p, "deciding")
  /\ ~Frozen(p)
  /\ pass[p].gates.epoch <= MaxEpoch
  /\ Leave(p, "before", <<i, pass[p].gates.epoch>>)
  /\ UNCHANGED <<rows, venue, wired, stored, sleeve, holder, crashes, lapses>>

(* No delta, or a frozen symbol: on to sections 3 and 4.                   *)
NoDelta(p) ==
  /\ At(p, "deciding")
  /\ Leave(p, "resting", <<>>)
  /\ UNCHANGED <<rows, venue, wired, stored, sleeve, holder, crashes, lapses>>

(* Sections 3 and 4 place a resting order under a fresh client id.  The    *)
(* journal's gates do not hold these back.                                 *)
PlaceResting(p, c) ==
  /\ At(p, "resting")
  /\ c[1] \in Resting
  /\ c[2] = Cardinality({d \in Cid : /\ d[1] = c[1]
                                     /\ wired[d] > 0 \/ rows[d].state # "absent"})
  /\ Becomes(p, [pass[p] EXCEPT !.pc = "before", !.cid = c])
  /\ UNCHANGED <<rows, venue, wired, stored, sleeve, holder, crashes, lapses>>

OrdersDone(p) ==
  /\ At(p, "resting")
  /\ Goto(p, IF pass[p].late THEN "latepoll" ELSE "resolving")
  /\ UNCHANGED <<rows, venue, wired, stored, sleeve, holder, crashes, lapses>>

(* A resting order is canceled, released or about to be placed again, and  *)
(* _journal_cancel closes its row.  An order no longer working refuses the *)
(* cancel; an adapter that swallows the refusal returns as if it had been  *)
(* canceled.                                                               *)
MayCancel(p, c) ==
  /\ pass[p].pc \in {"deciding", "resting"}
  /\ c \in pass[p].listed /\ c[1] \in Resting

MarkCanceled(c) ==
  IF rows[c].state \in Open THEN [rows EXCEPT ![c].state = "canceled"] ELSE rows

Cancel(p, c) ==
  /\ MayCancel(p, c)
  /\ \/ /\ venue[c].at = "working"
        /\ venue' = [venue EXCEPT ![c].at = "closed"]
     \/ /\ CancelSwallowed
        /\ UNCHANGED venue
  /\ rows' = MarkCanceled(c)
  /\ UNCHANGED <<wired, stored, sleeve, pass, holder, crashes, lapses>>

(* A cancel whose answer is lost ends the sweep; it may have been obeyed.  *)
CancelUnanswered(p, c) ==
  /\ MayCancel(p, c)
  /\ venue[c].at = "working"
  /\ \E at \in {"working", "closed"} : venue' = [venue EXCEPT ![c].at = at]
  /\ End(p)
  /\ UNCHANGED <<rows, wired, stored, sleeve, crashes, lapses>>

(* _journal_before: insert the row, or stand down because it is there.  A  *)
(* database that fails never blocks the order.                             *)
MayInsertAlways(c) == TRUE      \* mutant: no unique constraint
MayInsert(c) == rows[c].state = "absent"

RecordSending(p) ==
  /\ At(p, "before")
  /\ LET c == pass[p].cid
     IN \/ /\ MayInsert(c)
           /\ rows' = [rows EXCEPT ![c] = [NoRow EXCEPT !.state = "sending"]]
           /\ Goto(p, "wire")
           /\ UNCHANGED lapses
        \/ /\ ~MayInsert(c)
           /\ Answered(p)
           /\ UNCHANGED <<rows, lapses>>
        \/ /\ Lapse
           /\ Goto(p, "wire")
           /\ UNCHANGED rows
  /\ UNCHANGED <<venue, wired, stored, sleeve, holder, crashes>>

(* adapter.submit.  The venue takes the order, refuses it (a rejection or  *)
(* a rate limit: not placed), or the call fails and nobody knows: the      *)
(* request may still be on its way.  A failed call ends the sweep.         *)
Submit(p) ==
  /\ At(p, "wire")
  /\ LET c == pass[p].cid
         new == venue[c].at = "unsent"
     IN /\ wired' = [wired EXCEPT ![c] = @ + 1]
        /\ \/ /\ venue' = IF new THEN [venue EXCEPT ![c].at = "working"] ELSE venue
              /\ Goto(p, "acking")
              /\ UNCHANGED holder
           \/ /\ Goto(p, "nacking")
              /\ UNCHANGED <<venue, holder>>
           \/ /\ venue' = IF new THEN [venue EXCEPT ![c].at = "flight"] ELSE venue
              /\ End(p)
  /\ UNCHANGED <<rows, stored, sleeve, crashes, lapses>>

(* The status an ack may carry, by what has become of the order.           *)
AckStatesRaw(c) ==              \* mutant: the venue's word is stored as it is
  IF venue[c].at = "closed" THEN {"submitted", "expired"} ELSE {"submitted"}
AckStates(c) ==
  CASE venue[c].at = "filled" /\ AckMayFill -> {"submitted", "filled"}
    [] venue[c].at = "closed" -> {"submitted", "canceled", "rejected"}
    [] OTHER -> {"submitted"}

(* _journal_after on a return: mark_submitted, whatever the row's state;   *)
(* the broker's id is kept when the ack carries one.                       *)
MarkSubmitted(p) ==
  /\ At(p, "acking")
  /\ LET c == pass[p].cid
     IN \/ /\ rows[c].state # "absent"
           /\ \E st \in AckStates(c), known \in {rows[c].boid, TRUE} :
                rows' = [rows EXCEPT ![c] = [@ EXCEPT !.state = st,
                                                      !.boid = known]]
           /\ UNCHANGED lapses
        \/ /\ rows[c].state = "absent"
           /\ UNCHANGED <<rows, lapses>>
        \/ Lapse /\ UNCHANGED rows
  /\ Answered(p)
  /\ UNCHANGED <<venue, wired, stored, sleeve, holder, crashes>>

(* _journal_after on a refusal: mark_rejected.                             *)
RejectedRow(c) == [rows[c] EXCEPT !.state = "rejected", !.note = "text"]

MarkRejected(p) ==
  /\ At(p, "nacking")
  /\ LET c == pass[p].cid
     IN \/ /\ rows[c].state # "absent"
           /\ rows' = [rows EXCEPT ![c] = RejectedRow(c)]
           /\ UNCHANGED lapses
        \/ /\ rows[c].state = "absent"
           /\ UNCHANGED <<rows, lapses>>
        \/ Lapse /\ UNCHANGED rows
  /\ Answered(p)
  /\ UNCHANGED <<venue, wired, stored, sleeve, holder, crashes>>

(* Inside the close window the poll runs after the orders went out.        *)
LatePollAnswered(p) ==
  /\ At(p, "latepoll")
  /\ StoreAll
  /\ rows' = Polled
  /\ Becomes(p, [pass[p] EXCEPT !.pc = "resolving", !.pollOk = TRUE])
  /\ UNCHANGED <<venue, wired, sleeve, holder, crashes, lapses>>

LatePollUnanswered(p) ==
  /\ At(p, "latepoll")
  /\ Goto(p, "resolving")
  /\ UNCHANGED <<rows, venue, wired, stored, sleeve, holder, crashes, lapses>>

(* resolve_stale for one row, against this sweep's own evidence.           *)
Stale(c) == rows[c].state = "sending" /\ rows[c].age # "fresh"
Absent(p, c) == c \notin pass[p].listed /\ pass[p].pollOk /\ rows[c].age = "old"

AbandonedRow(c) == [rows[c] EXCEPT !.state = "abandoned", !.note = "text"]

ResolvedEarly(p, c) ==          \* mutant: abandoned at the ack deadline
  IF Stale(c) /\ c \notin pass[p].listed /\ pass[p].pollOk
  THEN AbandonedRow(c) ELSE rows[c]
ResolvedDeleted(p, c) ==        \* mutant: the abandoned row is deleted
  IF Stale(c) /\ Absent(p, c) THEN NoRow ELSE rows[c]
ResolvedNeverOpen(p, c) ==      \* mutant: a listed row is left as it is
  IF Stale(c) /\ Absent(p, c) THEN AbandonedRow(c) ELSE rows[c]

Resolved(p, c) ==
  CASE Stale(c) /\ c \in pass[p].listed -> [rows[c] EXCEPT !.state = "open", !.boid = TRUE]
    [] Stale(c) /\ Absent(p, c) -> AbandonedRow(c)
    [] OTHER -> rows[c]

ResolveStale(p) ==
  /\ At(p, "resolving")
  /\ rows' = [c \in Cid |-> Resolved(p, c)]
  /\ End(p)
  /\ UNCHANGED <<venue, wired, stored, sleeve, crashes, lapses>>

(* The process dies: its sweep and its locks are gone, the table stays.    *)
Crash(p) ==
  /\ ~At(p, "idle")
  /\ crashes < MaxCrashes
  /\ crashes' = crashes + 1
  /\ End(p)
  /\ UNCHANGED <<rows, venue, wired, stored, sleeve, lapses>>

(* The deployment's tick folds every stored fill into the sleeve.          *)
Tick ==
  /\ sleeve' = stored
  /\ UNCHANGED <<rows, venue, wired, stored, pass, holder, crashes, lapses>>

(* Time.  Two facts the sweep relies on are kept as guards: a request on   *)
(* the wire has arrived or is lost within ACK_DEADLINE_S, and a sweep is   *)
(* short beside ABANDON_S, so that no row turns old in the middle of one.  *)
Age(c) ==
  /\ rows[c].state = "sending"
  /\ \/ /\ rows[c].age = "fresh"
        /\ venue[c].at # "flight"
        /\ \A p \in Passes : At(p, "wire") => pass[p].cid # c
        /\ rows' = [rows EXCEPT ![c].age = "suspect"]
     \/ /\ rows[c].age = "suspect"
        /\ \A p \in Passes : pass[p].pc \in {"idle", "gathered"}
        /\ rows' = [rows EXCEPT ![c].age = "old"]
  /\ UNCHANGED <<venue, wired, stored, sleeve, pass, holder, crashes, lapses>>

(* The venue. *)
Arrive(c) ==
  /\ venue[c].at = "flight"
  /\ \E at \in {"working", "unsent"} : venue' = [venue EXCEPT ![c].at = at]
  /\ UNCHANGED <<rows, wired, stored, sleeve, pass, holder, crashes, lapses>>

Fill(c) ==
  /\ venue[c].at = "working"
  /\ venue' = [venue EXCEPT ![c].done = @ + 1,
                 ![c].at = IF venue[c].done + 1 = Qty(c) THEN "filled" ELSE @]
  /\ UNCHANGED <<rows, wired, stored, sleeve, pass, holder, crashes, lapses>>

(* Expired, refused after the ack, or canceled by hand at the venue.       *)
Close(c) ==
  /\ venue[c].at = "working"
  /\ venue' = [venue EXCEPT ![c].at = "closed"]
  /\ UNCHANGED <<rows, wired, stored, sleeve, pass, holder, crashes, lapses>>

SweepStep(p) ==
  \/ Gather(p) \/ Acquire(p) \/ PollAnswered(p) \/ PollUnanswered(p)
  \/ FetchAnswered(p) \/ FetchUnanswered(p)
  \/ \E i \in Intents \ Resting : MarketDelta(p, i)
  \/ NoDelta(p)
  \/ \E c \in Cid : PlaceResting(p, c) \/ Cancel(p, c) \/ CancelUnanswered(p, c)
  \/ RecordSending(p) \/ Submit(p) \/ MarkSubmitted(p) \/ MarkRejected(p)
  \/ OrdersDone(p) \/ LatePollAnswered(p) \/ LatePollUnanswered(p) \/ ResolveStale(p)

VenueStep(c) == Arrive(c) \/ Fill(c) \/ Close(c)

Next ==
  \/ \E p \in Passes : SweepStep(p) \/ Crash(p)
  \/ \E c \in Cid : VenueStep(c) \/ Age(c)
  \/ Tick

Spec == Init /\ [][Next]_vars

(* Sweeps keep running (every tick asks for one), the deployment keeps     *)
(* ticking, time passes, a request in flight arrives or is lost, and an    *)
(* outage of the venue is over in the end.                                 *)
Outage ==
  \E p \in Passes :
    \/ PollUnanswered(p) \/ FetchUnanswered(p) \/ LatePollUnanswered(p)
    \/ \E c \in Cid : CancelUnanswered(p, c)

Fairness ==
  /\ \A p \in Passes : WF_vars(SweepStep(p))
  /\ \A c \in Cid : WF_vars(Arrive(c)) /\ SF_vars(Age(c))
  /\ WF_vars(Tick)
  /\ <>[][~Outage]_vars

FairSpec == Spec /\ Fairness

-----------------------------------------------------------------------------
(* Properties.                                                             *)

TypeOK ==
  /\ rows \in [Cid -> Row]
  /\ venue \in [Cid -> VenueOrder]
  /\ wired \in [Cid -> Nat]
  /\ stored \in [Cid -> Nat]
  /\ sleeve \in [Cid -> Nat]
  /\ pass \in [Passes -> PassState]
  /\ holder \subseteq Passes
  /\ crashes \in 0 .. MaxCrashes
  /\ lapses \in 0 .. MaxLapses

(* One intent at one epoch reaches the wire at most once, whatever sweeps  *)
(* overlap and wherever they die: the deterministic client id and the      *)
(* unique journal row are the cross-process duplicate gate.                *)
SentOnce == lapses = 0 => \A c \in Cid : wired[c] <= 1

(* No order is at the venue, or on its way, without its journal row.       *)
WrittenAhead ==
  lapses = 0 => \A c \in Cid : wired[c] > 0 => rows[c].state # "absent"

(* A row leaves the outstanding set only on evidence: while its order can  *)
(* still trade, the gates see it.                                          *)
OutstandingCovered ==
  lapses = 0 =>
    \A c \in Cid : venue[c].at \in {"flight", "working"} => c \in OpenRows(rows)

(* A row is abandoned only when its order never traded.                    *)
AbandonedNeverTraded ==
  \A c \in Cid : rows[c].state = "abandoned" => venue[c].done = 0

(* A filled row stays filled: no ack, cancel or recovery written later     *)
(* reopens it.                                                             *)
FilledIsFinal ==
  [][\A c \in Cid : rows[c].state = "filled" => rows'[c].state = "filled"]_vars

(* A row is marked folded only for fills the sleeve holds.  (A row that an *)
(* ack alone called filled has no quantity yet: it can be marked for none  *)
(* and get its fill afterwards.)                                           *)
MarkedIsFolded ==
  [][\A c \in Cid :
       lapses = 0 /\ rows[c].note # "folded" /\ rows'[c].note = "folded"
         => sleeve[c] >= rows'[c].filled]_vars

(* The ledger never counts more than the venue traded.                     *)
NeverOvercounted ==
  \A c \in Cid : rows[c].filled <= stored[c] /\ stored[c] <= venue[c].done

(* Nothing stays unacknowledged: a row written ahead of a wire call is     *)
(* acked, filled, found at the venue or abandoned in the end, whatever     *)
(* crashed or was lost on the way.                                         *)
SendingResolves ==
  \A c \in Cid : rows[c].state = "sending" ~> rows[c].state # "sending"

(* The freeze on fills the sleeve has not folded is lifted in the end.     *)
UnfoldedLifts ==
  UnfoldedFreeze(rows, sleeve) ~> (~UnfoldedFreeze(rows, sleeve) \/ lapses > 0)

(* Each gate lifts on evidence, and the evidence comes: both of the above. *)
GatesLift == SendingResolves /\ UnfoldedLifts

(* What the ledger says of a fill stays true: it is not reopened, and not  *)
(* called folded before the payload holds it.                              *)
LedgerStands == FilledIsFinal /\ MarkedIsFolded

=============================================================================
