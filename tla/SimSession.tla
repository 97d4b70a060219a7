----------------------------- MODULE SimSession -----------------------------
(***************************************************************************)
(* The simulated trading session: the order book of                        *)
(* dqengine/runtime/orders.py, the sleeve of runtime/core/portfolio.py,    *)
(* the broker-execution ledger of runtime/core/ledger.py, and the event    *)
(* loop of runtime/backtester.py that drives them bar by bar, with its     *)
(* quiet-bar fast path (runtime/fastpath.py), its daily order of events,   *)
(* its live edges and the wall-clock prime of runtime/warm.py.             *)
(*                                                                         *)
(* User code is nondeterministic.  user.acting says that a callback is on  *)
(* the stack (on_data, a scheduled event, on_order_event, the end of day): *)
(* while it is, the algorithm may place, change or cancel orders, register *)
(* a minute indicator, quit, or return.  Every book method emits its event *)
(* last, so a callback that runs inside one is the next step, with the     *)
(* rest of the loop still to come in ses.snap.  One symbol; slippage and   *)
(* fees are zero.                                                          *)
(***************************************************************************)
EXTENDS FillRules, Sequences, FiniteSets, FiniteSetsExt, Functions

CONSTANTS
  Modes,         \* how runs are started: records of flags, see ModeType
  Days,          \* for each session "data", "empty" or (live daily) "partial"
  Ends,          \* the times at which bars may end; the last is the close
  Tapes,         \* what a session may print: functions from Ends to bars
  Fires,         \* event |-> the time it is scheduled for, every day
  Buffer,        \* MOC_SUBMISSION_BUFFER_MS
  Now,           \* live_now_ms of a live daily run's partial session
  Walls, Quotes, \* when a warm engine may be primed, and on which quotes
  Orders,        \* what the algorithm may place: [kind, qty, lim, stop]
  Rows,          \* the ledger, sorted by day and time
  Reconciled,    \* the first day the ledger speaks for
  UnknownDays,   \* the days on which absence of a row is unknown
  WithdrawDay, WithdrawQty,
  Cash, Margin, MaxTickets, MaxOps

VARIABLES
  mode,     \* the run's flags
  ses,      \* the session: where the loop stands
  book,     \* tickets, sleeve and ledger
  clock,    \* self._ms, which stamps what the book creates
  price,    \* prices[sym]: 0 before the first bar
  priceDay, \* history: the session that price was printed in
  sells,    \* _sells_due
  user      \* [acting, quit, indicator, ops]

vars == <<mode, ses, book, clock, price, priceDay, sells, user>>

Close == Max(Ends)
Events == DOMAIN Fires
NoBar == [o |-> 0, h |-> 0, l |-> 0, c |-> 0]
Flat(p) == [o |-> p, h |-> p, l |-> p, c |-> p]

Kinds == {"market", "moo", "moc", "limit", "stop", "stopLimit", "trail", "touch"}

ModeType == [daily : BOOLEAN, live : BOOLEAN, warm : BOOLEAN, fast : BOOLEAN,
             ondata : BOOLEAN, ledger : BOOLEAN,
             orders : SUBSET Orders]   \* what its algorithm ever places

\* A warm engine steps a live minute run bar by bar.  The quiet-bar path is the
\* batch driver's, for a minute run with no per-bar code: a backtest's, or a live
\* replay's, which has a ledger.
ASSUME ModesAssumption ==
  /\ Modes \subseteq ModeType
  /\ \A m \in Modes : /\ m.fast => ~m.daily /\ ~m.ondata /\ ~m.warm
                      /\ m.warm => m.live /\ ~m.daily
                      /\ m.ledger => m.live
\* The session closes at its last bar end.
ASSUME EndsAssumption ==
  Ends \subseteq Nat \ {0} /\ Close \in Ends /\ \A e \in Ends : e <= Close

ASSUME OrdersAssumption == Orders \subseteq [kind : Kinds, qty : Int, lim : Nat, stop : Nat]

\* Times are milliseconds of the day; 0 stands for "before the first" (_prev_t
\* and _primed_through are -1 there), so no event is due at it.
ASSUME TimesAssumption ==
  /\ Fires \in Seq(Nat \ {0}) /\ Walls \subseteq Nat
  /\ Now \in Nat /\ DOMAIN Rows \subseteq Nat

ASSUME DataAssumption ==
  /\ Days \in Seq({"data", "empty", "partial"})
  /\ Tapes \subseteq [Ends -> Bars \cup {NoBar}] /\ Quotes \subseteq Nat /\ MaxOps \in Nat

\* Shares and money are integers; a row without an identity has None for it.
LedgerFill == [day : Nat, ms : Nat, qty : Int, px : Nat, tag : Nat, oid : Nat]
ASSUME LedgerAssumption ==
  Rows \in Seq(LedgerFill) /\ Reconciled \in Nat /\ Cash \in Int /\ WithdrawQty \in Nat

LeanEdges == ~mode.live \/ mode.daily
Kind(i) == book.tickets[i].kind
\* Mutant: a canceled ticket stays in _open.
IsOpenStale(b, i) == b.tickets[i].status \in {"submitted", "canceled"}

IsOpen(b, i) == b.tickets[i].status = "submitted"
OpenTickets(b) == {i \in DOMAIN b.tickets : IsOpen(b, i)}
Carried == ses.data = "empty"

-----------------------------------------------------------------------------
(* The ledger: rows, "nofill" (the broker did not) or "unknown".            *)

\* Mutant: rows already taken are candidates again.
CandidatesTwice(b, i) ==
  {r \in DOMAIN Rows :
     Rows[r].day = ses.day /\ (Rows[r].qty > 0) = (b.tickets[i].qty > 0)}

Candidates(b, i) ==
  {r \in DOMAIN Rows \ b.taken :
     Rows[r].day = ses.day /\ (Rows[r].qty > 0) = (b.tickets[i].qty > 0)}

SameOrder(pool, r) ==
  IF Rows[r].oid # None THEN {q \in pool : Rows[q].oid = Rows[r].oid}
  ELSE IF Rows[r].tag # None
       THEN {q \in pool : Rows[q].tag = Rows[r].tag /\ Rows[q].oid = None}
       ELSE {r}

\* ExecutionLedger.take: rows of this order's own identity first, then any row
\* of its side; all the executions of the chosen order together.
Take(b, i) ==
  LET avail  == Candidates(b, i)
      tagged == {r \in avail : Rows[r].tag = i}
      pool   == IF tagged # {} THEN tagged ELSE avail
  IN  IF avail = {} THEN {} ELSE SameOrder(pool, Min(pool))

\* A warm engine steps before the order it signals can have traded: on its live
\* days an absent row is always unknown (LiveCappedLedger).
Absence == IF mode.warm \/ ses.day < Reconciled \/ ses.day \in UnknownDays
           THEN "unknown" ELSE "nofill"

\* take_rule_fill: what the broker filled of a resting order by now.
Visible(b, i) ==
  LET avail == {r \in DOMAIN Rows \ b.taken :
                  Rows[r].day = ses.day /\ Rows[r].tag = i /\ Rows[r].ms < clock}
  IN  IF avail = {} \/ ses.day < Reconciled THEN {}
      ELSE {r \in avail : Rows[r].oid = Rows[Min(avail)].oid}

-----------------------------------------------------------------------------
(* The book.  Each method returns the new book; all but Update emit one     *)
(* order event.                                                             *)

SetStatus(b, i, s) == [b EXCEPT !.tickets[i].status = s]

NewTicket(b, o, status) ==
  [b EXCEPT !.tickets = Append(@,
     [kind |-> o.kind, qty |-> o.qty, lim |-> o.lim, stop |-> o.stop,
      trig |-> FALSE, status |-> status, day |-> ses.day, ms |-> clock,
      by |-> ses.phase])]

FillOf(i, at, px, rows) ==
  [id |-> i, day |-> ses.day, at |-> at, phase |-> ses.phase, px |-> px,
   late |-> ses.at <= ses.primed, rows |-> rows]

SumOver(rows, f(_)) == MapThenSumSet(f, rows)

\* Mutant: only the first execution of the order is applied.
AdoptFirst(b, i, rows) ==
  [b EXCEPT !.cash = @ - Rows[Min(rows)].qty * Rows[Min(rows)].px,
            !.qty  = @ + Rows[Min(rows)].qty,
            !.taken = @ \cup rows,
            !.tickets[i].status = "filled",
            !.fills = Append(@, FillOf(i, clock, Rows[Min(rows)].px, rows))]

\* Sleeve.apply_fill for each row: the broker's fills bind without a margin check.
Adopt(b, i, rows) ==
  [b EXCEPT !.cash = @ - SumOver(rows, LAMBDA r : Rows[r].qty * Rows[r].px),
            !.qty  = @ + SumOver(rows, LAMBDA r : Rows[r].qty),
            !.taken = @ \cup rows,
            !.tickets[i].status = "filled",
            !.fills = Append(@, FillOf(i, clock, Rows[Max(rows)].px, rows))]

Magnitude(n) == IF n < 0 THEN -n ELSE n

BuyingPower(b) == Margin * (b.cash + b.qty * price) - Magnitude(b.qty) * price

\* The model's own fill: margin is owed on the exposure an order adds.
ModelFill(b, i, px) ==
  LET q == b.tickets[i].qty
      added == (Magnitude(b.qty + q) - Magnitude(b.qty)) * px
  IN  IF added > BuyingPower(b) THEN SetStatus(b, i, "invalid")
      ELSE [b EXCEPT !.cash = @ - q * px, !.qty = @ + q,
                     !.tickets[i].status = "filled",
                     !.fills = Append(@, FillOf(i, clock, px, {}))]

\* Mutant: the market order is left NEW.
UnfilledHangs(b, i) == b

\* _fill when the broker affirmed there was none: a resting order stays open,
\* except at a live daily edge; a market order never rested and is closed.
Unfilled(b, i) ==
  IF IsOpen(b, i) /\ ~(mode.live /\ mode.daily /\ b.tickets[i].kind \in {"moo", "moc"})
  THEN b ELSE SetStatus(b, i, "canceled")

Fill(b, i, px) ==
  LET rows == IF mode.ledger /\ ses.day >= Reconciled THEN Take(b, i) ELSE {}
  IN  IF rows # {} THEN Adopt(b, i, rows)
      ELSE IF mode.ledger /\ Absence = "nofill" THEN Unfilled(b, i)
           ELSE ModelFill(b, i, px)

\* OrderBook.market
Market(b, o) ==
  LET n == Len(b.tickets) + 1
      convert == (~mode.live \/ mode.daily) /\ ~Carried
  IN  IF mode.daily /\ price = 0 THEN NewTicket(b, o, "invalid")
      ELSE IF convert /\ clock >= Close
           THEN NewTicket(b, [o EXCEPT !.kind = "moo"], "submitted")
      ELSE IF convert /\ mode.daily
           THEN NewTicket(b, [o EXCEPT !.kind = IF Close - clock >= Buffer
                                                THEN "moc" ELSE "moo"], "submitted")
      ELSE IF Carried THEN NewTicket(b, o, "submitted")
      ELSE Fill(NewTicket(b, o, "new"), n, price)

\* OrderBook.market_on_close
MarketOnClose(b, o) ==
  LET late == clock < Close /\ Close - clock < Buffer
  IN  NewTicket(b, o, IF mode.daily /\ (price = 0 \/ late) THEN "invalid"
                      ELSE "submitted")

PlaceOrder(b, o) ==
  CASE o.kind = "market" -> Market(b, o)
    [] o.kind = "moc"    -> MarketOnClose(b, o)
    [] OTHER             -> NewTicket(b, o, "submitted")

\* Mutant: no same-bar exclusion at all.
BornNever(tk) == FALSE

\* exclude_created: an order stamped with this very bar end.
BornNow(tk) == tk.day = ses.day /\ tk.ms = ses.at

\* One ticket of check_resting against the bar that just ended.
CheckResting(b, i, bar, exclude) ==
  LET tk   == b.tickets[i]
      buy  == tk.qty > 0
      seen == IF mode.ledger THEN Visible(b, i) ELSE {}
      limit == LimitFill(buy, bar, tk.lim)
      at(stop) == StopFill(buy, bar, stop)
      try(px) == IF px = None THEN b ELSE Fill(b, i, px)
      armed(hit) == [b EXCEPT !.tickets[i].trig = hit]
  IN  IF ~IsOpen(b, i) \/ (exclude /\ BornNow(tk)) THEN b
      ELSE IF seen # {} THEN Adopt(b, i, seen)
      ELSE CASE tk.kind = "market" -> Fill(b, i, bar.c)
             [] tk.kind = "limit"  -> try(limit)
             [] tk.kind = "stop"   -> try(at(tk.stop))
             [] tk.kind = "trail"  ->
                  LET s  == Ratchet(buy, bar, tk.stop, tk.lim)
                      b1 == [b EXCEPT !.tickets[i].stop = s]
                  IN  IF at(s) = None THEN b1 ELSE Fill(b1, i, at(s))
             [] tk.kind = "stopLimit" -> IF tk.trig THEN try(limit)
                                         ELSE armed(StopTriggered(buy, bar, tk.stop))
             [] tk.kind = "touch" -> IF tk.trig THEN try(limit)
                                     ELSE armed(TouchTriggered(buy, bar, tk.stop))
             [] OTHER -> b          \* the session's edges are not its business

-----------------------------------------------------------------------------
(* Which bar comes next: every one, or those the quiet-bar scan visits.     *)

Printed == {e \in Ends : ses.bars[e] # NoBar}
FirstFrom(f) == LET after == {e \in Printed : e >= f}
                IN  IF after = {} THEN {} ELSE {Min(after)}

Forced == {Min(Printed), Max(Printed)} \cup UNION {FirstFrom(Fires[v]) : v \in Events}

\* Mutant: scans the stop leg of a triggered stop-limit.
CouldActUnarmed(tk, bar) ==
  LET buy == tk.qty > 0
  IN  CASE tk.kind \in {"moo", "moc"} -> FALSE
        [] tk.kind \in {"market", "trail", "touch"} -> TRUE
        [] tk.kind = "limit" -> LimitFill(buy, bar, tk.lim) # None
        [] OTHER -> StopTriggered(buy, bar, tk.stop)

\* next_candidate_ms: could this resting order act on that bar?
CouldAct(tk, bar) ==
  LET buy == tk.qty > 0
  IN  CASE tk.kind \in {"moo", "moc"} -> FALSE
        [] tk.kind \in {"market", "trail", "touch"} -> TRUE
        [] tk.kind = "limit" -> LimitFill(buy, bar, tk.lim) # None
        [] tk.kind = "stop"  -> StopFill(buy, bar, tk.stop) # None
        [] OTHER -> IF tk.trig THEN LimitFill(buy, bar, tk.lim) # None
                    ELSE StopTriggered(buy, bar, tk.stop)

Visited == Forced \cup (IF Carried THEN {} ELSE
             {e \in Printed : \E i \in OpenTickets(book) :
                                 CouldAct(book.tickets[i], ses.bars[e])})

Upcoming == {e \in IF ses.fast THEN Visited ELSE Printed : e > ses.at}

-----------------------------------------------------------------------------
(* The driver: one session after another, one bar after another.            *)

Walking(ph) == ses.phase = ph /\ ~user.acting

\* Which phases look at the open tickets, and when.
Edge(ph) ==
  /\ ~Carried
  /\ \/ ph \in {"pass1", "pass2"}
     \/ ph = "moo"   /\ LeanEdges  /\ ~ses.first
     \/ ph = "late"  /\ ~LeanEdges /\ ~ses.first
     \/ ph = "moc"   /\ mode.daily
     \/ ph = "close" /\ ~mode.daily

\* list(self._open): what a callback places later is not in it, and what a
\* callback closes still is.
Enter(ph) == [ses EXCEPT !.phase = ph,
                         !.snap = IF Edge(ph) THEN OpenTickets(book) ELSE {}]

DueBefore(t) == {v \in Events : Fires[v] < Close /\ Fires[v] <= t}
Tied(vs) == \E v, w \in vs : v # w /\ Fires[v] = Fires[w]

\* _begin_session.  A minute session without data is carried on flat bars at
\* the last price, a daily one is skipped, except today's live one.  Sorting
\* (ms, event) pairs compares two events of the same ms, which raises.
BeginSession ==
  /\ ses.phase = "idle" /\ ses.day < Len(Days)
  /\ \E bars \in Tapes :
       LET day  == ses.day + 1
           data == IF Days[day] = "partial" /\ ~(mode.daily /\ mode.live)
                   THEN "empty" ELSE Days[day]
           partial == data = "partial"
           skipped == data = "empty" /\ (mode.daily \/ mode.warm \/ price = 0)
           pre  == IF mode.daily THEN DueBefore(Close) ELSE {}
           printed == [e \in Ends |->
             CASE data # "data" -> IF partial THEN NoBar ELSE Flat(price)
               [] mode.daily /\ e # Close -> NoBar
               [] OTHER -> bars[e]]
       IN /\ IF data = "data" THEN \E e \in Ends : printed[e] # NoBar
             ELSE bars = CHOOSE tape \in Tapes : TRUE
          /\ ses' = [ses EXCEPT
               !.day = day, !.data = data, !.bars = printed, !.at = 0,
               !.phase = IF skipped THEN "idle"
                         ELSE IF Tied(pre) THEN "error"
                         ELSE IF partial THEN "pre" ELSE "open",
               !.snap = {}, !.due = IF partial THEN DueBefore(Now) ELSE {},
               !.prevT = 0, !.primed = 0, !.first = FALSE,
               !.fast = mode.fast /\ ~user.indicator,
               !.fired = [v \in Events |-> 0]]
          /\ clock' = IF partial THEN Now ELSE clock
          /\ sells' = IF day = WithdrawDay THEN sells + WithdrawQty ELSE sells
  /\ UNCHANGED <<mode, book, price, priceDay, user>>

NextBar ==
  /\ Walking("open") /\ Upcoming # {}
  /\ LET t == Min(Upcoming) IN
     /\ ses' = [ses EXCEPT !.at = t, !.phase = IF ses.fast THEN "prices" ELSE "sells"]
     /\ clock' = t
  /\ UNCHANGED <<mode, book, price, priceDay, sells, user>>

\* _place_withdraw_sells: the walk's first bar only, at the price before it.
Withdraw ==
  /\ Walking("sells")
  /\ LET held == IF book.qty > 0 THEN book.qty ELSE 0
         q    == Lower(sells, held)
         sold == q > 0 /\ price > 0
     IN  /\ book' = IF sold THEN Market(book, [kind |-> "market", qty |-> -q,
                                               lim |-> None, stop |-> None])
                    ELSE book
         /\ user' = [user EXCEPT !.acting = sold]
  /\ sells' = 0
  /\ ses' = [ses EXCEPT !.phase = "pre",
                        !.due = IF mode.daily /\ ~ses.first THEN DueBefore(Close)
                                ELSE {}]
  /\ UNCHANGED <<mode, clock, price, priceDay>>

\* _run_pre_bar_events: each at its own time, on yesterday's prices.
PreBarEvent ==
  /\ Walking("pre") /\ ses.due # {} /\ ~user.quit
  /\ \E v \in ses.due :
       /\ \A w \in ses.due : Fires[v] <= Fires[w]
       /\ ses' = [ses EXCEPT !.due = @ \ {v}, !.fired[v] = @ + 1]
       /\ clock' = Fires[v]
  /\ user' = [user EXCEPT !.acting = TRUE]
  /\ UNCHANGED <<mode, book, price, priceDay, sells>>

PreBarDone ==
  /\ Walking("pre") /\ (ses.due = {} \/ user.quit)
  /\ clock' = IF user.quit /\ mode.daily THEN clock
              ELSE IF ses.data = "partial" THEN Now ELSE ses.at
  /\ ses' = CASE ses.data = "partial" -> [ses EXCEPT !.phase = "halt", !.due = {}]
              [] ses.data # "partial" /\ user.quit /\ mode.daily -> Enter("close")
              [] OTHER -> [ses EXCEPT !.phase = "prices"]
  /\ UNCHANGED <<mode, book, price, priceDay, sells, user>>

TakePrices ==
  /\ Walking("prices")
  /\ price' = ses.bars[ses.at].c
  /\ priceDay' = ses.day
  /\ ses' = Enter("moo")
  /\ UNCHANGED <<mode, book, clock, sells, user>>

\* What a phase does to one ticket of its snapshot.
Handle(ph, i) ==
  LET bar == ses.bars[ses.at]
      edge(kind, px) == IF IsOpen(book, i) /\ Kind(i) = kind
                        THEN Fill(book, i, px) ELSE book
  IN  CASE ph = "moo" -> IF mode.daily /\ book.tickets[i].day = ses.day
                         THEN book ELSE edge("moo", bar.o)
        [] ph = "pass1" -> CheckResting(book, i, bar, ses.at <= ses.primed)
        [] ph = "pass2" -> CheckResting(book, i, bar, TRUE)
        [] ph = "late"  -> edge("moo", price)
        [] OTHER        -> edge("moc", price)

\* One ticket of the snapshot; a status that changed was emitted.
Visit(ph) ==
  /\ Walking(ph) /\ ses.snap # {}
  /\ LET i == Min(ses.snap) IN
     /\ book' = Handle(ph, i)
     /\ ses' = [ses EXCEPT !.snap = @ \ {i}]
     /\ user' = [user EXCEPT !.acting = book'.tickets[i].status # book.tickets[i].status]
  /\ UNCHANGED <<mode, clock, price, priceDay, sells>>

Leave(ph, next) ==
  /\ Walking(ph) /\ ses.snap = {}
  /\ ses' = Enter(next)
  /\ UNCHANGED <<mode, book, clock, price, priceDay, sells, user>>

OnData ==
  /\ Walking("data")
  /\ ses' = [ses EXCEPT !.phase = "check"]
  /\ user' = [user EXCEPT !.acting = mode.ondata]
  /\ UNCHANGED <<mode, book, clock, price, priceDay, sells>>

\* Mutant: the primed frontier is ignored.
ScheduledAnyway ==
  {v \in Events : /\ mode.daily => Fires[v] >= Close
                  /\ ses.prevT < Fires[v] /\ Fires[v] <= ses.at}

\* quit() is seen once on_data has returned, and not by the quiet-bar path.
\* The quiet-bar path puts each event at the first bar end from its time on.
Scheduled ==
  {v \in Events : /\ mode.daily => Fires[v] >= Close
                  /\ IF ses.fast THEN FirstFrom(Fires[v]) = {ses.at}
                     ELSE /\ ses.prevT < Fires[v] /\ Fires[v] <= ses.at
                          /\ ses.primed < Fires[v]}

CheckQuit ==
  /\ Walking("check")
  /\ ses' = IF user.quit /\ ~ses.fast
            THEN IF mode.warm THEN [ses EXCEPT !.phase = "halt"] ELSE Enter("close")
            ELSE [ses EXCEPT !.phase = "events", !.due = Scheduled]
  /\ UNCHANGED <<mode, book, clock, price, priceDay, sells, user>>

\* Scheduled events of this bar, in the order they were registered.
FireEvent ==
  /\ Walking("events") /\ ses.due # {}
  /\ LET v == Min(ses.due) IN
     ses' = [ses EXCEPT !.due = @ \ {v}, !.fired[v] = @ + 1]
  /\ user' = [user EXCEPT !.acting = TRUE]
  /\ UNCHANGED <<mode, book, clock, price, priceDay, sells>>

EventsDone ==
  /\ Walking("events") /\ ses.due = {}
  /\ ses' = Enter("pass2")
  /\ UNCHANGED <<mode, book, clock, price, priceDay, sells, user>>

\* The bar is over.  A minute indicator registered during a visit hands the rest
\* of the day to the walk.
BarDone ==
  /\ Walking("late") /\ ses.snap = {}
  /\ LET stop == user.quit /\ ~ses.fast
         over == [ses EXCEPT !.phase = "open", !.prevT = ses.at, !.first = TRUE,
                             !.fast = @ /\ ~user.indicator]
     IN  ses' = IF ~stop THEN over
                ELSE IF mode.warm THEN [over EXCEPT !.phase = "halt"]
                ELSE [Enter("close") EXCEPT !.first = TRUE, !.prevT = ses.at]
  /\ UNCHANGED <<mode, book, clock, price, priceDay, sells, user>>

\* WarmPyEngine.prime: the wall clock has passed events no bar has run.  They run
\* on a quote, at their own times; the bar will not run them again.
Prime ==
  /\ mode.warm /\ Walking("open")
  /\ \E w \in Walls, quote \in Quotes \cup {price} :
       LET due == {v \in Events : /\ Higher(ses.prevT, ses.primed) < Fires[v]
                                  /\ Fires[v] <= w}
       IN  /\ w >= ses.at /\ due # {}
           /\ price' = quote
           /\ ses' = [ses EXCEPT !.phase = "prime", !.due = due, !.wall = w]
  /\ priceDay' = ses.day
  /\ UNCHANGED <<mode, book, clock, sells, user>>

PrimeEvent ==
  /\ Walking("prime") /\ ses.due # {} /\ ~user.quit
  /\ \E v \in ses.due :
       /\ \A w \in ses.due : Fires[v] < Fires[w] \/ (Fires[v] = Fires[w] /\ v <= w)
       /\ ses' = [ses EXCEPT !.due = @ \ {v}, !.fired[v] = @ + 1]
       /\ clock' = Fires[v]
  /\ user' = [user EXCEPT !.acting = TRUE]
  /\ UNCHANGED <<mode, book, price, priceDay, sells>>

PrimeDone ==
  /\ Walking("prime") /\ (ses.due = {} \/ user.quit)
  /\ ses' = IF user.quit THEN [ses EXCEPT !.phase = "halt"]
            ELSE [ses EXCEPT !.phase = "open", !.primed = Higher(@, ses.wall)]
  /\ UNCHANGED <<mode, book, clock, price, priceDay, sells, user>>

\* _end_session: market-on-close, then the end-of-day hooks.
EndSession ==
  /\ Walking("open") /\ Upcoming = {}
  /\ ses' = Enter("close")
  /\ UNCHANGED <<mode, book, clock, price, priceDay, sells, user>>

EndOfDay ==
  /\ Walking("close") /\ ses.snap = {}
  /\ ses' = [ses EXCEPT !.phase = "eod"]
  /\ user' = [user EXCEPT !.acting = TRUE]
  /\ UNCHANGED <<mode, book, clock, price, priceDay, sells>>

NextDay ==
  /\ Walking("eod")
  /\ ses' = [ses EXCEPT !.phase = IF user.quit THEN "halt" ELSE "idle"]
  /\ UNCHANGED <<mode, book, clock, price, priceDay, sells, user>>

-----------------------------------------------------------------------------
(* The algorithm, while one of its callbacks is on the stack.               *)

Place ==
  /\ user.acting /\ Len(book.tickets) < MaxTickets
  /\ \E o \in mode.orders : book' = PlaceOrder(book, o)
  /\ UNCHANGED <<mode, ses, clock, price, priceDay, sells, user>>

Meddle == user.acting /\ user.ops < MaxOps

Cancel ==
  /\ Meddle
  /\ \E i \in OpenTickets(book) : book' = SetStatus(book, i, "canceled")
  /\ user' = [user EXCEPT !.ops = @ + 1]
  /\ UNCHANGED <<mode, ses, clock, price, priceDay, sells>>

\* OrderBook.update keeps the creation time, the trigger leg and what is not
\* given; a trailing stop's trail is not among the fields.
Amended(tk, o) == [tk EXCEPT !.qty = o.qty,
                             !.stop = IF o.stop = None THEN @ ELSE o.stop,
                             !.lim = IF o.kind = "trail" THEN @ ELSE o.lim]

Update ==
  /\ Meddle
  /\ \E i \in OpenTickets(book), o \in mode.orders :
       /\ o.kind = Kind(i)
       /\ book' = [book EXCEPT !.tickets[i] = Amended(@, o)]
  /\ user' = [user EXCEPT !.ops = @ + 1]
  /\ UNCHANGED <<mode, ses, clock, price, priceDay, sells>>

Quit ==
  /\ Meddle /\ ~user.quit
  /\ user' = [user EXCEPT !.quit = TRUE, !.ops = @ + 1]
  /\ UNCHANGED <<mode, ses, book, clock, price, priceDay, sells>>

RegisterIndicator ==
  /\ Meddle /\ mode.fast /\ ~user.indicator
  /\ user' = [user EXCEPT !.indicator = TRUE, !.ops = @ + 1]
  /\ UNCHANGED <<mode, ses, book, clock, price, priceDay, sells>>

Return ==
  /\ user.acting
  /\ user' = [user EXCEPT !.acting = FALSE]
  /\ UNCHANGED <<mode, ses, book, clock, price, priceDay, sells>>

-----------------------------------------------------------------------------
Init ==
  /\ mode \in Modes
  /\ ses = [day |-> 0, data |-> "data", bars |-> [e \in Ends |-> NoBar], at |-> 0,
            phase |-> "idle", snap |-> {}, due |-> {}, prevT |-> 0, primed |-> 0,
            wall |-> 0, first |-> FALSE, fast |-> FALSE,
            fired |-> [v \in Events |-> 0]]
  /\ book = [cash |-> Cash, qty |-> 0, tickets |-> <<>>, taken |-> {}, fills |-> <<>>]
  /\ clock = 0 /\ price = 0 /\ priceDay = 0 /\ sells = 0
  /\ user = [acting |-> FALSE, quit |-> FALSE, indicator |-> FALSE, ops |-> 0]

Loop ==
  \/ BeginSession \/ NextBar \/ Withdraw \/ PreBarEvent \/ PreBarDone \/ TakePrices
  \/ \E ph \in {"moo", "pass1", "moc", "pass2", "late", "close"} : Visit(ph)
  \/ Leave("moo", "pass1") \/ Leave("pass1", "moc") \/ Leave("moc", "data")
  \/ OnData \/ CheckQuit \/ FireEvent \/ EventsDone \/ Leave("pass2", "late")
  \/ BarDone \/ Prime \/ PrimeEvent \/ PrimeDone \/ EndSession \/ EndOfDay \/ NextDay

Algorithm == Place \/ Cancel \/ Update \/ Quit \/ RegisterIndicator \/ Return

Next == Loop \/ Algorithm

Spec == Init /\ [][Next]_vars

-----------------------------------------------------------------------------
(* Properties.                                                              *)

Statuses == {"submitted", "filled", "canceled", "invalid"}

\* Type correctness: the bar, the ledger rows taken and the price are ones there
\* are, the loop's snapshot holds only tickets that were created and its due list
\* only events, and no ticket outlives the step that made it without a status.
TypeOK ==
  /\ mode \in Modes /\ ses.day \in 0..Len(Days) /\ ses.at \in Ends \cup {0}
  /\ ses.snap \subseteq DOMAIN book.tickets /\ ses.due \subseteq Events
  /\ \A i \in DOMAIN book.tickets : book.tickets[i].status \in Statuses
  /\ book.taken \subseteq DOMAIN Rows /\ price \in Nat
  /\ user.ops \in 0..MaxOps

Precedes(tk, f) == tk.day < f.day \/ (tk.day = f.day /\ tk.ms < f.at)

\* A market order filled where it was placed takes the current price instead, and
\* so do the session's edges of a live minute run and a minute session's close.
PricedByABar(f) ==
  /\ Kind(f.id) # "market"
  /\ f.phase \in {"moo", "pass1", "pass2"} \/ (f.phase = "moc" /\ mode.daily)

\* The order was placed at this very bar end, before the pass that filled it
\* looked: it is a withdrawal's sale, or was placed by that sale's event, by an
\* event run ahead of the bar, by the event of a market-on-open fill or, before a
\* daily close, by the event of a fill in pass 1.
PlacedAhead(tk, f) ==
  /\ tk.day = f.day /\ tk.ms = f.at
  /\ \/ tk.by \in {"pre", "moo"}
     \/ tk.by = "sells" /\ f.phase = "moo"
     \/ tk.by = "pass1" /\ f.phase = "moc"

\* A bar cannot fill an order that did not exist when it closed: every fill the
\* model takes from a bar, the open of a session's first one included, is of an
\* order created strictly before that bar's end, through both passes, the callbacks
\* they run and updates that keep the creation time.  Two cases are excepted, which
\* BarsFillTheLiving includes: bars that land behind a prime, and orders placed at
\* the bar's end itself by a callback the loop runs before it looks.
NoLookahead ==
  \A k \in DOMAIN book.fills :
    LET f == book.fills[k]
        tk == book.tickets[f.id]
    IN  f.rows = {} /\ PricedByABar(f) /\ ~f.late
        => Precedes(tk, f) \/ PlacedAhead(tk, f)

\* The same without exception: "a bar that ended before the order existed can't
\* fill it" (_step_bar).
BarsFillTheLiving ==
  \A k \in DOMAIN book.fills :
    LET f == book.fills[k] IN
    f.rows = {} /\ PricedByABar(f) => Precedes(book.tickets[f.id], f)

Bought(f) == IF f.rows = {} THEN book.tickets[f.id].qty
             ELSE SumOver(f.rows, LAMBDA r : Rows[r].qty)

\* A ticket is filled once: the filled tickets are the ones with a fill, one each.
FilledOnce ==
  /\ \A k, m \in DOMAIN book.fills : k # m => book.fills[k].id # book.fills[m].id
  /\ {book.fills[k].id : k \in DOMAIN book.fills}
       = {i \in DOMAIN book.tickets : book.tickets[i].status = "filled"}

\* The sleeve is what its orders did: the filled tickets are the ones with a
\* fill, and the position and the cash are the sums over all their executions,
\* partial fills of one broker order together.
SleeveIsItsFills ==
  LET paid(k) == IF book.fills[k].rows = {} THEN Bought(book.fills[k]) * book.fills[k].px
                 ELSE SumOver(book.fills[k].rows, LAMBDA r : Rows[r].qty * Rows[r].px)
  IN  /\ FilledOnce
      /\ book.qty = SumOver(DOMAIN book.fills, LAMBDA k : Bought(book.fills[k]))
      /\ book.cash = Cash - SumOver(DOMAIN book.fills, paid)

\* An order that was filled, canceled or refused stays so: no pass still holding
\* it in its snapshot, no session edge and no broker row brings it back.
TicketEndsOnce ==
  [][\A i \in DOMAIN book.tickets :
       book.tickets[i].status # "submitted" => book'.tickets[i] = book.tickets[i]]_vars

\* A stored execution reaches the sleeve at most once, whichever of take and the
\* fill pump gets to it first, and one fill's executions are one order's.
RowsOnce ==
  /\ book.taken = UNION {book.fills[k].rows : k \in DOMAIN book.fills}
  /\ \A k, m \in DOMAIN book.fills :
       k # m => book.fills[k].rows \cap book.fills[m].rows = {}
  /\ \A k \in DOMAIN book.fills : \A q, r \in book.fills[k].rows :
       Rows[q].oid = Rows[r].oid /\ Rows[q].day = Rows[r].day

\* Every scheduled event runs exactly once on a day that was run to its end:
\* between a prime and the bars that land after it, between the bar before the
\* close and the bar at it, on visited bars or on all of them.
EventsOnce ==
  \A v \in Events :
    /\ ses.fired[v] <= 1
    /\ ses.phase = "eod" /\ ~user.quit =>
         (ses.fired[v] = 1 <=> Fires[v] <= Higher(ses.at, ses.primed))

\* Nothing happens twice: no row, no event, no end of a ticket.
OnceEach == [](RowsOnce /\ EventsOnce) /\ TicketEndsOnce

\* The broker's fill of this resting order that the bar ending at e would adopt.
Reported(i, e) ==
  /\ mode.ledger /\ ses.day >= Reconciled
  /\ \E r \in DOMAIN Rows \ book.taken :
       Rows[r].day = ses.day /\ Rows[r].tag = i /\ Rows[r].ms < e

\* The quiet-bar path skips only bars that would have changed nothing: no resting
\* order, whatever its kind and its trigger leg, would act on them.  One thing is
\* excepted: a live replay takes this path with a ledger, and the scan does not
\* look there, so a broker's fill of a resting order waits for the next bar visited.
QuietBars ==
  [][ses.fast /\ ses'.at > ses.at =>
       \A e \in Printed : ses.at < e /\ e < ses'.at =>
         \A i \in OpenTickets(book) :
           \/ Carried \/ Reported(i, e)
           \/ CheckResting(book, i, ses.bars[e], FALSE) = book]_vars
=============================================================================
