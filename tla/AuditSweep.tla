----------------------------- MODULE AuditSweep -----------------------------
(* One connection's auditor sweep from inside: what reconcile() reads, in   *)
(* which order, what it decides from it and what it puts on the wire, while *)
(* the venue fills orders and the deployment folds and decides.             *)
(* Sweeps of one connection never overlap (the connection's lock), so there *)
(* is one sweep at a time; two processes are OrderJournal's subject and the *)
(* fast path, with its book, DirectSubmit's.                                *)
(*                                                                         *)
(* Fills are whole.  Quantities are in units of which QtyStep make the      *)
(* smallest order; prices are in tenths of a cent, so that the comparisons  *)
(* of resting levels, exact to 0.4 cent or to the cent of a client id's     *)
(* token, are those of the code.                                            *)
EXTENDS Integers, Sequences, FiniteSets, FiniteSetsExt, SequencesExt

CONSTANTS
  Symbols,        \* what the deployment trades
  Payloads,       \* the positions payloads a tick may publish for a symbol
  Venues,         \* the capabilities a broker may have
  Starts,         \* venues with what the owner holds at them, and has kept
  QtyStep,        \* caps.qty_step
  Budget,         \* rails.max_orders_per_sync
  OrderCap,       \* rails.max_order_notional
  CrossTol,       \* how far a limit may cross the market, in price units
  Band,           \* how far any level may sit from the market
  RefusedMax,     \* REFUSED_MAX_PER_DAY
  BuyingPower,    \* the cached balance's proof, in notional
  MaxOrders,      \* bounds of the model: orders sent,
  MaxSweeps,      \*   sweeps,
  MaxDecisions,   \*   payloads taken,
  MaxFaults       \*   refusals, rate limits and lost answers

Kinds == {"market", "moc", "limit", "stop"}
Payload == [qty : Int, exits : SUBSET [kind : {"limit", "stop"}, level : Nat],
            entries : SUBSET [kind : {"limit", "stop"}, level : Nat, qty : Nat],
            ticket : Int, px : Nat]

ASSUME SweepBounds ==
  /\ QtyStep \in Nat \ {0} /\ Budget \in Nat /\ RefusedMax \in Nat
  /\ {MaxOrders, MaxSweeps, MaxDecisions, MaxFaults} \subseteq Nat
  /\ IsFiniteSet(Symbols)
  /\ Payloads \subseteq Payload
  /\ Venues \subseteq [cids : BOOLEAN, ackIds : BOOLEAN, fillIds : BOOLEAN,
                       levels : BOOLEAN, replace : BOOLEAN, shorts : BOOLEAN,
                       native : SUBSET Kinds]
  /\ Starts \subseteq [venue : Venues, owner : Nat, kept : Nat]

VARIABLES
  caps,       \* the broker's capabilities
  acct,       \* per symbol: the account, the owner's shares and the books
  plan,       \* per symbol: the payload in the deployment's row
  orders,     \* every order sent, with its row and its fill
  day,        \* what the day has accumulated: rows, refusals, the gateway
  left,       \* what remains of the bounds
  sw          \* the sweep in progress

vars == <<caps, acct, plan, orders, day, left, sw>>

-----------------------------------------------------------------------------
(* Numbers and ids.                                                        *)

Abs(n) == IF n < 0 THEN -n ELSE n
Sign(n) == IF n < 0 THEN -1 ELSE IF n > 0 THEN 1 ELSE 0
RoundStep(q) == Sign(q) * ((Abs(q) \div QtyStep) * QtyStep)
Signed(o) == o.side * o.qty
Ids == DOMAIN orders
Total(S) == MapThenSumSet(LAMBDA i : Signed(orders[i]), S)

Resting(i) == orders[i].at = "resting"
OnBook(s) == {i \in Ids : orders[i].sym = s /\ Resting(i)}
Unfolded(i) == orders[i].at = "filled" /\ ~orders[i].folded

(* A level as the token of a client order id carries it: whole cents.      *)
QuantizeLevel(l) == ((l + 5) \div 10) * 10

(* The level a resting order is compared by: what the broker reports, or   *)
(* what the token says when it reports none (a take-profit's always is).   *)
RestingLevel(o) ==
  IF o.kind = "limit" \/ caps.levels THEN o.level ELSE QuantizeLevel(o.level)
WantedLevel(w) ==
  IF w.kind = "limit" \/ caps.levels \/ ~caps.cids THEN w.level ELSE QuantizeLevel(w.level)
Tolerance == 4
RoughLevel(o, w) == Abs(RestingLevel(o) - WantedLevel(w)) <= 10 * Tolerance
SameLevel(o, w) == Abs(RestingLevel(o) - WantedLevel(w)) <= Tolerance
Changed(o, w) == ~SameLevel(o, w) \/ o.qty # w.qty

-----------------------------------------------------------------------------
(* What a payload wants at the broker.                                     *)

ExitWants(s, p) ==
  IF p.qty = 0 THEN {}
  ELSE {[sym |-> s, fam |-> "exit", kind |-> e.kind, level |-> e.level,
         side |-> -Sign(p.qty), qty |-> RoundStep(Abs(p.qty)), short |-> FALSE] : e \in p.exits}
EntryWants(s, p) ==
  {[sym |-> s, fam |-> "entry", kind |-> e.kind, level |-> e.level, side |-> 1,
    qty |-> RoundStep(e.qty), short |-> FALSE] : e \in p.entries}

(* Of a bracket only the protective leg rests; the take-profit is left to  *)
(* the replay.                                                             *)
TpSimulated(w, p) == w.kind = "limit" /\ Cardinality(p.exits) > 1
NativeExits(s, p) == {w \in ExitWants(s, p) : ~TpSimulated(w, p)}

(* A limit that would be filled at once, or that sits absurdly far.        *)
LimitCrosses(w, px) ==
  /\ px > 0
  /\ \/ w.side < 0 /\ w.level < px - CrossTol
     \/ w.side > 0 /\ w.level > px + CrossTol
     \/ Abs(w.level - px) > Band
StopOnWrongSide(w, px) ==
  IF w.side < 0 THEN w.level >= px ELSE w.level <= px
StopRefused(w, px) ==
  px > 0 /\ (StopOnWrongSide(w, px) \/ Abs(w.level - px) > Band)
LevelRefused(w, px) ==
  IF w.kind = "limit" THEN LimitCrosses(w, px) ELSE StopRefused(w, px)

(* The owner's kept shares in the account: never more than it holds beyond *)
(* the deployments' books.                                                 *)
KeptNow(pos, kept, booked) == Min({kept, Max({pos - booked, 0})})

(* What the payload says near the close (daily_preview): a ticket resting   *)
(* in the sleeve is in the target, and listed as an on-close order, from   *)
(* the moment it rests where the venue takes such orders and the cutoff is *)
(* not past, and else from a minute before the close; a venue that takes   *)
(* them sees no listing after the cutoff.                                  *)
TakesMoc == "moc" \in caps.native
InTarget(phase) == phase = "last minute" \/ (phase = "early" /\ TakesMoc)
Listed(phase) == phase = (IF TakesMoc THEN "early" ELSE "last minute")
Published(p, phase) ==
  [p EXCEPT !.qty = @ + (IF InTarget(phase) THEN p.ticket ELSE 0)]

-----------------------------------------------------------------------------
(* The sweep's reading of the database.                                    *)

OpenRow(o) == o.row \in {"sending", "open"}
FilledRow(o) == o.row \in {"filled", "folded"}
FoldedIds == {i \in Ids : orders[i].folded}

(* Does what the sleeve has folded equal the filled rows, side by side?    *)
SidesAgree(s, folded) ==
  \A side \in {-1, 1} :
    MapThenSumSet(LAMBDA i : orders[i].qty,
                  {i \in folded : orders[i].sym = s /\ orders[i].side = side})
    = MapThenSumSet(LAMBDA i : orders[i].qty,
                    {i \in Ids : /\ FilledRow(orders[i])
                                 /\ orders[i].sym = s /\ orders[i].side = side})

(* The fold-lift: the filled rows of a symbol whose sides agree.           *)
Lifted(folded) ==
  {i \in Ids : orders[i].row = "filled" /\ SidesAgree(orders[i].sym, folded)}
LiftRows(L) == [i \in Ids |-> IF i \in L THEN [orders[i] EXCEPT !.row = "folded"] ELSE orders[i]]

Gates(folded, aged) ==
  LET L == Lifted(folded) IN
  [unresolved |-> IF aged THEN {orders[i].sym : i \in {j \in Ids : orders[j].row = "sending"}} ELSE {},
   unfolded |-> {orders[i].sym : i \in {j \in Ids \ L : orders[j].row = "filled"}},
   open |-> {i \in Ids : OpenRow(orders[i])}]

(* The day's stored fills that carry one of the executor's own client ids, *)
(* an entry's left out, less what the sleeve has folded.                   *)
FillsOfOurs(s) ==
  Total({i \in Ids : /\ orders[i].sym = s /\ orders[i].stored
                     /\ caps.fillIds /\ orders[i].fam # "entry"})
FoldDiff(folded) ==
  [s \in Symbols |-> FillsOfOurs(s) - Total({i \in folded : orders[i].sym = s})]

-----------------------------------------------------------------------------
(* What the sweep decides from its reads.                                  *)

Moc(s) == IF Listed(sw.phase) THEN sw.want[s].ticket ELSE 0
Seen(s) == {i \in sw.seen : orders[i].sym = s}
SeenOf(s, fam, kind) == {i \in Seen(s) : orders[i].fam = fam /\ orders[i].kind = kind}

(* The order an exit or entry already has: by the prefix of its client id, *)
(* or, at a venue without ids, by side, kind, size and level.              *)
Existing(w) ==
  IF caps.cids THEN SeenOf(w.sym, w.fam, w.kind)
  ELSE {i \in Seen(w.sym) : /\ orders[i].kind = w.kind /\ orders[i].side = w.side
                            /\ ~Changed(orders[i], w)}

Pending(s) ==
  Total({i \in Seen(s) : IF caps.cids THEN orders[i].fam = "mkt" ELSE orders[i].kind = "market"})
Hidden(s) == {i \in sw.gates.open : orders[i].sym = s} \ sw.seen
Effective(s) == sw.have[s] + Pending(s) + sw.mocNative[s]
Delta(s) == RoundStep(sw.want[s].qty - Effective(s))

FoldExplains(s, d) == sw.diff[s] # 0 /\ Abs(d + sw.diff[s]) < Abs(d)

FrozenUnlessFolded(s) ==
  s \in sw.gates.unresolved \/ (caps.cids /\ Hidden(s) # {}) \/ FoldExplains(s, Delta(s))
Frozen(s) ==
  \/ s \in sw.gates.unresolved
  \/ s \in sw.gates.unfolded
  \/ caps.cids /\ Hidden(s) # {}
  \/ FoldExplains(s, Delta(s))

OverCap(s) == Abs(Delta(s)) * sw.want[s].px > OrderCap
TradesIntoKept(s) ==
  \/ sw.keptNow[s] > 0 /\ sw.want[s].qty < 0
  \/ s \in sw.keptShort /\ Delta(s) < 0

(* A trade through zero goes to flat first; what is left follows.          *)
CrossesZero(s) ==
  /\ Sign(Effective(s)) * Sign(Delta(s)) < 0
  /\ Sign(Effective(s)) * Sign(Effective(s) + Delta(s)) < 0
Part(s) ==
  IF CrossesZero(s) /\ RoundStep(Effective(s)) # 0 THEN RoundStep(-Effective(s)) ELSE Delta(s)
OpensShort(s) ==
  /\ Delta(s) < 0
  /\ \/ Effective(s) <= 0
     \/ CrossesZero(s) /\ RoundStep(Effective(s)) = 0
ShortWaits(s) == OpensShort(s) /\ RoundStep(sw.have[s]) > 0

RefusalKey(w) == <<w.sym, w.side, w.qty>>
Refusals(w) ==
  IF BagIn(RefusalKey(w), day.refused) THEN day.refused[RefusalKey(w)] ELSE 0
MarketOrder(s) ==
  [sym |-> s, fam |-> "mkt", kind |-> "market", level |-> 0, side |-> Sign(Part(s)),
   qty |-> Abs(Part(s)), short |-> OpensShort(s)]
RefusedTooOften(s) ==
  /\ Refusals(MarketOrder(s)) >= RefusedMax
  /\ Abs(Effective(s) + Part(s)) > Abs(Effective(s))

Tradable(s) ==
  /\ Delta(s) # 0 /\ ~Frozen(s)
  /\ sw.want[s].px > 0 /\ ~OverCap(s)
  /\ ~TradesIntoKept(s) /\ ~ShortWaits(s) /\ ~RefusedTooOften(s)

(* The on-close ticket of a symbol, cut at zero, if it is to be sent.      *)
MocHave(s) == sw.have[s] + sw.mocNative[s]
MocPending(s) == SeenOf(s, "moc", "moc")
MocQty(s) ==
  LET q == Abs(RoundStep(Moc(s)))
      h == MocHave(s)
      through == Sign(Moc(s)) * Sign(h) < 0 /\ Abs(h) < q
  IN  IF through /\ RoundStep(h) # 0 THEN Abs(RoundStep(h)) ELSE q
MocOrder(s) ==
  [sym |-> s, fam |-> "moc", kind |-> "moc", level |-> 0, side |-> Sign(Moc(s)),
   qty |-> MocQty(s), short |-> Moc(s) < 0 /\ RoundStep(MocHave(s)) <= 0]
MocHeld(s) ==
  /\ Moc(s) < 0
  /\ \/ sw.keptNow[s] > 0 /\ Abs(RoundStep(Moc(s))) > MocHave(s)
     \/ s \in sw.keptShort
MocSkipped(s) == s \in sw.done \/ MocOrder(s).qty = 0 \/ MocHeld(s)

(* Orders no payload wants any more: an exit or entry none of whose kind   *)
(* is wanted or, without ids, one that no want of its side matches.        *)
Wants(s) == NativeExits(s, sw.want[s]) \cup EntryWants(s, sw.want[s])
Claims(w, i) ==
  IF caps.cids THEN w.fam = orders[i].fam /\ w.kind = orders[i].kind
  ELSE w.kind = orders[i].kind /\ ~Changed(orders[i], w)
Taken(i, fam) == \E w \in Wants(orders[i].sym) : w.fam = fam /\ Claims(w, i)
Unwanted(i) ==
  /\ orders[i].kind \in {"limit", "stop"}
  /\ IF caps.cids THEN \E fam \in {"exit", "entry"} : orders[i].fam = fam /\ ~Taken(i, fam)
     ELSE \/ orders[i].side > 0 /\ ~Taken(i, "entry")
          \/ (orders[i].side < 0 \/ sw.have[orders[i].sym] < 0) /\ ~Taken(i, "exit")

(* The exits and entries that need something sent: their kind is native,   *)
(* their level is sane, an exit's shares are there, and the order resting  *)
(* for them, if any, is not what is wanted.                                *)
HeldFor(w) == IF Sign(sw.have[w.sym]) = -w.side THEN Abs(sw.have[w.sym]) ELSE 0
PriceNeeded(w) == w.fam = "entry" /\ w.kind = "stop"
Placeable(w) ==
  LET px == sw.want[w.sym].px IN
  /\ w.kind \in caps.native
  /\ PriceNeeded(w) => px > 0
  /\ ~LevelRefused(w, px)
  /\ w.qty * w.level <= OrderCap
  /\ IF w.fam = "exit" THEN HeldFor(w) >= w.qty
     ELSE w.qty > 0 /\ ~FoldExplains(w.sym, w.qty)
Old(w) == Min(Existing(w))
NeedsWork(w) ==
  Placeable(w) /\ (Existing(w) = {} \/ Changed(orders[Old(w)], w))
ToPlace(fam) ==
  {w \in UNION {Wants(s) : s \in Symbols} : w.fam = fam /\ NeedsWork(w)}

-----------------------------------------------------------------------------
(* The venue's answers.                                                    *)

(* Shares no resting sell has committed already.                           *)
Free(s) ==
  acct[s].pos
  - MapThenSumSet(LAMBDA i : orders[i].qty,
                  {i \in OnBook(s) : orders[i].side < 0 /\ ~orders[i].short})
Accepts(w) ==
  /\ w.qty > 0
  /\ w.side > 0 \/ (IF w.short THEN caps.shorts /\ acct[w.sym].pos <= 0 ELSE Free(w.sym) >= w.qty)

Faulty == left.faults > 0
Answers(w) ==
  IF day.shut THEN {"notready"}
  ELSE IF ~Accepts(w) THEN {"refused"}
  ELSE {"placed"} \cup (IF Faulty THEN {"refused", "limited", "lost", "lostPlaced"} ELSE {})
IsFault(w, a) == a \in {"limited", "lost", "lostPlaced"} \/ (a = "refused" /\ Accepts(w))
Spent(f) == [left EXCEPT !.faults = @ - (IF f THEN 1 ELSE 0)]

(* The order with the row the write-ahead journal has for it afterwards.   *)
Sent(w, a) ==
  [sym |-> w.sym, fam |-> w.fam, kind |-> w.kind, level |-> w.level, side |-> w.side,
   qty |-> w.qty, short |-> w.short, boid |-> a = "placed" /\ caps.ackIds,
   at |-> IF a \in {"placed", "lostPlaced"} THEN "resting" ELSE "gone",
   row |-> IF a = "placed" THEN "open" ELSE IF a \in {"lost", "lostPlaced"} THEN "sending" ELSE "shut",
   stored |-> FALSE, folded |-> FALSE]

(* A submission answered: the order and its row, the refusal counted, the  *)
(* gateway tripped, what the sweep has recorded, what went wrong.          *)
Submitted(w, a) ==
  /\ Len(orders) < MaxOrders
  /\ orders' = IF a \in {"placed", "lost", "lostPlaced"} THEN Append(orders, Sent(w, a)) ELSE orders
  /\ day' = [day EXCEPT
       !.known = @ \cup {w.sym},
       !.refused = IF a = "refused" /\ w.fam = "mkt" /\ Refusals(w) < RefusedMax
                   THEN @ (+) SetToBag({RefusalKey(w)}) ELSE @]
  /\ left' = Spent(IsFault(w, a))
  /\ UNCHANGED <<caps, acct, plan>>

Noted(x, w, a) ==
  [x EXCEPT !.tripped = @ \/ a = "notready",
            !.verdict = IF a = "notready" /\ ~x.tripped THEN "trip" ELSE @,
            !.raised = @ \/ a \in {"lost", "lostPlaced"},
            !.mocSent = @ \cup (IF a = "placed" /\ w.fam = "moc" THEN {w.sym} ELSE {}),
            !.turned = @ \cup (IF a = "placed" THEN {} ELSE {w}),
            !.clean = @ /\ a = "placed"]

(* What act() lets through: nothing but cancels once the gateway tripped,  *)
(* nothing at all once the order budget is spent.                          *)
MaySubmit == ~sw.tripped /\ sw.budget > 0
Blocked(x) == [x EXCEPT !.clean = FALSE, !.exhausted = @ \/ (~sw.tripped /\ sw.budget = 0)]

(* The adapters swallow what the venue answers to a cancel: it reads as    *)
(* done when the order had filled and when the cancel failed.  Where the   *)
(* broker's id has to be looked up first, that may go unanswered.          *)
CancelAnswers(i) ==
  {"ok"} \cup (IF Faulty /\ Resting(i) THEN {"swallowed"} ELSE {})
         \cup (IF Faulty /\ ~caps.ackIds THEN {"lost"} ELSE {})

(* A cancel answered: its row closes when the journal finds it, by the     *)
(* client id the release pass names or by the broker's id.                 *)
Cancelled(i, named, a) ==
  /\ orders' = [orders EXCEPT
       ![i].at = IF a = "ok" /\ Resting(i) THEN "gone" ELSE @,
       ![i].row = IF a # "lost" /\ OpenRow(orders[i]) /\ (named \/ orders[i].boid)
                  THEN "shut" ELSE @]
  /\ left' = Spent(a # "ok")
  /\ UNCHANGED <<caps, acct, plan, day>>
CancelNoted(x, a) ==
  [x EXCEPT !.raised = @ \/ a = "lost", !.clean = @ /\ a = "ok", !.budget = @ - 1]

-----------------------------------------------------------------------------
(* The sweep.                                                              *)

At(p) == sw.pc = p
Idle == [pc |-> "idle"]
Env == <<caps, acct, plan, day, left>>
Goto(p) == sw' = [sw EXCEPT !.pc = p]

NewSweep(deferred, aged) ==
  [pc |-> "polling", paused |-> day.paused, deferred |-> deferred, pollOk |-> TRUE,
   want |-> [s \in Symbols |-> Published(plan[s], day.phase)], phase |-> day.phase, books |-> [s \in Symbols |-> acct[s].booked],
   kept |-> [s \in Symbols |-> acct[s].kept],
   done |-> day.mocDone, known |-> day.known,
   gates |-> Gates(FoldedIds, aged), diff |-> FoldDiff(FoldedIds), folded |-> FoldedIds,
   have |-> [s \in Symbols |-> 0], keptNow |-> [s \in Symbols |-> 0], keptShort |-> {},
   seen |-> {}, mocNative |-> [s \in Symbols |-> 0], budget |-> Budget, tripped |-> FALSE,
   verdict |-> "none", todo |-> {}, later |-> {}, cut |-> {}, mocSent |-> {},
   raised |-> FALSE, clean |-> TRUE, exhausted |-> FALSE, surprised |-> {}, turned |-> {}]

(* The gather block: one read of the database before the lock's work.      *)
Gather(deferred, aged) ==
  /\ At("idle")
  /\ aged => \E i \in Ids : orders[i].row = "sending"
  /\ left.sweeps > 0 /\ left' = [left EXCEPT !.sweeps = @ - 1]
  /\ sw' = NewSweep(deferred, aged)
  /\ orders' = LiftRows(Lifted(FoldedIds))
  /\ UNCHANGED <<caps, acct, plan, day>>

(* The executions poll: every fill the venue has is stored and its row     *)
(* closed when a client or broker id names it, then the gates are read     *)
(* again.  In the close window the poll waits for the end of the sweep.    *)
FillFound(i) == caps.fillIds \/ orders[i].boid
PolledListed ==
  [i \in Ids |-> IF orders[i].at = "gone" \/ orders[i].stored THEN orders[i]
                 ELSE [orders[i] EXCEPT !.stored = TRUE, !.row = "filled"]]
Polled ==
  [i \in Ids |-> IF orders[i].at # "filled" \/ orders[i].stored THEN orders[i]
                 ELSE [orders[i] EXCEPT
                        !.stored = TRUE,
                        !.row = IF @ # "none" /\ FillFound(i) THEN "filled" ELSE @]]

Poll ==
  /\ At("polling") /\ ~sw.deferred
  /\ \/ orders' = Polled /\ left' = left
        /\ Goto("gates")
     \/ /\ Faulty /\ left' = Spent(TRUE) /\ orders' = orders
        /\ sw' = [sw EXCEPT !.pc = "gates", !.pollOk = FALSE]
  /\ UNCHANGED <<caps, acct, plan, day>>
Refresh(aged) ==
  /\ At("gates")
  /\ aged => \E i \in Ids : orders[i].row = "sending"
  /\ sw' = [sw EXCEPT !.pc = "positions", !.gates = Gates(sw.folded, aged),
                      !.diff = FoldDiff(sw.folded)]
  /\ orders' = LiftRows(Lifted(sw.folded))
  /\ UNCHANGED Env
PollLater == At("polling") /\ sw.deferred /\ Goto("positions") /\ UNCHANGED <<orders, Env>>

(* reconcile() starts: nothing while paused; a standing backoff trips it.  *)
Paused == At("positions") /\ sw.paused /\ Goto("ending") /\ UNCHANGED <<orders, Env>>
Positions ==
  /\ At("positions") /\ ~sw.paused
  /\ LET kn == [s \in Symbols |-> KeptNow(acct[s].pos, sw.kept[s], sw.books[s])] IN
     sw' = [sw EXCEPT !.pc = "orders", !.keptNow = kn,
                      !.have = [s \in Symbols |-> acct[s].pos - kn[s]],
                      !.keptShort = {s \in Symbols : kn[s] < sw.kept[s]},
                      !.tripped = day.backoff, !.clean = ~day.backoff,
                      !.verdict = IF day.backoff THEN "trip" ELSE "none"]
  /\ UNCHANGED <<orders, Env>>

(* The first-sync preflight: shares in a symbol nobody here ever ordered   *)
(* or holds stop the whole sweep before anything is sent.                  *)
Unknown ==
  {s \in Symbols : /\ RoundStep(sw.have[s]) # 0 /\ s \notin sw.known
                   /\ RoundStep(sw.want[s].qty) = 0}
Orders ==
  /\ At("orders")
  /\ sw' = IF Unknown # {} THEN [sw EXCEPT !.pc = "aborted"]
           ELSE [sw EXCEPT !.pc = "closing", !.seen = {i \in Ids : Resting(i)},
                           !.todo = {s \in Symbols : Moc(s) # 0 /\ "moc" \in caps.native}]
  /\ UNCHANGED <<orders, Env>>

(* 0) On-close tickets.                                                    *)
Drop(x, w) == [x EXCEPT !.todo = @ \ {w}]
Or(x) == IF x.raised THEN [x EXCEPT !.pc = "aborted"] ELSE x
Net(x, s) == [x EXCEPT !.mocNative[s] = @ + Moc(s)]

CloseSkips(s) ==
  /\ At("closing") /\ s \in sw.todo
  /\ MocPending(s) # {} \/ MocSkipped(s) \/ ~MaySubmit
  /\ sw' = IF MocPending(s) # {} THEN Net(Drop(sw, s), s)
           ELSE IF MocSkipped(s) THEN Drop(sw, s) ELSE Blocked(Drop(sw, s))
  /\ UNCHANGED <<orders, Env>>
CloseSends(s) ==
  /\ At("closing") /\ s \in sw.todo
  /\ MocPending(s) = {} /\ ~MocSkipped(s) /\ MaySubmit
  /\ \E a \in Answers(MocOrder(s)) :
       /\ Submitted(MocOrder(s), a)
       /\ LET x == Noted([Drop(sw, s) EXCEPT !.budget = @ - 1], MocOrder(s), a) IN
          sw' = Or(IF a = "placed" THEN Net(x, s) ELSE x)
CloseDone ==
  /\ At("closing") /\ sw.todo = {}
  /\ sw' = [sw EXCEPT !.pc = "releasing", !.todo = {i \in sw.seen : Unwanted(i)}]
  /\ UNCHANGED <<orders, Env>>

(* 1) Cancel what is no longer wanted.                                     *)
Releases(i) ==
  /\ At("releasing") /\ i \in sw.todo
  /\ IF sw.budget = 0 THEN sw' = Blocked(Drop(sw, i)) /\ UNCHANGED <<orders, Env>>
     ELSE \E a \in CancelAnswers(i) :
            /\ Cancelled(i, caps.cids, a)
            /\ sw' = Or(CancelNoted(Drop(sw, i), a))
ReleaseDone == At("releasing") /\ sw.todo = {} /\ Goto("trading") /\ UNCHANGED <<orders, Env>>

(* 2) Market deltas: decided from the reads in one go, as many as the      *)
(* budget has room for, launched in parallel; unless the buying power      *)
(* proves the buys without the sells, the sells first.                     *)
Proven(buys) ==
  MapThenSumSet(LAMBDA w : w.qty * sw.want[w.sym].px, buys) <= BuyingPower
Trade ==
  /\ At("trading")
  /\ LET all == {MarketOrder(s) : s \in {t \in Symbols : Tradable(t)}} IN
     \E go \in SUBSET all :
       /\ Cardinality(go) = IF sw.tripped THEN 0 ELSE Min({Cardinality(all), sw.budget})
       /\ LET sells == {w \in go : w.side < 0}
              buys == go \ sells
              two == sells # {} /\ buys # {} /\ ~Proven(buys)
              x == [sw EXCEPT !.pc = "launching", !.budget = @ - Cardinality(go),
                              !.todo = IF two THEN sells ELSE go,
                              !.later = IF two THEN buys ELSE {}]
          IN  sw' = IF go = all THEN x ELSE Blocked(x)
  /\ UNCHANGED <<orders, Env>>

Launches(w) ==
  /\ At("launching") /\ w \in sw.todo
  /\ IF sw.tripped THEN sw' = Blocked(Drop(sw, w)) /\ UNCHANGED <<orders, Env>>
     ELSE \E a \in Answers(w) :
            /\ Submitted(w, a)
            /\ sw' = Noted(Drop(sw, w), w, a)
WaveDone ==
  /\ At("launching") /\ sw.todo = {}
  /\ sw' = IF sw.raised THEN Or(sw)
           ELSE IF sw.later # {} /\ ~sw.tripped THEN [sw EXCEPT !.todo = sw.later, !.later = {}]
           ELSE [sw EXCEPT !.pc = "exits", !.later = {}, !.todo = ToPlace("exit")]
  /\ UNCHANGED <<orders, Env>>

(* 3) and 4) Exits, then entries.  A level that moved is replaced where    *)
(* the venue can, else cancelled and sent again as a pair, which is left   *)
(* alone once the gateway tripped.                                         *)
Placing(w) == sw.pc \in {"exits", "entries"} /\ w \in sw.todo /\ sw.todo \cap sw.cut \subseteq {w}
Fresh(w) == Existing(w) = {} \/ w \in sw.cut
Replaces(w) == ~Fresh(w) /\ w.kind = "limit" /\ caps.replace
Pairs(w) == ~Fresh(w) /\ ~Replaces(w)

AlwaysPaired(w) == FALSE
LeftResting(w) == Pairs(w) /\ sw.tripped
PlaceBlocked(w) ==
  /\ Placing(w)
  /\ \/ LeftResting(w)
     \/ ~Pairs(w) /\ ~MaySubmit
     \/ Pairs(w) /\ sw.budget = 0
  /\ sw' = Blocked(Drop(sw, w))
  /\ UNCHANGED <<orders, Env>>
PlaceSends(w) ==
  /\ Placing(w) /\ Fresh(w) /\ MaySubmit
  /\ \E a \in Answers(w) :
       /\ Submitted(w, a)
       /\ sw' = Or(Noted([Drop(sw, w) EXCEPT !.budget = @ - 1], w, a))
PairCancels(w) ==
  /\ Placing(w) /\ Pairs(w) /\ ~LeftResting(w) /\ sw.budget > 0
  /\ \E a \in CancelAnswers(Old(w)) :
       /\ Cancelled(Old(w), FALSE, a)
       /\ sw' = Or(CancelNoted([sw EXCEPT !.cut = @ \cup {w}], a))
ReplaceAnswers(i) ==
  IF day.shut THEN {"notready"} ELSE IF ~Resting(i) THEN {"refused"}
  ELSE {"ok"} \cup (IF Faulty THEN {"refused", "lost", "lostDone"} ELSE {})
PlaceReplaces(w) ==
  /\ Placing(w) /\ Replaces(w) /\ MaySubmit
  /\ \E a \in ReplaceAnswers(Old(w)) :
       /\ orders' = IF a \in {"ok", "lostDone"}
                    THEN [orders EXCEPT ![Old(w)].qty = w.qty, ![Old(w)].level = w.level]
                    ELSE orders
       /\ left' = Spent(a # "ok" /\ ~day.shut /\ Resting(Old(w)))
       /\ sw' = Or([Noted([Drop(sw, w) EXCEPT !.budget = @ - 1], w, a) EXCEPT
                      !.clean = sw.clean /\ a = "ok", !.raised = a \in {"lost", "lostDone"}])
       /\ UNCHANGED <<caps, acct, plan, day>>
SectionDone ==
  /\ sw.pc \in {"exits", "entries"} /\ sw.todo = {}
  /\ sw' = IF At("exits") THEN [sw EXCEPT !.pc = "entries", !.todo = ToPlace("entry")]
           ELSE [sw EXCEPT !.pc = "ending"]
  /\ UNCHANGED <<orders, Env>>

(* The tail: the close window's poll, old `sending` rows resolved, the      *)
(* verdict on the gateway and the rows of the orders sent committed.       *)
LatePoll ==
  /\ At("ending") /\ sw.deferred
  /\ \/ orders' = Polled /\ left' = left /\ sw' = [sw EXCEPT !.deferred = FALSE]
     \/ /\ Faulty /\ left' = Spent(TRUE) /\ orders' = orders
        /\ sw' = [sw EXCEPT !.deferred = FALSE, !.pollOk = FALSE]
  /\ UNCHANGED <<caps, acct, plan, day>>

Resolved(i, age) ==
  CASE age # "young" /\ i \in sw.seen -> [orders[i] EXCEPT !.row = "open", !.boid = TRUE]
    [] age = "dead" /\ sw.pollOk /\ ~sw.paused /\ i \notin sw.seen -> [orders[i] EXCEPT !.row = "shut"]
    [] OTHER -> orders[i]
Sending == {i \in Ids : orders[i].row = "sending"}

Committed(backoff) == [day EXCEPT !.mocDone = @ \cup sw.mocSent, !.backoff = backoff]
Finish(age) ==
  /\ At("ending") /\ ~sw.deferred
  /\ Sending = {} => age = "young"
  /\ age = "dead" => \A i \in Sending : orders[i].at # "filled"
  /\ orders' = [i \in Ids |-> IF i \in Sending THEN Resolved(i, age) ELSE orders[i]]
  /\ day' = Committed(IF sw.paused THEN day.backoff ELSE sw.verdict = "trip")
  /\ sw' = Idle
  /\ UNCHANGED <<caps, acct, plan, left>>

(* An exception ends the sweep: no late poll, no recovery; the backoff is  *)
(* only ever entered by it.                                                *)
Abort ==
  /\ At("aborted")
  /\ day' = Committed(day.backoff \/ sw.verdict = "trip")
  /\ sw' = Idle
  /\ UNCHANGED <<caps, acct, plan, left, orders>>

-----------------------------------------------------------------------------
(* Everything else.                                                        *)

(* What a sweep in progress has read already, or cannot tell from a later  *)
(* step, waits: the payload and the day's state are read when it starts,   *)
(* and the venue matters only where the next step asks it.                 *)
Still == sw.pc \in {"idle", "ending"}
Asking == ~At("idle") /\ (sw.pc \in {"polling", "positions", "orders", "ending"} \/ sw.todo # {})

Reading == {"idle", "polling", "gates", "positions", "orders"}
Surprise(s) ==
  sw' = IF sw.pc \in Reading \ (IF caps.cids THEN {} ELSE {"orders"}) THEN sw
        ELSE [sw EXCEPT !.surprised = @ \cup {s}]

Fill(i) ==
  /\ Asking /\ Resting(i) /\ ~day.shut
  /\ orders[i].kind = "moc" => day.phase = "last minute"
  /\ orders[i].side < 0 /\ ~orders[i].short => acct[orders[i].sym].pos >= orders[i].qty
  /\ orders' = [orders EXCEPT ![i].at = "filled"]
  /\ acct' = [acct EXCEPT ![orders[i].sym].pos = @ + Signed(orders[i])]
  /\ Surprise(orders[i].sym)
  /\ UNCHANGED <<caps, plan, day, left>>

(* The payload once a fill is folded: what the sleeve asked for at market  *)
(* is in it already; a resting order's fill moves it while its rule is in  *)
(* it.                                                                     *)
FoldInto(p, o) ==
  CASE o.fam = "exit" /\ \E e \in p.exits : e.kind = o.kind ->
         [p EXCEPT !.qty = @ + Signed(o), !.exits = {e \in @ : e.kind # o.kind}]
    [] o.fam = "entry" /\ \E e \in p.entries : e.kind = o.kind ->
         [p EXCEPT !.qty = @ + Signed(o), !.entries = {e \in @ : e.kind # o.kind}]
    [] o.fam = "moc" -> [p EXCEPT !.qty = @ + p.ticket, !.ticket = 0]
    [] OTHER -> p
FoldAll(p, S) == FoldSet(LAMBDA i, q : FoldInto(q, orders[i]), p, S)
ToFold(s) == {i \in Ids : orders[i].sym = s /\ orders[i].stored /\ ~orders[i].folded}

Tick ==
  /\ Still
  /\ \E s \in Symbols : ToFold(s) # {}
  /\ orders' = [i \in Ids |-> [orders[i] EXCEPT !.folded = orders[i].stored]]
  /\ plan' = [s \in Symbols |-> FoldAll(plan[s], ToFold(s))]
  /\ acct' = [s \in Symbols |-> [acct[s] EXCEPT !.booked = @ + Total(ToFold(s))]]
  /\ UNCHANGED <<caps, day, left, sw>>

(* The tick's decision: a new payload, made with every stored fill folded. *)
Decide(s, p) ==
  /\ At("idle") /\ left.decisions > 0 /\ p # plan[s] /\ \A t \in Symbols : ToFold(t) = {}
  /\ plan' = [plan EXCEPT ![s] = p]
  /\ left' = [left EXCEPT !.decisions = @ - 1]
  /\ UNCHANGED <<caps, acct, orders, day, sw>>

Shut == Asking /\ Faulty /\ ~day.shut /\ day' = [day EXCEPT !.shut = TRUE] /\ left' = Spent(TRUE)
        /\ UNCHANGED <<caps, acct, plan, orders, sw>>
Reopen == Asking /\ day.shut /\ day' = [day EXCEPT !.shut = FALSE]
          /\ UNCHANGED <<caps, acct, plan, orders, left, sw>>
Elapse == At("idle") /\ day.backoff /\ day' = [day EXCEPT !.backoff = FALSE]
          /\ UNCHANGED <<caps, acct, plan, orders, left, sw>>
Pause == At("idle") /\ Faulty /\ ~day.paused /\ day' = [day EXCEPT !.paused = TRUE] /\ left' = Spent(TRUE)
         /\ UNCHANGED <<caps, acct, plan, orders, sw>>
Resume == At("idle") /\ day.paused /\ day' = [day EXCEPT !.paused = FALSE]
          /\ UNCHANGED <<caps, acct, plan, orders, left, sw>>

(* The session nears its close: the cutoff for on-close orders, then the   *)
(* last minute.                                                            *)
Later(phase) == IF phase = "early" THEN "past cutoff" ELSE "last minute"
ClockTurns ==
  /\ At("idle") /\ day.phase # "last minute" /\ \E s \in Symbols : plan[s].ticket # 0
  /\ day' = [day EXCEPT !.phase = Later(@)]
  /\ UNCHANGED <<caps, acct, plan, orders, left, sw>>

-----------------------------------------------------------------------------
NoPayload == [qty |-> 0, exits |-> {}, entries |-> {}, ticket |-> 0, px |-> 0]

Init ==
  /\ \E start \in Starts :
       /\ caps = start.venue
       /\ acct = [s \in Symbols |-> [pos |-> start.owner, owner |-> start.owner,
                                     kept |-> start.kept, booked |-> 0]]
  /\ plan = [s \in Symbols |-> NoPayload]
  /\ orders = <<>>
  /\ day = [phase |-> "early", mocDone |-> {}, known |-> {}, refused |-> EmptyBag, shut |-> FALSE,
            backoff |-> FALSE, paused |-> FALSE]
  /\ left = [sweeps |-> MaxSweeps, decisions |-> MaxDecisions, faults |-> MaxFaults]
  /\ sw = Idle

SweepStep ==
  \/ \E d, g \in BOOLEAN : Gather(d, g)
  \/ Poll \/ (\E g \in BOOLEAN : Refresh(g)) \/ PollLater \/ Paused \/ Positions \/ Orders
  \/ (\E s \in Symbols : CloseSkips(s) \/ CloseSends(s)) \/ CloseDone
  \/ (\E i \in Ids : Releases(i)) \/ ReleaseDone
  \/ Trade \/ (At("launching") /\ \E w \in sw.todo : Launches(w)) \/ WaveDone
  \/ (sw.pc \in {"exits", "entries"} /\ \E w \in sw.todo :
        PlaceBlocked(w) \/ PlaceSends(w) \/ PairCancels(w) \/ PlaceReplaces(w))
  \/ SectionDone \/ LatePoll \/ Abort
  \/ \E age \in {"young", "late", "dead"} : Finish(age)

Next ==
  \/ SweepStep
  \/ \E i \in Ids : Fill(i)
  \/ Tick
  \/ \E s \in Symbols, p \in Payloads : Decide(s, p)
  \/ Shut \/ Reopen \/ Elapse \/ Pause \/ Resume \/ ClockTurns

Spec == Init /\ [][Next]_vars

-----------------------------------------------------------------------------
(* Properties.                                                             *)

TypeOK ==
  /\ caps \in Venues
  /\ \A s \in Symbols :
       /\ acct[s].pos \in Int /\ acct[s].booked \in Int
       /\ acct[s].owner \in Nat /\ acct[s].kept \in Nat
  /\ \A i \in Ids : /\ orders[i].at \in {"resting", "filled", "gone"}
                    /\ orders[i].row \in {"none", "sending", "open", "filled", "folded", "shut"}
                    /\ orders[i].folded => orders[i].stored
                    /\ orders[i].stored => orders[i].at = "filled"
  /\ left.faults \in 0..MaxFaults /\ Len(orders) <= MaxOrders

(* What the sweep's payload comes to once every fill it has not folded is  *)
(* in it, and where the account goes once what is on the wire has filled;  *)
(* an on-close order counts where the target has its ticket.               *)
Pend(s) == {i \in Ids : orders[i].sym = s /\ orders[i].at = "filled" /\ i \notin sw.folded}
Before(s) == {i \in Pend(s) : orders[i].fam # "moc"}
Intent(s) == FoldAll(sw.want[s], Before(s)).qty + acct[s].kept
OnItsWay(s) ==
  {i \in OnBook(s) : \/ orders[i].fam = "mkt"
                     \/ orders[i].fam = "moc" /\ InTarget(sw.phase)}
Going(s) == acct[s].pos + Total(OnItsWay(s))
Gap(s) == Intent(s) - Going(s)

Newest == orders'[Len(orders')]
SendsMarket == Len(orders') > Len(orders) /\ Newest.fam = "mkt"

(* The on-close order the venue holds and the payload no longer lists.     *)
Delisted(s) ==
  Moc(s) = 0 /\ InTarget(sw.phase) /\ \E i \in OnBook(s) : orders[i].fam = "moc"

(* A cancel closed the row of an order that then traded, or had.           *)
Misfiled(i) == orders[i].row = "shut" /\ orders[i].at # "gone"

(* A fill no row tells of, at a venue whose orders carry no client ids: the *)
(* rule that freezes a symbol with a hidden order is inert there.           *)
Untold(s) ==
  ~caps.cids /\ \E i \in Pend(s) : orders[i].row # "filled"

(* Every market order of a sweep brings the account nearer to what the     *)
(* sleeve will hold once all fills are folded: it neither repeats an order *)
(* whose answer was lost, nor fights a fill still on its way through poll  *)
(* and tick, nor sells what the owner kept.  Four things are beyond what   *)
(* the sweep can see, and excepted: a fill after it listed the open        *)
(* orders; without client ids (Schwab), a fill the poll has not put in a   *)
(* row; an order whose row a cancel closed though it trades; and a resting *)
(* on-close order the payload no longer lists (TicketNetted's subject).    *)
OrdersTowardTarget ==
  [][ SendsMarket =>
      LET s == Newest.sym IN
      \/ s \in sw.surprised \/ Untold(s) \/ Delisted(s)
      \/ \E i \in Ids : orders[i].sym = s /\ Misfiled(i)
      \/ Abs(Gap(s) - Signed(Newest)) < Abs(Gap(s)) ]_vars

(* The same of a symbol whose on-close order is resting while its ticket,   *)
(* in the target, is past the listing: reconcile's comment on the pending  *)
(* ticket has it netted out of the market deltas.                          *)
TicketNetted ==
  [][ SendsMarket =>
      LET s == Newest.sym IN
      Delisted(s) /\ sw.want[s].ticket # 0 /\ s \notin sw.surprised /\ ~Untold(s)
        => Abs(Gap(s) - Signed(Newest)) < Abs(Gap(s)) ]_vars

(* A sweep in which nothing was refused, lost, tripped or out of budget    *)
(* leaves exactly the exits resting that the payload wants and the account *)
(* has the shares for: none missing, none stale, none left over.           *)
Rests(w) ==
  \E i \in OnBook(w.sym) : /\ orders[i].fam = w.fam /\ orders[i].kind = w.kind
                           /\ orders[i].side = w.side /\ orders[i].qty = w.qty
                           /\ Abs(orders[i].level - w.level) < 10
Armed(s) ==
  /\ \A w \in NativeExits(s, sw.want[s]) : Placeable(w) => Rests(w)
  /\ \A i \in OnBook(s) : orders[i].fam = "exit" =>
       \E w \in NativeExits(s, sw.want[s]) : w.kind = orders[i].kind
Ends == sw.pc # "idle" /\ sw'.pc = "idle"
CleanSweepArms ==
  [][ (Ends /\ At("ending") /\ sw.clean /\ ~sw.paused) =>
      \A s \in Symbols \ sw.surprised : Armed(s) ]_vars

(* A sweep never ends with an order it found resting, and still wants,     *)
(* taken away and not put back, unless the venue itself turned down the    *)
(* order that replaces it, an answer was lost or the budget ran out.       *)
Stripped(w) == w \notin sw.turned /\ ~Rests(w) /\ w.sym \notin sw.surprised
NeverStripped ==
  [][ (Ends /\ ~sw.raised /\ ~sw.exhausted) => \A w \in sw.cut : ~Stripped(w) ]_vars

(* The same without the budget: reconcile's comment on the pair says that  *)
(* its cancel is only ever safe together with its resubmit.                *)
PairsStayWhole ==
  [][ (Ends /\ ~sw.raised) => \A w \in sw.cut : ~Stripped(w) ]_vars

(* A row leaves the outstanding orders as canceled only with its order.    *)
CanceledIsGone == \A i \in Ids : ~Misfiled(i)
=============================================================================
