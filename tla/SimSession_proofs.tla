------------------------- MODULE SimSession_proofs -------------------------
(***************************************************************************)
(* Proofs about SimSession, for any number of days, bars, events, tickets  *)
(* and rows.                                                               *)
(*                                                                         *)
(* The invariant IInv says where the loop may stand (Shape, Where, Tape),  *)
(* which scheduled events have run there (Happened), when each ticket was  *)
(* stamped (InTime), and what the fills record (Booked, Recorded).  Each   *)
(* part is kept by every step: first what a method of the book does to one *)
(* ticket (Outcome) or by adding one (Adds), then what each action does to *)
(* the session, then the parts one by one.  TypeOK, NoLookahead, OnceEach  *)
(* and QuietBars follow.  For SleeveIsItsFills the book itself is Sound:   *)
(* its position and cash are Totals over its fills, and every method of    *)
(* the book keeps it so.  The price rules the book fills at come first.    *)
(***************************************************************************)
EXTENDS SimSession, SequenceTheorems, FiniteSetTheorems, WellFoundedInduction, TLAPS

-----------------------------------------------------------------------------
(* The price rules of FillRules, for every bar and every level: a fill is  *)
(* at a price the bar traded at, on the right side of its level, exactly   *)
(* when the level was breached, and a trailing stop never gives ground.    *)

Levels == Prices \cup {None}

\* A limit order never trades worse than its limit, and a fill is inside the
\* bar's range: the better of the open and the limit, which a strict breach
\* puts between the extremes (fills.py, limit_fill).
THEOREM LimitNeverWorse ==
  ASSUME NEW buy \in BOOLEAN, NEW b \in Bars, WellFormed(b), NEW limit \in Levels,
         LimitFill(buy, b, limit) # None
  PROVE  /\ LimitFill(buy, b, limit) \in b.l .. b.h
         /\ IF buy THEN LimitFill(buy, b, limit) <= limit
                   ELSE LimitFill(buy, b, limit) >= limit
<1>1. CASE buy
  BY <1>1 DEF LimitFill, Levels, Prices, Bars, None, WellFormed, Lower
<1>2. CASE ~buy
  BY <1>2 DEF LimitFill, Levels, Prices, Bars, None, WellFormed, Higher
<1>3. QED  BY <1>1, <1>2

\* A stop order never trades better than its stop and inside the bar's
\* range: a gap through the stop fills at the open (fills.py, stop_fill).
THEOREM StopNeverBetter ==
  ASSUME NEW buy \in BOOLEAN, NEW b \in Bars, WellFormed(b), NEW stop \in Levels,
         StopFill(buy, b, stop) # None
  PROVE  /\ StopFill(buy, b, stop) \in b.l .. b.h
         /\ IF buy THEN StopFill(buy, b, stop) >= stop
                   ELSE StopFill(buy, b, stop) <= stop
<1>1. CASE buy
  BY <1>1 DEF StopFill, Levels, Prices, Bars, None, WellFormed, Higher
<1>2. CASE ~buy
  BY <1>2 DEF StopFill, Levels, Prices, Bars, None, WellFormed, Lower
<1>3. QED  BY <1>1, <1>2

\* "A caller can write if (px := ...) is not None without a separate breach
\* test": no fill price can be mistaken for none, and the price is there
\* exactly when the trigger of the same side says the level was breached.
THEOREM FillIsBreach ==
  ASSUME NEW buy \in BOOLEAN, NEW b \in Bars, NEW level \in Levels
  PROVE  /\ LimitFill(buy, b, level) # None <=> TouchTriggered(buy, b, level)
         /\ StopFill(buy, b, level) # None <=> StopTriggered(buy, b, level)
<1>1. CASE buy
  BY <1>1 DEF LimitFill, StopFill, TouchTriggered, StopTriggered, Levels, Prices, Bars,
              None, Lower, Higher
<1>2. CASE ~buy
  BY <1>2 DEF LimitFill, StopFill, TouchTriggered, StopTriggered, Levels, Prices, Bars,
              None, Lower, Higher
<1>3. QED  BY <1>1, <1>2

\* A bar that only touches a level, or never reaches it, fills nothing.
THEOREM TouchIsNoFill ==
  ASSUME NEW b \in Bars, NEW level \in Prices
  PROVE  /\ b.l >= level => LimitFill(TRUE, b, level) = None /\ StopFill(FALSE, b, level) = None
         /\ b.h <= level => LimitFill(FALSE, b, level) = None /\ StopFill(TRUE, b, level) = None
BY DEF LimitFill, StopFill, Prices, Bars, None

\* The ratchet of a trailing stop moves in the protecting direction only, and
\* is never further from the bar's favourable extreme than the trail
\* (check_resting).
THEOREM RatchetProtects ==
  ASSUME NEW buy \in BOOLEAN, NEW b \in Bars, NEW stop \in Int, NEW trail \in Nat
  PROVE  /\ stop # None =>
              IF buy THEN Ratchet(buy, b, stop, trail) <= stop
                     ELSE Ratchet(buy, b, stop, trail) >= stop
         /\ IF buy THEN Ratchet(buy, b, stop, trail) <= b.l + trail
                   ELSE Ratchet(buy, b, stop, trail) >= b.h - trail
<1>1. CASE buy
  BY <1>1 DEF Ratchet, Bars, Prices, None, Lower
<1>2. CASE ~buy
  BY <1>2 DEF Ratchet, Bars, Prices, None, Higher
<1>3. QED  BY <1>1, <1>2

-----------------------------------------------------------------------------
(* Least elements, and sequences of anything.                              *)

\* A set of times, tickets or rows that is not empty has a least element.
LEMMA MinIsLeast ==
  ASSUME NEW S, S \subseteq Nat, S # {}
  PROVE  Min(S) \in S /\ \A x \in S : Min(S) <= x
<1>1. OpToRel(<, Nat) = {p \in Nat \X Nat : p[1] < p[2]}
  BY Zenon DEF OpToRel
<1>2. \E x \in S : \A y \in S : ~(<<y, x>> \in OpToRel(<, Nat))
  BY NatLessThanWellFounded, WFMin
<1>3. PICK x \in S : \A y \in S : ~(<<y, x>> \in {p \in Nat \X Nat : p[1] < p[2]})
  BY <1>1, <1>2, Zenon
<1>4. ASSUME NEW y \in S, y < x PROVE FALSE
  <2>1. <<y, x>> \in Nat \X Nat /\ <<y, x>>[1] = y /\ <<y, x>>[2] = x
    OBVIOUS
  <2> QED BY <1>3, <1>4, <2>1, Zenon
<1>5. \A y \in S : x <= y
  BY <1>4
<1> QED BY <1>5 DEF Min

\* s is a sequence, whatever its elements are.
IsSeq(s) == s \in Seq({s[i] : i \in DOMAIN s})

LEMMA SeqShape ==
  ASSUME NEW s, IsSeq(s)
  PROVE  Len(s) \in Nat /\ DOMAIN s = 1..Len(s)
  BY LenProperties DEF IsSeq

LEMMA InSeq ==
  ASSUME NEW S, NEW s \in Seq(S)
  PROVE  IsSeq(s)
<1>1. DOMAIN s = 1..Len(s) /\ Len(s) \in Nat
  BY LenProperties
<1>2. \A i \in 1..Len(s) : s[i] \in {s[j] : j \in DOMAIN s}
  BY <1>1
<1>3. s \in [1..Len(s) -> {s[j] : j \in DOMAIN s}]
  BY <1>1, <1>2, LenProperties
<1> QED BY <1>1, <1>3, IsASeq DEF IsSeq

LEMMA Appended ==
  ASSUME NEW s, IsSeq(s), NEW e
  PROVE  LET t == Append(s, e)
         IN  /\ IsSeq(t) /\ Len(t) = Len(s) + 1 /\ DOMAIN t = 1..(Len(s) + 1)
             /\ \A i \in 1..Len(s) : t[i] = s[i]
             /\ t[Len(s) + 1] = e
<1> DEFINE S == {s[i] : i \in DOMAIN s} \cup {e}
<1>1. s \in Seq(S) /\ e \in S
  BY SeqMonotonic DEF IsSeq
<1>2. Append(s, e) \in Seq(S) /\ Len(Append(s, e)) = Len(s) + 1
      /\ \A i \in 1..Len(s) : Append(s, e)[i] = s[i]
      /\ Append(s, e)[Len(s) + 1] = e
  BY <1>1, AppendProperties
<1> HIDE DEF S
<1>3. IsSeq(Append(s, e)) /\ DOMAIN Append(s, e) = 1..(Len(s) + 1)
  BY <1>2, InSeq, LenProperties
<1> QED BY <1>2, <1>3

LEMMA Replaced ==
  ASSUME NEW s, IsSeq(s), NEW i \in DOMAIN s, NEW e
  PROVE  LET t == [s EXCEPT ![i] = e]
         IN  /\ IsSeq(t) /\ Len(t) = Len(s) /\ DOMAIN t = DOMAIN s
             /\ t[i] = e /\ \A j \in DOMAIN s : j # i => t[j] = s[j]
<1> DEFINE S == {s[j] : j \in DOMAIN s} \cup {e}
<1>1. s \in Seq(S) /\ e \in S
  BY SeqMonotonic DEF IsSeq
<1>2. DOMAIN s = 1..Len(s) /\ i \in 1..Len(s)
  BY SeqShape
<1> HIDE DEF S
<1>3. [s EXCEPT ![i] = e] \in Seq(S) /\ Len([s EXCEPT ![i] = e]) = Len(s)
  BY <1>1, <1>2, ExceptSeq
<1> QED BY <1>2, <1>3, InSeq

-----------------------------------------------------------------------------
(* Books and tickets: what a method of the book leaves alone.              *)

IsTicket(t) ==
  /\ t = [kind |-> t.kind, qty |-> t.qty, lim |-> t.lim, stop |-> t.stop,
          trig |-> t.trig, status |-> t.status, day |-> t.day, ms |-> t.ms, by |-> t.by]
  /\ t.kind \in Kinds /\ t.trig \in BOOLEAN
  /\ t.status \in Statuses \cup {"new"}

HasFields(b) ==
  b = [cash |-> b.cash, qty |-> b.qty, tickets |-> b.tickets,
       taken |-> b.taken, fills |-> b.fills]

IsBook(b) ==
  /\ HasFields(b) /\ IsSeq(b.tickets) /\ IsSeq(b.fills)
  /\ \A i \in DOMAIN b.tickets : IsTicket(b.tickets[i])

\* A ticket keeps its kind and its stamps.
Kept(t, u) ==
  IsTicket(u) /\ u.kind = t.kind /\ u.day = t.day /\ u.ms = t.ms /\ u.by = t.by

Touches(b, c, i) ==
  /\ IsBook(c) /\ Len(c.tickets) = Len(b.tickets)
  /\ \A j \in DOMAIN b.tickets : j # i => c.tickets[j] = b.tickets[j]
  /\ Kept(b.tickets[i], c.tickets[i])

NoFill(b, c) == c.fills = b.fills /\ c.taken = b.taken

\* Executions of one order of the broker's, none of them seen before.
RowsOK(b, rows) ==
  /\ rows \subseteq DOMAIN Rows \ b.taken
  /\ \A q, r \in rows : Rows[q].oid = Rows[r].oid /\ Rows[q].day = Rows[r].day

OneFill(b, c, i) ==
  \E px, rows : /\ c.fills = Append(b.fills, FillOf(i, clock, px, rows))
                /\ c.taken = b.taken \cup rows /\ RowsOK(b, rows)

\* What one method did to a ticket that was not filled.
Outcome(b, c, i) ==
  /\ Touches(b, c, i) /\ c.tickets[i].status \in Statuses
  /\ \/ NoFill(b, c) /\ c.tickets[i].status # "filled"
     \/ OneFill(b, c, i) /\ c.tickets[i].status = "filled"

LEMMA StopSet ==
  ASSUME NEW t, IsTicket(t), NEW x
  PROVE  Kept(t, [t EXCEPT !.stop = x]) /\ [t EXCEPT !.stop = x].status = t.status
  BY DEF Kept, IsTicket

LEMMA TicketSet ==
  ASSUME NEW t, IsTicket(t), NEW s \in Statuses, NEW g \in BOOLEAN, NEW x
  PROVE  /\ Kept(t, [t EXCEPT !.status = s]) /\ [t EXCEPT !.status = s].status = s
         /\ Kept(t, [t EXCEPT !.trig = g]) /\ [t EXCEPT !.trig = g].status = t.status
         /\ Kept(t, [t EXCEPT !.stop = x]) /\ [t EXCEPT !.stop = x].status = t.status
<1>1. Kept(t, [t EXCEPT !.status = s]) /\ [t EXCEPT !.status = s].status = s
  BY DEF Kept, IsTicket
<1>2. Kept(t, [t EXCEPT !.trig = g]) /\ [t EXCEPT !.trig = g].status = t.status
  BY DEF Kept, IsTicket
<1>3. Kept(t, [t EXCEPT !.stop = x]) /\ [t EXCEPT !.stop = x].status = t.status
  BY StopSet
<1> QED BY <1>1, <1>2, <1>3

\* One ticket of a book replaced, and whatever else of the sleeve.
LEMMA Rewritten ==
  ASSUME NEW b, IsBook(b), NEW i \in DOMAIN b.tickets, NEW t, Kept(b.tickets[i], t),
         NEW c, c.tickets = [b.tickets EXCEPT ![i] = t],
         HasFields(c),
         IsSeq(c.fills)
  PROVE  Touches(b, c, i) /\ c.tickets[i] = t
<1>1. IsSeq(c.tickets) /\ Len(c.tickets) = Len(b.tickets)
      /\ DOMAIN c.tickets = DOMAIN b.tickets /\ c.tickets[i] = t
      /\ \A j \in DOMAIN b.tickets : j # i => c.tickets[j] = b.tickets[j]
  BY Replaced DEF IsBook
<1>2. \A j \in DOMAIN c.tickets : IsTicket(c.tickets[j])
  BY <1>1 DEF IsBook, Kept
<1> QED BY <1>1, <1>2 DEF Touches, IsBook

LEMMA SetStatusOutcome ==
  ASSUME NEW b, IsBook(b), NEW i \in DOMAIN b.tickets, NEW s \in Statuses \ {"filled"}
  PROVE  /\ Outcome(b, SetStatus(b, i, s), i) /\ NoFill(b, SetStatus(b, i, s))
         /\ SetStatus(b, i, s).tickets[i].status = s
<1> DEFINE c == SetStatus(b, i, s)
           t == [b.tickets[i] EXCEPT !.status = s]
<1>0. HasFields(b)
  BY DEF IsBook
<1>1. c.tickets = [b.tickets EXCEPT ![i] = t] /\ NoFill(b, c)
      /\ HasFields(c)
  BY <1>0 DEF SetStatus, HasFields, NoFill
<1>2. Kept(b.tickets[i], t) /\ t.status = s /\ IsSeq(c.fills)
  BY <1>1, TicketSet DEF IsBook, NoFill
<1> HIDE DEF c, t
<1>3. Touches(b, c, i) /\ c.tickets[i] = t
  BY <1>1, <1>2, Rewritten
<1>4. Outcome(b, c, i) /\ NoFill(b, c) /\ c.tickets[i].status = s
  BY <1>1, <1>2, <1>3 DEF Outcome
<1> QED BY <1>4 DEF c

LEMMA NoTouch ==
  ASSUME NEW b, IsBook(b), NEW i \in DOMAIN b.tickets
  PROVE  Touches(b, b, i) /\ NoFill(b, b) /\ (IsOpen(b, i) => Outcome(b, b, i))
  BY DEF Touches, NoFill, Outcome, Kept, IsBook, IsOpen, Statuses

\* A book whose ticket i became filled, with one fill more.
LEMMA FillRecorded ==
  ASSUME NEW b, IsBook(b), NEW i \in DOMAIN b.tickets, NEW c, NEW px, NEW rows,
         RowsOK(b, rows),
         HasFields(c),
         c.tickets = [b.tickets EXCEPT ![i] = [b.tickets[i] EXCEPT !.status = "filled"]],
         c.fills = Append(b.fills, FillOf(i, clock, px, rows)),
         c.taken = b.taken \cup rows
  PROVE  Outcome(b, c, i) /\ OneFill(b, c, i) /\ c.tickets[i].status = "filled"
<1> DEFINE t == [b.tickets[i] EXCEPT !.status = "filled"]
<1>1. Kept(b.tickets[i], t) /\ t.status = "filled"
  BY TicketSet DEF IsBook, Statuses
<1>2. IsSeq(c.fills)
  BY Appended DEF IsBook
<1>3. c.tickets = [b.tickets EXCEPT ![i] = t]
  OBVIOUS
<1> HIDE DEF t
<1>4. Touches(b, c, i) /\ c.tickets[i] = t
  BY <1>1, <1>2, <1>3, Rewritten
<1>5. OneFill(b, c, i)
  BY DEF OneFill
<1> QED BY <1>1, <1>4, <1>5 DEF Outcome, Statuses

LEMMA AdoptOutcome ==
  ASSUME NEW b, IsBook(b), NEW i \in DOMAIN b.tickets, NEW rows, RowsOK(b, rows)
  PROVE  /\ Outcome(b, Adopt(b, i, rows), i) /\ OneFill(b, Adopt(b, i, rows), i)
         /\ Adopt(b, i, rows).tickets[i].status = "filled"
<1>0. HasFields(b)
  BY DEF IsBook
<1> DEFINE paid == SumOver(rows, LAMBDA r : Rows[r].qty * Rows[r].px)
           traded == SumOver(rows, LAMBDA r : Rows[r].qty)
           px == Rows[Max(rows)].px
           cash == b.cash - paid
           qty == b.qty + traded
           fills == Append(b.fills, FillOf(i, clock, px, rows))
           taken == b.taken \cup rows
<1>1. PICK c : /\ Adopt(b, i, rows) = c
               /\ c = [b EXCEPT !.cash = cash, !.qty = qty, !.taken = taken,
                                !.tickets[i].status = "filled", !.fills = fills]
  BY Zenon DEF Adopt
<1> HIDE DEF paid, traded, px, cash, qty, fills, taken
<1>2. HasFields(c) /\ c.fills = fills /\ c.taken = taken
      /\ c.tickets = [b.tickets EXCEPT ![i] = [b.tickets[i] EXCEPT !.status = "filled"]]
  <2>1. HasFields(c)
    BY <1>0, <1>1 DEF HasFields
  <2>2. c.fills = fills /\ c.taken = taken
    BY <1>0, <1>1 DEF HasFields
  <2>3. c.tickets = [b.tickets EXCEPT ![i] = [b.tickets[i] EXCEPT !.status = "filled"]]
    BY <1>0, <1>1 DEF HasFields
  <2> QED BY <2>1, <2>2, <2>3
<1>3. Outcome(b, c, i) /\ OneFill(b, c, i) /\ c.tickets[i].status = "filled"
  BY <1>2, FillRecorded DEF fills, taken
<1> QED BY <1>1, <1>3

LEMMA ModelFillOutcome ==
  ASSUME NEW b, IsBook(b), NEW i \in DOMAIN b.tickets, NEW px
  PROVE  Outcome(b, ModelFill(b, i, px), i)
<1>0. HasFields(b)
  BY DEF IsBook
<1> DEFINE q == b.tickets[i].qty
           cash == b.cash - q * px
           qty == b.qty + q
           fills == Append(b.fills, FillOf(i, clock, px, {}))
<1> HIDE DEF q, cash, qty, fills
<1>1. PICK c : /\ c = [b EXCEPT !.cash = cash, !.qty = qty,
                                !.tickets[i].status = "filled", !.fills = fills]
               /\ ModelFill(b, i, px) \in {SetStatus(b, i, "invalid"), c}
  BY Zenon DEF ModelFill, q, cash, qty, fills
<1>2. Outcome(b, SetStatus(b, i, "invalid"), i)
  BY SetStatusOutcome DEF Statuses
<1>3. HasFields(c) /\ c.fills = fills /\ c.taken = b.taken
      /\ c.tickets = [b.tickets EXCEPT ![i] = [b.tickets[i] EXCEPT !.status = "filled"]]
  <2>1. HasFields(c)
    BY <1>0, <1>1 DEF HasFields
  <2>2. c.fills = fills /\ c.taken = b.taken
    BY <1>0, <1>1 DEF HasFields
  <2>3. c.tickets = [b.tickets EXCEPT ![i] = [b.tickets[i] EXCEPT !.status = "filled"]]
    BY <1>0, <1>1 DEF HasFields
  <2> QED BY <2>1, <2>2, <2>3
<1>4. RowsOK(b, {}) /\ b.taken \cup {} = b.taken
  BY DEF RowsOK
<1>5. Outcome(b, c, i)
  BY <1>3, <1>4, FillRecorded DEF fills
<1> QED BY <1>1, <1>2, <1>5

\* What the ledger offers is new, of today and of one order.
LEMMA TakeOK ==
  ASSUME NEW b, NEW i
  PROVE  RowsOK(b, Take(b, i))
<1> DEFINE avail == Candidates(b, i)
           tagged == {r \in avail : Rows[r].tag = i}
           pool == IF tagged # {} THEN tagged ELSE avail
<1>1. avail \subseteq DOMAIN Rows \ b.taken /\ \A r \in avail : Rows[r].day = ses.day
  BY DEF Candidates
<1>2. CASE avail = {}
  BY <1>2 DEF Take, RowsOK
<1>3. CASE avail # {}
  <2>1. pool # {} /\ pool \subseteq avail
    BY <1>3
  <2>2. Min(pool) \in pool
    BY <2>1, <1>1, MinIsLeast, TimesAssumption
  <2>3. Take(b, i) = SameOrder(pool, Min(pool))
    BY <1>3 DEF Take
  <2> HIDE DEF pool, avail
  <2>4. SameOrder(pool, Min(pool)) \subseteq pool
    BY <2>2 DEF SameOrder
  <2>5. \A q, r \in SameOrder(pool, Min(pool)) : Rows[q].oid = Rows[r].oid
    BY DEF SameOrder
  <2> QED BY <1>1, <2>1, <2>3, <2>4, <2>5 DEF RowsOK
<1> QED BY <1>2, <1>3

LEMMA VisibleOK ==
  ASSUME NEW b, NEW i
  PROVE  RowsOK(b, Visible(b, i))
  BY DEF Visible, RowsOK

LEMMA FillOutcome ==
  ASSUME NEW b, IsBook(b), NEW i \in DOMAIN b.tickets, NEW px,
         b.tickets[i].status # "filled"
  PROVE  Outcome(b, Fill(b, i, px), i)
<1> DEFINE rows == IF mode.ledger /\ ses.day >= Reconciled THEN Take(b, i) ELSE {}
<1>1. RowsOK(b, rows)
  BY TakeOK DEF RowsOK
<1>2. Fill(b, i, px) \in {Adopt(b, i, rows), Unfilled(b, i), ModelFill(b, i, px)}
  BY DEF Fill
<1> HIDE DEF rows
<1>3. Outcome(b, Unfilled(b, i), i)
  BY NoTouch, SetStatusOutcome DEF Unfilled, Statuses
<1> QED BY <1>1, <1>2, <1>3, AdoptOutcome, ModelFillOutcome

\* A leg of a ticket moved, then the order filled.
LEMMA ThenOutcome ==
  ASSUME NEW a, NEW b, NEW c, NEW i \in DOMAIN a.tickets, IsBook(a),
         Touches(a, b, i), NoFill(a, b), Outcome(b, c, i)
  PROVE  Outcome(a, c, i)
<1>1. DOMAIN a.tickets = 1..Len(a.tickets) /\ DOMAIN b.tickets = 1..Len(b.tickets)
  BY SeqShape DEF IsBook, Touches
<1>2. Touches(a, c, i)
  BY <1>1 DEF Outcome, Touches, Kept
<1>3. NoFill(b, c) => NoFill(a, c)
  BY DEF NoFill
<1>4. OneFill(b, c, i) => OneFill(a, c, i)
  BY DEF OneFill, NoFill, RowsOK
<1> QED BY <1>2, <1>3, <1>4 DEF Outcome

LEMMA LegMoved ==
  ASSUME NEW b, IsBook(b), NEW i \in DOMAIN b.tickets, NEW s, NEW hit \in BOOLEAN,
         IsOpen(b, i)
  PROVE  /\ Touches(b, [b EXCEPT !.tickets[i].stop = s], i)
         /\ NoFill(b, [b EXCEPT !.tickets[i].stop = s])
         /\ IsOpen([b EXCEPT !.tickets[i].stop = s], i)
         /\ Outcome(b, [b EXCEPT !.tickets[i].stop = s], i)
         /\ Outcome(b, [b EXCEPT !.tickets[i].trig = hit], i)
         /\ hit = b.tickets[i].trig => [b EXCEPT !.tickets[i].trig = hit] = b
<1>0. HasFields(b) /\ IsTicket(b.tickets[i]) /\ IsSeq(b.fills) /\ IsSeq(b.tickets)
  BY DEF IsBook
<1>1. PICK c : c = [b EXCEPT !.tickets[i].stop = s]
  OBVIOUS
<1>2. PICK d : d = [b EXCEPT !.tickets[i].trig = hit]
  OBVIOUS
<1>3. PICK t : t = [b.tickets[i] EXCEPT !.stop = s]
  OBVIOUS
<1>4. PICK u : u = [b.tickets[i] EXCEPT !.trig = hit]
  OBVIOUS
<1>5. HasFields(c) /\ NoFill(b, c) /\ c.tickets = [b.tickets EXCEPT ![i] = t]
  BY <1>0, <1>1, <1>3 DEF HasFields, NoFill
<1>6. HasFields(d) /\ NoFill(b, d) /\ d.tickets = [b.tickets EXCEPT ![i] = u]
  BY <1>0, <1>2, <1>4 DEF HasFields, NoFill
<1>7. Kept(b.tickets[i], t) /\ t.status = b.tickets[i].status
  BY <1>0, <1>3, StopSet
<1>8. Kept(b.tickets[i], u) /\ u.status = b.tickets[i].status
  BY <1>0, <1>4, TicketSet DEF Statuses
<1>9. IsSeq(c.fills) /\ IsSeq(d.fills)
  BY <1>0, <1>5, <1>6 DEF NoFill
<1>10. Touches(b, c, i) /\ c.tickets[i] = t
  BY <1>5, <1>7, <1>9, Rewritten
<1>11. Touches(b, d, i) /\ d.tickets[i] = u
  BY <1>6, <1>8, <1>9, Rewritten
<1>12. b.tickets[i].status = "submitted"
  BY DEF IsOpen
<1>13. Outcome(b, c, i) /\ IsOpen(c, i)
  BY <1>5, <1>7, <1>10, <1>12 DEF Outcome, IsOpen, Statuses
<1>14. Outcome(b, d, i)
  BY <1>6, <1>8, <1>11, <1>12 DEF Outcome, Statuses
<1>15. ASSUME hit = b.tickets[i].trig PROVE d = b
  <2>1. u = b.tickets[i]
    BY <1>0, <1>4, <1>15 DEF IsTicket
  <2>2. DOMAIN b.tickets = 1..Len(b.tickets) /\ b.tickets \in Seq({b.tickets[j] : j \in DOMAIN b.tickets})
    BY <1>0, SeqShape DEF IsSeq
  <2>3. d.tickets = b.tickets
    <3>1. PICK q : q = b.tickets /\ q \in Seq({b.tickets[j] : j \in DOMAIN b.tickets})
      BY <2>2
    <3>2. q = [j \in DOMAIN q |-> q[j]]
      BY <3>1
    <3>3. [q EXCEPT ![i] = q[i]] = q
      BY <3>2
    <3> QED BY <3>1, <3>3, <2>1, <1>6
  <2>4. d.cash = b.cash /\ d.qty = b.qty
    BY <1>0, <1>2 DEF HasFields
  <2> QED BY <2>3, <2>4, <1>0, <1>6 DEF HasFields, NoFill
<1> QED BY <1>1, <1>2, <1>5, <1>10, <1>13, <1>14, <1>15

LEMMA LastAppended ==
  ASSUME NEW b, NEW c, NEW i, IsBook(b), NEW rows, NEW px,
         c.fills = Append(b.fills, FillOf(i, clock, px, rows))
  PROVE  c.fills[Len(c.fills)].rows = rows
<1>1. Len(c.fills) = Len(b.fills) + 1 /\ c.fills[Len(b.fills) + 1] = FillOf(i, clock, px, rows)
  BY Appended DEF IsBook
<1> QED BY <1>1 DEF FillOf

\* A pass leaves a ticket alone, or acts on one that is open and not excluded;
\* an order of the session's edges it can only adopt.
LEMMA RestingOutcome ==
  ASSUME NEW b, IsBook(b), NEW i \in DOMAIN b.tickets, NEW bar, NEW exclude \in BOOLEAN,
         NEW c, c = CheckResting(b, i, bar, exclude)
  PROVE  \/ c = b
         \/ /\ IsOpen(b, i) /\ ~(exclude /\ BornNow(b.tickets[i])) /\ Outcome(b, c, i)
            /\ b.tickets[i].kind \in {"moo", "moc"} => c.fills[Len(c.fills)].rows # {}
<1> DEFINE tk == b.tickets[i]
           seen == IF mode.ledger THEN Visible(b, i) ELSE {}
           buy == tk.qty > 0
           limit == LimitFill(buy, bar, tk.lim)
           at(stop) == StopFill(buy, bar, stop)
           try(px) == IF px = None THEN b ELSE Fill(b, i, px)
           armed(hit) == [b EXCEPT !.tickets[i].trig = hit]
           s == Ratchet(buy, bar, tk.stop, tk.lim)
           b1 == [b EXCEPT !.tickets[i].stop = s]
<1>1. CASE ~IsOpen(b, i) \/ (exclude /\ BornNow(tk))
  BY <1>1 DEF CheckResting
<1>2. CASE IsOpen(b, i) /\ ~(exclude /\ BornNow(tk)) /\ seen # {}
  <2>1. c = Adopt(b, i, seen)
    BY <1>2, Zenon DEF CheckResting
  <2>2. RowsOK(b, seen)
    BY VisibleOK DEF RowsOK
  <2> HIDE DEF seen
  <2>3. Outcome(b, c, i)
    BY <2>1, <2>2, AdoptOutcome
  <2>4. c.fills[Len(c.fills)].rows = seen
    <3>1. HasFields(b)
      BY DEF IsBook
    <3>2. PICK px : c.fills = Append(b.fills, FillOf(i, clock, px, seen))
      BY <2>1, <3>1 DEF Adopt, HasFields
    <3> QED BY <3>2, LastAppended
  <2> QED BY <1>2, <2>3, <2>4
<1>3. CASE IsOpen(b, i) /\ ~(exclude /\ BornNow(tk)) /\ seen = {}
  <2>1. \A px : Outcome(b, Fill(b, i, px), i)
    BY <1>3, FillOutcome DEF IsOpen
  <2>2. \A px : try(px) = b \/ Outcome(b, try(px), i)
    BY <2>1
  <2>3. Outcome(b, b1, i) /\ \A px : Outcome(b, Fill(b1, i, px), i)
    <3>1. Outcome(b, b1, i) /\ Touches(b, b1, i) /\ NoFill(b, b1) /\ IsOpen(b1, i)
      BY <1>3, LegMoved
    <3> HIDE DEF b1
    <3>2. IsBook(b1) /\ i \in DOMAIN b1.tickets /\ b1.tickets[i].status # "filled"
      BY <3>1, SeqShape DEF Touches, IsBook, IsOpen
    <3>3. \A px : Outcome(b1, Fill(b1, i, px), i)
      BY <3>2, FillOutcome
    <3> QED BY <3>1, <3>3, ThenOutcome
  <2>4. \A hit \in BOOLEAN : Outcome(b, armed(hit), i)
    BY <1>3, LegMoved
  <2>5. \A x : StopTriggered(buy, bar, x) \in BOOLEAN /\ TouchTriggered(buy, bar, x) \in BOOLEAN
    BY DEF StopTriggered, TouchTriggered
  <2>6. CASE tk.kind = "market"
    <3>1. c = Fill(b, i, bar.c)
      BY <1>3, <2>6 DEF CheckResting
    <3> QED BY <1>3, <2>1, <2>6, <3>1
  <2>7. CASE tk.kind = "limit"
    <3>1. c = try(limit)
      BY <1>3, <2>7 DEF CheckResting
    <3> QED BY <1>3, <2>2, <2>7, <3>1
  <2>8. CASE tk.kind = "stop"
    <3>1. c = try(at(tk.stop))
      BY <1>3, <2>8 DEF CheckResting
    <3> QED BY <1>3, <2>2, <2>8, <3>1
  <2>9. CASE tk.kind = "trail"
    <3>1. c = IF at(s) = None THEN b1 ELSE Fill(b1, i, at(s))
      BY <1>3, <2>9 DEF CheckResting
    <3> QED BY <1>3, <2>3, <2>9, <3>1
  <2>10. CASE tk.kind = "stopLimit"
    <3>1. c = IF tk.trig THEN try(limit) ELSE armed(StopTriggered(buy, bar, tk.stop))
      BY <1>3, <2>10 DEF CheckResting
    <3> QED BY <1>3, <2>2, <2>4, <2>5, <2>10, <3>1
  <2>11. CASE tk.kind = "touch"
    <3>1. c = IF tk.trig THEN try(limit) ELSE armed(TouchTriggered(buy, bar, tk.stop))
      BY <1>3, <2>11 DEF CheckResting
    <3> QED BY <1>3, <2>2, <2>4, <2>5, <2>11, <3>1
  <2>12. CASE tk.kind \in {"moo", "moc"}
    BY <1>3, <2>12 DEF CheckResting
  <2>13. tk.kind \in Kinds
    BY DEF IsBook, IsTicket
  <2> QED BY <2>6, <2>7, <2>8, <2>9, <2>10, <2>11, <2>12, <2>13 DEF Kinds
<1> QED BY <1>1, <1>2, <1>3

-----------------------------------------------------------------------------
(* Orders placed.                                                          *)

IsOrder(o) ==
  /\ o = [kind |-> o.kind, qty |-> o.qty, lim |-> o.lim, stop |-> o.stop]
  /\ o.kind \in Kinds

Stamped(u) == u.day = ses.day /\ u.ms = clock /\ u.by = ses.phase

Grows(b, c) ==
  /\ IsBook(c) /\ Len(c.tickets) = Len(b.tickets) + 1
  /\ \A j \in DOMAIN b.tickets : c.tickets[j] = b.tickets[j]
  /\ Stamped(c.tickets[Len(b.tickets) + 1])

\* What placing an order did: one ticket more, filled at once only if it is a
\* market order of a session that is neither daily nor carried.
Adds(b, c, o) ==
  LET n == Len(b.tickets) + 1
      u == c.tickets[n]
  IN  /\ Grows(b, c) /\ u.status \in Statuses
      /\ \/ NoFill(b, c) /\ u.status # "filled"
         \/ /\ OneFill(b, c, n) /\ u.status = "filled"
            /\ u.kind = "market" /\ ~mode.daily
      /\ o.kind = "market" => \/ u.kind \in {"market", "moo"}
                              \/ u.kind = "moc" /\ ~(clock >= Close)

LEMMA NewTicketGrows ==
  ASSUME NEW b, IsBook(b), NEW o, IsOrder(o),
         NEW st, st \in {"new", "submitted", "invalid"}
  PROVE  LET c == NewTicket(b, o, st)
             u == c.tickets[Len(b.tickets) + 1]
         IN  Grows(b, c) /\ NoFill(b, c) /\ u.status = st /\ u.kind = o.kind
<1>0. HasFields(b) /\ IsSeq(b.tickets) /\ IsSeq(b.fills)
  BY DEF IsBook
<1>1. PICK t : t = [kind |-> o.kind, qty |-> o.qty, lim |-> o.lim, stop |-> o.stop,
                    trig |-> FALSE, status |-> st, day |-> ses.day, ms |-> clock,
                    by |-> ses.phase]
  OBVIOUS
<1>2. PICK ts : ts = Append(b.tickets, t)
  OBVIOUS
<1>3. PICK c : c = [b EXCEPT !.tickets = ts]
  OBVIOUS
<1>4. c = NewTicket(b, o, st)
  BY <1>1, <1>2, <1>3, Zenon DEF NewTicket
<1>5. HasFields(c) /\ NoFill(b, c) /\ c.tickets = ts
  BY <1>0, <1>3 DEF HasFields, NoFill
<1>6. IsTicket(t) /\ Stamped(t) /\ t.status = st /\ t.kind = o.kind
  BY <1>1 DEF IsTicket, Stamped, IsOrder, Statuses
<1>7. /\ IsSeq(ts) /\ Len(ts) = Len(b.tickets) + 1 /\ DOMAIN ts = 1..(Len(b.tickets) + 1)
      /\ \A j \in 1..Len(b.tickets) : ts[j] = b.tickets[j]
      /\ ts[Len(b.tickets) + 1] = t
  BY <1>0, <1>2, Appended
<1>8. DOMAIN b.tickets = 1..Len(b.tickets) /\ Len(b.tickets) \in Nat
  BY <1>0, SeqShape
<1>9. \A j \in DOMAIN ts : IsTicket(ts[j])
  BY <1>6, <1>7, <1>8 DEF IsBook
<1>10. IsBook(c)
  BY <1>0, <1>5, <1>7, <1>9 DEF IsBook, NoFill
<1> QED BY <1>4, <1>5, <1>6, <1>7, <1>8, <1>10 DEF Grows

LEMMA GrowsAdds ==
  ASSUME NEW b, IsBook(b), NEW o, NEW p, IsOrder(p),
         NEW st, st \in {"submitted", "invalid"},
         o.kind = "market" => \/ p.kind \in {"market", "moo"}
                              \/ p.kind = "moc" /\ ~(clock >= Close)
  PROVE  Adds(b, NewTicket(b, p, st), o)
<1> DEFINE c == NewTicket(b, p, st)
<1>1. Grows(b, c) /\ NoFill(b, c) /\ c.tickets[Len(b.tickets) + 1].status = st
      /\ c.tickets[Len(b.tickets) + 1].kind = p.kind
  BY NewTicketGrows
<1> HIDE DEF c
<1>2. Adds(b, c, o)
  BY <1>1 DEF Adds, Statuses
<1> QED BY <1>2 DEF c

LEMMA MarketAdds ==
  ASSUME NEW b, IsBook(b), NEW o, IsOrder(o), o.kind = "market", mode \in Modes
  PROVE  Adds(b, Market(b, o), o)
<1> DEFINE n == Len(b.tickets) + 1
           convert == (~mode.live \/ mode.daily) /\ ~Carried
           a == NewTicket(b, o, "new")
           moo == [o EXCEPT !.kind = "moo"]
           moc == [o EXCEPT !.kind = "moc"]
<1>1. mode.daily \in BOOLEAN /\ mode.live \in BOOLEAN
  BY ModesAssumption DEF ModeType
<1>2. IsOrder(moo) /\ moo.kind = "moo" /\ IsOrder(moc) /\ moc.kind = "moc"
  BY DEF IsOrder, Kinds
<1> HIDE DEF moo, moc
<1>3. CASE mode.daily /\ price = 0
  BY <1>3, GrowsAdds DEF Market
<1>4. CASE ~(mode.daily /\ price = 0) /\ convert /\ clock >= Close
  <2>1. Market(b, o) = NewTicket(b, moo, "submitted")
    BY <1>4 DEF Market, moo
  <2> QED BY <2>1, <1>2, GrowsAdds
<1>5. CASE ~(mode.daily /\ price = 0) /\ convert /\ ~(clock >= Close) /\ mode.daily
  <2>1. Market(b, o) \in {NewTicket(b, moo, "submitted"), NewTicket(b, moc, "submitted")}
    BY <1>5 DEF Market, moo, moc
  <2> QED BY <2>1, <1>2, <1>5, GrowsAdds
<1>6. CASE ~(mode.daily /\ price = 0) /\ ~(convert /\ clock >= Close)
           /\ ~(convert /\ mode.daily) /\ Carried
  <2>1. Market(b, o) = NewTicket(b, o, "submitted")
    BY <1>6 DEF Market
  <2> QED BY <2>1, GrowsAdds
<1>7. CASE ~(mode.daily /\ price = 0) /\ ~(convert /\ clock >= Close)
           /\ ~(convert /\ mode.daily) /\ ~Carried
  <2>1. Market(b, o) = Fill(a, n, price)
    BY <1>7 DEF Market
  <2>2. Grows(b, a) /\ NoFill(b, a) /\ a.tickets[n].status = "new" /\ a.tickets[n].kind = "market"
    BY NewTicketGrows
  <2>3. ~mode.daily
    BY <1>1, <1>7
  <2> HIDE DEF a
  <2>4. IsBook(a) /\ n \in DOMAIN a.tickets /\ DOMAIN b.tickets = 1..Len(b.tickets)
        /\ Len(b.tickets) \in Nat /\ DOMAIN a.tickets = 1..n
    BY <2>2, SeqShape DEF Grows, IsBook
  <2>5. PICK c : c = Fill(a, n, price)
    OBVIOUS
  <2>6. Outcome(a, c, n)
    BY <2>2, <2>4, <2>5, FillOutcome
  <2>7. Grows(b, c) /\ c.tickets[n].kind = "market"
    BY <2>2, <2>4, <2>6 DEF Outcome, Touches, Kept, Grows, Stamped
  <2>8. OneFill(a, c, n) => OneFill(b, c, n)
    BY <2>2 DEF OneFill, NoFill, RowsOK
  <2>9. NoFill(a, c) => NoFill(b, c)
    BY <2>2 DEF NoFill
  <2>10. Adds(b, c, o)
    BY <2>3, <2>6, <2>7, <2>8, <2>9 DEF Adds, Outcome
  <2> QED BY <2>1, <2>5, <2>10
<1> QED BY <1>1, <1>3, <1>4, <1>5, <1>6, <1>7

LEMMA PlaceAdds ==
  ASSUME NEW b, IsBook(b), NEW o \in Orders, mode \in Modes
  PROVE  Adds(b, PlaceOrder(b, o), o)
<1>1. IsOrder(o)
  BY OrdersAssumption DEF IsOrder
<1>2. CASE o.kind = "market"
  BY <1>1, <1>2, MarketAdds DEF PlaceOrder
<1>3. CASE o.kind = "moc"
  <2>1. PlaceOrder(b, o) \in {NewTicket(b, o, "invalid"), NewTicket(b, o, "submitted")}
    BY <1>3 DEF PlaceOrder, MarketOnClose
  <2> QED BY <1>1, <1>3, <2>1, GrowsAdds
<1>4. CASE o.kind \notin {"market", "moc"}
  <2>1. PlaceOrder(b, o) = NewTicket(b, o, "submitted")
    BY <1>4 DEF PlaceOrder
  <2> QED BY <1>1, <1>4, <2>1, GrowsAdds
<1> QED BY <1>2, <1>3, <1>4

-----------------------------------------------------------------------------
(* The loop: where it stands, what the clock says there, what has run.     *)

InBar == {"sells", "prices", "moo", "pass1", "moc", "data", "check", "events",
          "pass2", "late"}

\* A bar is being stepped, or today's partial session is not what "pre" is about.
Stepping == ses.phase \in InBar \/ (ses.phase = "pre" /\ ses.data # "partial")

Reached == Higher(ses.at, ses.primed)
Before  == Higher(ses.prevT, ses.primed)

SesFields == DOMAIN ses = {"day", "data", "bars", "at", "phase", "snap", "due", "prevT",
                           "primed", "wall", "first", "fast", "fired"}

UserFields == DOMAIN user = {"acting", "quit", "indicator", "ops"}

Shape ==
  /\ mode \in Modes /\ SesFields
  /\ ses.day \in 0..Len(Days) /\ ses.data \in {"data", "empty", "partial"}
  /\ ses.at \in Nat /\ ses.prevT \in Nat /\ ses.primed \in Nat /\ ses.wall \in Nat
  /\ ses.due \subseteq Events /\ ses.fast \in BOOLEAN /\ ses.first \in BOOLEAN
  /\ ses.fired \in [Events -> {0, 1}]
  /\ price \in Nat /\ \A e \in Ends : ses.bars[e].c \in Nat
  /\ clock \in Nat /\ user.acting \in BOOLEAN /\ user.quit \in BOOLEAN
  /\ UserFields /\ user.ops \in 0..MaxOps

\* Where callbacks may run, and what the clock and the bar are there.
Where ==
  /\ user.acting => ses.phase \in {"pre", "moo", "pass1", "moc", "check", "events",
                                   "pass2", "late", "prime", "close", "eod"}
  /\ ses.phase \in InBar => clock = ses.at
  /\ Stepping => clock <= ses.at /\ ses.prevT < ses.at
  /\ ses.phase \in {"open", "prime"} => ses.prevT = ses.at
  /\ ses.phase = "prime" => ses.at <= ses.wall /\ (user.acting => clock <= ses.wall)
  /\ ses.prevT = 0 => ~ses.first
  /\ ses.data = "empty" /\ mode.daily => ses.phase = "idle"
  /\ ses.data = "partial" => mode.daily /\ ses.phase \in {"pre", "halt", "error"}
  /\ mode.daily /\ Stepping => ses.at = Close /\ ses.prevT = 0
  /\ ~mode.warm => ses.primed = 0 /\ ses.phase # "prime"
  /\ ses.fast => mode.fast
  /\ ses.phase = "open" /\ ~mode.warm => ses.at = 0 \/ clock = ses.at

Tape ==
  /\ ses.at = 0 \/ ses.at \in Printed
  /\ ses.prevT = 0 \/ ses.prevT \in Printed
  /\ ses.phase \in {"open", "prime"} => Printed # {}
  /\ mode.daily /\ ses.data # "empty" => Printed \subseteq {Close}
  /\ ses.fast /\ Stepping =>
       \A v \in Events : \A e \in FirstFrom(Fires[v]) : ~(ses.prevT < e /\ e < ses.at)

\* Which events have run.
Ran(v) == ses.fired[v] = 1

Happened ==
  \A v \in Events :
    /\ ses.phase = "open" => (Ran(v) <=> Fires[v] <= Reached)
    /\ ses.phase = "sells" => (Ran(v) <=> Fires[v] <= Before)
    /\ ses.phase = "pre" /\ ses.data = "partial" => (v \in ses.due => ~Ran(v))
    /\ ses.phase = "pre" /\ ses.data # "partial" =>
         /\ v \in ses.due => mode.daily /\ Fires[v] < Close
         /\ Ran(v) <=> \/ Fires[v] <= Before
                       \/ mode.daily /\ Fires[v] < Close /\ v \notin ses.due
    /\ ses.phase \in {"prices", "moo", "pass1", "moc", "data", "check"} =>
         (Ran(v) <=> Fires[v] <= Before \/ (mode.daily /\ Fires[v] < Close))
    /\ ses.phase = "events" =>
         /\ v \in ses.due => v \in Scheduled
         /\ Ran(v) <=> \/ Fires[v] <= Before
                       \/ mode.daily /\ Fires[v] < Close
                       \/ v \in Scheduled /\ v \notin ses.due
    /\ ses.phase \in {"pass2", "late"} => (Ran(v) <=> Fires[v] <= Reached)
    /\ ses.phase = "prime" =>
         /\ v \in ses.due => Before < Fires[v] /\ Fires[v] <= ses.wall
         /\ Ran(v) <=> Fires[v] <= Before \/ (Fires[v] <= ses.wall /\ v \notin ses.due)
    /\ ses.phase \in {"close", "eod"} /\ ~user.quit => (Ran(v) <=> Fires[v] <= Reached)

\* Tickets are stamped with the day and, while a bar is stepped, with no time past
\* it; those stamped with its very end were placed by its own callbacks.
Ahead == {"sells", "pre", "moo"}

StampedNow(i) ==
  /\ book.tickets[i].day = ses.day /\ book.tickets[i].ms = ses.at
  /\ ses.primed < ses.at

InTime ==
  \A i \in DOMAIN book.tickets :
    LET tk == book.tickets[i]
    IN  /\ tk.day \in Nat /\ tk.day <= ses.day /\ tk.ms \in Nat
        /\ tk.by = "sells" => tk.kind \in {"market", "moo", "moc"}
                              /\ (mode.daily => tk.kind # "moc")
        /\ tk.day = ses.day =>
             /\ ses.phase = "open" \/ Stepping => tk.ms <= Reached
             /\ ses.phase = "prime" => tk.ms <= Higher(ses.primed, ses.wall)
        /\ StampedNow(i) =>
             /\ ses.phase \in {"sells", "prices", "moo"} \/ (ses.phase = "pre" /\ Stepping)
                => tk.by \in Ahead
             /\ ses.phase = "pass1" => tk.by \in Ahead \cup {"pass1"}
             /\ ses.phase = "pass1" /\ i \in ses.snap => tk.by \in Ahead
             /\ ses.phase = "moc" /\ i \in ses.snap => tk.by \in Ahead \cup {"pass1"}

\* The book, its fills and the ledger's rows.
Booked ==
  /\ IsBook(book) /\ ses.snap \subseteq DOMAIN book.tickets
  /\ \A i \in DOMAIN book.tickets : book.tickets[i].status \in Statuses

Recorded ==
  /\ RowsOnce /\ book.taken \subseteq DOMAIN Rows /\ FilledOnce

IInv == Shape /\ Where /\ Tape /\ Happened /\ InTime /\ Booked /\ Recorded /\ NoLookahead

-----------------------------------------------------------------------------
(* What each step of the loop does to the session.                         *)

SameBar ==
  /\ SesFields' /\ ses'.day = ses.day /\ ses'.data = ses.data /\ ses'.bars = ses.bars
  /\ ses'.at = ses.at /\ ses'.prevT = ses.prevT /\ ses'.primed = ses.primed
  /\ ses'.wall = ses.wall /\ ses'.first = ses.first /\ ses'.fast = ses.fast

SameEvents == ses'.due = ses.due /\ ses'.fired = ses.fired

UserOK == DOMAIN user' = DOMAIN user /\ user'.quit = user.quit
          /\ user'.indicator = user.indicator /\ user'.ops = user.ops

LEMMA Entered ==
  ASSUME SesFields, NEW ph, NEW s, s = Enter(ph)
  PROVE  /\ DOMAIN s = DOMAIN ses /\ s.day = ses.day /\ s.data = ses.data
         /\ s.bars = ses.bars /\ s.at = ses.at /\ s.prevT = ses.prevT
         /\ s.primed = ses.primed /\ s.wall = ses.wall /\ s.first = ses.first
         /\ s.fast = ses.fast /\ s.due = ses.due /\ s.fired = ses.fired
         /\ s.phase = ph /\ s.snap \subseteq OpenTickets(book)
         /\ s.snap # {} => Edge(ph)
<1> DEFINE n == IF Edge(ph) THEN OpenTickets(book) ELSE {}
<1>1. n \subseteq OpenTickets(book) /\ (n # {} => Edge(ph))
  OBVIOUS
<1>2. s = [ses EXCEPT !.phase = ph, !.snap = n]
  BY DEF Enter
<1> HIDE DEF n
<1> QED BY <1>1, <1>2 DEF SesFields

LEMMA LeaveEffect ==
  ASSUME SesFields, NEW ph, NEW next, Leave(ph, next)
  PROVE  /\ SameBar /\ SameEvents /\ ses'.phase = next /\ ses.phase = ph
         /\ ses'.snap \subseteq OpenTickets(book) /\ (ses'.snap # {} => Edge(next))
         /\ ~user.acting /\ user' = user /\ clock' = clock /\ book' = book /\ mode' = mode
         /\ price' = price
<1>1. ses' = Enter(next) /\ ses.phase = ph /\ ~user.acting
  BY DEF Leave, Walking
<1> QED BY <1>1, Entered DEF Leave, SameBar, SameEvents, SesFields

LEMMA VisitEffect ==
  ASSUME Shape, NEW ph, Visit(ph)
  PROVE  /\ SameBar /\ SameEvents /\ ses.phase = ph /\ ses'.phase = ph
         /\ ses'.snap = ses.snap \ {Min(ses.snap)} /\ ses.snap # {}
         /\ ~user.acting /\ user'.acting \in BOOLEAN /\ UserOK
         /\ book' = Handle(ph, Min(ses.snap))
         /\ clock' = clock /\ mode' = mode /\ price' = price
<1>1. ses' = [ses EXCEPT !.snap = @ \ {Min(ses.snap)}] /\ ses.phase = ph
      /\ ~user.acting /\ ses.snap # {}
  BY DEF Visit, Walking
<1>2. PICK moved \in BOOLEAN : user' = [user EXCEPT !.acting = moved]
  BY DEF Visit
<1>3. user'.acting \in BOOLEAN /\ UserOK
  BY <1>2 DEF UserOK, UserFields, Shape
<1>4. SameBar /\ SameEvents /\ ses'.phase = ph /\ ses'.snap = ses.snap \ {Min(ses.snap)}
  BY <1>1 DEF SameBar, SameEvents, SesFields, Shape
<1> QED BY <1>1, <1>3, <1>4 DEF Visit

LEMMA OnDataEffect ==
  ASSUME Shape, OnData
  PROVE  /\ SameBar /\ SameEvents /\ ses.phase = "data" /\ ses'.phase = "check"
         /\ ses'.snap = ses.snap /\ ~user.acting /\ user'.acting \in BOOLEAN /\ UserOK
         /\ book' = book /\ clock' = clock /\ mode' = mode /\ price' = price
<1>1. mode.ondata \in BOOLEAN
  BY ModesAssumption DEF Shape, ModeType
<1>2. user'.acting \in BOOLEAN /\ UserOK
  BY <1>1 DEF OnData, UserOK, UserFields, Shape
<1>3. SameBar /\ SameEvents /\ ses'.phase = "check" /\ ses'.snap = ses.snap
  BY DEF OnData, SameBar, SameEvents, SesFields, Shape
<1> QED BY <1>2, <1>3 DEF OnData, Walking

LEMMA CheckQuitEffect ==
  ASSUME Shape, CheckQuit
  PROVE  /\ SameBar /\ ses'.fired = ses.fired /\ ses.phase = "check" /\ ~user.acting
         /\ \/ ses'.phase = "events" /\ ses'.due = Scheduled /\ ses'.snap = ses.snap
            \/ ses'.phase = "halt" /\ ses'.due = ses.due /\ ses'.snap = ses.snap
            \/ /\ ses'.phase = "close" /\ ses'.due = ses.due /\ user.quit
               /\ ses'.snap \subseteq OpenTickets(book)
         /\ user' = user /\ book' = book /\ clock' = clock /\ mode' = mode /\ price' = price
<1>1. ses' \in {[ses EXCEPT !.phase = "halt"], [ses EXCEPT !.phase = "events", !.due = Scheduled]}
      \/ (user.quit /\ ses' = Enter("close"))
  BY DEF CheckQuit
<1>2. CASE ses' = [ses EXCEPT !.phase = "halt"]
  BY <1>2 DEF CheckQuit, Walking, SameBar, SesFields, Shape
<1>3. CASE ses' = [ses EXCEPT !.phase = "events", !.due = Scheduled]
  BY <1>3 DEF CheckQuit, Walking, SameBar, SesFields, Shape
<1>4. CASE user.quit /\ ses' = Enter("close")
  BY <1>4, Entered DEF CheckQuit, Walking, SameBar, SesFields, Shape
<1> QED BY <1>1, <1>2, <1>3, <1>4

LEMMA FireEventEffect ==
  ASSUME Shape, FireEvent
  PROVE  /\ SameBar /\ ses.phase = "events" /\ ses'.phase = "events" /\ ~user.acting
         /\ ses'.snap = ses.snap
         /\ \E v \in ses.due : /\ ses'.due = ses.due \ {v}
                               /\ ses'.fired = [ses.fired EXCEPT ![v] = @ + 1]
         /\ user'.acting = TRUE /\ UserOK
         /\ book' = book /\ clock' = clock /\ mode' = mode /\ price' = price
<1>1. ses.due \subseteq Nat /\ ses.due # {}
  <2>1. Events \subseteq Nat
    BY TimesAssumption, LenProperties DEF Events
  <2> QED BY <2>1 DEF FireEvent, Shape
<1>2. Min(ses.due) \in ses.due
  BY <1>1, MinIsLeast
<1>3. PICK v \in ses.due : ses' = [ses EXCEPT !.due = @ \ {v}, !.fired[v] = @ + 1]
  BY <1>2 DEF FireEvent
<1>4. SameBar /\ ses'.phase = ses.phase /\ ses'.snap = ses.snap /\ ses'.due = ses.due \ {v}
  BY <1>3 DEF SameBar, SesFields, Shape
<1>5. ses'.fired = [ses.fired EXCEPT ![v] = @ + 1]
  BY <1>3 DEF SesFields, Shape
<1> QED BY <1>4, <1>5 DEF FireEvent, Walking, UserOK, UserFields, Shape

LEMMA EventsDoneEffect ==
  ASSUME Shape, EventsDone
  PROVE  /\ SameBar /\ SameEvents /\ ses.phase = "events" /\ ses'.phase = "pass2"
         /\ ses.due = {} /\ ~user.acting /\ ses'.snap \subseteq OpenTickets(book)
         /\ user' = user /\ book' = book /\ clock' = clock /\ mode' = mode /\ price' = price
  BY Entered DEF EventsDone, Walking, SameBar, SameEvents, SesFields, Shape

LEMMA BarDoneEffect ==
  ASSUME Shape, BarDone
  PROVE  /\ DOMAIN ses' = DOMAIN ses /\ ses'.day = ses.day /\ ses'.data = ses.data
         /\ ses'.bars = ses.bars /\ ses'.at = ses.at /\ ses'.primed = ses.primed
         /\ ses'.wall = ses.wall /\ SameEvents
         /\ ses'.prevT = ses.at /\ ses'.first = TRUE
         /\ ses'.fast \in BOOLEAN /\ (ses'.fast => ses.fast)
         /\ ses.phase = "late" /\ ~user.acting
         /\ \/ ses'.phase \in {"open", "halt"} /\ ses'.snap = ses.snap
            \/ /\ ses'.phase = "close" /\ user.quit
               /\ ses'.snap \subseteq OpenTickets(book)
         /\ user' = user /\ book' = book /\ clock' = clock /\ mode' = mode /\ price' = price
<1> DEFINE still == ses.fast /\ ~user.indicator
<1>1. still \in BOOLEAN /\ (still => ses.fast)
  OBVIOUS
<1>2. PICK over : over = [ses EXCEPT !.phase = "open", !.prevT = ses.at, !.first = TRUE,
                                     !.fast = still]
  OBVIOUS
<1>3. \/ ses' = over
      \/ ses' = [over EXCEPT !.phase = "halt"]
      \/ user.quit /\ ses' = [Enter("close") EXCEPT !.first = TRUE, !.prevT = ses.at]
  BY <1>2, Zenon DEF BarDone
<1> HIDE DEF still
<1>4. CASE ses' = over
  BY <1>1, <1>2, <1>4 DEF BarDone, Walking, SameEvents, SesFields, Shape
<1>5. CASE ses' = [over EXCEPT !.phase = "halt"]
  BY <1>1, <1>2, <1>5 DEF BarDone, Walking, SameEvents, SesFields, Shape
<1>6. CASE user.quit /\ ses' = [Enter("close") EXCEPT !.first = TRUE, !.prevT = ses.at]
  <2>1. PICK s : s = Enter("close")
    OBVIOUS
  <2>2. ses' = [s EXCEPT !.first = TRUE, !.prevT = ses.at]
    BY <1>6, <2>1
  <2> QED BY <1>6, <2>1, <2>2, Entered DEF BarDone, Walking, SameEvents, SesFields, Shape
<1> QED BY <1>3, <1>4, <1>5, <1>6

LEMMA EndSessionEffect ==
  ASSUME Shape, EndSession
  PROVE  /\ SameBar /\ SameEvents /\ ses.phase = "open" /\ ses'.phase = "close"
         /\ ~user.acting /\ ses'.snap \subseteq OpenTickets(book)
         /\ user' = user /\ book' = book /\ clock' = clock /\ mode' = mode /\ price' = price
  BY Entered DEF EndSession, Walking, SameBar, SameEvents, SesFields, Shape

LEMMA EndOfDayEffect ==
  ASSUME Shape, EndOfDay
  PROVE  /\ SameBar /\ SameEvents /\ ses.phase = "close" /\ ses'.phase = "eod"
         /\ ses'.snap = ses.snap /\ ~user.acting /\ user'.acting = TRUE /\ UserOK
         /\ book' = book /\ clock' = clock /\ mode' = mode /\ price' = price
  BY DEF EndOfDay, Walking, SameBar, SameEvents, SesFields, Shape, UserOK

LEMMA NextDayEffect ==
  ASSUME Shape, NextDay
  PROVE  /\ SameBar /\ SameEvents /\ ses.phase = "eod" /\ ses'.phase \in {"halt", "idle"}
         /\ ses'.snap = ses.snap /\ ~user.acting /\ user' = user
         /\ book' = book /\ clock' = clock /\ mode' = mode /\ price' = price
  BY DEF NextDay, Walking, SameBar, SameEvents, SesFields, Shape

LEMMA FiresType ==
  /\ Events \subseteq Nat /\ \A v \in Events : Fires[v] \in Nat \ {0}
  BY TimesAssumption, LenProperties DEF Events

LEMMA TakePricesEffect ==
  ASSUME Shape, TakePrices
  PROVE  /\ SameBar /\ SameEvents /\ ses.phase = "prices" /\ ses'.phase = "moo"
         /\ ~user.acting /\ ses'.snap \subseteq OpenTickets(book)
         /\ user' = user /\ book' = book /\ clock' = clock /\ mode' = mode
         /\ price' = ses.bars[ses.at].c
  BY Entered DEF TakePrices, Walking, SameBar, SameEvents, SesFields, Shape

LEMMA PreBarEventEffect ==
  ASSUME Shape, PreBarEvent
  PROVE  /\ SameBar /\ ses.phase = "pre" /\ ses'.phase = "pre" /\ ~user.acting
         /\ ses'.snap = ses.snap
         /\ \E v \in ses.due : /\ ses'.due = ses.due \ {v} /\ clock' = Fires[v]
                               /\ ses'.fired = [ses.fired EXCEPT ![v] = @ + 1]
         /\ user'.acting = TRUE /\ UserOK
         /\ book' = book /\ mode' = mode /\ price' = price
<1>1. PICK v \in ses.due : /\ ses' = [ses EXCEPT !.due = @ \ {v}, !.fired[v] = @ + 1]
                           /\ clock' = Fires[v]
  BY DEF PreBarEvent
<1>2. SameBar /\ ses'.phase = ses.phase /\ ses'.snap = ses.snap /\ ses'.due = ses.due \ {v}
  BY <1>1 DEF SameBar, SesFields, Shape
<1>3. ses'.fired = [ses.fired EXCEPT ![v] = @ + 1]
  BY <1>1 DEF SesFields, Shape
<1> QED BY <1>1, <1>2, <1>3 DEF PreBarEvent, Walking, UserOK, UserFields, Shape

LEMMA PreBarDoneEffect ==
  ASSUME Shape, PreBarDone
  PROVE  /\ SameBar /\ ses'.fired = ses.fired /\ ses.phase = "pre" /\ ~user.acting
         /\ ses.due = {} \/ user.quit
         /\ \/ /\ ses.data = "partial" /\ ses'.phase = "halt" /\ ses'.due = {}
               /\ ses'.snap = ses.snap /\ clock' \in {clock, Now}
            \/ /\ ses.data # "partial" /\ user.quit /\ mode.daily
               /\ ses'.phase = "close" /\ ses'.due = ses.due
               /\ ses'.snap \subseteq OpenTickets(book) /\ clock' = clock
            \/ /\ ses.data # "partial" /\ ~(user.quit /\ mode.daily)
               /\ ses'.phase = "prices" /\ ses'.due = ses.due
               /\ ses'.snap = ses.snap /\ clock' = ses.at
         /\ user' = user /\ book' = book /\ mode' = mode /\ price' = price
<1>1. CASE ses.data = "partial"
  BY <1>1 DEF PreBarDone, Walking, SameBar, SesFields, Shape
<1>2. CASE ses.data # "partial" /\ user.quit /\ mode.daily
  <2>1. ses' = Enter("close") /\ clock' = clock
    BY <1>2 DEF PreBarDone
  <2> QED BY <1>2, <2>1, Entered DEF PreBarDone, Walking, SameBar, SesFields, Shape
<1>3. CASE ses.data # "partial" /\ ~(user.quit /\ mode.daily)
  <2>1. ses' = [ses EXCEPT !.phase = "prices"] /\ clock' = ses.at
    BY <1>3 DEF PreBarDone
  <2> QED BY <1>3, <2>1 DEF PreBarDone, Walking, SameBar, SesFields, Shape
<1> QED BY <1>1, <1>2, <1>3

LEMMA PrimeEventEffect ==
  ASSUME Shape, PrimeEvent
  PROVE  /\ SameBar /\ ses.phase = "prime" /\ ses'.phase = "prime" /\ ~user.acting
         /\ ses'.snap = ses.snap
         /\ \E v \in ses.due : /\ ses'.due = ses.due \ {v} /\ clock' = Fires[v]
                               /\ ses'.fired = [ses.fired EXCEPT ![v] = @ + 1]
         /\ user'.acting = TRUE /\ UserOK
         /\ book' = book /\ mode' = mode /\ price' = price
<1>1. PICK v \in ses.due : /\ ses' = [ses EXCEPT !.due = @ \ {v}, !.fired[v] = @ + 1]
                           /\ clock' = Fires[v]
  BY DEF PrimeEvent
<1>2. SameBar /\ ses'.phase = ses.phase /\ ses'.snap = ses.snap /\ ses'.due = ses.due \ {v}
  BY <1>1 DEF SameBar, SesFields, Shape
<1>3. ses'.fired = [ses.fired EXCEPT ![v] = @ + 1]
  BY <1>1 DEF SesFields, Shape
<1> QED BY <1>1, <1>2, <1>3 DEF PrimeEvent, Walking, UserOK, UserFields, Shape

LEMMA PrimeDoneEffect ==
  ASSUME Shape, PrimeDone
  PROVE  /\ DOMAIN ses' = DOMAIN ses /\ ses'.day = ses.day /\ ses'.data = ses.data
         /\ ses'.bars = ses.bars /\ ses'.at = ses.at /\ ses'.prevT = ses.prevT
         /\ ses'.wall = ses.wall /\ ses'.first = ses.first /\ ses'.fast = ses.fast
         /\ SameEvents /\ ses'.snap = ses.snap /\ ses.phase = "prime" /\ ~user.acting
         /\ \/ ses'.phase = "halt" /\ ses'.primed = ses.primed
            \/ /\ ses'.phase = "open" /\ ses'.primed = Higher(ses.primed, ses.wall)
               /\ ses.due = {}
         /\ user' = user /\ book' = book /\ clock' = clock /\ mode' = mode /\ price' = price
<1>1. CASE user.quit
  BY <1>1 DEF PrimeDone, Walking, SameEvents, SesFields, Shape
<1>2. CASE ~user.quit
  BY <1>2 DEF PrimeDone, Walking, SameEvents, SesFields, Shape
<1> QED BY <1>1, <1>2

LEMMA PrimeEffect ==
  ASSUME Shape, Prime
  PROVE  /\ DOMAIN ses' = DOMAIN ses /\ ses'.day = ses.day /\ ses'.data = ses.data
         /\ ses'.bars = ses.bars /\ ses'.at = ses.at /\ ses'.prevT = ses.prevT
         /\ ses'.primed = ses.primed /\ ses'.first = ses.first /\ ses'.fast = ses.fast
         /\ ses'.fired = ses.fired /\ ses'.snap = ses.snap
         /\ ses.phase = "open" /\ ses'.phase = "prime" /\ mode.warm /\ ~user.acting
         /\ ses'.wall \in Walls /\ ses'.wall >= ses.at
         /\ ses'.due = {v \in Events : Before < Fires[v] /\ Fires[v] <= ses'.wall}
         /\ user' = user /\ book' = book /\ clock' = clock /\ mode' = mode
         /\ price' \in Quotes \cup {price}
<1>1. PICK w, quote, due :
        /\ w \in Walls /\ quote \in Quotes \cup {price}
        /\ due = {v \in Events : Before < Fires[v] /\ Fires[v] <= w}
        /\ w >= ses.at /\ price' = quote
        /\ ses' = [ses EXCEPT !.phase = "prime", !.due = due, !.wall = w]
  BY DEF Prime, Before
<1>2. ses'.wall = w /\ ses'.due = due
  BY <1>1 DEF SesFields, Shape
<1> QED BY <1>1, <1>2 DEF Prime, Walking, SesFields, Shape

LEMMA WithdrawEffect ==
  ASSUME Shape, Withdraw
  PROVE  /\ SameBar /\ ses'.fired = ses.fired /\ ses'.snap = ses.snap
         /\ ses.phase = "sells" /\ ses'.phase = "pre" /\ ~user.acting
         /\ ses'.due = IF mode.daily /\ ~ses.first THEN DueBefore(Close) ELSE {}
         /\ UserOK /\ user'.acting \in BOOLEAN
         /\ \/ book' = book
            \/ \E q : book' = Market(book, [kind |-> "market", qty |-> q,
                                            lim |-> None, stop |-> None])
         /\ clock' = clock /\ mode' = mode /\ price' = price
<1>1. PICK sold \in BOOLEAN :
        /\ \E q : book' = IF sold THEN Market(book, [kind |-> "market", qty |-> q,
                                                     lim |-> None, stop |-> None])
                          ELSE book
        /\ user' = [user EXCEPT !.acting = sold]
  BY DEF Withdraw
<1>2. PICK due : /\ due = IF mode.daily /\ ~ses.first THEN DueBefore(Close) ELSE {}
                 /\ ses' = [ses EXCEPT !.phase = "pre", !.due = due]
  BY DEF Withdraw
<1>3. SameBar /\ ses'.fired = ses.fired /\ ses'.snap = ses.snap /\ ses'.phase = "pre"
      /\ ses'.due = due
  BY <1>2 DEF SameBar, SesFields, Shape
<1>4. UserOK /\ user'.acting \in BOOLEAN
  BY <1>1 DEF UserOK, UserFields, Shape
<1> QED BY <1>1, <1>2, <1>3, <1>4 DEF Withdraw, Walking

\* So has a set of times that is not empty a last one, if it has a bound.
LEMMA MaxIsGreatest ==
  ASSUME NEW S, S \subseteq Nat, S # {}, NEW n \in Nat, \A x \in S : x <= n
  PROVE  Max(S) \in S
<1> DEFINE T == {n - x : x \in S}
<1>0. \A x \in S : x \in Nat /\ x <= n /\ n - x \in Nat
  OBVIOUS
<1>1. T \subseteq Nat /\ T # {}
  BY <1>0
<1>2. Min(T) \in T /\ \A y \in T : Min(T) <= y
  BY <1>1, MinIsLeast
<1>3. PICK x \in S : Min(T) = n - x
  BY <1>2
<1>4. ASSUME NEW y \in S PROVE x >= y
  <2>1. n - y \in T /\ n - x <= n - y
    BY <1>2, <1>3
  <2> QED BY <2>1
<1> HIDE DEF T
<1> QED BY <1>4 DEF Max

LEMMA FirstFromIs ==
  ASSUME NEW f, NEW t, t \in FirstFrom(f)
  PROVE  t \in Printed /\ t >= f /\ \A e \in Printed : e >= f => t <= e
<1> DEFINE after == {e \in Printed : e >= f}
<1>1. after # {} /\ t = Min(after)
  BY DEF FirstFrom
<1>2. after \subseteq Nat
  BY EndsAssumption DEF Printed
<1>3. t \in after /\ \A e \in after : t <= e
  BY <1>1, <1>2, MinIsLeast
<1> QED BY <1>3

LEMMA VisitedPrinted ==
  ASSUME Printed # {}
  PROVE  /\ Visited \subseteq Printed
         /\ \A v \in Events : FirstFrom(Fires[v]) \subseteq Visited
<1>1. Printed \subseteq Nat /\ \A e \in Printed : e <= Close
  BY EndsAssumption DEF Printed
<1>2. Min(Printed) \in Printed
  BY <1>1, MinIsLeast
<1>3. Max(Printed) \in Printed
  BY <1>1, MaxIsGreatest, EndsAssumption
<1>4. \A v \in Events : FirstFrom(Fires[v]) \subseteq Printed
  BY FirstFromIs
<1>5. Forced \subseteq Printed /\ \A v \in Events : FirstFrom(Fires[v]) \subseteq Forced
  BY <1>2, <1>3, <1>4 DEF Forced
<1> QED BY <1>5 DEF Visited

LEMMA NextBarEffect ==
  ASSUME Shape, Tape, NextBar
  PROVE  \E t \in Printed :
           /\ t > ses.at /\ t \in Upcoming /\ \A e \in Upcoming : t <= e
           /\ DOMAIN ses' = DOMAIN ses /\ ses'.day = ses.day /\ ses'.data = ses.data
           /\ ses'.bars = ses.bars /\ ses'.at = t /\ ses'.prevT = ses.prevT
           /\ ses'.primed = ses.primed /\ ses'.wall = ses.wall
           /\ ses'.first = ses.first /\ ses'.fast = ses.fast
           /\ SameEvents /\ ses'.snap = ses.snap
           /\ ses.phase = "open" /\ ses'.phase = (IF ses.fast THEN "prices" ELSE "sells")
           /\ ~user.acting
           /\ user' = user /\ book' = book /\ clock' = t /\ mode' = mode /\ price' = price
<1>1. ses.phase = "open" /\ ~user.acting /\ Upcoming # {}
  BY DEF NextBar, Walking
<1>2. Printed # {}
  BY <1>1 DEF Tape
<1>3. Upcoming \subseteq Printed /\ Upcoming \subseteq Nat /\ \A e \in Upcoming : e > ses.at
  BY <1>2, VisitedPrinted, EndsAssumption DEF Upcoming, Printed
<1>4. Min(Upcoming) \in Upcoming /\ \A e \in Upcoming : Min(Upcoming) <= e
  BY <1>1, <1>3, MinIsLeast
<1>5. PICK t : t = Min(Upcoming)
  OBVIOUS
<1>6. /\ ses' = [ses EXCEPT !.at = t, !.phase = IF ses.fast THEN "prices" ELSE "sells"]
      /\ clock' = t
  BY <1>5 DEF NextBar
<1>7. /\ DOMAIN ses' = DOMAIN ses /\ ses'.day = ses.day /\ ses'.data = ses.data
      /\ ses'.bars = ses.bars /\ ses'.at = t /\ ses'.prevT = ses.prevT
      /\ ses'.primed = ses.primed /\ ses'.wall = ses.wall
      /\ ses'.first = ses.first /\ ses'.fast = ses.fast
      /\ SameEvents /\ ses'.snap = ses.snap
      /\ ses'.phase = (IF ses.fast THEN "prices" ELSE "sells")
  BY <1>6 DEF SameEvents, SesFields, Shape
<1>8. t \in Printed /\ t > ses.at /\ t \in Upcoming /\ \A e \in Upcoming : t <= e
  BY <1>3, <1>4, <1>5
<1> QED BY <1>1, <1>6, <1>7, <1>8 DEF NextBar

LEMMA BeginSessionEffect ==
  ASSUME Shape, BeginSession
  PROVE  /\ DOMAIN ses' = DOMAIN ses /\ ses'.day = ses.day + 1 /\ ses.day < Len(Days)
         /\ ses'.data \in {"data", "empty", "partial"}
         /\ ses'.at = 0 /\ ses'.prevT = 0 /\ ses'.primed = 0 /\ ses'.wall = ses.wall
         /\ ses'.first = FALSE /\ ses'.fast \in BOOLEAN /\ (ses'.fast => mode.fast)
         /\ ses'.snap = {} /\ ses'.due \subseteq Events
         /\ ses'.fired = [v \in Events |-> 0]
         /\ ses.phase = "idle" /\ ses'.phase \in {"idle", "error", "pre", "open"}
         /\ ses'.phase = "open" => ses'.data # "partial" /\ Printed' # {}
         /\ ses'.phase = "pre" => ses'.data = "partial"
         /\ ses'.data = "partial" => mode.daily /\ ses'.phase \in {"pre", "error"}
         /\ ses'.data = "empty" /\ mode.daily => ses'.phase = "idle"
         /\ mode.daily /\ ses'.data # "empty" => Printed' \subseteq {Close}
         /\ \A e \in Ends : ses'.bars[e].c \in Nat
         /\ clock' \in {clock, Now}
         /\ user' = user /\ book' = book /\ mode' = mode /\ price' = price
<1> DEFINE day == ses.day + 1
           data == IF Days[day] = "partial" /\ ~(mode.daily /\ mode.live)
                   THEN "empty" ELSE Days[day]
           partial == data = "partial"
           skipped == data = "empty" /\ (mode.daily \/ mode.warm \/ price = 0)
           due == IF partial THEN DueBefore(Now) ELSE {}
           fast == mode.fast /\ ~user.indicator
           pre == IF mode.daily THEN DueBefore(Close) ELSE {}
           phase == IF skipped THEN "idle" ELSE IF Tied(pre) THEN "error"
                    ELSE IF partial THEN "pre" ELSE "open"
           printed(bars) ==
             [e \in Ends |->
                CASE data # "data" -> IF partial THEN NoBar ELSE Flat(price)
                  [] mode.daily /\ e # Close -> NoBar
                  [] OTHER -> bars[e]]
<1>0. mode.daily \in BOOLEAN /\ mode.live \in BOOLEAN /\ mode.warm \in BOOLEAN
      /\ mode.fast \in BOOLEAN
  BY ModesAssumption DEF Shape, ModeType
<1>1. ses.day \in Nat /\ ses.day < Len(Days) /\ day \in 1..Len(Days)
  BY DataAssumption, LenProperties DEF BeginSession, Shape
<1>2. data \in {"data", "empty", "partial"} /\ (partial => mode.daily)
  <2>1. Days[day] \in {"data", "empty", "partial"}
    BY <1>1, DataAssumption, ElementOfSeq
  <2> QED BY <2>1
<1>3. due \subseteq Events
  BY DEF DueBefore
<1>4. PICK bars, ph, bs :
        /\ bars \in Tapes
        /\ bs = printed(bars) /\ ph = phase
        /\ data = "data" => \E e \in Ends : bs[e] # NoBar
        /\ ses' = [ses EXCEPT
               !.day = day, !.data = data, !.bars = bs, !.at = 0, !.phase = ph,
               !.snap = {}, !.due = due, !.prevT = 0, !.primed = 0, !.first = FALSE,
               !.fast = fast, !.fired = [v \in Events |-> 0]]
  <2>1. PICK bars \in Tapes :
          /\ IF data = "data" THEN \E e \in Ends : printed(bars)[e] # NoBar
             ELSE bars = CHOOSE tape \in Tapes : TRUE
          /\ ses' = [ses EXCEPT
               !.day = day, !.data = data, !.bars = printed(bars), !.at = 0,
               !.phase = phase, !.snap = {}, !.due = due, !.prevT = 0, !.primed = 0,
               !.first = FALSE, !.fast = fast, !.fired = [v \in Events |-> 0]]
    BY Zenon DEF BeginSession
  <2> HIDE DEF day, data, due, fast, phase, printed
  <2> QED BY <2>1, Zenon
<1>5. fast \in BOOLEAN /\ (fast => mode.fast)
  BY <1>0
<1>6. /\ DOMAIN ses' = DOMAIN ses /\ ses'.day = day /\ ses'.data = data /\ ses'.bars = bs
      /\ ses'.at = 0 /\ ses'.prevT = 0 /\ ses'.primed = 0 /\ ses'.wall = ses.wall
      /\ ses'.first = FALSE /\ ses'.fast = fast /\ ses'.snap = {} /\ ses'.due = due
      /\ ses'.fired = [v \in Events |-> 0] /\ ses'.phase = ph
  <2> HIDE DEF day, data, due, fast, skipped, partial, printed, phase
  <2> QED BY <1>4 DEF SesFields, Shape
<1>7. \A e \in Ends : bs[e] \in Bars \cup {NoBar, Flat(price)}
  BY <1>4, DataAssumption
<1>8. \A e \in Ends : bs[e].c \in Nat
  BY <1>7 DEF Bars, NoBar, Flat, Prices, Shape
<1>9. mode.daily /\ data # "empty" => \A e \in Ends : bs[e] # NoBar => e = Close
  BY <1>2, <1>4
<1>10. ph = "open" => \E e \in Ends : bs[e] # NoBar
  <2>1. CASE data = "data"
    BY <1>4, <2>1
  <2>2. CASE data = "empty" /\ ph = "open"
    <3>1. price # 0 /\ bs[Close] = Flat(price)
      BY <1>4, <2>2, EndsAssumption
    <3>2. Flat(price).c # NoBar.c
      BY <3>1 DEF Flat, NoBar
    <3> QED BY <3>1, <3>2, EndsAssumption
  <2>3. CASE data = "partial"
    BY <1>4, <2>3
  <2> QED BY <1>2, <2>1, <2>2, <2>3
<1>11. Printed' = {e \in Ends : bs[e] # NoBar}
  BY <1>6 DEF Printed
<1>12. ph = "pre" => data = "partial"
  BY <1>4
<1>13. data = "partial" => ph \in {"pre", "error"}
  BY <1>4
<1>14. data = "empty" /\ mode.daily => ph = "idle"
  BY <1>4
<1>15. ph = "open" => data # "partial"
  BY <1>4
<1>16. /\ ses.phase = "idle" /\ clock' \in {clock, Now}
       /\ user' = user /\ book' = book /\ mode' = mode /\ price' = price
  BY DEF BeginSession
<1>17. ph \in {"idle", "error", "pre", "open"}
  BY <1>4
<1> HIDE DEF data, due, fast, skipped, partial, printed, phase
<1>18. mode.daily /\ data # "empty" => Printed' \subseteq {Close}
  BY <1>9, <1>11
<1>19. ph = "open" => Printed' # {}
  BY <1>10, <1>11
<1> QED BY <1>1, <1>2, <1>3, <1>5, <1>6, <1>8, <1>12, <1>13, <1>14, <1>15, <1>16, <1>17,
            <1>18, <1>19 DEF partial

LEMMA AlgorithmEffect ==
  ASSUME Shape, Algorithm
  PROVE  /\ ses' = ses /\ clock' = clock /\ mode' = mode /\ price' = price
         /\ user.acting /\ UserFields' /\ user'.acting \in BOOLEAN
         /\ user'.quit \in BOOLEAN /\ (user.quit => user'.quit)
         /\ user'.ops \in 0..MaxOps
<1>1. user.ops < MaxOps => user.ops + 1 \in 0..MaxOps
  BY DataAssumption DEF Shape
<1>2. CASE Place
  BY <1>2 DEF Place, Shape, UserFields
<1>3. CASE Cancel
  <2>1. user' = [user EXCEPT !.ops = @ + 1]
    BY <1>3 DEF Cancel
  <2> QED BY <1>1, <1>3, <2>1 DEF Cancel, Meddle, Shape, UserFields
<1>4. CASE Update
  <2>1. user' = [user EXCEPT !.ops = @ + 1] /\ Meddle /\ UNCHANGED <<mode, ses, clock, price>>
    BY <1>4 DEF Update
  <2> QED BY <1>1, <2>1 DEF Meddle, Shape, UserFields
<1>5. CASE Quit
  BY <1>1, <1>5 DEF Quit, Meddle, Shape, UserFields
<1>6. CASE RegisterIndicator
  BY <1>1, <1>6 DEF RegisterIndicator, Meddle, Shape, UserFields
<1>7. CASE Return
  BY <1>7 DEF Return, Shape, UserFields
<1> QED BY <1>2, <1>3, <1>4, <1>5, <1>6, <1>7 DEF Algorithm

LEMMA EventRan ==
  ASSUME Shape, NEW v \in Events, NEW f, f = [ses.fired EXCEPT ![v] = @ + 1],
         ses.fired[v] = 0
  PROVE  f \in [Events -> {0, 1}] /\ f[v] = 1 /\ \A w \in Events \ {v} : f[w] = ses.fired[w]
  BY DEF Shape

\* An event that is due has not run: its number of runs stays 0 or 1.
LEMMA DueNotRun ==
  ASSUME Shape, Where, Tape, Happened, NEW v \in ses.due,
         ses.phase \in {"pre", "events", "prime"}
  PROVE  v \in Events /\ ses.fired[v] = 0
<1>1. v \in Events /\ ses.fired[v] \in {0, 1} /\ Fires[v] \in Nat \ {0}
  BY FiresType DEF Shape
<1>2. Before \in Nat /\ ses.at \in Nat
  BY DEF Before, Higher, Shape
<1>3. CASE ses.phase = "pre" /\ ses.data = "partial"
  BY <1>1, <1>3 DEF Happened, Ran
<1>4. CASE ses.phase = "pre" /\ ses.data # "partial"
  <2>1. mode.daily /\ Before = 0
    BY <1>1, <1>4, ModesAssumption DEF Shape, Happened, Where, Stepping, Before, Higher
  <2> QED BY <1>1, <1>4, <2>1 DEF Happened, Ran
<1>5. CASE ses.phase = "events"
  <2>1. v \in Scheduled /\ (mode.daily => Fires[v] >= Close)
    BY <1>1, <1>5 DEF Happened, Scheduled
  <2>2. Before < Fires[v]
    <3>1. CASE ses.fast
      <4>1. ses.at \in FirstFrom(Fires[v]) /\ ses.primed = 0
        BY <2>1, <3>1, ModesAssumption DEF Scheduled, Where, Shape
      <4>2. ses.prevT = 0 \/ ses.prevT \in Printed
        BY DEF Tape
      <4>3. ses.prevT < ses.at
        BY <1>5 DEF Where, Stepping, InBar
      <4>4. ~(ses.prevT >= Fires[v])
        BY <1>1, <1>2, <4>1, <4>2, <4>3, FirstFromIs DEF Shape
      <4> QED BY <1>1, <4>1, <4>4 DEF Before, Higher, Shape
    <3>2. CASE ~ses.fast
      BY <2>1, <3>2 DEF Scheduled, Before, Higher
    <3> QED BY <3>1, <3>2
  <2>3. Close \in Nat
    BY EndsAssumption
  <2> QED BY <1>1, <1>2, <1>5, <2>1, <2>2, <2>3 DEF Happened, Ran
<1>6. CASE ses.phase = "prime"
  BY <1>1, <1>2, <1>6 DEF Happened, Ran
<1> QED BY <1>3, <1>4, <1>5, <1>6

-----------------------------------------------------------------------------
(* Each part of the invariant is kept by every step.                       *)

\* The loop's steps that touch neither the bar nor the events.
Passes ==
  \/ \E ph \in {"moo", "pass1", "moc", "pass2", "late", "close"} : Visit(ph)
  \/ Leave("moo", "pass1") \/ Leave("pass1", "moc") \/ Leave("moc", "data")
  \/ Leave("pass2", "late")
  \/ OnData \/ TakePrices \/ EventsDone \/ EndSession \/ EndOfDay \/ NextDay

LEMMA PassesEffect ==
  ASSUME Shape, Passes
  PROVE  /\ SameBar /\ SameEvents /\ UserFields'
         /\ user'.acting \in BOOLEAN /\ user'.quit = user.quit /\ user'.ops = user.ops
         /\ clock' = clock /\ mode' = mode /\ ~user.acting
         /\ price' \in {price, ses.bars[ses.at].c}
         /\ (price' # price => ses.phase = "prices")
         /\ \/ /\ ses'.phase = ses.phase /\ ses'.snap \subseteq ses.snap
               /\ ses.phase \in {"moo", "pass1", "moc", "pass2", "late", "close"}
            \/ /\ ~user'.acting \/ ses'.phase \in {"check", "eod"}
               /\ <<ses.phase, ses'.phase>> \in
                    {<<"moo", "pass1">>, <<"pass1", "moc">>, <<"moc", "data">>,
                     <<"pass2", "late">>, <<"data", "check">>, <<"prices", "moo">>,
                     <<"events", "pass2">>, <<"open", "close">>, <<"close", "eod">>,
                     <<"eod", "halt">>, <<"eod", "idle">>}
         /\ (ses.phase = "events" => ses.due = {})
<1>0. SesFields /\ UserFields /\ user.acting \in BOOLEAN
  BY DEF Shape
<1>1. ASSUME NEW ph \in {"moo", "pass1", "moc", "pass2", "late", "close"}, Visit(ph)
      PROVE  /\ SameBar /\ SameEvents /\ ses.phase = ph /\ ses'.phase = ph
             /\ ses'.snap \subseteq ses.snap /\ ~user.acting
             /\ user'.acting \in BOOLEAN /\ UserOK
             /\ clock' = clock /\ mode' = mode /\ price' = price
  BY <1>1, VisitEffect
<1>2. ASSUME NEW ph, NEW next, Leave(ph, next)
      PROVE  /\ SameBar /\ SameEvents /\ ses'.phase = next /\ ses.phase = ph
             /\ ~user.acting /\ user' = user /\ clock' = clock /\ mode' = mode
             /\ price' = price
  BY <1>0, <1>2, LeaveEffect
<1>3. CASE \E ph \in {"moo", "pass1", "moc", "pass2", "late", "close"} : Visit(ph)
  BY <1>0, <1>1, <1>3 DEF UserOK, UserFields
<1>4. CASE Leave("moo", "pass1")
  BY <1>0, <1>2, <1>4 DEF UserFields
<1>5. CASE Leave("pass1", "moc")
  BY <1>0, <1>2, <1>5 DEF UserFields
<1>6. CASE Leave("moc", "data")
  BY <1>0, <1>2, <1>6 DEF UserFields
<1>7. CASE Leave("pass2", "late")
  BY <1>0, <1>2, <1>7 DEF UserFields
<1>8. CASE OnData
  BY <1>0, <1>8, OnDataEffect DEF UserOK, UserFields
<1>9. CASE TakePrices
  BY <1>0, <1>9, TakePricesEffect DEF UserFields
<1>10. CASE EventsDone
  BY <1>0, <1>10, EventsDoneEffect DEF UserFields
<1>11. CASE EndSession
  BY <1>0, <1>11, EndSessionEffect DEF UserFields
<1>12. CASE EndOfDay
  BY <1>0, <1>12, EndOfDayEffect DEF UserOK, UserFields
<1>13. CASE NextDay
  BY <1>0, <1>13, NextDayEffect DEF UserFields
<1> QED BY <1>3, <1>4, <1>5, <1>6, <1>7, <1>8, <1>9, <1>10, <1>11, <1>12, <1>13 DEF Passes

LEMMA NextSplit ==
  Next <=> \/ Passes \/ Algorithm \/ BeginSession \/ NextBar \/ Withdraw \/ PreBarEvent
           \/ PreBarDone \/ CheckQuit \/ FireEvent \/ BarDone \/ Prime \/ PrimeEvent
           \/ PrimeDone
  BY DEF Next, Loop, Passes

LEMMA ShapeStep ==
  ASSUME Shape, Where, Tape, Happened, [Next]_vars
  PROVE  Shape'
<1>0. SesFields /\ UserFields
  BY DEF Shape
<1>1. CASE UNCHANGED vars
  BY <1>1 DEF vars, Shape, SesFields, UserFields
<1>2. CASE Passes
  <2>1. ses.phase = "prices" => ses.bars[ses.at].c \in Nat
    <3>1. ses.phase = "prices" => ses.at \in Printed
      BY DEF Where, Stepping, InBar, Tape, Shape
    <3> QED BY <3>1 DEF Shape, Printed
  <2>2. price' \in Nat
    BY <1>2, <2>1, PassesEffect DEF Shape
  <2> QED BY <1>2, <2>2, PassesEffect DEF Shape, SameBar, SameEvents
<1>3. CASE Algorithm
  BY <1>3, AlgorithmEffect DEF Shape, SesFields
<1>4. CASE BeginSession
  <2>0. ses'.day = ses.day + 1 /\ ses.day < Len(Days) /\ Len(Days) \in Nat
    BY <1>4, BeginSessionEffect, DataAssumption, LenProperties
  <2>1. ses'.day \in 0..Len(Days)
    BY <2>0 DEF Shape
  <2>2. clock' \in Nat
    BY <1>4, BeginSessionEffect, TimesAssumption DEF Shape
  <2>3. ses'.fired \in [Events -> {0, 1}]
    BY <1>4, BeginSessionEffect
  <2>4. /\ DOMAIN ses' = DOMAIN ses /\ ses'.data \in {"data", "empty", "partial"}
        /\ ses'.at = 0 /\ ses'.prevT = 0 /\ ses'.primed = 0 /\ ses'.wall = ses.wall
        /\ ses'.due \subseteq Events /\ ses'.fast \in BOOLEAN /\ ses'.first = FALSE
        /\ user' = user /\ mode' = mode /\ price' = price
        /\ \A e \in Ends : ses'.bars[e].c \in Nat
    BY <1>4, BeginSessionEffect
  <2>5. SesFields' /\ UserFields'
    BY <1>0, <2>4 DEF SesFields, UserFields
  <2>6. /\ mode' \in Modes /\ price' \in Nat /\ user'.acting \in BOOLEAN
        /\ user'.quit \in BOOLEAN /\ user'.ops \in 0..MaxOps /\ ses'.wall \in Nat
    BY <2>4 DEF Shape
  <2>7. ses'.at \in Nat /\ ses'.prevT \in Nat /\ ses'.primed \in Nat
    BY <2>4
  <2>8. ses'.first \in BOOLEAN
    BY <2>4, Zenon
  <2> QED BY <2>1, <2>2, <2>3, <2>4, <2>5, <2>6, <2>7, <2>8 DEF Shape
<1>5. CASE NextBar
  <2>1. Printed \subseteq Nat
    BY EndsAssumption DEF Printed
  <2> QED BY <1>0, <1>5, <2>1, NextBarEffect DEF Shape, SesFields, UserFields, SameEvents
<1>6. CASE Withdraw
  <2>1. ses'.due \subseteq Events
    BY <1>6, WithdrawEffect DEF DueBefore
  <2> QED BY <1>0, <1>6, <2>1, WithdrawEffect DEF Shape, SameBar, UserOK, UserFields
<1>7. ASSUME SameBar, NEW v \in ses.due, ses'.due = ses.due \ {v},
             ses'.fired = [ses.fired EXCEPT ![v] = @ + 1],
             ses.phase \in {"pre", "events", "prime"},
             user'.acting = TRUE, UserOK, clock' \in Nat, mode' = mode, price' = price
      PROVE  Shape'
  <2>1. v \in Events /\ ses.fired[v] = 0
    BY <1>7, DueNotRun
  <2>2. ses'.fired \in [Events -> {0, 1}]
    BY <1>7, <2>1, EventRan
  <2> QED BY <1>0, <1>7, <2>2 DEF Shape, SameBar, UserOK, UserFields
<1>8. CASE PreBarEvent
  BY <1>7, <1>8, PreBarEventEffect, FiresType DEF Shape
<1>9. CASE FireEvent
  BY <1>7, <1>9, FireEventEffect DEF Shape
<1>10. CASE PrimeEvent
  BY <1>7, <1>10, PrimeEventEffect, FiresType DEF Shape
<1>11. CASE PreBarDone
  <2>1. clock' \in Nat /\ ses'.due \subseteq Events
    BY <1>11, PreBarDoneEffect, TimesAssumption DEF Shape
  <2> QED BY <1>0, <1>11, <2>1, PreBarDoneEffect DEF Shape, SameBar, UserFields
<1>12. CASE CheckQuit
  <2>1. ses'.due \subseteq Events
    BY <1>12, CheckQuitEffect DEF Scheduled, Shape
  <2> QED BY <1>0, <1>12, <2>1, CheckQuitEffect DEF Shape, SameBar, UserFields
<1>13. CASE BarDone
  BY <1>0, <1>13, BarDoneEffect DEF Shape, SesFields, UserFields, SameEvents
<1>14. CASE Prime
  <2>1. ses'.due \subseteq Events /\ ses'.wall \in Nat /\ price' \in Nat
    BY <1>14, PrimeEffect, TimesAssumption, DataAssumption DEF Shape
  <2> QED BY <1>0, <1>14, <2>1, PrimeEffect DEF Shape, SesFields, UserFields
<1>15. CASE PrimeDone
  <2>1. ses'.primed \in Nat
    BY <1>15, PrimeDoneEffect DEF Shape, Higher
  <2> QED BY <1>0, <1>15, <2>1, PrimeDoneEffect DEF Shape, SesFields, UserFields, SameEvents
<1> QED BY <1>1, <1>2, <1>3, <1>4, <1>5, <1>6, <1>8, <1>9, <1>10, <1>11, <1>12, <1>13,
           <1>14, <1>15, NextSplit

\* Where the loop may stand after a step that moved neither the bar nor the tape.
LEMMA WhereStep ==
  ASSUME Shape, Where, Tape, Happened, [Next]_vars
  PROVE  Where'
<1>0. /\ ses.at \in Nat /\ ses.prevT \in Nat /\ ses.wall \in Nat /\ clock \in Nat
      /\ Close \in Nat /\ user.acting \in BOOLEAN
  BY EndsAssumption DEF Shape
<1>1. CASE UNCHANGED vars
  BY <1>1 DEF vars, Where, Stepping
<1>2. CASE Passes
  <2>1. /\ ses'.phase \in InBar => ses.phase \in InBar
        /\ Stepping' => Stepping
        /\ ses'.phase \notin {"open", "prime"} /\ (ses.phase # "idle")
        /\ ses.phase \notin {"pre", "halt", "error"}
        /\ user'.acting => ses'.phase \in {"pre", "moo", "pass1", "moc", "check", "events",
                                           "pass2", "late", "prime", "close", "eod"}
    BY <1>2, PassesEffect DEF SameBar, InBar, Stepping
  <2>2. /\ SameBar /\ clock' = clock /\ mode' = mode
    BY <1>2, PassesEffect
  <2> QED BY <2>1, <2>2 DEF SameBar, Where
<1>3. CASE Algorithm
  <2>1. ses.phase # "open"
    BY <1>3, AlgorithmEffect DEF Where
  <2> QED BY <1>3, <2>1, AlgorithmEffect DEF Where, Stepping
<1>4. CASE BeginSession
  <2>1. /\ ses'.at = 0 /\ ses'.prevT = 0 /\ ses'.primed = 0 /\ user' = user /\ mode' = mode
        /\ ses'.first = FALSE /\ (ses'.fast => mode.fast)
        /\ ses.phase = "idle" /\ ses'.phase \in {"idle", "error", "pre", "open"}
        /\ ses'.phase = "open" => ses'.data # "partial"
        /\ ses'.phase = "pre" => ses'.data = "partial"
        /\ ses'.data = "partial" => mode.daily /\ ses'.phase \in {"pre", "error"}
        /\ ses'.data = "empty" /\ mode.daily => ses'.phase = "idle"
    BY <1>4, BeginSessionEffect
  <2>2. ~Stepping' /\ ses'.phase \notin InBar
    BY <2>1 DEF Stepping, InBar
  <2>3. ~user'.acting /\ ~ses'.first
    BY <1>0, <2>1, Zenon DEF Where
  <2> QED BY <2>1, <2>2, <2>3 DEF Where
<1>5. CASE NextBar
  <2>1. PICK t \in Printed :
          /\ t > ses.at /\ ses'.data = ses.data /\ ses'.at = t /\ ses'.prevT = ses.prevT
          /\ ses'.primed = ses.primed /\ ses'.first = ses.first /\ ses'.fast = ses.fast
          /\ ses.phase = "open" /\ ses'.phase \in {"prices", "sells"} /\ ~user.acting
          /\ user' = user /\ clock' = t /\ mode' = mode
    BY <1>5, NextBarEffect
  <2>2. t \in Nat
    BY EndsAssumption DEF Printed
  <2>3. ses.prevT = ses.at /\ ses.data # "partial" /\ ~(ses.data = "empty" /\ mode.daily)
    BY <2>1 DEF Where
  <2>4. mode.daily => t = Close /\ ses.at = 0
    <3>1. mode.daily => Printed \subseteq {Close}
      BY <2>3 DEF Tape
    <3> QED BY <1>0, <2>1, <2>2, <3>1 DEF Tape
  <2> QED BY <1>0, <2>1, <2>2, <2>3, <2>4 DEF Where, Stepping
<1>6. CASE Withdraw
  <2>1. SameBar /\ ses.phase = "sells" /\ ses'.phase = "pre" /\ clock' = clock /\ mode' = mode
    BY <1>6, WithdrawEffect
  <2> QED BY <1>0, <2>1 DEF Where, Stepping, InBar, SameBar
<1>7. CASE PreBarEvent
  <2>1. PICK v \in ses.due : clock' = Fires[v]
    BY <1>7, PreBarEventEffect
  <2>2. v \in Events /\ Fires[v] \in Nat
    BY FiresType DEF Shape
  <2>3. SameBar /\ ses.phase = "pre" /\ ses'.phase = "pre" /\ mode' = mode
    BY <1>7, PreBarEventEffect
  <2>4. ses.data # "partial" => mode.daily /\ Fires[v] < Close
    BY <2>2, <2>3 DEF Happened
  <2>5. ses.data # "partial" => clock' <= ses.at
    BY <1>0, <2>1, <2>2, <2>3, <2>4 DEF Where, Stepping
  <2> QED BY <2>3, <2>5 DEF Where, Stepping, InBar, SameBar
<1>8. CASE PreBarDone
  <2>1. /\ SameBar /\ mode' = mode /\ user' = user /\ ses.phase = "pre" /\ ~user.acting
        /\ \/ ses.data = "partial" /\ ses'.phase = "halt"
           \/ ses.data # "partial" /\ ses'.phase = "close"
           \/ ses.data # "partial" /\ ses'.phase = "prices" /\ clock' = ses.at
    BY <1>8, PreBarDoneEffect
  <2> QED BY <1>0, <2>1 DEF Where, Stepping, InBar, SameBar
<1>9. CASE CheckQuit
  <2>1. /\ SameBar /\ mode' = mode /\ user' = user /\ ses.phase = "check" /\ ~user.acting
        /\ clock' = clock /\ ses'.phase \in {"events", "halt", "close"}
    BY <1>9, CheckQuitEffect
  <2> QED BY <1>0, <2>1 DEF Where, Stepping, InBar, SameBar
<1>10. CASE FireEvent
  <2>1. /\ SameBar /\ mode' = mode /\ ses.phase = "events" /\ ses'.phase = "events"
        /\ clock' = clock
    BY <1>10, FireEventEffect
  <2> QED BY <1>0, <2>1 DEF Where, Stepping, InBar, SameBar
<1>11. CASE BarDone
  <2>1. /\ ses'.data = ses.data /\ ses'.at = ses.at /\ ses'.primed = ses.primed
        /\ ses'.prevT = ses.at /\ (ses'.fast => ses.fast)
        /\ ses.phase = "late" /\ ses'.phase \in {"open", "halt", "close"}
        /\ mode' = mode /\ user' = user /\ ~user.acting /\ clock' = clock
    BY <1>11, BarDoneEffect
  <2>2. ses.prevT < ses.at /\ clock = ses.at
    BY <2>1 DEF Where, Stepping, InBar
  <2>3. ses'.prevT # 0
    BY <1>0, <2>1, <2>2
  <2> QED BY <2>1, <2>2, <2>3 DEF Where, Stepping, InBar
<1>12. CASE Prime
  <2>1. /\ ses'.data = ses.data /\ ses'.at = ses.at /\ ses'.prevT = ses.prevT
        /\ ses'.primed = ses.primed /\ ses'.first = ses.first /\ ses'.fast = ses.fast
        /\ ses.phase = "open" /\ ses'.phase = "prime" /\ mode.warm /\ ~user.acting
        /\ ses'.wall \in Nat /\ ses'.wall >= ses.at /\ user' = user /\ mode' = mode
    BY <1>12, PrimeEffect, TimesAssumption
  <2> QED BY <1>0, <2>1 DEF Where, Stepping, InBar
<1>13. CASE PrimeEvent
  <2>1. PICK v \in ses.due : clock' = Fires[v]
    BY <1>13, PrimeEventEffect
  <2>2. SameBar /\ ses.phase = "prime" /\ ses'.phase = "prime" /\ mode' = mode
    BY <1>13, PrimeEventEffect
  <2>3. v \in Events /\ Fires[v] <= ses.wall
    BY <2>2 DEF Happened, Shape
  <2> QED BY <2>1, <2>2, <2>3 DEF Where, Stepping, InBar, SameBar
<1>14. CASE PrimeDone
  <2>1. /\ ses'.data = ses.data /\ ses'.at = ses.at /\ ses'.prevT = ses.prevT
        /\ ses'.first = ses.first /\ ses'.fast = ses.fast
        /\ ses.phase = "prime" /\ ses'.phase \in {"open", "halt"} /\ ~user.acting
        /\ user' = user /\ mode' = mode
    BY <1>14, PrimeDoneEffect
  <2>2. mode.warm
    BY <2>1 DEF Where
  <2> QED BY <2>1, <2>2 DEF Where, Stepping, InBar
<1> QED BY <1>1, <1>2, <1>3, <1>4, <1>5, <1>6, <1>7, <1>8, <1>9, <1>10, <1>11, <1>12, <1>13,
           <1>14, NextSplit

\* What was printed is fixed for the day, and the quiet-bar path visits the first
\* bar of each scheduled time.
LEMMA TapeStep ==
  ASSUME Shape, Where, Tape, Happened, [Next]_vars
  PROVE  Tape'
<1>1. CASE UNCHANGED vars
  BY <1>1 DEF vars, Tape, Printed, FirstFrom, Stepping
<1>2. ASSUME /\ ses'.bars = ses.bars /\ ses'.at = ses.at /\ ses'.data = ses.data
             /\ mode' = mode /\ ses'.prevT \in {ses.prevT, ses.at}
             /\ ses'.fast \in BOOLEAN /\ (ses'.fast => ses.fast)
             /\ ses'.phase \in {"open", "prime"} =>
                  ses.phase \in {"open", "prime"} \/ ses.at \in Printed
             /\ Stepping' => Stepping /\ ses'.prevT = ses.prevT
      PROVE  Tape'
  <2>1. Printed' = Printed /\ \A v \in Events : FirstFrom(Fires[v])' = FirstFrom(Fires[v])
    BY <1>2 DEF Printed, FirstFrom
  <2> QED BY <1>2, <2>1 DEF Tape
<1>0. ses.fast \in BOOLEAN /\ ses.at \in Nat /\ ses.prevT \in Nat
  BY DEF Shape
<1>3. CASE Passes
  <2>1. /\ SameBar /\ mode' = mode
        /\ Stepping' => Stepping
        /\ ses'.phase \notin {"open", "prime"}
    BY <1>3, PassesEffect DEF SameBar, InBar, Stepping
  <2> QED BY <1>0, <1>2, <2>1 DEF SameBar
<1>4. CASE Algorithm
  BY <1>0, <1>2, <1>4, AlgorithmEffect DEF Stepping
<1>5. CASE BeginSession
  <2>1. /\ ses'.at = 0 /\ ses'.prevT = 0 /\ mode' = mode
        /\ ses'.phase \in {"idle", "error", "pre", "open"}
        /\ ses'.phase = "open" => Printed' # {}
        /\ ses'.phase = "pre" => ses'.data = "partial"
        /\ mode.daily /\ ses'.data # "empty" => Printed' \subseteq {Close}
    BY <1>5, BeginSessionEffect
  <2>2. ~Stepping'
    BY <2>1 DEF Stepping, InBar
  <2> QED BY <2>1, <2>2 DEF Tape
<1>6. CASE NextBar
  <2>1. PICK t \in Printed :
          /\ \A e \in Upcoming : t <= e
          /\ ses'.data = ses.data /\ ses'.bars = ses.bars /\ ses'.at = t
          /\ ses'.prevT = ses.prevT /\ ses'.fast = ses.fast /\ mode' = mode
          /\ ses.phase = "open" /\ ses'.phase \in {"prices", "sells"}
    BY <1>6, NextBarEffect
  <2>2. Printed' = Printed /\ \A v \in Events : FirstFrom(Fires[v])' = FirstFrom(Fires[v])
    BY <2>1 DEF Printed, FirstFrom
  <2>3. ASSUME ses.fast, NEW v \in Events, NEW e \in FirstFrom(Fires[v]), ses.prevT < e, e < t
        PROVE  FALSE
    <3>1. e \in Visited /\ ses.prevT = ses.at
      BY <2>1, VisitedPrinted DEF Where
    <3>2. e \in Upcoming
      BY <2>3, <3>1 DEF Upcoming
    <3>3. e \in Nat /\ t \in Nat
      BY <2>1, <3>1, VisitedPrinted, EndsAssumption DEF Printed
    <3> QED BY <2>1, <2>3, <3>2, <3>3
  <2> QED BY <2>1, <2>2, <2>3 DEF Tape
<1>7. CASE Withdraw
  <2>1. SameBar /\ ses.phase = "sells" /\ ses'.phase = "pre" /\ mode' = mode
    BY <1>7, WithdrawEffect
  <2>2. Stepping' => Stepping
    BY <2>1 DEF Stepping, InBar
  <2> QED BY <1>0, <1>2, <2>1, <2>2 DEF SameBar
<1>8. CASE PreBarEvent
  <2>1. SameBar /\ ses.phase = "pre" /\ ses'.phase = "pre" /\ mode' = mode
    BY <1>8, PreBarEventEffect
  <2>2. Stepping' => Stepping
    BY <2>1 DEF Stepping, SameBar
  <2> QED BY <1>0, <1>2, <2>1, <2>2 DEF SameBar
<1>9. CASE PreBarDone
  <2>1. /\ SameBar /\ mode' = mode /\ ses.phase = "pre"
        /\ \/ ses.data = "partial" /\ ses'.phase = "halt"
           \/ ses.data # "partial" /\ ses'.phase \in {"close", "prices"}
    BY <1>9, PreBarDoneEffect
  <2>2. Stepping' => Stepping
    BY <2>1 DEF Stepping, InBar
  <2> QED BY <1>0, <1>2, <2>1, <2>2 DEF SameBar
<1>10. CASE CheckQuit
  <2>1. /\ SameBar /\ mode' = mode /\ ses.phase = "check"
        /\ ses'.phase \in {"events", "halt", "close"}
    BY <1>10, CheckQuitEffect
  <2>2. Stepping' => Stepping
    BY <2>1 DEF Stepping, InBar
  <2> QED BY <1>0, <1>2, <2>1, <2>2 DEF SameBar
<1>11. CASE FireEvent
  <2>1. SameBar /\ mode' = mode /\ ses.phase = "events" /\ ses'.phase = "events"
    BY <1>11, FireEventEffect
  <2>2. Stepping' => Stepping
    BY <2>1 DEF Stepping, InBar
  <2> QED BY <1>0, <1>2, <2>1, <2>2 DEF SameBar
<1>12. CASE BarDone
  <2>1. /\ ses'.data = ses.data /\ ses'.at = ses.at /\ ses'.bars = ses.bars
        /\ ses'.prevT = ses.at /\ ses'.fast \in BOOLEAN /\ (ses'.fast => ses.fast)
        /\ ses.phase = "late" /\ ses'.phase \in {"open", "halt", "close"} /\ mode' = mode
    BY <1>12, BarDoneEffect
  <2>2. ses.prevT < ses.at
    BY <2>1 DEF Where, Stepping, InBar
  <2>3. ses.at \in Printed
    BY <1>0, <2>2 DEF Tape
  <2>4. ~Stepping'
    BY <2>1 DEF Stepping, InBar
  <2> QED BY <1>2, <2>1, <2>3, <2>4
<1>13. CASE Prime
  <2>1. /\ ses'.data = ses.data /\ ses'.at = ses.at /\ ses'.prevT = ses.prevT
        /\ ses'.bars = ses.bars /\ ses'.fast = ses.fast
        /\ ses.phase = "open" /\ ses'.phase = "prime" /\ mode' = mode
    BY <1>13, PrimeEffect
  <2>2. ~Stepping'
    BY <2>1 DEF Stepping, InBar
  <2> QED BY <1>0, <1>2, <2>1, <2>2
<1>14. CASE PrimeEvent
  <2>1. SameBar /\ ses.phase = "prime" /\ ses'.phase = "prime" /\ mode' = mode
    BY <1>14, PrimeEventEffect
  <2>2. ~Stepping'
    BY <2>1 DEF Stepping, InBar
  <2> QED BY <1>0, <1>2, <2>1, <2>2 DEF SameBar
<1>15. CASE PrimeDone
  <2>1. /\ ses'.data = ses.data /\ ses'.at = ses.at /\ ses'.prevT = ses.prevT
        /\ ses'.bars = ses.bars /\ ses'.fast = ses.fast
        /\ ses.phase = "prime" /\ ses'.phase \in {"open", "halt"} /\ mode' = mode
    BY <1>15, PrimeDoneEffect
  <2>2. ~Stepping'
    BY <2>1 DEF Stepping, InBar
  <2> QED BY <1>0, <1>2, <2>1, <2>2
<1> QED BY <1>1, <1>3, <1>4, <1>5, <1>6, <1>7, <1>8, <1>9, <1>10, <1>11, <1>12, <1>13,
           <1>14, <1>15, NextSplit

\* The frontiers are numbers, and both are where the session says.
LEMMA Frontiers ==
  ASSUME Shape
  PROVE  /\ Before \in Nat /\ Reached \in Nat
         /\ Before = Higher(ses.prevT, ses.primed) /\ Reached = Higher(ses.at, ses.primed)
         /\ ses.at \in Nat /\ ses.prevT \in Nat /\ ses.primed \in Nat /\ ses.wall \in Nat
  BY DEF Before, Reached, Higher, Shape

LEMMA SameBarReads ==
  ASSUME SameBar, mode' = mode
  PROVE  /\ Before' = Before /\ Reached' = Reached /\ Printed' = Printed
         /\ Scheduled' = Scheduled
<1>1. Printed' = Printed /\ \A v \in Events : FirstFrom(Fires[v])' = FirstFrom(Fires[v])
  BY DEF SameBar, Printed, FirstFrom
<1>2. Before' = Before /\ Reached' = Reached
  BY DEF SameBar, Before, Reached
<1>3. Scheduled' = Scheduled
  BY <1>1 DEF SameBar, Scheduled
<1> QED BY <1>1, <1>2, <1>3

\* A bar's events are those between the frontier before it and the one it sets,
\* whichever way the loop found the bar; a daily bar's earlier ones ran ahead.
LEMMA ScheduledIs ==
  ASSUME Shape, Where, Tape, ses.phase \in InBar, NEW v \in Events
  PROVE  (Fires[v] <= Before \/ (mode.daily /\ Fires[v] < Close) \/ v \in Scheduled)
           <=> Fires[v] <= Reached
<1>0. /\ Fires[v] \in Nat /\ ses.at \in Nat /\ ses.prevT \in Nat /\ ses.primed \in Nat
      /\ Close \in Nat /\ mode.daily \in BOOLEAN /\ ses.fast \in BOOLEAN
      /\ Fires[v] # 0
  BY FiresType, EndsAssumption, ModesAssumption DEF Shape, ModeType
<1>1. ses.prevT < ses.at /\ Stepping
  BY DEF Where, Stepping
<1>2. CASE ~ses.fast /\ ~mode.daily
  <2>1. v \in Scheduled <=> ses.prevT < Fires[v] /\ Fires[v] <= ses.at /\ ses.primed < Fires[v]
    BY <1>2 DEF Scheduled
  <2> QED BY <1>0, <1>1, <1>2, <2>1 DEF Before, Reached, Higher
<1>3. CASE ~ses.fast /\ mode.daily
  <2>1. ses.at = Close /\ ses.prevT = 0 /\ ses.primed = 0
    BY <1>1, <1>3, ModesAssumption DEF Where, Shape
  <2>2. v \in Scheduled <=> /\ Fires[v] >= Close /\ ses.prevT < Fires[v]
                            /\ Fires[v] <= ses.at /\ ses.primed < Fires[v]
    BY <1>3 DEF Scheduled
  <2> QED BY <1>0, <1>3, <2>1, <2>2 DEF Before, Reached, Higher
<1>4. CASE ses.fast
  <2>1. ~mode.daily /\ ses.primed = 0
    BY <1>4, ModesAssumption DEF Where, Shape
  <2>2. v \in Scheduled <=> FirstFrom(Fires[v]) = {ses.at}
    BY <1>4, <2>1 DEF Scheduled
  <2>3. ses.at \in Printed
    BY <1>0, <1>1 DEF Tape
  <2>4. FirstFrom(Fires[v]) = {ses.at} => ses.prevT < Fires[v] /\ Fires[v] <= ses.at
    <3>1. SUFFICES ASSUME ses.at \in FirstFrom(Fires[v])
                   PROVE  ses.prevT < Fires[v] /\ Fires[v] <= ses.at
      OBVIOUS
    <3>2. ses.at >= Fires[v] /\ \A e \in Printed : e >= Fires[v] => ses.at <= e
      BY <3>1, FirstFromIs
    <3>3. ses.prevT = 0 \/ ses.prevT \in Printed
      BY DEF Tape
    <3> QED BY <1>0, <1>1, <3>2, <3>3
  <2>5. ASSUME ses.prevT < Fires[v], Fires[v] <= ses.at
        PROVE  FirstFrom(Fires[v]) = {ses.at}
    <3>1. PICK t : FirstFrom(Fires[v]) = {t}
      BY <1>0, <2>3, <2>5 DEF FirstFrom
    <3>2. t \in Printed /\ t >= Fires[v] /\ t <= ses.at
      BY <1>0, <2>3, <2>5, <3>1, FirstFromIs
    <3>3. ~(ses.prevT < t /\ t < ses.at)
      BY <1>1, <1>4, <3>1 DEF Tape
    <3>4. t \in Nat
      BY <3>2, EndsAssumption DEF Printed
    <3> QED BY <1>0, <2>5, <3>1, <3>2, <3>3, <3>4
  <2> QED BY <1>0, <1>1, <2>1, <2>2, <2>4, <2>5 DEF Before, Reached, Higher
<1> QED BY <1>0, <1>2, <1>3, <1>4

\* Every step leaves the events that have run where the loop takes them to be.
LEMMA HappenedStep ==
  ASSUME Shape, Where, Tape, Happened, [Next]_vars
  PROVE  Happened'
<1>0. /\ \A v \in Events : Fires[v] \in Nat /\ Fires[v] # 0
      /\ Close \in Nat /\ mode.daily \in BOOLEAN
  BY FiresType, EndsAssumption, ModesAssumption DEF Shape, ModeType
<1>1. CASE UNCHANGED vars
  <2>1. ses' = ses /\ mode' = mode /\ user' = user
    BY <1>1 DEF vars
  <2>2. Before' = Before /\ Reached' = Reached /\ Scheduled' = Scheduled
    BY <2>1 DEF Before, Reached, Scheduled, FirstFrom, Printed
  <2>3. ASSUME NEW v \in Events
        PROVE  Ran(v)' <=> Ran(v)
    BY <2>1 DEF Ran
  <2> QED BY <2>1, <2>2, <2>3 DEF Happened
<1>2. CASE Passes
  <2>1. SameBar /\ SameEvents /\ mode' = mode /\ user'.quit = user.quit
    BY <1>2, PassesEffect
  <2>2. Before' = Before /\ Reached' = Reached
    BY <2>1, SameBarReads
  <2>3. ASSUME NEW v \in Events
        PROVE  Ran(v)' <=> Ran(v)
    BY <2>1 DEF SameEvents, Ran
  <2>4. ASSUME NEW v \in Events, ses.phase = "events", ses.due = {}
        PROVE  Ran(v) <=> Fires[v] <= Reached
    BY <2>4, ScheduledIs DEF Happened, InBar
  <2>5. \/ /\ ses'.phase = ses.phase
           /\ ses.phase \in {"moo", "pass1", "moc", "pass2", "late", "close"}
        \/ <<ses.phase, ses'.phase>> \in
             {<<"moo", "pass1">>, <<"pass1", "moc">>, <<"moc", "data">>,
              <<"pass2", "late">>, <<"data", "check">>, <<"prices", "moo">>,
              <<"open", "close">>, <<"close", "eod">>, <<"eod", "halt">>, <<"eod", "idle">>}
        \/ ses.phase = "events" /\ ses.due = {} /\ ses'.phase = "pass2"
    BY <1>2, PassesEffect
  <2>6. CASE ses.phase = "events" /\ ses.due = {} /\ ses'.phase = "pass2"
    BY <2>2, <2>3, <2>4, <2>6 DEF Happened
  <2>7. CASE ses'.phase = ses.phase
             /\ ses.phase \in {"moo", "pass1", "moc", "pass2", "late", "close"}
    BY <2>1, <2>2, <2>3, <2>7 DEF Happened
  <2>8. CASE <<ses.phase, ses'.phase>> \in
             {<<"moo", "pass1">>, <<"pass1", "moc">>, <<"moc", "data">>,
              <<"pass2", "late">>, <<"data", "check">>, <<"prices", "moo">>,
              <<"open", "close">>, <<"close", "eod">>, <<"eod", "halt">>, <<"eod", "idle">>}
    BY <2>1, <2>2, <2>3, <2>8 DEF Happened
  <2> QED BY <2>5, <2>6, <2>7, <2>8
<1>3. CASE Algorithm
  <2>1. ses' = ses /\ mode' = mode /\ (user.quit => user'.quit)
    BY <1>3, AlgorithmEffect
  <2>2. Before' = Before /\ Reached' = Reached /\ Scheduled' = Scheduled
    BY <2>1 DEF Before, Reached, Scheduled, FirstFrom, Printed
  <2> QED BY <2>1, <2>2 DEF Happened, Ran
<1>4. CASE BeginSession
  <2>1. /\ ses'.at = 0 /\ ses'.primed = 0 /\ ses'.fired = [v \in Events |-> 0]
        /\ ses'.phase \in {"idle", "error", "pre", "open"}
        /\ ses'.phase = "pre" => ses'.data = "partial"
    BY <1>4, BeginSessionEffect
  <2>2. Reached' = 0
    BY <2>1 DEF Reached, Higher
  <2>3. \A v \in Events : ~Ran(v)' /\ ~(Fires[v] <= 0)
    BY <1>0, <2>1 DEF Ran
  <2> QED BY <2>1, <2>2, <2>3 DEF Happened
<1>5. CASE NextBar
  <2>1. /\ ses'.prevT = ses.prevT /\ ses'.primed = ses.primed /\ ses'.fired = ses.fired
        /\ ses.phase = "open" /\ ses'.phase = (IF ses.fast THEN "prices" ELSE "sells")
        /\ mode' = mode
    BY <1>5, NextBarEffect DEF SameEvents
  <2>2. Before' = Reached
    BY <2>1 DEF Where, Before, Reached
  <2>3. ses'.phase = "prices" => ~mode.daily
    BY <2>1, ModesAssumption DEF Where, Shape
  <2>4. \A v \in Events : Ran(v)' <=> Ran(v)
    BY <2>1 DEF Ran
  <2>5. \A v \in Events : Ran(v) <=> Fires[v] <= Reached
    BY <2>1 DEF Happened
  <2>6. ses'.phase \in {"prices", "sells"}
    BY <2>1
  <2> QED BY <2>1, <2>2, <2>3, <2>4, <2>5, <2>6 DEF Happened
<1>6. CASE Withdraw
  <2>1. /\ SameBar /\ ses'.fired = ses.fired /\ ses.phase = "sells" /\ ses'.phase = "pre"
        /\ ses'.due = IF mode.daily /\ ~ses.first THEN DueBefore(Close) ELSE {}
        /\ mode' = mode
    BY <1>6, WithdrawEffect
  <2>2. Before' = Before
    BY <2>1, SameBarReads
  <2>3. mode.daily => ~ses.first
    BY <2>1 DEF Where, Stepping, InBar
  <2>4. ses'.data # "partial"
    BY <2>1 DEF Where, SameBar
  <2>5. \A v \in Events : v \in ses'.due <=> mode.daily /\ Fires[v] < Close
    BY <1>0, <2>1, <2>3 DEF DueBefore
  <2>6. \A v \in Events : Ran(v)' <=> Fires[v] <= Before
    BY <2>1 DEF Happened, Ran
  <2> QED BY <2>1, <2>2, <2>4, <2>5, <2>6 DEF Happened
<1>7. ASSUME NEW v \in ses.due, ses'.due = ses.due \ {v},
             ses'.fired = [ses.fired EXCEPT ![v] = @ + 1],
             ses.phase \in {"pre", "events", "prime"}
      PROVE  /\ v \in Events /\ Ran(v)' /\ ~(v \in ses'.due)
             /\ \A w \in Events : w # v => (Ran(w)' <=> Ran(w)) /\ (w \in ses'.due <=> w \in ses.due)
  <2>1. v \in Events /\ ses.fired[v] = 0
    BY <1>7, DueNotRun
  <2>2. ses'.fired[v] = 1 /\ \A w \in Events \ {v} : ses'.fired[w] = ses.fired[w]
    BY <1>7, <2>1, EventRan
  <2> QED BY <1>7, <2>1, <2>2 DEF Ran
<1>8. CASE PreBarEvent
  <2>1. SameBar /\ ses.phase = "pre" /\ ses'.phase = "pre" /\ mode' = mode
    BY <1>8, PreBarEventEffect
  <2>2. PICK v \in ses.due : ses'.due = ses.due \ {v}
                             /\ ses'.fired = [ses.fired EXCEPT ![v] = @ + 1]
    BY <1>8, PreBarEventEffect
  <2>3. /\ v \in Events /\ Ran(v)' /\ ~(v \in ses'.due)
        /\ \A w \in Events : w # v => (Ran(w)' <=> Ran(w)) /\ (w \in ses'.due <=> w \in ses.due)
    BY <1>7, <2>1, <2>2
  <2>4. Before' = Before /\ ses'.data = ses.data
    BY <2>1, SameBarReads DEF SameBar
  <2> QED BY <2>1, <2>2, <2>3, <2>4 DEF Happened
<1>9. CASE FireEvent
  <2>1. SameBar /\ ses.phase = "events" /\ ses'.phase = "events" /\ mode' = mode
    BY <1>9, FireEventEffect
  <2>2. PICK v \in ses.due : ses'.due = ses.due \ {v}
                             /\ ses'.fired = [ses.fired EXCEPT ![v] = @ + 1]
    BY <1>9, FireEventEffect
  <2>3. /\ v \in Events /\ Ran(v)' /\ ~(v \in ses'.due)
        /\ \A w \in Events : w # v => (Ran(w)' <=> Ran(w)) /\ (w \in ses'.due <=> w \in ses.due)
    BY <1>7, <2>1, <2>2
  <2>4. Before' = Before /\ Scheduled' = Scheduled
    BY <2>1, SameBarReads
  <2> QED BY <2>1, <2>2, <2>3, <2>4 DEF Happened
<1>10. CASE PrimeEvent
  <2>1. SameBar /\ ses.phase = "prime" /\ ses'.phase = "prime" /\ mode' = mode
    BY <1>10, PrimeEventEffect
  <2>2. PICK v \in ses.due : ses'.due = ses.due \ {v}
                             /\ ses'.fired = [ses.fired EXCEPT ![v] = @ + 1]
    BY <1>10, PrimeEventEffect
  <2>3. /\ v \in Events /\ Ran(v)' /\ ~(v \in ses'.due)
        /\ \A w \in Events : w # v => (Ran(w)' <=> Ran(w)) /\ (w \in ses'.due <=> w \in ses.due)
    BY <1>7, <2>1, <2>2
  <2>4. Before' = Before /\ ses'.wall = ses.wall
    BY <2>1, SameBarReads DEF SameBar
  <2> QED BY <2>1, <2>2, <2>3, <2>4 DEF Happened
<1>11. CASE PreBarDone
  <2>1. /\ SameBar /\ ses'.fired = ses.fired /\ ses.phase = "pre" /\ mode' = mode
        /\ user' = user /\ (ses.due = {} \/ user.quit)
        /\ \/ ses'.phase = "halt"
           \/ ses'.phase = "close" /\ user.quit
           \/ /\ ses.data # "partial" /\ ~(user.quit /\ mode.daily)
              /\ ses'.phase = "prices"
    BY <1>11, PreBarDoneEffect
  <2>2. Before' = Before
    BY <2>1, SameBarReads
  <2>3. \A v \in Events : Ran(v)' <=> Ran(v)
    BY <2>1 DEF Ran
  <2> QED BY <2>1, <2>2, <2>3 DEF Happened
<1>12. CASE CheckQuit
  <2>1. /\ SameBar /\ ses'.fired = ses.fired /\ ses.phase = "check" /\ mode' = mode
        /\ user' = user
        /\ \/ ses'.phase = "events" /\ ses'.due = Scheduled
           \/ ses'.phase = "halt"
           \/ ses'.phase = "close" /\ user.quit
    BY <1>12, CheckQuitEffect
  <2>2. Before' = Before /\ Scheduled' = Scheduled
    BY <2>1, SameBarReads
  <2>3. \A v \in Events : Ran(v)' <=> Ran(v)
    BY <2>1 DEF Ran
  <2> QED BY <2>1, <2>2, <2>3 DEF Happened
<1>13. CASE BarDone
  <2>1. /\ ses'.at = ses.at /\ ses'.primed = ses.primed /\ ses'.fired = ses.fired
        /\ ses.phase = "late" /\ user' = user
        /\ ses'.phase \in {"open", "halt"} \/ (ses'.phase = "close" /\ user.quit)
    BY <1>13, BarDoneEffect DEF SameEvents
  <2>2. Reached' = Reached
    BY <2>1 DEF Reached
  <2>3. \A v \in Events : Ran(v)' <=> Ran(v)
    BY <2>1 DEF Ran
  <2> QED BY <2>1, <2>2, <2>3 DEF Happened
<1>14. CASE Prime
  <2>1. /\ ses'.prevT = ses.prevT /\ ses'.primed = ses.primed /\ ses'.fired = ses.fired
        /\ ses.phase = "open" /\ ses'.phase = "prime"
        /\ ses'.due = {v \in Events : Before < Fires[v] /\ Fires[v] <= ses'.wall}
    BY <1>14, PrimeEffect
  <2>2. Before' = Before /\ Reached = Before
    BY <2>1 DEF Before, Reached, Where
  <2>3. \A v \in Events : Ran(v)' <=> Fires[v] <= Before
    BY <2>1, <2>2 DEF Happened, Ran
  <2>4. Before \in Nat
    BY Frontiers
  <2>5. \A v \in Events : /\ v \in ses'.due <=> Before < Fires[v] /\ Fires[v] <= ses'.wall
                          /\ ~(Fires[v] <= Before) <=> Before < Fires[v]
    BY <1>0, <2>1, <2>4
  <2> QED BY <2>1, <2>2, <2>3, <2>5 DEF Happened
<1>15. CASE PrimeDone
  <2>1. /\ ses'.at = ses.at /\ ses'.fired = ses.fired /\ ses.phase = "prime"
        /\ \/ ses'.phase = "halt"
           \/ /\ ses'.phase = "open" /\ ses'.primed = Higher(ses.primed, ses.wall)
              /\ ses.due = {}
    BY <1>15, PrimeDoneEffect DEF SameEvents
  <2>2. \A v \in Events : Ran(v)' <=> Ran(v)
    BY <2>1 DEF Ran
  <2>3. CASE ses'.phase = "open"
    <3>1. \A v \in Events : Ran(v) <=> Fires[v] <= Before \/ Fires[v] <= ses.wall
      BY <2>1, <2>3 DEF Happened
    <3>2. ses.prevT = ses.at /\ ses.at <= ses.wall
      BY <2>1 DEF Where
    <3>3. \A v \in Events : Fires[v] <= Reached' <=> Fires[v] <= Before \/ Fires[v] <= ses.wall
      BY <1>0, <2>1, <2>3, <3>2, Frontiers DEF Reached, Higher
    <3> QED BY <2>2, <2>3, <3>1, <3>3 DEF Happened
  <2> QED BY <2>1, <2>3 DEF Happened
<1> QED BY <1>1, <1>2, <1>3, <1>4, <1>5, <1>6, <1>8, <1>9, <1>10, <1>11, <1>12, <1>13,
           <1>14, <1>15, NextSplit

-----------------------------------------------------------------------------
(* What a step does to the book: nothing, one open ticket, or one more.    *)

\* What a phase may have done to ticket i of its snapshot.
ActedOn(ph, i) ==
  /\ IsOpen(book, i) /\ Outcome(book, book', i)
  /\ ph = "moo" => ~(mode.daily /\ book.tickets[i].day = ses.day)
  /\ ph = "moc" => Kind(i) = "moc"
  /\ ph = "pass1" => ~(ses.at <= ses.primed /\ BornNow(book.tickets[i]))
  /\ ph = "pass2" => ~BornNow(book.tickets[i])
  /\ ph \in {"pass1", "pass2"} /\ Kind(i) \in {"moo", "moc"} =>
       book'.fills[Len(book'.fills)].rows # {}

LEMMA SnapMin ==
  ASSUME Booked, ses.snap # {}
  PROVE  Min(ses.snap) \in ses.snap /\ Min(ses.snap) \in DOMAIN book.tickets
<1>1. DOMAIN book.tickets \subseteq Nat
  BY SeqShape DEF Booked, IsBook
<1>2. ses.snap \subseteq Nat
  BY <1>1 DEF Booked
<1> QED BY <1>2, MinIsLeast DEF Booked

LEMMA VisitOutcome ==
  ASSUME Shape, Booked,
         NEW ph \in {"moo", "pass1", "moc", "pass2", "late", "close"}, Visit(ph)
  PROVE  book' = book \/ \E i \in ses.snap : i \in DOMAIN book.tickets /\ ActedOn(ph, i)
<1>1. ses.snap # {} /\ book' = Handle(ph, Min(ses.snap))
  BY VisitEffect
<1>2. PICK i \in ses.snap : book' = Handle(ph, i) /\ i \in DOMAIN book.tickets
  BY <1>1, SnapMin
<1> DEFINE bar == ses.bars[ses.at]
<1>3. IsBook(book)
  BY DEF Booked
<1>4. \A px : IsOpen(book, i) => Outcome(book, Fill(book, i, px), i)
  BY <1>2, <1>3, FillOutcome DEF IsOpen
<1> DEFINE Rested(exclude) ==
             \/ book' = book
             \/ /\ IsOpen(book, i) /\ ~(exclude /\ BornNow(book.tickets[i]))
                /\ Outcome(book, book', i)
                /\ book.tickets[i].kind \in {"moo", "moc"} => book'.fills[Len(book'.fills)].rows # {}
<1>4a. ASSUME NEW exclude \in BOOLEAN, book' = CheckResting(book, i, bar, exclude)
      PROVE  Rested(exclude)
  <2>1. PICK c : c = book'
    OBVIOUS
  <2>2. i \in DOMAIN book.tickets
    BY <1>2
  <2> HIDE DEF bar
  <2>3. c = CheckResting(book, i, bar, exclude)
    BY <1>4a, <2>1
  <2>4. \/ c = book
        \/ /\ IsOpen(book, i) /\ ~(exclude /\ BornNow(book.tickets[i])) /\ Outcome(book, c, i)
           /\ book.tickets[i].kind \in {"moo", "moc"} => c.fills[Len(c.fills)].rows # {}
    BY <1>3, <2>2, <2>3, RestingOutcome
  <2> QED BY <2>1, <2>4, Zenon
<1> HIDE DEF Rested
<1>5. CASE ph = "moo"
  <2>1. book' = book \/ /\ IsOpen(book, i) /\ book' = Fill(book, i, bar.o)
                        /\ ~(mode.daily /\ book.tickets[i].day = ses.day)
    BY <1>2, <1>5 DEF Handle
  <2> QED BY <1>2, <1>4, <1>5, <2>1 DEF ActedOn
<1>6. CASE ph = "pass1"
  <2>1. book' = CheckResting(book, i, bar, ses.at <= ses.primed)
    BY <1>2, <1>6 DEF Handle
  <2>2. CASE ses.at <= ses.primed
    <3>1. book' = CheckResting(book, i, bar, TRUE)
      BY <2>1, <2>2, Zenon
    <3> QED BY <1>2, <1>6, <1>4a, <3>1 DEF ActedOn, Kind, Rested
  <2>3. CASE ~(ses.at <= ses.primed)
    <3>0. (ses.at <= ses.primed) = FALSE
      BY <2>3
    <3>1. book' = CheckResting(book, i, bar, FALSE)
      BY <2>1, <3>0, Zenon
    <3> QED BY <1>2, <1>6, <1>4a, <2>3, <3>1 DEF ActedOn, Kind, Rested
  <2> QED BY <2>2, <2>3
<1>7. CASE ph = "pass2"
  <2>1. book' = CheckResting(book, i, bar, TRUE)
    BY <1>2, <1>7 DEF Handle
  <2> QED BY <1>2, <1>7, <1>4a, <2>1 DEF ActedOn, Kind, Rested
<1>8. CASE ph = "late"
  <2>1. book' = book \/ (IsOpen(book, i) /\ book' = Fill(book, i, price))
    BY <1>2, <1>8 DEF Handle
  <2> QED BY <1>2, <1>4, <1>8, <2>1 DEF ActedOn
<1>9. CASE ph \in {"moc", "close"}
  <2>1. book' = book \/ (IsOpen(book, i) /\ Kind(i) = "moc" /\ book' = Fill(book, i, price))
    BY <1>2, <1>9 DEF Handle
  <2> QED BY <1>2, <1>4, <1>9, <2>1 DEF ActedOn
<1> QED BY <1>5, <1>6, <1>7, <1>8, <1>9

LEMMA WithdrawAdds ==
  ASSUME Shape, Booked, Withdraw
  PROVE  book' = book \/ \E o : o.kind = "market" /\ Adds(book, book', o)
<1>1. ASSUME NEW q, book' = Market(book, [kind |-> "market", qty |-> q,
                                          lim |-> None, stop |-> None])
      PROVE  \E o : o.kind = "market" /\ Adds(book, book', o)
  <2>1. PICK o : o = [kind |-> "market", qty |-> q, lim |-> None, stop |-> None]
    OBVIOUS
  <2>2. IsOrder(o) /\ o.kind = "market"
    BY <2>1 DEF IsOrder, Kinds
  <2>3. book' = Market(book, o)
    BY <1>1, <2>1
  <2> QED BY <2>2, <2>3, MarketAdds DEF Booked, Shape
<1> QED BY <1>1, WithdrawEffect

LEMMA PlacedAdds ==
  ASSUME Shape, Booked, Place
  PROVE  \E o : Adds(book, book', o)
<1>1. PICK o \in mode.orders : book' = PlaceOrder(book, o)
  BY DEF Place
<1>2. o \in Orders
  BY ModesAssumption DEF Shape, ModeType
<1> QED BY <1>1, <1>2, PlaceAdds DEF Booked, Shape

LEMMA CancelOutcome ==
  ASSUME Booked, Cancel
  PROVE  \E i \in OpenTickets(book) : Outcome(book, book', i) /\ NoFill(book, book')
<1>1. PICK i \in OpenTickets(book) : book' = SetStatus(book, i, "canceled")
  BY DEF Cancel
<1>2. i \in DOMAIN book.tickets
  BY DEF OpenTickets
<1> QED BY <1>1, <1>2, SetStatusOutcome DEF Booked, Statuses

LEMMA UpdateOutcome ==
  ASSUME Booked, Update
  PROVE  \E i \in OpenTickets(book) : Outcome(book, book', i) /\ NoFill(book, book')
<1>1. PICK i \in OpenTickets(book), o \in mode.orders :
        book' = [book EXCEPT !.tickets[i] = Amended(@, o)]
  BY DEF Update
<1>2. i \in DOMAIN book.tickets /\ book.tickets[i].status = "submitted"
  BY DEF OpenTickets, IsOpen
<1>3. PICK t : t = Amended(book.tickets[i], o) /\ book' = [book EXCEPT !.tickets[i] = t]
  BY <1>1, Zenon
<1>4. HasFields(book) /\ IsTicket(book.tickets[i]) /\ IsSeq(book.fills)
  BY <1>2 DEF Booked, IsBook
<1>5. Kept(book.tickets[i], t) /\ t.status = "submitted"
  <2>1. PICK lim, stop :
          t = [book.tickets[i] EXCEPT !.qty = o.qty, !.stop = stop, !.lim = lim]
    BY <1>3, Zenon DEF Amended
  <2> QED BY <1>2, <1>4, <2>1 DEF Kept, IsTicket
<1>6. HasFields(book') /\ NoFill(book, book') /\ book'.tickets = [book.tickets EXCEPT ![i] = t]
  BY <1>3, <1>4 DEF HasFields, NoFill
<1>7. IsSeq(book'.fills)
  BY <1>4, <1>6 DEF NoFill
<1>8. PICK c : c = book'
  OBVIOUS
<1>9. Touches(book, c, i) /\ c.tickets[i] = t
  BY <1>2, <1>5, <1>6, <1>7, <1>8, Rewritten DEF Booked
<1> QED BY <1>5, <1>6, <1>8, <1>9 DEF Outcome, Statuses

LEMMA BookStep ==
  ASSUME Shape, Booked, [Next]_vars
  PROVE  \/ book' = book
         \/ \E ph \in {"moo", "pass1", "moc", "pass2", "late", "close"} :
              Visit(ph) /\ \E i \in ses.snap : i \in DOMAIN book.tickets /\ ActedOn(ph, i)
         \/ \E i \in OpenTickets(book) : /\ Outcome(book, book', i) /\ NoFill(book, book')
                                         /\ Algorithm
         \/ \E o : Adds(book, book', o) /\ (Place \/ (Withdraw /\ o.kind = "market"))
<1>1. CASE \E ph \in {"moo", "pass1", "moc", "pass2", "late", "close"} : Visit(ph)
  BY <1>1, VisitOutcome
<1>2. CASE Withdraw
  BY <1>2, WithdrawAdds
<1>3. CASE Place
  BY <1>3, PlacedAdds
<1>4. CASE Cancel
  BY <1>4, CancelOutcome DEF Algorithm
<1>5. CASE Update
  BY <1>5, UpdateOutcome DEF Algorithm
<1>6. CASE UNCHANGED vars
  BY <1>6 DEF vars
<1>7. CASE Quit \/ RegisterIndicator \/ Return
  BY <1>7 DEF Quit, RegisterIndicator, Return
<1>8. CASE Leave("moo", "pass1") \/ Leave("pass1", "moc") \/ Leave("moc", "data")
           \/ Leave("pass2", "late")
  BY <1>8 DEF Leave
<1>9. CASE BeginSession \/ NextBar \/ PreBarEvent \/ PreBarDone \/ TakePrices
           \/ OnData \/ CheckQuit \/ FireEvent \/ EventsDone
  BY <1>9 DEF BeginSession, NextBar, PreBarEvent, PreBarDone, TakePrices,
              OnData, CheckQuit, FireEvent, EventsDone
<1>10. CASE BarDone \/ Prime \/ PrimeEvent \/ PrimeDone \/ EndSession \/ EndOfDay \/ NextDay
  BY <1>10 DEF BarDone, Prime, PrimeEvent, PrimeDone, EndSession, EndOfDay, NextDay
<1> QED BY <1>1, <1>2, <1>3, <1>4, <1>5, <1>6, <1>7, <1>8, <1>9, <1>10
        DEF Next, Loop, Algorithm

LEMMA SnapStep ==
  ASSUME Shape, Where, Tape, Booked, [Next]_vars
  PROVE  ses'.snap \subseteq DOMAIN book.tickets
<1>0. SesFields /\ ses.snap \subseteq DOMAIN book.tickets
      /\ OpenTickets(book) \subseteq DOMAIN book.tickets
  BY DEF Shape, Booked, OpenTickets
<1>1. CASE UNCHANGED vars \/ Algorithm
  BY <1>0, <1>1, AlgorithmEffect DEF vars
<1>2. CASE \E ph \in {"moo", "pass1", "moc", "pass2", "late", "close"} : Visit(ph)
  BY <1>0, <1>2, VisitEffect
<1>3. CASE Leave("moo", "pass1") \/ Leave("pass1", "moc") \/ Leave("moc", "data")
           \/ Leave("pass2", "late")
  BY <1>0, <1>3, LeaveEffect
<1>4. CASE OnData \/ TakePrices \/ EventsDone \/ EndSession \/ EndOfDay \/ NextDay
  BY <1>0, <1>4, OnDataEffect, TakePricesEffect, EventsDoneEffect, EndSessionEffect,
     EndOfDayEffect, NextDayEffect
<1>5. CASE BeginSession
  BY <1>5, BeginSessionEffect
<1>6. CASE NextBar
  BY <1>0, <1>6, NextBarEffect
<1>7. CASE Withdraw \/ PreBarEvent \/ PreBarDone
  BY <1>0, <1>7, WithdrawEffect, PreBarEventEffect, PreBarDoneEffect
<1>8. CASE CheckQuit \/ FireEvent \/ BarDone
  BY <1>0, <1>8, CheckQuitEffect, FireEventEffect, BarDoneEffect
<1>9. CASE Prime \/ PrimeEvent \/ PrimeDone
  BY <1>0, <1>9, PrimeEffect, PrimeEventEffect, PrimeDoneEffect
<1> QED BY <1>1, <1>2, <1>3, <1>4, <1>5, <1>6, <1>7, <1>8, <1>9, NextSplit DEF Passes

LEMMA OutcomeKeeps ==
  ASSUME Booked, NEW i \in DOMAIN book.tickets, IsOpen(book, i), Outcome(book, book', i)
  PROVE  /\ IsBook(book') /\ DOMAIN book'.tickets = DOMAIN book.tickets
         /\ \A j \in DOMAIN book.tickets :
              /\ Kept(book.tickets[j], book'.tickets[j])
              /\ book'.tickets[j].status \in Statuses
              /\ ~IsOpen(book, j) => book'.tickets[j] = book.tickets[j]
<1>1. /\ IsBook(book) /\ IsBook(book') /\ Len(book'.tickets) = Len(book.tickets)
      /\ \A j \in DOMAIN book.tickets : j # i => book'.tickets[j] = book.tickets[j]
      /\ Kept(book.tickets[i], book'.tickets[i]) /\ book'.tickets[i].status \in Statuses
  BY DEF Outcome, Touches, Booked
<1>2. DOMAIN book'.tickets = DOMAIN book.tickets
  BY <1>1, SeqShape DEF IsBook
<1>3. \A j \in DOMAIN book.tickets : Kept(book.tickets[j], book.tickets[j])
  BY <1>1 DEF IsBook, Kept
<1> QED BY <1>1, <1>2, <1>3 DEF Booked

LEMMA AddsKeeps ==
  ASSUME Booked, NEW o, Adds(book, book', o)
  PROVE  /\ IsBook(book') /\ Len(book.tickets) + 1 \notin DOMAIN book.tickets
         /\ DOMAIN book'.tickets = DOMAIN book.tickets \cup {Len(book.tickets) + 1}
         /\ \A j \in DOMAIN book.tickets : /\ Kept(book.tickets[j], book'.tickets[j])
                                           /\ book'.tickets[j] = book.tickets[j]
         /\ Stamped(book'.tickets[Len(book.tickets) + 1])
         /\ book'.tickets[Len(book.tickets) + 1].status \in Statuses
<1>1. /\ IsBook(book) /\ IsBook(book') /\ Len(book'.tickets) = Len(book.tickets) + 1
      /\ \A j \in DOMAIN book.tickets : book'.tickets[j] = book.tickets[j]
      /\ Stamped(book'.tickets[Len(book.tickets) + 1])
      /\ book'.tickets[Len(book.tickets) + 1].status \in Statuses
  BY DEF Adds, Grows, Booked
<1>2. /\ DOMAIN book.tickets = 1..Len(book.tickets) /\ Len(book.tickets) \in Nat
      /\ DOMAIN book'.tickets = 1..(Len(book.tickets) + 1)
  BY <1>1, SeqShape DEF IsBook
<1>3. \A j \in DOMAIN book.tickets : Kept(book.tickets[j], book.tickets[j])
  BY <1>1 DEF IsBook, Kept
<1>4. PICK L \in Nat : L = Len(book.tickets)
  BY <1>2
<1>5. L + 1 \notin 1..L /\ 1..(L + 1) = 1..L \cup {L + 1}
  OBVIOUS
<1>6. DOMAIN book'.tickets = DOMAIN book.tickets \cup {L + 1} /\ L + 1 \notin DOMAIN book.tickets
  BY <1>2, <1>4, <1>5, Zenon
<1>7. /\ DOMAIN book'.tickets = DOMAIN book.tickets \cup {Len(book.tickets) + 1}
      /\ Len(book.tickets) + 1 \notin DOMAIN book.tickets
  BY <1>4, <1>6, Zenon
<1> QED BY <1>1, <1>3, <1>7

\* Every step keeps the tickets there are, with their kinds and stamps; one that is
\* not open any more it does not touch; a new one it stamps with here and now.
LEMMA BookKeeps ==
  ASSUME Shape, Booked, [Next]_vars
  PROVE  /\ DOMAIN book.tickets \subseteq DOMAIN book'.tickets
         /\ \A j \in DOMAIN book.tickets :
              /\ Kept(book.tickets[j], book'.tickets[j])
              /\ ~IsOpen(book, j) => book'.tickets[j] = book.tickets[j]
         /\ \A j \in DOMAIN book'.tickets : book'.tickets[j].status \in Statuses
         /\ \A j \in DOMAIN book'.tickets \ DOMAIN book.tickets :
              /\ Stamped(book'.tickets[j]) /\ (Place \/ Withdraw)
              /\ Withdraw => \/ book'.tickets[j].kind \in {"market", "moo"}
                             \/ book'.tickets[j].kind = "moc" /\ ~(clock >= Close)
         /\ IsBook(book')
<1>1. CASE book' = book
  BY <1>1 DEF Booked, Kept, IsBook
<1>2. ASSUME NEW i \in DOMAIN book.tickets, IsOpen(book, i), Outcome(book, book', i)
      PROVE  /\ IsBook(book') /\ DOMAIN book'.tickets = DOMAIN book.tickets
             /\ \A j \in DOMAIN book.tickets :
                  /\ Kept(book.tickets[j], book'.tickets[j])
                  /\ book'.tickets[j].status \in Statuses
                  /\ ~IsOpen(book, j) => book'.tickets[j] = book.tickets[j]
  BY <1>2, OutcomeKeeps
<1>3. CASE \E ph \in {"moo", "pass1", "moc", "pass2", "late", "close"} :
             Visit(ph) /\ \E i \in ses.snap : i \in DOMAIN book.tickets /\ ActedOn(ph, i)
  BY <1>2, <1>3 DEF ActedOn
<1>4. CASE \E i \in OpenTickets(book) : Outcome(book, book', i)
  BY <1>2, <1>4 DEF OpenTickets
<1>5. CASE \E o : Adds(book, book', o) /\ (Place \/ (Withdraw /\ o.kind = "market"))
  <2>1. PICK o : Adds(book, book', o) /\ (Place \/ (Withdraw /\ o.kind = "market"))
    BY <1>5
  <2>2. ~(Place /\ Withdraw)
    BY DEF Place, Withdraw, Walking
  <2>3. o.kind = "market" =>
          \/ book'.tickets[Len(book.tickets) + 1].kind \in {"market", "moo"}
          \/ book'.tickets[Len(book.tickets) + 1].kind = "moc" /\ ~(clock >= Close)
    BY <2>1 DEF Adds
  <2>4. /\ IsBook(book') /\ Len(book.tickets) + 1 \notin DOMAIN book.tickets
        /\ DOMAIN book'.tickets = DOMAIN book.tickets \cup {Len(book.tickets) + 1}
        /\ \A j \in DOMAIN book.tickets : /\ Kept(book.tickets[j], book'.tickets[j])
                                          /\ book'.tickets[j] = book.tickets[j]
        /\ Stamped(book'.tickets[Len(book.tickets) + 1])
        /\ book'.tickets[Len(book.tickets) + 1].status \in Statuses
    BY <2>1, AddsKeeps
  <2>5. \A j \in DOMAIN book'.tickets \ DOMAIN book.tickets : j = Len(book.tickets) + 1
    BY <2>4
  <2> HIDE DEF Stamped
  <2>6. \A j \in DOMAIN book'.tickets : book'.tickets[j].status \in Statuses
    BY <2>4 DEF Booked
  <2> QED BY <2>1, <2>2, <2>3, <2>4, <2>5, <2>6
<1> QED BY <1>1, <1>3, <1>4, <1>5, BookStep

LEMMA BookedStep ==
  ASSUME Shape, Where, Tape, Booked, [Next]_vars
  PROVE  Booked'
<1>1. ses'.snap \subseteq DOMAIN book'.tickets
  BY SnapStep, BookKeeps
<1> QED BY <1>1, BookKeeps DEF Booked

-----------------------------------------------------------------------------
(* The fills: one for each filled ticket, each row of the ledger in one.   *)

LEMMA FillAppended ==
  ASSUME NEW b, IsBook(b), NEW F, NEW c, c.fills = Append(b.fills, F)
  PROVE  \E n : /\ n \notin DOMAIN b.fills /\ DOMAIN c.fills = DOMAIN b.fills \cup {n}
                /\ c.fills[n] = F /\ n = Len(c.fills)
                /\ \A k \in DOMAIN b.fills : c.fills[k] = b.fills[k]
<1>1. DOMAIN b.fills = 1..Len(b.fills) /\ Len(b.fills) \in Nat
  BY SeqShape DEF IsBook
<1>2. /\ DOMAIN c.fills = 1..(Len(b.fills) + 1) /\ Len(c.fills) = Len(b.fills) + 1
      /\ \A k \in 1..Len(b.fills) : c.fills[k] = b.fills[k]
      /\ c.fills[Len(b.fills) + 1] = F
  BY Appended DEF IsBook
<1> QED BY <1>1, <1>2

\* A fill of a ticket that had none, with rows that no fill had.
LEMMA FillRecords ==
  ASSUME Booked, Recorded, NEW i, OneFill(book, book', i),
         i \notin {book.fills[k].id : k \in DOMAIN book.fills},
         {j \in DOMAIN book'.tickets : book'.tickets[j].status = "filled"}
           = {j \in DOMAIN book.tickets : book.tickets[j].status = "filled"} \cup {i}
  PROVE  Recorded'
<1>1. PICK px, rows : /\ book'.fills = Append(book.fills, FillOf(i, clock, px, rows))
                      /\ book'.taken = book.taken \cup rows /\ RowsOK(book, rows)
  BY DEF OneFill
<1>2. PICK F : F = FillOf(i, clock, px, rows)
  OBVIOUS
<1>3. F.id = i /\ F.rows = rows
  BY <1>2 DEF FillOf
<1>4. PICK n : /\ n \notin DOMAIN book.fills /\ DOMAIN book'.fills = DOMAIN book.fills \cup {n}
               /\ book'.fills[n] = F
               /\ \A k \in DOMAIN book.fills : book'.fills[k] = book.fills[k]
  <2>1. book'.fills = Append(book.fills, F) /\ IsBook(book)
    BY <1>1, <1>2 DEF Booked
  <2>2. PICK c : c = book'
    OBVIOUS
  <2>3. c.fills = Append(book.fills, F)
    BY <2>1, <2>2
  <2>4. \E n : /\ n \notin DOMAIN book.fills /\ DOMAIN c.fills = DOMAIN book.fills \cup {n}
               /\ c.fills[n] = F /\ n = Len(c.fills)
               /\ \A k \in DOMAIN book.fills : c.fills[k] = book.fills[k]
    BY <2>1, <2>3, FillAppended
  <2> QED BY <2>2, <2>4
<1>5. \A k \in DOMAIN book.fills : book.fills[k].rows \subseteq book.taken
  BY DEF Recorded, RowsOnce
<1>6. rows \cap book.taken = {} /\ rows \subseteq DOMAIN Rows
  BY <1>1 DEF RowsOK
<1>7. book'.taken = UNION {book'.fills[k].rows : k \in DOMAIN book'.fills}
  <2>1. book.taken = UNION {book.fills[k].rows : k \in DOMAIN book.fills}
    BY DEF Recorded, RowsOnce
  <2>2. {book'.fills[k].rows : k \in DOMAIN book'.fills}
          = {book.fills[k].rows : k \in DOMAIN book.fills} \cup {rows}
    BY <1>3, <1>4
  <2> QED BY <1>1, <2>1, <2>2
<1>8. \A k, m \in DOMAIN book'.fills :
        k # m => book'.fills[k].rows \cap book'.fills[m].rows = {}
  <2>1. \A k, m \in DOMAIN book.fills :
          k # m => book.fills[k].rows \cap book.fills[m].rows = {}
    BY DEF Recorded, RowsOnce
  <2>2. \A k \in DOMAIN book.fills : book.fills[k].rows \cap rows = {}
    BY <1>5, <1>6
  <2> QED BY <1>3, <1>4, <2>1, <2>2
<1>9. \A k \in DOMAIN book'.fills : \A q, r \in book'.fills[k].rows :
        Rows[q].oid = Rows[r].oid /\ Rows[q].day = Rows[r].day
  <2>1. \A k \in DOMAIN book.fills : \A q, r \in book.fills[k].rows :
          Rows[q].oid = Rows[r].oid /\ Rows[q].day = Rows[r].day
    BY DEF Recorded, RowsOnce
  <2>2. \A q, r \in rows : Rows[q].oid = Rows[r].oid /\ Rows[q].day = Rows[r].day
    BY <1>1 DEF RowsOK
  <2> QED BY <1>3, <1>4, <2>1, <2>2
<1>10. \A k, m \in DOMAIN book'.fills : k # m => book'.fills[k].id # book'.fills[m].id
  <2>1. \A k, m \in DOMAIN book.fills : k # m => book.fills[k].id # book.fills[m].id
    BY DEF Recorded, FilledOnce
  <2> QED BY <1>3, <1>4, <2>1
<1>11. {book'.fills[k].id : k \in DOMAIN book'.fills}
         = {j \in DOMAIN book'.tickets : book'.tickets[j].status = "filled"}
  <2>1. {book'.fills[k].id : k \in DOMAIN book'.fills}
          = {book.fills[k].id : k \in DOMAIN book.fills} \cup {i}
    BY <1>3, <1>4
  <2> QED BY <2>1 DEF Recorded, FilledOnce
<1>12. book'.taken \subseteq DOMAIN Rows
  BY <1>1, <1>6 DEF Recorded
<1> QED BY <1>7, <1>8, <1>9, <1>10, <1>11, <1>12 DEF Recorded, RowsOnce, FilledOnce

LEMMA RecordedStep ==
  ASSUME Shape, Booked, Recorded, [Next]_vars
  PROVE  Recorded'
<1>1. ASSUME NoFill(book, book'),
             {j \in DOMAIN book'.tickets : book'.tickets[j].status = "filled"}
               = {j \in DOMAIN book.tickets : book.tickets[j].status = "filled"}
      PROVE  Recorded'
  BY <1>1 DEF NoFill, Recorded, RowsOnce, FilledOnce
<1>2. CASE book' = book
  BY <1>2 DEF Recorded, RowsOnce, FilledOnce
<1>3. ASSUME NEW i \in DOMAIN book.tickets, IsOpen(book, i), Outcome(book, book', i)
      PROVE  Recorded'
  <2>1. /\ DOMAIN book'.tickets = DOMAIN book.tickets
        /\ \A j \in DOMAIN book.tickets : j # i => book'.tickets[j] = book.tickets[j]
    BY <1>3, OutcomeKeeps DEF Outcome, Touches
  <2>2. book.tickets[i].status # "filled"
    BY <1>3 DEF IsOpen
  <2>3. CASE NoFill(book, book') /\ book'.tickets[i].status # "filled"
    BY <1>1, <2>1, <2>2, <2>3
  <2>4. CASE OneFill(book, book', i) /\ book'.tickets[i].status = "filled"
    <3>1. i \notin {book.fills[k].id : k \in DOMAIN book.fills}
      BY <2>2 DEF Recorded, FilledOnce
    <3>2. {j \in DOMAIN book'.tickets : book'.tickets[j].status = "filled"}
            = {j \in DOMAIN book.tickets : book.tickets[j].status = "filled"} \cup {i}
      BY <2>1, <2>4
    <3> QED BY <2>4, <3>1, <3>2, FillRecords
  <2> QED BY <1>3, <2>3, <2>4 DEF Outcome
<1>4. ASSUME NEW o, Adds(book, book', o)
      PROVE  Recorded'
  <2>1. PICK n : n = Len(book.tickets) + 1
    OBVIOUS
  <2>2. /\ n \notin DOMAIN book.tickets
        /\ DOMAIN book'.tickets = DOMAIN book.tickets \cup {n}
        /\ \A j \in DOMAIN book.tickets : book'.tickets[j] = book.tickets[j]
    BY <1>4, <2>1, AddsKeeps
  <2>3. \/ NoFill(book, book') /\ book'.tickets[n].status # "filled"
        \/ OneFill(book, book', n) /\ book'.tickets[n].status = "filled"
    BY <1>4, <2>1 DEF Adds
  <2>4. CASE NoFill(book, book') /\ book'.tickets[n].status # "filled"
    BY <1>1, <2>2, <2>4
  <2>5. CASE OneFill(book, book', n) /\ book'.tickets[n].status = "filled"
    <3>1. n \notin {book.fills[k].id : k \in DOMAIN book.fills}
      BY <2>2 DEF Recorded, FilledOnce
    <3>2. {j \in DOMAIN book'.tickets : book'.tickets[j].status = "filled"}
            = {j \in DOMAIN book.tickets : book.tickets[j].status = "filled"} \cup {n}
      BY <2>2, <2>5
    <3> QED BY <2>5, <3>1, <3>2, FillRecords
  <2> QED BY <2>3, <2>4, <2>5
<1> QED BY <1>2, <1>3, <1>4, BookStep DEF ActedOn, OpenTickets

-----------------------------------------------------------------------------
(* When tickets are placed.                                                *)

\* What InTime says of one ticket.
Timely(tk, snapped) ==
  /\ tk.day \in Nat /\ tk.day <= ses.day /\ tk.ms \in Nat
  /\ tk.by = "sells" => tk.kind \in {"market", "moo", "moc"}
                        /\ (mode.daily => tk.kind # "moc")
  /\ tk.day = ses.day =>
       /\ ses.phase = "open" \/ Stepping => tk.ms <= Reached
       /\ ses.phase = "prime" => tk.ms <= Higher(ses.primed, ses.wall)
  /\ tk.day = ses.day /\ tk.ms = ses.at /\ ses.primed < ses.at =>
       /\ ses.phase \in {"sells", "prices", "moo"} \/ (ses.phase = "pre" /\ Stepping)
          => tk.by \in Ahead
       /\ ses.phase = "pass1" => tk.by \in Ahead \cup {"pass1"}
       /\ ses.phase = "pass1" /\ snapped => tk.by \in Ahead
       /\ ses.phase = "moc" /\ snapped => tk.by \in Ahead \cup {"pass1"}

LEMMA InTimeIs ==
  InTime <=> \A i \in DOMAIN book.tickets : Timely(book.tickets[i], i \in ses.snap)
  BY DEF InTime, Timely, StampedNow

\* A ticket placed by a callback, or by the withdrawal's sale, is in time.
LEMMA PlacedTimely ==
  ASSUME Shape, Where, Tape, Booked, NEW u, Stamped(u),
         Place \/ Withdraw,
         Withdraw => \/ u.kind \in {"market", "moo"}
                     \/ u.kind = "moc" /\ ~(clock >= Close)
  PROVE  Timely(u, FALSE)'
<1>0. /\ clock \in Nat /\ ses.day \in Nat /\ ses.at \in Nat /\ ses.primed \in Nat
      /\ Close \in Nat
  BY EndsAssumption, DataAssumption, LenProperties DEF Shape
<1>1. u.day = ses.day /\ u.ms = clock /\ u.by = ses.phase
  BY DEF Stamped
<1>2. CASE Place
  <2>1. ses' = ses /\ mode' = mode /\ user.acting
    BY <1>2 DEF Place
  <2>2. /\ ses.phase \in {"pre", "moo", "pass1", "moc", "check", "events",
                          "pass2", "late", "prime", "close", "eod"}
        /\ Stepping => clock <= ses.at
        /\ ses.phase = "prime" => clock <= ses.wall
    BY <2>1 DEF Where
  <2>3. /\ Stepping => clock <= Reached
        /\ ses.phase = "prime" => clock <= Higher(ses.primed, ses.wall)
    BY <1>0, <2>2 DEF Reached, Higher, Shape
  <2>4. Timely(u, FALSE)
    BY <1>0, <1>1, <2>2, <2>3 DEF Timely, Ahead
  <2> QED BY <2>1, <2>4 DEF Timely, Stepping, Reached
<1>3. CASE Withdraw
  <2>1. SameBar /\ ses.phase = "sells" /\ ses'.phase = "pre" /\ mode' = mode
    BY <1>3, WithdrawEffect
  <2>2. /\ clock = ses.at /\ (mode.daily => ses.at = Close) /\ ses.data # "partial"
    BY <2>1 DEF Where, Stepping, InBar
  <2>3. mode.daily => u.kind # "moc"
    BY <1>0, <1>3, <2>2
  <2>4. clock <= Reached' /\ u.ms \in Nat /\ u.day <= ses'.day
    BY <1>0, <1>1, <2>1, <2>2 DEF Reached, Higher, SameBar
  <2>5. u.kind \in {"market", "moo", "moc"}
    BY <1>3
  <2> QED BY <1>0, <1>1, <2>1, <2>3, <2>4, <2>5 DEF Timely, Ahead, SameBar
<1> QED BY <1>2, <1>3

\* No step of the session makes a ticket there is late.
LEMMA TimelyKept ==
  ASSUME Shape, Where, Tape, Happened, Booked, [Next]_vars,
         NEW tk, NEW i, Timely(tk, i \in ses.snap)
  PROVE  Timely(tk, i \in ses.snap)'
<1>0. /\ tk.day \in Nat /\ tk.ms \in Nat /\ ses.day \in Nat /\ ses.at \in Nat
      /\ ses.prevT \in Nat /\ ses.primed \in Nat /\ ses.wall \in Nat /\ Reached \in Nat
      /\ tk.day <= ses.day
  BY DataAssumption, LenProperties, Frontiers DEF Shape, Timely
\* A step within the bar: nothing but the phase and the snapshot may change.
<1>1. ASSUME SameBar, mode' = mode, ses'.phase \notin {"open", "prime"},
             Stepping' => Stepping,
             ses'.phase \in {"sells", "prices", "moo", "pre"} =>
               (ses.phase \in {"sells", "prices", "moo", "pre"} /\ Stepping) \/ ~Stepping',
             ses'.phase = "pass1" => \/ ses.phase = "moo"
                                     \/ ses.phase = "pass1" /\ ses'.snap \subseteq ses.snap,
             ses'.phase = "moc" => \/ ses.phase = "pass1"
                                   \/ ses.phase = "moc" /\ ses'.snap \subseteq ses.snap
      PROVE  Timely(tk, i \in ses.snap)'
  <2>1. Reached' = Reached /\ ses'.day = ses.day /\ ses'.at = ses.at /\ ses'.primed = ses.primed
    BY <1>1, SameBarReads DEF SameBar
  <2>2. \A ph \in {"sells", "prices", "moo", "pass1", "moc"} : ses.phase = ph => Stepping
    BY DEF Stepping, InBar
  <2> QED BY <1>1, <2>1, <2>2 DEF Timely, Ahead, Stepping, InBar
<1>2. CASE UNCHANGED vars \/ Algorithm
  <2>1. ses' = ses /\ mode' = mode
    BY <1>2, AlgorithmEffect DEF vars
  <2> QED BY <2>1 DEF Timely, Stepping, Reached
<1>3. CASE Passes
  <2>1. /\ SameBar /\ mode' = mode
        /\ \/ /\ ses'.phase = ses.phase /\ ses'.snap \subseteq ses.snap
              /\ ses.phase \in {"moo", "pass1", "moc", "pass2", "late", "close"}
           \/ <<ses.phase, ses'.phase>> \in
                {<<"moo", "pass1">>, <<"pass1", "moc">>, <<"moc", "data">>,
                 <<"pass2", "late">>, <<"data", "check">>, <<"prices", "moo">>,
                 <<"events", "pass2">>, <<"open", "close">>, <<"close", "eod">>,
                 <<"eod", "halt">>, <<"eod", "idle">>}
    BY <1>3, PassesEffect
  <2> QED BY <1>1, <2>1 DEF Stepping, InBar, SameBar
<1>4. CASE BeginSession
  <2>1. ses'.day = ses.day + 1 /\ mode' = mode
    BY <1>4, BeginSessionEffect
  <2> QED BY <1>0, <2>1 DEF Timely
<1>5. CASE NextBar
  <2>1. PICK t \in Printed :
          /\ t > ses.at /\ ses'.at = t /\ ses'.primed = ses.primed /\ ses'.day = ses.day
          /\ ses.phase = "open" /\ ses'.phase \in {"prices", "sells"} /\ mode' = mode
    BY <1>5, NextBarEffect
  <2>2. t \in Nat
    BY EndsAssumption DEF Printed
  <2>3. tk.day = ses.day => tk.ms <= Reached
    BY <2>1 DEF Timely
  <2>4. tk.day = ses.day => tk.ms <= Reached' /\ ~(tk.ms = t /\ ses.primed < t)
    BY <1>0, <2>1, <2>2, <2>3 DEF Reached, Higher
  <2> QED BY <2>1, <2>4 DEF Timely
<1>6. CASE Withdraw
  <2>1. SameBar /\ ses.phase = "sells" /\ ses'.phase = "pre" /\ mode' = mode
    BY <1>6, WithdrawEffect
  <2> QED BY <1>1, <2>1 DEF Stepping, InBar
<1>7. CASE PreBarEvent
  <2>1. SameBar /\ ses.phase = "pre" /\ ses'.phase = "pre" /\ mode' = mode
    BY <1>7, PreBarEventEffect
  <2>2. Stepping' <=> Stepping
    BY <2>1 DEF Stepping, SameBar
  <2> QED BY <1>1, <2>1, <2>2
<1>8. CASE PreBarDone
  <2>1. /\ SameBar /\ mode' = mode /\ ses.phase = "pre"
        /\ \/ ses.data = "partial" /\ ses'.phase = "halt"
           \/ ses.data # "partial" /\ ses'.phase \in {"close", "prices"}
    BY <1>8, PreBarDoneEffect
  <2> QED BY <1>1, <2>1 DEF Stepping, InBar
<1>9. CASE CheckQuit
  <2>1. /\ SameBar /\ mode' = mode /\ ses.phase = "check"
        /\ ses'.phase \in {"events", "halt", "close"}
    BY <1>9, CheckQuitEffect
  <2> QED BY <1>1, <2>1 DEF Stepping, InBar
<1>10. CASE FireEvent
  <2>1. SameBar /\ mode' = mode /\ ses.phase = "events" /\ ses'.phase = "events"
    BY <1>10, FireEventEffect
  <2> QED BY <1>1, <2>1 DEF Stepping, InBar
<1>11. CASE BarDone
  <2>1. /\ ses'.day = ses.day /\ ses'.at = ses.at /\ ses'.primed = ses.primed
        /\ ses.phase = "late" /\ ses'.phase \in {"open", "halt", "close"} /\ mode' = mode
    BY <1>11, BarDoneEffect
  <2>2. Stepping /\ ~Stepping' /\ Reached' = Reached
    BY <2>1 DEF Stepping, InBar, Reached
  <2> QED BY <2>1, <2>2 DEF Timely
<1>12. CASE Prime
  <2>1. /\ ses'.day = ses.day /\ ses'.at = ses.at /\ ses'.primed = ses.primed
        /\ ses.phase = "open" /\ ses'.phase = "prime" /\ mode' = mode
        /\ ses'.wall \in Nat /\ ses'.wall >= ses.at
    BY <1>12, PrimeEffect, TimesAssumption
  <2>2. ~Stepping'
    BY <2>1 DEF Stepping, InBar
  <2>3. tk.day = ses.day => tk.ms <= Reached
    BY <2>1 DEF Timely
  <2>4. tk.day = ses.day => tk.ms <= Higher(ses'.primed, ses'.wall)
    BY <1>0, <2>1, <2>3 DEF Reached, Higher
  <2> QED BY <2>1, <2>2, <2>4 DEF Timely
<1>13. CASE PrimeEvent
  <2>1. SameBar /\ ses.phase = "prime" /\ ses'.phase = "prime" /\ mode' = mode
    BY <1>13, PrimeEventEffect
  <2>2. ~Stepping'
    BY <2>1 DEF Stepping, InBar
  <2> QED BY <2>1, <2>2 DEF Timely, SameBar
<1>14. CASE PrimeDone
  <2>1. /\ ses'.day = ses.day /\ ses'.at = ses.at /\ ses.phase = "prime" /\ mode' = mode
        /\ \/ ses'.phase = "halt"
           \/ ses'.phase = "open" /\ ses'.primed = Higher(ses.primed, ses.wall)
    BY <1>14, PrimeDoneEffect
  <2>2. ~Stepping'
    BY <2>1 DEF Stepping, InBar
  <2>3. tk.day = ses.day => tk.ms <= Higher(ses.primed, ses.wall)
    BY <2>1 DEF Timely
  <2>4. ses'.phase = "open" /\ tk.day = ses.day => tk.ms <= Reached'
    BY <1>0, <2>1, <2>3 DEF Reached, Higher
  <2> QED BY <2>1, <2>2, <2>4 DEF Timely
<1> QED BY <1>2, <1>3, <1>4, <1>5, <1>6, <1>7, <1>8, <1>9, <1>10, <1>11, <1>12, <1>13,
           <1>14, NextSplit

LEMMA InTimeStep ==
  ASSUME Shape, Where, Tape, Happened, InTime, Booked, [Next]_vars
  PROVE  InTime'
<1>1. ASSUME NEW i \in DOMAIN book'.tickets
      PROVE  Timely(book.tickets[i], i \in ses.snap)'
  <2>1. CASE i \in DOMAIN book.tickets
    <3>1. PICK tk : tk = book.tickets[i]
      OBVIOUS
    <3>2. Timely(tk, i \in ses.snap)
      BY <2>1, <3>1, InTimeIs
    <3>3. Timely(tk, i \in ses.snap)'
      BY <3>2, TimelyKept
    <3>4. Kept(tk, book'.tickets[i])
      BY <2>1, <3>1, BookKeeps
    <3> QED BY <3>3, <3>4 DEF Timely, Kept
  <2>2. CASE i \notin DOMAIN book.tickets
    <3>1. PICK u : u = book'.tickets[i]
      OBVIOUS
    <3>2. /\ Stamped(u) /\ (Place \/ Withdraw)
          /\ Withdraw => \/ u.kind \in {"market", "moo"}
                         \/ u.kind = "moc" /\ ~(clock >= Close)
      BY <2>2, <3>1, BookKeeps
    <3>3. Timely(u, FALSE)'
      BY <3>2, PlacedTimely
    <3>4. i \notin ses'.snap
      BY <2>2, SnapStep
    <3> QED BY <3>1, <3>3, <3>4 DEF Timely
  <2> QED BY <2>1, <2>2
<1> QED BY <1>1 DEF InTime, Timely, StampedNow

-----------------------------------------------------------------------------
(* No fill from a bar its order did not live to see.                       *)

LEMMA ModeKept ==
  ASSUME [Next]_vars
  PROVE  mode' = mode
  BY DEF vars, Next, Loop, Algorithm, BeginSession, NextBar, Withdraw, PreBarEvent, PreBarDone,
     TakePrices, Visit, Leave, OnData, CheckQuit, FireEvent, EventsDone, BarDone, Prime,
     PrimeEvent, PrimeDone, EndSession, EndOfDay, NextDay, Place, Cancel, Update, Quit,
     RegisterIndicator, Return

\* What NoLookahead says of one fill f of a ticket tk.
Living(tk, f) ==
  f.rows = {} /\ ~f.late
    /\ tk.kind # "market"
    /\ (\/ f.phase \in {"moo", "pass1", "pass2"}
        \/ f.phase = "moc" /\ mode.daily)
  => Precedes(tk, f) \/ PlacedAhead(tk, f)

\* The passes and the edges of a daily bar fill only orders older than the bar,
\* or placed ahead of the pass that looked.
LEMMA VisitInTime ==
  ASSUME Shape, Where, InTime, Booked,
         NEW ph \in {"moo", "pass1", "moc", "pass2", "late", "close"}, ses.phase = ph,
         NEW i \in ses.snap, i \in DOMAIN book.tickets, ActedOn(ph, i),
         NEW f, f.day = ses.day, f.at = clock, f.phase = ses.phase,
         f.late <=> ses.at <= ses.primed,
         f.rows = book'.fills[Len(book'.fills)].rows
  PROVE  Living(book.tickets[i], f)
<1>1. PICK tk : tk = book.tickets[i]
  OBVIOUS
<1>2. /\ ses.day \in Nat /\ ses.at \in Nat /\ ses.primed \in Nat /\ clock \in Nat
      /\ tk.day \in Nat /\ tk.ms \in Nat /\ tk.day <= ses.day
  BY <1>1, DataAssumption, LenProperties DEF Shape, InTime
<1>3. SUFFICES ASSUME f.rows = {}, ~(ses.at <= ses.primed),
                      tk.kind # "market",
                      ph \in {"moo", "pass1", "pass2"} \/ (ph = "moc" /\ mode.daily)
               PROVE  Precedes(tk, f) \/ PlacedAhead(tk, f)
  BY <1>1 DEF Living
<1>4. clock = ses.at /\ Stepping
  BY <1>3 DEF Where, Stepping, InBar
<1>5. tk.day < ses.day \/ (tk.day = ses.day /\ tk.ms <= ses.at)
  <2>1. tk.day = ses.day => tk.ms <= Reached
    BY <1>1, <1>4 DEF InTime
  <2>2. Reached = ses.at
    BY <1>2, <1>3 DEF Reached, Higher
  <2> QED BY <1>2, <2>1, <2>2
<1>6. CASE tk.day < ses.day \/ tk.ms < ses.at
  BY <1>2, <1>4, <1>5, <1>6 DEF Precedes
<1>7. CASE tk.day = ses.day /\ tk.ms = ses.at
  <2>1. StampedNow(i)
    BY <1>1, <1>2, <1>3, <1>7 DEF StampedNow
  <2>2. BornNow(tk)
    BY <1>7 DEF BornNow
  <2>3. ph # "pass2"
    BY <1>1, <1>3, <1>7, <2>2 DEF ActedOn
  <2>6. CASE ph = "moo"
    <3>1. tk.by \in {"sells", "pre", "moo"}
      BY <1>1, <2>1, <2>6 DEF InTime, Ahead
    <3> QED BY <1>4, <1>7, <2>6, <3>1 DEF PlacedAhead
  <2>4. CASE ph = "pass1"
    <3>1. tk.by \in {"sells", "pre", "moo"}
      BY <1>1, <2>1, <2>4 DEF InTime, Ahead
    <3>2. tk.kind \notin {"moo", "moc"}
      BY <1>1, <1>3, <2>4 DEF ActedOn, Kind
    <3>3. tk.by # "sells"
      BY <1>1, <1>3, <2>4, <3>2 DEF InTime
    <3> QED BY <1>4, <1>7, <3>1, <3>3 DEF PlacedAhead
  <2>5. CASE ph = "moc"
    <3>1. tk.by \in {"sells", "pre", "moo", "pass1"}
      BY <1>1, <2>1, <2>5 DEF InTime, Ahead
    <3>2. tk.kind = "moc" /\ mode.daily
      BY <1>1, <1>3, <2>5 DEF ActedOn, Kind
    <3>3. tk.by # "sells"
      BY <1>1, <3>2 DEF InTime
    <3> QED BY <1>4, <1>7, <2>5, <3>1, <3>3 DEF PlacedAhead
  <2> QED BY <1>3, <2>3, <2>4, <2>5, <2>6
<1> QED BY <1>2, <1>5, <1>6, <1>7

LEMMA NoLookaheadStep ==
  ASSUME Shape, Where, InTime, Booked, Recorded, NoLookahead, [Next]_vars
  PROVE  NoLookahead'
<1>0. mode' = mode
  BY ModeKept
\* The fills there were: their tickets keep their kinds and stamps.
<1>1. ASSUME NEW k \in DOMAIN book.fills, book'.fills[k] = book.fills[k]
      PROVE  Living(book'.tickets[book'.fills[k].id], book'.fills[k])
  <2>1. PICK f : f = book.fills[k]
    OBVIOUS
  <2>2. f.id \in DOMAIN book.tickets
    BY <2>1 DEF Recorded, FilledOnce
  <2>3. Living(book.tickets[f.id], f)
    BY <2>1 DEF NoLookahead, PricedByABar, Living, Kind
  <2>4. Kept(book.tickets[f.id], book'.tickets[f.id])
    BY <2>2, BookKeeps
  <2> QED BY <1>1, <2>1, <2>3, <2>4 DEF Living, Kept, Precedes, PlacedAhead
\* A new one.
<1>2. ASSUME NEW i, NEW px, NEW rows,
             book'.fills = Append(book.fills, FillOf(i, clock, px, rows)),
             Living(book'.tickets[i], FillOf(i, clock, px, rows))
      PROVE  \A k \in DOMAIN book'.fills :
               Living(book'.tickets[book'.fills[k].id], book'.fills[k])
  <2>1. PICK F : F = FillOf(i, clock, px, rows)
    OBVIOUS
  <2>2. PICK c : c = book'
    OBVIOUS
  <2>3. \E n : /\ n \notin DOMAIN book.fills /\ DOMAIN c.fills = DOMAIN book.fills \cup {n}
               /\ c.fills[n] = F /\ n = Len(c.fills)
               /\ \A k \in DOMAIN book.fills : c.fills[k] = book.fills[k]
    BY <1>2, <2>1, <2>2, FillAppended DEF Booked
  <2>4. F.id = i
    BY <2>1 DEF FillOf
  <2> QED BY <1>1, <1>2, <2>1, <2>2, <2>3, <2>4
<1>3. \A k \in DOMAIN book'.fills :
        Living(book'.tickets[book'.fills[k].id], book'.fills[k])
  <2>1. CASE book'.fills = book.fills
    BY <1>1, <2>1
  <2>2. CASE \E ph \in {"moo", "pass1", "moc", "pass2", "late", "close"} :
               Visit(ph) /\ \E i \in ses.snap : i \in DOMAIN book.tickets /\ ActedOn(ph, i)
    <3>1. PICK ph \in {"moo", "pass1", "moc", "pass2", "late", "close"}, i \in ses.snap :
            Visit(ph) /\ i \in DOMAIN book.tickets /\ ActedOn(ph, i)
      BY <2>2
    <3>2. book'.fills = book.fills \/ OneFill(book, book', i)
      BY <3>1 DEF ActedOn, Outcome, NoFill
    <3>3. CASE OneFill(book, book', i)
      <4>1. PICK px, rows : book'.fills = Append(book.fills, FillOf(i, clock, px, rows))
        BY <3>3 DEF OneFill
      <4>2. PICK F : F = FillOf(i, clock, px, rows)
        OBVIOUS
      <4>3. book'.fills[Len(book'.fills)].rows = rows
        BY <4>1, LastAppended DEF Booked
      <4>4. /\ F.day = ses.day /\ F.at = clock /\ F.phase = ses.phase /\ F.rows = rows
            /\ F.late <=> ses.at <= ses.primed
        BY <4>2 DEF FillOf
      <4>5. ses.phase = ph
        BY <3>1 DEF Visit, Walking
      <4>6. Living(book.tickets[i], F)
        BY <3>1, <4>3, <4>4, <4>5, VisitInTime
      <4>7. Kept(book.tickets[i], book'.tickets[i])
        BY <3>1, BookKeeps
      <4>8. Living(book'.tickets[i], F)
        BY <4>6, <4>7 DEF Living, Kept, Precedes, PlacedAhead
      <4> QED BY <1>2, <4>1, <4>2, <4>8
    <3> QED BY <2>1, <3>2, <3>3
  <2>3. ASSUME NEW o, Adds(book, book', o)
        PROVE  \A k \in DOMAIN book'.fills :
                 Living(book'.tickets[book'.fills[k].id], book'.fills[k])
    <3>1. PICK n : n = Len(book.tickets) + 1
      OBVIOUS
    <3>2. \/ NoFill(book, book')
          \/ /\ OneFill(book, book', n)
             /\ book'.tickets[n].kind = "market" /\ ~mode.daily
      BY <2>3, <3>1 DEF Adds
    <3>3. CASE OneFill(book, book', n) /\ book'.tickets[n].kind = "market" /\ ~mode.daily
      BY <1>2, <3>3 DEF OneFill, Living
    <3> QED BY <2>1, <3>2, <3>3 DEF NoFill
  <2> QED BY <2>1, <2>2, <2>3, BookStep DEF NoFill
<1> QED BY <1>0, <1>3 DEF NoLookahead, Living, PricedByABar, Kind

-----------------------------------------------------------------------------
(* The invariant, and what follows from it.                                *)

LEMMA EmptyIsSeq ==
  IsSeq(<<>>)
<1>1. <<>> \in Seq({})
  BY EmptySeq
<1> QED BY <1>1, InSeq

LEMMA IInvInit ==
  ASSUME Init
  PROVE  IInv
<1>1. PICK s : /\ s = [day |-> 0, data |-> "data", bars |-> [e \in Ends |-> NoBar], at |-> 0,
                       phase |-> "idle", snap |-> {}, due |-> {}, prevT |-> 0, primed |-> 0,
                       wall |-> 0, first |-> FALSE, fast |-> FALSE,
                       fired |-> [v \in Events |-> 0]]
               /\ ses = s
  BY DEF Init
<1>2. /\ SesFields /\ ses.day = 0 /\ ses.data = "data" /\ ses.bars = [e \in Ends |-> NoBar]
      /\ ses.at = 0 /\ ses.phase = "idle" /\ ses.snap = {} /\ ses.due = {} /\ ses.prevT = 0
      /\ ses.primed = 0 /\ ses.wall = 0 /\ ses.fired = [v \in Events |-> 0]
  BY <1>1 DEF SesFields
<1>3. ses.first = FALSE /\ ses.fast = FALSE
  BY <1>1
<1>4. /\ UserFields /\ user.acting = FALSE /\ user.quit = FALSE /\ user.ops = 0
      /\ mode \in Modes /\ clock = 0 /\ price = 0
  BY DEF Init, UserFields
<1>5. /\ book.tickets = <<>> /\ book.fills = <<>> /\ book.taken = {} /\ HasFields(book)
  BY DEF Init, HasFields
<1>6. Shape
  <2>1. 0 \in 0..Len(Days) /\ 0 \in 0..MaxOps
    BY DataAssumption, LenProperties
  <2>2. \A e \in Ends : ses.bars[e].c \in Nat
    BY <1>2 DEF NoBar
  <2>3. ses.fast \in BOOLEAN /\ ses.first \in BOOLEAN
    BY <1>3, Zenon
  <2>4. user.acting \in BOOLEAN /\ user.quit \in BOOLEAN
    BY <1>4, Zenon
  <2>5. ses.fired \in [Events -> {0, 1}]
    BY <1>2
  <2> QED BY <1>2, <1>4, <2>1, <2>2, <2>3, <2>4, <2>5 DEF Shape
<1>7. Where
  <2>1. ~Stepping
    BY <1>2 DEF Stepping, InBar
  <2>2. ~ses.fast /\ ~ses.first /\ ~user.acting
    BY <1>3, <1>4, Zenon
  <2> QED BY <1>2, <2>1, <2>2 DEF Where, InBar
<1>8. Tape
  <2>1. Printed = {}
    BY <1>2 DEF Printed
  <2>2. ~Stepping
    BY <1>2 DEF Stepping, InBar
  <2> QED BY <1>2, <2>1, <2>2 DEF Tape
<1>9. Happened
  BY <1>2 DEF Happened
<1>10. InTime /\ Booked /\ Recorded /\ NoLookahead
  <2>1. DOMAIN book.tickets = {} /\ DOMAIN book.fills = {}
    BY <1>5
  <2>2. Booked
    BY <1>2, <1>5, <2>1, EmptyIsSeq DEF Booked, IsBook
  <2>3. Recorded
    BY <1>5, <2>1 DEF Recorded, RowsOnce, FilledOnce
  <2> QED BY <2>1, <2>2, <2>3 DEF InTime, NoLookahead
<1> QED BY <1>6, <1>7, <1>8, <1>9, <1>10 DEF IInv

LEMMA IInvStep ==
  ASSUME IInv, [Next]_vars
  PROVE  IInv'
<1>1. /\ Shape /\ Where /\ Tape /\ Happened /\ InTime /\ Booked /\ Recorded /\ NoLookahead
  BY DEF IInv
<1>2. Shape' /\ Where' /\ Tape' /\ Happened'
  BY <1>1, ShapeStep, WhereStep, TapeStep, HappenedStep
<1>3. InTime' /\ Booked' /\ Recorded' /\ NoLookahead'
  BY <1>1, InTimeStep, BookedStep, RecordedStep, NoLookaheadStep
<1> QED BY <1>2, <1>3 DEF IInv

\* The session, its book and its clock are in step in every reachable state.
LEMMA Inductive == Spec => []IInv
<1>1. Init => IInv
  BY IInvInit
<1>2. IInv /\ [Next]_vars => IInv'
  BY IInvStep
<1> QED BY <1>1, <1>2, PTL DEF Spec

\* The loop holds only tickets that were created, no ticket is left without a status,
\* and only rows there are have been taken.
THEOREM Types == Spec => []TypeOK
<1>1. IInv => TypeOK
  <2> SUFFICES ASSUME IInv PROVE TypeOK
    OBVIOUS
  <2>1. Shape /\ Tape /\ Booked /\ Recorded
    BY DEF IInv
  <2>2. ses.at \in Ends \cup {0}
    BY <2>1 DEF Tape, Printed
  <2> QED BY <2>1, <2>2 DEF TypeOK, Shape, Booked, Recorded
<1> QED BY <1>1, Inductive, PTL

\* A bar fills only orders created strictly before it ended, whatever callbacks,
\* changes and primes came between; an order placed at the bar's end itself only if
\* a callback that the loop runs before it looks placed it.
THEOREM Lookahead == Spec => []NoLookahead
<1>1. IInv => NoLookahead
  BY DEF IInv
<1> QED BY <1>1, Inductive, PTL

\* A filled ticket has one fill, and no other ticket has any.
THEOREM Filled == Spec => []FilledOnce
<1>1. IInv => FilledOnce
  BY DEF IInv, Recorded
<1> QED BY <1>1, Inductive, PTL

\* No row of the ledger, no scheduled event and no end of an order happens twice,
\* and a day run to its end has run each event up to where it came.
THEOREM Once == Spec => OnceEach
<1>1. IInv => RowsOnce /\ EventsOnce
  <2> SUFFICES ASSUME IInv PROVE RowsOnce /\ EventsOnce
    OBVIOUS
  <2>1. Shape /\ Happened /\ Recorded
    BY DEF IInv
  <2>2. ASSUME NEW v \in Events
        PROVE  /\ ses.fired[v] <= 1
               /\ ses.phase = "eod" /\ ~user.quit =>
                    (ses.fired[v] = 1 <=> Fires[v] <= Higher(ses.at, ses.primed))
    <3>1. ses.fired[v] \in {0, 1}
      BY <2>1 DEF Shape
    <3> QED BY <2>1, <3>1 DEF Happened, Ran, Reached
  <2> QED BY <2>1, <2>2 DEF EventsOnce, Recorded
<1>2. IInv /\ [Next]_vars =>
        [\A i \in DOMAIN book.tickets :
           book.tickets[i].status # "submitted" => book'.tickets[i] = book.tickets[i]]_vars
  BY BookKeeps DEF IInv, IsOpen
<1>3. Spec => [](RowsOnce /\ EventsOnce)
  BY <1>1, Inductive, PTL
<1>4. Spec => TicketEndsOnce
  BY <1>2, Inductive, PTL DEF Spec, TicketEndsOnce
<1> QED BY <1>3, <1>4 DEF OnceEach

-----------------------------------------------------------------------------
(* The quiet-bar path.                                                     *)

\* A resting order that could not act on a bar, and has no broker fill to adopt,
\* is what it was after the bar.
LEMMA QuietOrder ==
  ASSUME NEW b, IsBook(b), NEW i \in DOMAIN b.tickets, IsOpen(b, i), NEW bar,
         ~CouldAct(b.tickets[i], bar),
         (IF mode.ledger THEN Visible(b, i) ELSE {}) = {}
  PROVE  CheckResting(b, i, bar, FALSE) = b
<1> DEFINE tk == b.tickets[i]
           buy == tk.qty > 0
           limit == LimitFill(buy, bar, tk.lim)
           try(px) == IF px = None THEN b ELSE Fill(b, i, px)
<1>1. tk.kind \in Kinds /\ tk.trig \in BOOLEAN
  BY DEF IsBook, IsTicket
<1>2. CASE tk.kind = "limit"
  BY <1>2 DEF CheckResting, CouldAct
<1>3. CASE tk.kind = "stop"
  BY <1>3 DEF CheckResting, CouldAct
<1>4. CASE tk.kind = "stopLimit" /\ tk.trig
  BY <1>4 DEF CheckResting, CouldAct
<1>5. CASE tk.kind = "stopLimit" /\ ~tk.trig
  <2>1. PICK hit : hit = StopTriggered(buy, bar, tk.stop)
    OBVIOUS
  <2>2. CheckResting(b, i, bar, FALSE) = [b EXCEPT !.tickets[i].trig = hit]
    BY <1>5, <2>1 DEF CheckResting
  <2>3. hit \in BOOLEAN /\ ~hit
    BY <1>5, <2>1 DEF CouldAct, StopTriggered
  <2>4. hit = tk.trig
    BY <1>1, <1>5, <2>3, Zenon
  <2> QED BY <2>2, <2>3, <2>4, LegMoved
<1>6. CASE tk.kind \in {"moo", "moc"}
  BY <1>6 DEF CheckResting
<1>7. tk.kind \notin {"market", "trail", "touch"}
  BY DEF CouldAct
<1> QED BY <1>1, <1>2, <1>3, <1>4, <1>5, <1>6, <1>7 DEF Kinds

\* Only the next bar moves the loop on.
LEMMA OnlyNextBarMoves ==
  ASSUME Shape, [Next]_vars, ses'.at > ses.at
  PROVE  NextBar
<1>0. ses.at \in Nat
  BY DEF Shape
<1>1. UNCHANGED vars \/ Algorithm => ses'.at = ses.at
  BY AlgorithmEffect DEF vars
<1>2. Passes => ses'.at = ses.at
  BY PassesEffect DEF SameBar
<1>3. BeginSession => ses'.at = 0
  BY BeginSessionEffect
<1>4. Withdraw => ses'.at = ses.at
  BY WithdrawEffect DEF SameBar
<1>5. PreBarEvent => ses'.at = ses.at
  BY PreBarEventEffect DEF SameBar
<1>6. PreBarDone => ses'.at = ses.at
  BY PreBarDoneEffect DEF SameBar
<1>7. CheckQuit => ses'.at = ses.at
  BY CheckQuitEffect DEF SameBar
<1>8. FireEvent => ses'.at = ses.at
  BY FireEventEffect DEF SameBar
<1>9. BarDone => ses'.at = ses.at
  BY BarDoneEffect
<1>10. Prime => ses'.at = ses.at
  BY PrimeEffect
<1>11. PrimeEvent => ses'.at = ses.at
  BY PrimeEventEffect DEF SameBar
<1>12. PrimeDone => ses'.at = ses.at
  BY PrimeDoneEffect
<1>13. ses'.at # ses.at /\ ses'.at # 0
  BY <1>0
<1> QED BY <1>1, <1>2, <1>3, <1>4, <1>5, <1>6, <1>7, <1>8, <1>9, <1>10, <1>11, <1>12,
           <1>13, NextSplit

\* The quiet-bar path, with or without a ledger, skips only bars on which no resting
\* order would change, except for a broker's fill of it reported by such a bar.
THEOREM Quiet == Spec => QuietBars
<1>1. ASSUME IInv, [Next]_vars, ses.fast, ses'.at > ses.at,
             NEW e \in Printed, ses.at < e, e < ses'.at, NEW i \in OpenTickets(book)
      PROVE  Carried \/ Reported(i, e) \/ CheckResting(book, i, ses.bars[e], FALSE) = book
  <2>1. Shape /\ Where /\ Tape /\ Happened /\ Booked
    BY <1>1 DEF IInv
  <2>2. NextBar
    BY <1>1, <2>1, OnlyNextBarMoves
  <2>3. \A x \in Upcoming : ses'.at <= x
    BY <2>1, <2>2, NextBarEffect
  <2>4. e \in Nat /\ ses'.at \in Nat
    <3>1. \E t \in Printed : ses'.at = t
      BY <2>1, <2>2, NextBarEffect
    <3> QED BY <3>1, EndsAssumption DEF Printed
  <2>5. e \notin Visited
    BY <1>1, <2>3, <2>4 DEF Upcoming
  <2>6. Carried \/ ~CouldAct(book.tickets[i], ses.bars[e])
    BY <1>1, <2>5 DEF Visited
  <2>7. ses.at # 0
    <3>1. Printed \subseteq Nat /\ Printed # {} /\ Forced \subseteq Visited
      BY <1>1, EndsAssumption DEF Printed, Visited
    <3>2. Min(Printed) \in Visited /\ Min(Printed) \in Nat /\ Min(Printed) <= e
      BY <1>1, <3>1, MinIsLeast DEF Forced
    <3>3. Min(Printed) # 0
      BY <1>1, <3>1, MinIsLeast, EndsAssumption DEF Printed
    <3>4. ses.at = 0 => Min(Printed) \in Upcoming
      BY <1>1, <3>2, <3>3 DEF Upcoming
    <3> QED BY <1>1, <2>3, <2>4, <2>5, <3>2, <3>4
  <2>8. clock = ses.at
    <3>1. ~mode.warm
      BY <1>1, <2>1, ModesAssumption DEF Shape, Where
    <3> QED BY <2>1, <2>2, <2>7, <3>1 DEF Where, NextBar, Walking
  <2>9. CASE ~Reported(i, e)
    <3>1. mode.ledger /\ ses.day >= Reconciled =>
            ~\E r \in DOMAIN Rows \ book.taken :
               Rows[r].day = ses.day /\ Rows[r].tag = i /\ Rows[r].ms < e
      BY <2>9 DEF Reported
    <3>2. ASSUME NEW r \in DOMAIN Rows, Rows[r].ms < clock PROVE Rows[r].ms < e
      <4>1. PICK n \in Nat : DOMAIN Rows = 1..n
        BY LedgerAssumption, LenProperties
      <4>2. Rows[r] \in LedgerFill
        BY <4>1, LedgerAssumption
      <4>3. Rows[r].ms \in Nat
        BY <4>2 DEF LedgerFill
      <4>4. clock \in Nat /\ e \in Nat /\ clock < e
        BY <1>1, <2>1, <2>4, <2>8 DEF Shape
      <4> QED BY <3>2, <4>3, <4>4
    <3>4. mode.ledger => Visible(book, i) = {}
      <4> DEFINE avail == {r \in DOMAIN Rows \ book.taken :
                             Rows[r].day = ses.day /\ Rows[r].tag = i /\ Rows[r].ms < clock}
      <4>1. mode.ledger /\ ses.day >= Reconciled => avail = {}
        BY <3>1, <3>2
      <4>2. Visible(book, i) = IF avail = {} \/ ses.day < Reconciled THEN {}
                               ELSE {r \in avail : Rows[r].oid = Rows[Min(avail)].oid}
        BY DEF Visible
      <4>3. HIDE DEF avail
      <4>4. ses.day >= Reconciled \/ ses.day < Reconciled
        BY <2>1, LedgerAssumption, LenProperties, DataAssumption DEF Shape
      <4> QED BY <4>1, <4>2, <4>4
    <3>3. (IF mode.ledger THEN Visible(book, i) ELSE {}) = {}
      BY <3>4
    <3> QED BY <2>1, <2>6, <3>3, QuietOrder DEF OpenTickets, Booked
  <2> QED BY <2>9
<1>2. IInv /\ [Next]_vars =>
        [ses.fast /\ ses'.at > ses.at =>
           \A e \in Printed : ses.at < e /\ e < ses'.at =>
             \A i \in OpenTickets(book) :
               \/ Carried \/ Reported(i, e)
               \/ CheckResting(book, i, ses.bars[e], FALSE) = book]_vars
  BY <1>1
<1> QED BY <1>2, Inductive, PTL DEF Spec, QuietBars

-----------------------------------------------------------------------------
(* Sums over a finite set.                                                 *)

One(s) == CHOOSE x \in s : TRUE
Rest(s) == s \ {One(s)}

\* g[s] is the sum of f over s, for every subset s of S.
IsSum(g, S, f) ==
  \A s \in SUBSET S : g[s] = IF s = {} THEN 0 ELSE f[One(s)] + g[Rest(s)]

Total(f, S) == (CHOOSE g : IsSum(g, S, f))[S]

\* What holds of a set when it holds of its smaller subsets holds of every set.
LEMMA SubsetInduction ==
  ASSUME NEW S, IsFiniteSet(S), NEW V,
         \A s \in SUBSET S : (\A t \in SUBSET s : t # s => t \in V) => s \in V
  PROVE  \A s \in SUBSET S : s \in V
<1> DEFINE Bad == {n \in Nat : \E s \in SUBSET S : Cardinality(s) = n /\ s \notin V}
<1>1. SUFFICES Bad = {}
  BY FS_Subset, FS_CardinalityType
<1>2. SUFFICES ASSUME Bad # {} PROVE FALSE
  OBVIOUS
<1>3. Min(Bad) \in Bad /\ \A n \in Bad : Min(Bad) <= n
  BY <1>2, MinIsLeast
<1>4. PICK s \in SUBSET S : Cardinality(s) = Min(Bad) /\ s \notin V
  BY <1>3
<1>5. PICK t \in SUBSET s : t # s /\ t \notin V
  BY <1>4
<1>6. IsFiniteSet(s) /\ t \in SUBSET S
  BY FS_Subset
<1>7. /\ Cardinality(s) \in Nat /\ Cardinality(t) \in Nat
      /\ Cardinality(t) < Cardinality(s)
  BY <1>5, <1>6, FS_Subset, FS_CardinalityType
<1>8. Cardinality(t) \in Bad
  BY <1>5, <1>6, <1>7
<1> HIDE DEF Bad
<1> QED BY <1>3, <1>4, <1>7, <1>8

LEMMA RestIsLess ==
  ASSUME NEW s, s # {}
  PROVE  One(s) \in s /\ Rest(s) \in SUBSET s /\ Rest(s) # s
  BY DEF One, Rest

\* Two sums of functions that agree on a set agree on it.
LEMMA SumUnique ==
  ASSUME NEW S, NEW g, NEW f, IsSum(g, S, f), NEW T, NEW h, NEW e, IsSum(h, T, e),
         NEW U, IsFiniteSet(U), U \subseteq S, U \subseteq T, \A x \in U : f[x] = e[x]
  PROVE  g[U] = h[U]
<1> DEFINE V == {s \in SUBSET U : g[s] = h[s]}
<1>1. ASSUME NEW s \in SUBSET U, \A t \in SUBSET s : t # s => t \in V
      PROVE  g[s] = h[s]
  <2>1. CASE s = {}
    BY <2>1 DEF IsSum
  <2>2. CASE s # {}
    <3>1. One(s) \in s /\ Rest(s) \in V
      BY <1>1, <2>2, RestIsLess
    <3>2. f[One(s)] = e[One(s)] /\ g[Rest(s)] = h[Rest(s)]
      BY <3>1
    <3>3. g[s] = f[One(s)] + g[Rest(s)] /\ h[s] = e[One(s)] + h[Rest(s)]
      BY <2>2 DEF IsSum
    <3> QED BY <3>2, <3>3
  <2> QED BY <2>1, <2>2
<1>2. \A s \in SUBSET U : (\A t \in SUBSET s : t # s => t \in V) => s \in V
  BY <1>1
<1> HIDE DEF V
<1>3. \A s \in SUBSET U : s \in V
  BY <1>2, SubsetInduction, Zenon
<1>4. U \in V
  BY <1>3
<1> QED BY <1>4 DEF V

LEMMA SumExists ==
  ASSUME NEW S, IsFiniteSet(S), NEW f, \A x \in S : f[x] \in Int
  PROVE  \E g \in [SUBSET S -> Int] : IsSum(g, S, f)
<1> DEFINE Body(g, s) == IF s = {} THEN 0 ELSE f[One(s)] + g[Rest(s)]
           V == {s \in SUBSET S : \E g \in [SUBSET s -> Int] : IsSum(g, s, f)}
<1>1. ASSUME NEW s \in SUBSET S, \A t \in SUBSET s : t # s => t \in V
      PROVE  \E g \in [SUBSET s -> Int] : IsSum(g, s, f)
  <2> DEFINE Part(t) == CHOOSE g \in [SUBSET t -> Int] : IsSum(g, t, f)
             h == [t \in SUBSET s |-> IF t = {} THEN 0 ELSE f[One(t)] + Part(Rest(t))[Rest(t)]]
  <2>1. ASSUME NEW t \in SUBSET s, t # {}
        PROVE  /\ One(t) \in S /\ Rest(t) \in SUBSET t /\ Rest(t) # t /\ Rest(t) # s
               /\ Part(Rest(t)) \in [SUBSET Rest(t) -> Int]
               /\ IsSum(Part(Rest(t)), Rest(t), f)
    <3>1. One(t) \in t /\ Rest(t) \in SUBSET t /\ Rest(t) # t
      BY <2>1, RestIsLess
    <3>2. Rest(t) \in V
      BY <1>1, <3>1
    <3>3. \E g \in [SUBSET Rest(t) -> Int] : IsSum(g, Rest(t), f)
      BY <3>2
    <3> QED BY <3>1, <3>3
  <2>2. ASSUME NEW t \in SUBSET s
        PROVE  h[t] \in Int
    <3>1. CASE t = {}
      BY <3>1
    <3>2. CASE t # {}
      <4>1. PICK r, p : r = Rest(t) /\ p = Part(r)
        OBVIOUS
      <4>2. p \in [SUBSET r -> Int] /\ One(t) \in S
        BY <2>1, <3>2, <4>1
      <4>3. h[t] = f[One(t)] + p[r]
        <5> HIDE DEF Part
        <5> QED BY <3>2, <4>1
      <4>4. r \in SUBSET r
        OBVIOUS
      <4> HIDE DEF h, Part, V
      <4> QED BY <4>2, <4>3, <4>4
    <3> QED BY <3>1, <3>2
  <2>3. h \in [SUBSET s -> Int]
    <3> HIDE DEF Part
    <3> QED BY <2>2
  <2>4. ASSUME NEW t \in SUBSET s, t # {}
        PROVE  h[Rest(t)] = Part(Rest(t))[Rest(t)]
    <3>1. PICK u \in SUBSET s : u = Rest(t)
      BY <2>1, <2>4
    <3>2. PICK p : p = Part(u) /\ IsSum(p, u, f)
      BY <2>1, <2>4, <3>1
    <3>3. CASE u = {}
      BY <3>1, <3>2, <3>3 DEF IsSum
    <3>4. CASE u # {}
      <4>1. PICK v, q : v = Rest(u) /\ q = Part(v) /\ IsSum(q, v, f)
        BY <2>1, <3>4
      <4>2. v \subseteq u /\ IsFiniteSet(v)
        BY <3>4, <4>1, RestIsLess, FS_Subset
      <4>3. p[v] = q[v]
        <5> HIDE DEF Part, h, V
        <5> QED BY <3>2, <4>1, <4>2, SumUnique
      <4>4. p[u] = f[One(u)] + p[v]
        BY <3>2, <3>4, <4>1 DEF IsSum
      <4>5. h[u] = f[One(u)] + q[v]
        <5> HIDE DEF Part
        <5> QED BY <3>4, <4>1
      <4> QED BY <3>1, <3>2, <4>3, <4>4, <4>5
    <3> QED BY <3>3, <3>4
  <2>5. IsSum(h, s, f)
    <3>1. ASSUME NEW t \in SUBSET s, t # {} PROVE h[t] = f[One(t)] + Part(Rest(t))[Rest(t)]
      <4> HIDE DEF Part
      <4> QED BY <3>1
    <3>2. h[{}] = 0
      OBVIOUS
    <3> HIDE DEF h, Part
    <3> QED BY <2>4, <3>1, <3>2 DEF IsSum
  <2> HIDE DEF h
  <2> QED BY <2>3, <2>5
<1>2. \A s \in SUBSET S : (\A t \in SUBSET s : t # s => t \in V) => s \in V
  BY <1>1
<1> HIDE DEF V
<1>3. \A s \in SUBSET S : s \in V
  BY <1>2, SubsetInduction, Zenon
<1>4. S \in V
  BY <1>3
<1> QED BY <1>4 DEF V

\* g sums integers, and finitely many.
SumsUp(g, S, f) ==
  /\ g \in [SUBSET S -> Int] /\ IsSum(g, S, f)
  /\ IsFiniteSet(S) /\ \A y \in S : f[y] \in Int

\* A sum may be taken apart at any of its terms.
LEMMA SumAny ==
  ASSUME NEW S, NEW g, NEW f, SumsUp(g, S, f), NEW x \in S
  PROVE  g[S] = f[x] + g[S \ {x}]
<1> SUFFICES ASSUME g \in [SUBSET S -> Int], IsSum(g, S, f),
                    IsFiniteSet(S), \A y \in S : f[y] \in Int
             PROVE  g[S] = f[x] + g[S \ {x}]
  BY DEF SumsUp
<1> DEFINE V == {s \in SUBSET S : \A y \in s : g[s] = f[y] + g[s \ {y}]}
<1>1. ASSUME NEW s \in SUBSET S, \A t \in SUBSET s : t # s => t \in V, NEW y \in s
      PROVE  g[s] = f[y] + g[s \ {y}]
  <2>1. PICK z \in s : z = One(s) /\ g[s] = f[z] + g[s \ {z}]
    BY RestIsLess DEF IsSum, Rest
  <2>2. CASE z # y
    <3>1. s \ {z} \in V /\ s \ {y} \in V /\ y \in s \ {z} /\ z \in s \ {y}
      BY <1>1, <2>2
    <3>2. (s \ {z}) \ {y} = (s \ {y}) \ {z}
      OBVIOUS
    <3>3. PICK r \in SUBSET S : r = (s \ {z}) \ {y}
      OBVIOUS
    <3>4. g[s \ {z}] = f[y] + g[r] /\ g[s \ {y}] = f[z] + g[r]
      BY <3>1, <3>2, <3>3
    <3>5. f[y] \in Int /\ f[z] \in Int /\ g[r] \in Int
      BY <3>3
    <3> QED BY <2>1, <3>4, <3>5
  <2> QED BY <2>1, <2>2
<1>2. \A s \in SUBSET S : (\A t \in SUBSET s : t # s => t \in V) => s \in V
  BY <1>1
<1> HIDE DEF V
<1>3. \A s \in SUBSET S : s \in V
  BY <1>2, SubsetInduction, Zenon
<1>4. S \in V
  BY <1>3
<1> QED BY <1>4 DEF V

LEMMA TotalIs ==
  ASSUME NEW S, IsFiniteSet(S), NEW f, \A x \in S : f[x] \in Int
  PROVE  \E g \in [SUBSET S -> Int] : IsSum(g, S, f) /\ Total(f, S) = g[S]
<1>1. PICK g \in [SUBSET S -> Int] : IsSum(g, S, f)
  BY SumExists
<1>2. PICK h : h = (CHOOSE k : IsSum(k, S, f)) /\ IsSum(h, S, f)
  BY <1>1
<1>3. h[S] = g[S]
  BY <1>1, <1>2, SumUnique
<1> QED BY <1>1, <1>2, <1>3 DEF Total

LEMMA TotalType ==
  ASSUME NEW S, IsFiniteSet(S), NEW f, \A x \in S : f[x] \in Int
  PROVE  Total(f, S) \in Int
<1>1. PICK g \in [SUBSET S -> Int] : Total(f, S) = g[S]
  BY TotalIs
<1> QED BY <1>1

LEMMA TotalEmpty ==
  ASSUME NEW f
  PROVE  Total(f, {}) = 0
<1>1. IsFiniteSet({}) /\ \A x \in {} : f[x] \in Int
  BY FS_EmptySet
<1>2. PICK g : IsSum(g, {}, f) /\ Total(f, {}) = g[{}]
  BY <1>1, TotalIs
<1> QED BY <1>2 DEF IsSum

LEMMA TotalSame ==
  ASSUME NEW S, IsFiniteSet(S), NEW f, \A x \in S : f[x] \in Int,
         NEW e, \A x \in S : e[x] = f[x]
  PROVE  Total(e, S) = Total(f, S)
<1>1. PICK g : IsSum(g, S, f) /\ Total(f, S) = g[S]
  BY TotalIs
<1>2. PICK h : IsSum(h, S, e) /\ Total(e, S) = h[S]
  BY TotalIs
<1> QED BY <1>1, <1>2, SumUnique

LEMMA TotalMore ==
  ASSUME NEW S, IsFiniteSet(S), NEW f, NEW x, x \notin S,
         \A y \in S \cup {x} : f[y] \in Int
  PROVE  Total(f, S \cup {x}) = f[x] + Total(f, S)
<1>1. PICK T : T = S \cup {x}
  OBVIOUS
<1>2. IsFiniteSet(T) /\ x \in T /\ T \ {x} = S /\ \A y \in T : f[y] \in Int
  BY <1>1, FS_AddElement
<1>3. PICK g \in [SUBSET T -> Int] : IsSum(g, T, f) /\ Total(f, T) = g[T]
  BY <1>2, TotalIs
<1>4. PICK h \in [SUBSET S -> Int] : IsSum(h, S, f) /\ Total(f, S) = h[S]
  BY TotalIs
<1>5. g[S] = h[S]
  BY <1>1, <1>3, <1>4, SumUnique
<1>6. g[T] = f[x] + g[T \ {x}]
  <2>1. SumsUp(g, T, f)
    BY <1>2, <1>3 DEF SumsUp
  <2>2. x \in T
    BY <1>1
  <2> QED BY <2>1, <2>2, SumAny
<1> QED BY <1>1, <1>2, <1>3, <1>4, <1>5, <1>6

-----------------------------------------------------------------------------
(* The sleeve's accounts.                                                  *)

RowQty  == [r \in DOMAIN Rows |-> Rows[r].qty]
RowPaid == [r \in DOMAIN Rows |-> Rows[r].qty * Rows[r].px]

\* What a fill f of the book b bought, and what it cost.
Volume(b, f) == IF f.rows = {} THEN b.tickets[f.id].qty ELSE Total(RowQty, f.rows)
Cost(b, f)   == IF f.rows = {} THEN b.tickets[f.id].qty * f.px ELSE Total(RowPaid, f.rows)
Volumes(b)   == [k \in DOMAIN b.fills |-> Volume(b, b.fills[k])]
Costs(b)     == [k \in DOMAIN b.fills |-> Cost(b, b.fills[k])]

Numbered(t) == t.qty \in Int /\ t.lim \in Int /\ t.stop \in Int

FillOK(b, f) ==
  /\ f.id \in DOMAIN b.tickets /\ b.tickets[f.id].status = "filled"
  /\ f.px \in Int /\ f.rows \subseteq DOMAIN Rows

\* The position and the cash of b are the sums over its fills.
Sound(b) ==
  /\ IsBook(b) /\ b.cash \in Int /\ b.qty \in Int
  /\ \A i \in DOMAIN b.tickets : Numbered(b.tickets[i])
  /\ \A k \in DOMAIN b.fills : FillOK(b, b.fills[k])
  /\ b.qty = Total(Volumes(b), DOMAIN b.fills)
  /\ b.cash = Cash - Total(Costs(b), DOMAIN b.fills)

LEMMA RowsFinite ==
  /\ IsFiniteSet(DOMAIN Rows) /\ \E n \in Nat : \A r \in DOMAIN Rows : r \in Nat /\ r <= n
  /\ \A r \in DOMAIN Rows : Rows[r].qty \in Int /\ Rows[r].px \in Int
<1>1. PICK n \in Nat : DOMAIN Rows = 1..n
  BY LedgerAssumption, LenProperties
<1>2. IsFiniteSet(1..n)
  BY FS_Interval
<1>3. \A r \in 1..n : Rows[r] \in LedgerFill
  BY <1>1, LedgerAssumption
<1>4. ASSUME NEW f \in LedgerFill PROVE f.qty \in Int /\ f.px \in Int
  BY DEF LedgerFill
<1>5. \A r \in DOMAIN Rows : Rows[r].qty \in Int /\ Rows[r].px \in Int
  BY <1>1, <1>3, <1>4, Zenon
<1>6. \A r \in DOMAIN Rows : r \in Nat /\ r <= n
  BY <1>1
<1> QED BY <1>1, <1>2, <1>5, <1>6, Zenon

LEMMA RowsAreInt ==
  ASSUME NEW rows, rows \subseteq DOMAIN Rows
  PROVE  /\ IsFiniteSet(rows)
         /\ \A r \in rows : RowQty[r] \in Int /\ RowPaid[r] \in Int
         /\ Total(RowQty, rows) \in Int /\ Total(RowPaid, rows) \in Int
<1>1. IsFiniteSet(rows)
  BY RowsFinite, FS_Subset
<1>2. ASSUME NEW r \in rows PROVE RowQty[r] \in Int /\ RowPaid[r] \in Int
  <2>1. PICK q \in Int, p \in Int : q = Rows[r].qty /\ p = Rows[r].px
    BY RowsFinite
  <2>2. q * p \in Int
    OBVIOUS
  <2> QED BY <2>1, <2>2 DEF RowQty, RowPaid
<1>3. \A r \in rows : RowQty[r] \in Int
  BY <1>2
<1>4. \A r \in rows : RowPaid[r] \in Int
  BY <1>2
<1>5. Total(RowQty, rows) \in Int
  BY <1>1, <1>3, TotalType, Zenon
<1>6. Total(RowPaid, rows) \in Int
  BY <1>1, <1>4, TotalType, Zenon
<1> QED BY <1>1, <1>3, <1>4, <1>5, <1>6

LEMMA RowsTraded ==
  ASSUME NEW S, S \subseteq DOMAIN Rows
  PROVE  SumOver(S, LAMBDA r : Rows[r].qty) = Total(RowQty, S)
<1> DEFINE iter == CHOOSE g : g = [s \in SUBSET S |->
                     IF s = {} THEN 0 ELSE Rows[One(s)].qty + g[Rest(s)]]
<1>1. SumOver(S, LAMBDA r : Rows[r].qty) = iter[S]
  BY Zenon DEF SumOver, MapThenSumSet, MapThenFoldSet, One, Rest
<1>2. PICK g \in [SUBSET S -> Int] : IsSum(g, S, RowQty) /\ Total(RowQty, S) = g[S]
  BY RowsAreInt, TotalIs
<1>3. \A s \in SUBSET S : s # {} => RowQty[One(s)] = Rows[One(s)].qty
  BY RestIsLess DEF RowQty
<1>4. g = [s \in SUBSET S |-> IF s = {} THEN 0 ELSE Rows[One(s)].qty + g[Rest(s)]]
  BY <1>2, <1>3 DEF IsSum
<1>5. iter = [s \in SUBSET S |-> IF s = {} THEN 0 ELSE Rows[One(s)].qty + iter[Rest(s)]]
  BY <1>4, Zenon
<1> HIDE DEF iter
<1>6. IsSum(iter, S, RowQty)
  BY <1>3, <1>5 DEF IsSum
<1>7. iter[S] = g[S]
  BY <1>2, <1>6, RowsAreInt, SumUnique
<1> QED BY <1>1, <1>2, <1>7

LEMMA RowsPaid ==
  ASSUME NEW S, S \subseteq DOMAIN Rows
  PROVE  SumOver(S, LAMBDA r : Rows[r].qty * Rows[r].px) = Total(RowPaid, S)
<1> DEFINE iter == CHOOSE g : g = [s \in SUBSET S |->
                     IF s = {} THEN 0
                     ELSE (Rows[One(s)].qty * Rows[One(s)].px) + g[Rest(s)]]
<1>1. SumOver(S, LAMBDA r : Rows[r].qty * Rows[r].px) = iter[S]
  BY Zenon DEF SumOver, MapThenSumSet, MapThenFoldSet, One, Rest
<1>2. PICK g \in [SUBSET S -> Int] : IsSum(g, S, RowPaid) /\ Total(RowPaid, S) = g[S]
  BY RowsAreInt, TotalIs
<1>3. \A s \in SUBSET S : s # {} => RowPaid[One(s)] = Rows[One(s)].qty * Rows[One(s)].px
  BY RestIsLess DEF RowPaid
<1>4. g = [s \in SUBSET S |-> IF s = {} THEN 0
                              ELSE (Rows[One(s)].qty * Rows[One(s)].px) + g[Rest(s)]]
  BY <1>2, <1>3 DEF IsSum
<1>5. iter = [s \in SUBSET S |-> IF s = {} THEN 0
                                 ELSE (Rows[One(s)].qty * Rows[One(s)].px) + iter[Rest(s)]]
  BY <1>4, Zenon
<1> HIDE DEF iter
<1>6. IsSum(iter, S, RowPaid)
  BY <1>3, <1>5 DEF IsSum
<1>7. iter[S] = g[S]
  BY <1>2, <1>6, RowsAreInt, SumUnique
<1> QED BY <1>1, <1>2, <1>7

\* What a fill bought and cost are numbers.
LEMMA FillIsInt ==
  ASSUME NEW b, NEW f, FillOK(b, f), \A i \in DOMAIN b.tickets : Numbered(b.tickets[i])
  PROVE  Volume(b, f) \in Int /\ Cost(b, f) \in Int
<1>1. PICK q \in Int, p \in Int : q = b.tickets[f.id].qty /\ p = f.px
  BY DEF FillOK, Numbered
<1>2. q * p \in Int
  OBVIOUS
<1>3. Total(RowQty, f.rows) \in Int /\ Total(RowPaid, f.rows) \in Int
  BY RowsAreInt DEF FillOK
<1> QED BY <1>1, <1>2, <1>3 DEF Volume, Cost

LEMMA SoundIs ==
  ASSUME NEW b, Sound(b)
  PROVE  /\ IsFiniteSet(DOMAIN b.fills)
         /\ \A k \in DOMAIN b.fills : Volumes(b)[k] \in Int /\ Costs(b)[k] \in Int
<1>1. DOMAIN b.fills = 1..Len(b.fills) /\ Len(b.fills) \in Nat
  BY SeqShape DEF Sound, IsBook
<1>2. IsFiniteSet(DOMAIN b.fills)
  <2>1. PICK n \in Nat : n = Len(b.fills)
    BY <1>1
  <2>2. IsFiniteSet(1..n)
    BY FS_Interval
  <2> QED BY <1>1, <2>1, <2>2
<1>3. ASSUME NEW k \in DOMAIN b.fills PROVE Volumes(b)[k] \in Int /\ Costs(b)[k] \in Int
  <2>1. Volume(b, b.fills[k]) \in Int /\ Cost(b, b.fills[k]) \in Int
    BY FillIsInt DEF Sound
  <2> QED BY <2>1 DEF Volumes, Costs
<1> QED BY <1>2, <1>3

\* Filled tickets stay what they are.
KeepsFilled(b, c) ==
  \A i \in DOMAIN b.tickets : /\ i \in DOMAIN c.tickets
                              /\ b.tickets[i].status = "filled" => c.tickets[i] = b.tickets[i]

\* Old fills are the fills they were.
LEMMA FillsKept ==
  ASSUME NEW b, NEW c, Sound(b), KeepsFilled(b, c), NEW f, FillOK(b, f)
  PROVE  FillOK(c, f) /\ Volume(c, f) = Volume(b, f) /\ Cost(c, f) = Cost(b, f)
<1>1. c.tickets[f.id] = b.tickets[f.id] /\ f.id \in DOMAIN c.tickets
  BY DEF FillOK, KeepsFilled
<1> QED BY <1>1 DEF FillOK, Volume, Cost

\* A step without a fill.
LEMMA SoundSame ==
  ASSUME NEW b, Sound(b), NEW c, IsBook(c), KeepsFilled(b, c), c.fills = b.fills,
         c.cash = b.cash, c.qty = b.qty,
         \A i \in DOMAIN c.tickets : Numbered(c.tickets[i])
  PROVE  Sound(c)
<1>1. \A k \in DOMAIN b.fills : FillOK(b, b.fills[k])
  BY DEF Sound
<1>2. \A k \in DOMAIN c.fills : FillOK(c, c.fills[k])
  BY <1>1, FillsKept
<1>3. Volumes(c) = Volumes(b)
  BY <1>1, FillsKept DEF Volumes
<1>4. Costs(c) = Costs(b)
  BY <1>1, FillsKept DEF Costs
<1> QED BY <1>2, <1>3, <1>4 DEF Sound

\* A step with one.
LEMMA SoundMore ==
  ASSUME NEW b, Sound(b), NEW c, IsBook(c), KeepsFilled(b, c),
         NEW F, c.fills = Append(b.fills, F), FillOK(c, F),
         c.qty = b.qty + Volume(c, F), c.cash = b.cash - Cost(c, F),
         \A i \in DOMAIN c.tickets : Numbered(c.tickets[i])
  PROVE  Sound(c)
<1>1. PICK n : /\ n \notin DOMAIN b.fills /\ DOMAIN c.fills = DOMAIN b.fills \cup {n}
               /\ c.fills[n] = F /\ \A k \in DOMAIN b.fills : c.fills[k] = b.fills[k]
  <2>1. IsBook(b)
    BY DEF Sound
  <2> QED BY <2>1, FillAppended
<1>2. PICK D : D = DOMAIN b.fills
  OBVIOUS
<1>3. \A k \in D : FillOK(b, b.fills[k])
  BY <1>2 DEF Sound
<1>4. \A k \in DOMAIN c.fills : FillOK(c, c.fills[k])
  BY <1>1, <1>2, <1>3, FillsKept
<1>5. Volume(c, F) \in Int /\ Cost(c, F) \in Int
  BY FillIsInt
<1>6. PICK v, w : v = Volumes(b) /\ w = Volumes(c)
  OBVIOUS
<1>7. PICK x, y : x = Costs(b) /\ y = Costs(c)
  OBVIOUS
<1>8. IsFiniteSet(D) /\ n \notin D /\ DOMAIN c.fills = D \cup {n}
  BY <1>1, <1>2, SoundIs
<1>9. \A k \in D : v[k] \in Int /\ x[k] \in Int
  BY <1>2, <1>6, <1>7, SoundIs
<1>10. \A k \in D : w[k] = v[k] /\ y[k] = x[k]
  <2>1. ASSUME NEW k \in D
        PROVE  Volume(c, c.fills[k]) = Volume(b, b.fills[k]) /\ Cost(c, c.fills[k]) = Cost(b, b.fills[k])
    BY <1>1, <1>2, <1>3, FillsKept
  <2> QED BY <1>1, <1>2, <1>6, <1>7, <2>1 DEF Volumes, Costs
<1>11. w[n] = Volume(c, F) /\ y[n] = Cost(c, F)
  BY <1>1, <1>6, <1>7 DEF Volumes, Costs
<1>12. Total(w, D \cup {n}) = w[n] + Total(v, D) /\ Total(v, D) \in Int
  <2>1. \A k \in D \cup {n} : w[k] \in Int
    BY <1>5, <1>9, <1>10, <1>11
  <2>2. Total(w, D \cup {n}) = w[n] + Total(w, D)
    BY <1>8, <2>1, TotalMore, Zenon
  <2>3. Total(w, D) = Total(v, D)
    BY <1>8, <1>9, <1>10, TotalSame
  <2>4. Total(v, D) \in Int
    BY <1>8, <1>9, TotalType
  <2> QED BY <2>2, <2>3, <2>4
<1>13. Total(y, D \cup {n}) = y[n] + Total(x, D) /\ Total(x, D) \in Int
  <2>1. \A k \in D \cup {n} : y[k] \in Int
    BY <1>5, <1>9, <1>10, <1>11
  <2>2. Total(y, D \cup {n}) = y[n] + Total(y, D)
    BY <1>8, <2>1, TotalMore, Zenon
  <2>3. Total(y, D) = Total(x, D)
    BY <1>8, <1>9, <1>10, TotalSame
  <2>4. Total(x, D) \in Int
    BY <1>8, <1>9, TotalType
  <2> QED BY <2>2, <2>3, <2>4
<1>14. b.qty = Total(v, D) /\ b.cash = Cash - Total(x, D)
  BY <1>2, <1>6, <1>7 DEF Sound
<1>15. c.qty = Total(w, D \cup {n}) /\ c.cash = Cash - Total(y, D \cup {n})
       /\ c.qty \in Int /\ c.cash \in Int
  <2>1. PICK V \in Int, C \in Int : V = Volume(c, F) /\ C = Cost(c, F)
    BY <1>5
  <2>2. PICK p \in Int, q \in Int : p = Total(v, D) /\ q = Total(x, D)
    BY <1>12, <1>13
  <2>3. c.qty = p + V /\ c.cash = (Cash - q) - C
    BY <1>14, <2>1, <2>2
  <2>4. Total(w, D \cup {n}) = V + p /\ Total(y, D \cup {n}) = C + q
    BY <1>11, <1>12, <1>13, <2>1, <2>2
  <2> QED BY <2>3, <2>4, LedgerAssumption
<1> QED BY <1>4, <1>6, <1>7, <1>8, <1>15 DEF Sound

-----------------------------------------------------------------------------
(* Every method of the book keeps its accounts.                            *)

\* A ticket that was not filled is replaced by another that is not.
LEMMA SoundTicket ==
  ASSUME NEW b, Sound(b), NEW i \in DOMAIN b.tickets, b.tickets[i].status # "filled",
         NEW t, Kept(b.tickets[i], t), Numbered(t), NEW c, c = [b EXCEPT !.tickets[i] = t]
  PROVE  Sound(c)
<1>0. IsBook(b) /\ HasFields(b) /\ IsSeq(b.tickets) /\ IsSeq(b.fills)
  BY DEF Sound, IsBook
<1>1. /\ HasFields(c) /\ c.fills = b.fills /\ c.tickets = [b.tickets EXCEPT ![i] = t]
      /\ c.cash = b.cash /\ c.qty = b.qty
  BY <1>0 DEF HasFields
<1>2. Touches(b, c, i) /\ c.tickets[i] = t
  BY <1>0, <1>1, Rewritten
<1>3. IsBook(c) /\ DOMAIN c.tickets = DOMAIN b.tickets
      /\ \A j \in DOMAIN b.tickets : j # i => c.tickets[j] = b.tickets[j]
  BY <1>0, <1>1, <1>2, Replaced DEF Touches
<1>4. \A j \in DOMAIN c.tickets : Numbered(c.tickets[j])
  BY <1>2, <1>3 DEF Sound
<1>5. KeepsFilled(b, c)
  BY <1>3 DEF KeepsFilled
<1> QED BY <1>1, <1>3, <1>4, <1>5, SoundSame

LEMMA StatusSound ==
  ASSUME NEW b, Sound(b), NEW i \in DOMAIN b.tickets, b.tickets[i].status # "filled",
         NEW s \in Statuses \ {"filled"}
  PROVE  Sound(SetStatus(b, i, s))
<1>1. PICK t : t = [b.tickets[i] EXCEPT !.status = s]
  OBVIOUS
<1>2. IsTicket(b.tickets[i]) /\ Numbered(b.tickets[i])
  BY DEF Sound, IsBook
<1>3. Kept(b.tickets[i], t)
  BY <1>1, <1>2, TicketSet
<1>4. Numbered(t)
  BY <1>1, <1>2 DEF Numbered, IsTicket
<1>5. PICK c : c = SetStatus(b, i, s) /\ c = [b EXCEPT !.tickets[i] = t]
  BY <1>1, Zenon DEF SetStatus
<1>6. Sound(c)
  BY <1>3, <1>4, <1>5, SoundTicket
<1> QED BY <1>5, <1>6

\* A ticket is filled.
LEMMA SoundFill ==
  ASSUME NEW b, Sound(b), NEW i \in DOMAIN b.tickets, b.tickets[i].status # "filled",
         NEW px \in Int, NEW rows, rows \subseteq DOMAIN Rows,
         NEW F, F = FillOf(i, clock, px, rows), NEW c, HasFields(c),
         c.tickets = [b.tickets EXCEPT ![i] = [b.tickets[i] EXCEPT !.status = "filled"]],
         c.fills = Append(b.fills, F),
         c.qty = b.qty + Volume(b, F), c.cash = b.cash - Cost(b, F)
  PROVE  Sound(c)
<1>0. IsBook(b) /\ IsSeq(b.tickets) /\ IsSeq(b.fills) /\ IsTicket(b.tickets[i])
      /\ Numbered(b.tickets[i])
  BY DEF Sound, IsBook
<1>1. PICK t : t = [b.tickets[i] EXCEPT !.status = "filled"]
  OBVIOUS
<1>2. Kept(b.tickets[i], t) /\ t.status = "filled"
  BY <1>0, <1>1, TicketSet DEF Statuses
<1>3. t.qty = b.tickets[i].qty /\ Numbered(t)
  BY <1>0, <1>1 DEF Numbered, IsTicket
<1>4. IsSeq(c.fills)
  BY <1>0, Appended
<1>5. Touches(b, c, i) /\ c.tickets[i] = t
  BY <1>0, <1>1, <1>2, <1>4, Rewritten
<1>6. IsBook(c) /\ DOMAIN c.tickets = DOMAIN b.tickets
      /\ \A j \in DOMAIN b.tickets : j # i => c.tickets[j] = b.tickets[j]
  BY <1>0, <1>5, SeqShape DEF Touches, IsBook
<1>7. \A j \in DOMAIN c.tickets : Numbered(c.tickets[j])
  BY <1>3, <1>5, <1>6 DEF Sound
<1>8. KeepsFilled(b, c)
  BY <1>6 DEF KeepsFilled
<1>9. F.id = i /\ F.px = px /\ F.rows = rows
  BY DEF FillOf
<1>10. FillOK(c, F) /\ Volume(c, F) = Volume(b, F) /\ Cost(c, F) = Cost(b, F)
  BY <1>2, <1>3, <1>5, <1>6, <1>9 DEF FillOK, Volume, Cost
<1> QED BY <1>6, <1>7, <1>8, <1>10, SoundMore

LEMMA AdoptSound ==
  ASSUME NEW b, Sound(b), NEW i \in DOMAIN b.tickets, b.tickets[i].status # "filled",
         NEW rows, rows \subseteq DOMAIN Rows, rows # {}
  PROVE  Sound(Adopt(b, i, rows))
<1>0. HasFields(b)
  BY DEF Sound, IsBook
<1>1. PICK paid, traded : paid = Total(RowPaid, rows) /\ traded = Total(RowQty, rows)
  OBVIOUS
<1>2. PICK px \in Int : px = Rows[Max(rows)].px
  <2>1. Max(rows) \in rows
    <3>1. PICK n \in Nat : \A r \in rows : r \in Nat /\ r <= n
      BY RowsFinite
    <3>2. rows \subseteq Nat
      BY <3>1
    <3> QED BY <3>1, <3>2, MaxIsGreatest
  <2> QED BY <2>1, RowsFinite
<1>3. PICK F : F = FillOf(i, clock, px, rows)
  OBVIOUS
<1>4. PICK c : /\ Adopt(b, i, rows) = c
               /\ c = [b EXCEPT !.cash = b.cash - paid, !.qty = b.qty + traded,
                                !.taken = b.taken \cup rows,
                                !.tickets[i].status = "filled",
                                !.fills = Append(b.fills, F)]
  BY <1>1, <1>2, <1>3, RowsTraded, RowsPaid, Zenon DEF Adopt
<1>5. HasFields(c) /\ c.fills = Append(b.fills, F)
  BY <1>0, <1>4 DEF HasFields
<1>6. c.tickets = [b.tickets EXCEPT ![i] = [b.tickets[i] EXCEPT !.status = "filled"]]
  BY <1>0, <1>4 DEF HasFields
<1>7. c.qty = b.qty + traded /\ c.cash = b.cash - paid
  BY <1>0, <1>4 DEF HasFields
<1>8. Volume(b, F) = traded /\ Cost(b, F) = paid
  BY <1>1, <1>3 DEF Volume, Cost, FillOf
<1>9. Sound(c)
  BY <1>3, <1>5, <1>6, <1>7, <1>8, SoundFill
<1> QED BY <1>4, <1>9

LEMMA ModelFillSound ==
  ASSUME NEW b, Sound(b), NEW i \in DOMAIN b.tickets, b.tickets[i].status # "filled",
         NEW px \in Int
  PROVE  Sound(ModelFill(b, i, px))
<1>0. HasFields(b)
  BY DEF Sound, IsBook
<1>1. PICK q, F, paid : /\ q = b.tickets[i].qty /\ F = FillOf(i, clock, px, {})
                        /\ paid = q * px
  OBVIOUS
<1>2. PICK c : /\ c = [b EXCEPT !.cash = b.cash - paid, !.qty = b.qty + q,
                                !.tickets[i].status = "filled",
                                !.fills = Append(b.fills, F)]
               /\ ModelFill(b, i, px) \in {SetStatus(b, i, "invalid"), c}
  BY <1>1, Zenon DEF ModelFill
<1>3. Sound(SetStatus(b, i, "invalid"))
  BY StatusSound DEF Statuses
<1>5. HasFields(c) /\ c.fills = Append(b.fills, F)
  BY <1>0, <1>2 DEF HasFields
<1>6. c.tickets = [b.tickets EXCEPT ![i] = [b.tickets[i] EXCEPT !.status = "filled"]]
  BY <1>0, <1>2 DEF HasFields
<1>7. c.qty = b.qty + q /\ c.cash = b.cash - paid
  BY <1>0, <1>2 DEF HasFields
<1>8. F.id = i /\ F.px = px /\ F.rows = {}
  BY <1>1 DEF FillOf
<1>9. Volume(b, F) = q /\ Cost(b, F) = paid
  BY <1>1, <1>8 DEF Volume, Cost
<1>10. Sound(c)
  BY <1>1, <1>5, <1>6, <1>7, <1>9, SoundFill
<1> QED BY <1>2, <1>3, <1>10

LEMMA FillSound ==
  ASSUME NEW b, Sound(b), NEW i \in DOMAIN b.tickets, b.tickets[i].status # "filled",
         NEW px \in Int
  PROVE  Sound(Fill(b, i, px))
<1> DEFINE rows == IF mode.ledger /\ ses.day >= Reconciled THEN Take(b, i) ELSE {}
<1>1. rows \subseteq DOMAIN Rows
  BY TakeOK DEF RowsOK
<1>2. \/ rows # {} /\ Fill(b, i, px) = Adopt(b, i, rows)
      \/ Fill(b, i, px) \in {Unfilled(b, i), ModelFill(b, i, px)}
  BY DEF Fill
<1> HIDE DEF rows
<1>3. Sound(Unfilled(b, i))
  BY StatusSound DEF Unfilled, Statuses
<1> QED BY <1>1, <1>2, <1>3, AdoptSound, ModelFillSound

LEMMA NewTicketSound ==
  ASSUME NEW b, Sound(b), NEW o, IsOrder(o), Numbered(o),
         NEW st, st \in {"new", "submitted", "invalid"}
  PROVE  /\ Sound(NewTicket(b, o, st)) /\ Len(b.tickets) + 1 \in DOMAIN NewTicket(b, o, st).tickets
         /\ NewTicket(b, o, st).tickets[Len(b.tickets) + 1].status = st
<1>0. IsBook(b) /\ HasFields(b) /\ IsSeq(b.tickets)
  BY DEF Sound, IsBook
<1>1. PICK c, n : c = NewTicket(b, o, st) /\ n = Len(b.tickets) + 1
  OBVIOUS
<1>2. IsBook(c) /\ c.fills = b.fills /\ c.tickets[n].status = st
  BY <1>0, <1>1, NewTicketGrows DEF Grows, NoFill
<1>3. PICK t : t = [kind |-> o.kind, qty |-> o.qty, lim |-> o.lim, stop |-> o.stop,
                    trig |-> FALSE, status |-> st, day |-> ses.day, ms |-> clock,
                    by |-> ses.phase]
  OBVIOUS
<1>4. PICK ts : ts = Append(b.tickets, t)
  OBVIOUS
<1>5. c = [b EXCEPT !.tickets = ts]
  BY <1>1, <1>3, <1>4, Zenon DEF NewTicket
<1>6. c.cash = b.cash /\ c.qty = b.qty /\ c.tickets = ts
  BY <1>0, <1>5 DEF HasFields
<1>7. /\ DOMAIN ts = 1..n /\ DOMAIN b.tickets = 1..Len(b.tickets) /\ Len(b.tickets) \in Nat
      /\ \A j \in 1..Len(b.tickets) : ts[j] = b.tickets[j]
      /\ ts[n] = t
  BY <1>0, <1>1, <1>4, Appended, SeqShape
<1>8. Numbered(t)
  BY <1>3 DEF Numbered
<1>9. n \in 1..n /\ \A j \in 1..n : j = n \/ j \in 1..Len(b.tickets)
  BY <1>1, <1>7
<1>10. \A j \in DOMAIN c.tickets : Numbered(c.tickets[j])
  BY <1>6, <1>7, <1>8, <1>9 DEF Sound
<1>11. KeepsFilled(b, c)
  <2>1. ASSUME NEW j \in DOMAIN b.tickets PROVE j \in 1..n
    BY <1>1, <1>7
  <2> QED BY <1>6, <1>7, <2>1 DEF KeepsFilled
<1>12. Sound(c)
  BY <1>2, <1>6, <1>10, <1>11, SoundSame
<1> QED BY <1>1, <1>2, <1>6, <1>7, <1>9, <1>12

LEMMA MarketSound ==
  ASSUME NEW b, Sound(b), NEW o, IsOrder(o), Numbered(o), price \in Nat
  PROVE  Sound(Market(b, o))
<1> DEFINE n == Len(b.tickets) + 1
           a == NewTicket(b, o, "new")
<1>1. PICK moo, moc : moo = [o EXCEPT !.kind = "moo"] /\ moc = [o EXCEPT !.kind = "moc"]
  OBVIOUS
<1>2. IsOrder(moo) /\ IsOrder(moc) /\ Numbered(moo) /\ Numbered(moc)
  BY <1>1 DEF IsOrder, Numbered, Kinds
<1>3. Market(b, o) \in {NewTicket(b, o, "invalid"), NewTicket(b, o, "submitted"),
                        NewTicket(b, moo, "submitted"), NewTicket(b, moc, "submitted"),
                        Fill(a, n, price)}
  <2>1. PICK convert : convert = ((~mode.live \/ mode.daily) /\ ~Carried)
    OBVIOUS
  <2>2. Market(b, o) =
          IF mode.daily /\ price = 0 THEN NewTicket(b, o, "invalid")
          ELSE IF convert /\ clock >= Close THEN NewTicket(b, moo, "submitted")
          ELSE IF convert /\ mode.daily
               THEN NewTicket(b, IF Close - clock >= Buffer THEN moc ELSE moo, "submitted")
          ELSE IF Carried THEN NewTicket(b, o, "submitted")
          ELSE Fill(a, n, price)
    BY <1>1, <2>1 DEF Market
  <2> HIDE DEF a, n
  <2> QED BY <2>2
<1>4. Sound(a) /\ n \in DOMAIN a.tickets /\ a.tickets[n].status = "new"
  BY NewTicketSound
<1> HIDE DEF a, n
<1>5. Sound(Fill(a, n, price))
  BY <1>4, FillSound
<1> QED BY <1>2, <1>3, <1>5, NewTicketSound

LEMMA PlaceSound ==
  ASSUME NEW b, Sound(b), NEW o \in Orders, price \in Nat
  PROVE  Sound(PlaceOrder(b, o))
<1>1. IsOrder(o) /\ Numbered(o)
  BY OrdersAssumption DEF IsOrder, Numbered
<1>2. CASE o.kind = "market"
  BY <1>1, <1>2, MarketSound DEF PlaceOrder
<1>3. CASE o.kind = "moc"
  <2>1. PlaceOrder(b, o) \in {NewTicket(b, o, "invalid"), NewTicket(b, o, "submitted")}
    BY <1>3 DEF PlaceOrder, MarketOnClose
  <2> QED BY <1>1, <2>1, NewTicketSound
<1>4. CASE o.kind \notin {"market", "moc"}
  <2>1. PlaceOrder(b, o) = NewTicket(b, o, "submitted")
    BY <1>4 DEF PlaceOrder
  <2> QED BY <1>1, <2>1, NewTicketSound
<1> QED BY <1>2, <1>3, <1>4

LEMMA LegSound ==
  ASSUME NEW b, Sound(b), NEW i \in DOMAIN b.tickets, IsOpen(b, i),
         NEW s \in Int, NEW hit \in BOOLEAN
  PROVE  Sound([b EXCEPT !.tickets[i].stop = s]) /\ Sound([b EXCEPT !.tickets[i].trig = hit])
<1>0. IsTicket(b.tickets[i]) /\ Numbered(b.tickets[i]) /\ b.tickets[i].status # "filled"
  BY DEF Sound, IsBook, IsOpen
<1>1. PICK t : t = [b.tickets[i] EXCEPT !.stop = s]
  OBVIOUS
<1>2. PICK u : u = [b.tickets[i] EXCEPT !.trig = hit]
  OBVIOUS
<1>3. Kept(b.tickets[i], t) /\ Kept(b.tickets[i], u)
  BY <1>0, <1>1, <1>2, TicketSet DEF Statuses
<1>4. Numbered(t) /\ Numbered(u)
  BY <1>0, <1>1, <1>2 DEF Numbered, IsTicket
<1>5. PICK c : c = [b EXCEPT !.tickets[i].stop = s] /\ c = [b EXCEPT !.tickets[i] = t]
  BY <1>1, Zenon
<1>6. PICK d : d = [b EXCEPT !.tickets[i].trig = hit] /\ d = [b EXCEPT !.tickets[i] = u]
  BY <1>2, Zenon
<1>7. Sound(c) /\ Sound(d)
  BY <1>0, <1>3, <1>4, <1>5, <1>6, SoundTicket
<1> QED BY <1>5, <1>6, <1>7

PricedBar(bar) == bar.o \in Int /\ bar.h \in Int /\ bar.l \in Int /\ bar.c \in Int

\* What the fill rules make of numbers are numbers.
LEMMA RulesAreInt ==
  ASSUME NEW bar, PricedBar(bar), NEW buy \in BOOLEAN, NEW x \in Int, NEW y \in Int
  PROVE  LimitFill(buy, bar, x) \in Int /\ StopFill(buy, bar, x) \in Int
         /\ Ratchet(buy, bar, x, y) \in Int
  BY DEF LimitFill, StopFill, Ratchet, Lower, Higher, None, PricedBar

LEMMA RestingSound ==
  ASSUME NEW b, Sound(b), NEW i \in DOMAIN b.tickets, NEW bar, PricedBar(bar),
         NEW exclude \in BOOLEAN
  PROVE  Sound(CheckResting(b, i, bar, exclude))
<1> DEFINE tk == b.tickets[i]
           buy == tk.qty > 0
           limit == LimitFill(buy, bar, tk.lim)
           at(stop) == StopFill(buy, bar, stop)
           try(px) == IF px = None THEN b ELSE Fill(b, i, px)
           armed(hit) == [b EXCEPT !.tickets[i].trig = hit]
           s == Ratchet(buy, bar, tk.stop, tk.lim)
           b1 == [b EXCEPT !.tickets[i].stop = s]
<1>1. PICK c : c = CheckResting(b, i, bar, exclude)
  OBVIOUS
<1>2. PICK seen : seen = IF mode.ledger THEN Visible(b, i) ELSE {}
  OBVIOUS
<1>3. CASE ~IsOpen(b, i) \/ (exclude /\ BornNow(tk))
  BY <1>1, <1>3 DEF CheckResting
<1>4. CASE IsOpen(b, i) /\ ~(exclude /\ BornNow(tk)) /\ seen # {}
  <2>1. c = Adopt(b, i, seen)
    BY <1>1, <1>2, <1>4, Zenon DEF CheckResting
  <2>2. seen \subseteq DOMAIN Rows
    BY <1>2, VisibleOK DEF RowsOK
  <2>3. tk.status # "filled"
    BY <1>4 DEF IsOpen
  <2> QED BY <1>1, <1>4, <2>1, <2>2, <2>3, AdoptSound
<1>5. CASE IsOpen(b, i) /\ ~(exclude /\ BornNow(tk)) /\ seen = {}
  <2>1. tk.status # "filled" /\ tk.kind \in Kinds /\ Numbered(tk)
    BY <1>5 DEF IsOpen, Sound, IsBook, IsTicket
  <2>2. \A px \in Int : Sound(Fill(b, i, px)) /\ Sound(try(px))
    BY <2>1, FillSound
  <2>3. buy \in BOOLEAN
    OBVIOUS
  <2>4. limit \in Int /\ at(tk.stop) \in Int /\ s \in Int
    BY <2>1, <2>3, RulesAreInt DEF Numbered
  <2>5. at(s) \in Int
    <3> HIDE DEF s
    <3> QED BY <2>3, <2>4, RulesAreInt
  <2>6. \A hit \in BOOLEAN : Sound(armed(hit))
    <3>1. ASSUME NEW hit \in BOOLEAN PROVE Sound([b EXCEPT !.tickets[i].trig = hit])
      <4> HIDE DEF s
      <4> QED BY <1>5, <2>4, LegSound
    <3> QED BY <3>1
  <2>7. \A x : /\ StopTriggered(buy, bar, x) \in BOOLEAN
               /\ TouchTriggered(buy, bar, x) \in BOOLEAN
    BY DEF StopTriggered, TouchTriggered
  <2>8. CASE tk.kind = "market"
    <3>1. c = Fill(b, i, bar.c) /\ bar.c \in Int
      BY <1>1, <1>2, <1>5, <2>8 DEF CheckResting, PricedBar
    <3> QED BY <1>1, <2>2, <3>1
  <2>9. CASE tk.kind = "limit"
    <3>1. c = try(limit)
      BY <1>1, <1>2, <1>5, <2>9 DEF CheckResting
    <3> HIDE DEF limit, try
    <3> QED BY <1>1, <2>2, <2>4, <3>1
  <2>10. CASE tk.kind = "stop"
    <3>1. c = try(at(tk.stop))
      BY <1>1, <1>2, <1>5, <2>10 DEF CheckResting
    <3> HIDE DEF at, try
    <3> QED BY <1>1, <2>2, <2>4, <3>1
  <2>11. CASE tk.kind = "trail"
    <3>1. c = IF at(s) = None THEN b1 ELSE Fill(b1, i, at(s))
      BY <1>1, <1>2, <1>5, <2>11 DEF CheckResting
    <3>2. Sound(b1)
      <4> HIDE DEF s
      <4> QED BY <1>5, <2>4, LegSound
    <3>3. IsOpen(b1, i) /\ Touches(b, b1, i)
      <4>1. IsBook(b)
        BY DEF Sound
      <4> HIDE DEF s
      <4> QED BY <1>5, <4>1, LegMoved
    <3> HIDE DEF b1, at, s
    <3>4. i \in DOMAIN b1.tickets /\ b1.tickets[i].status # "filled"
      BY <3>2, <3>3, SeqShape DEF Touches, IsOpen, Sound, IsBook
    <3>5. Sound(Fill(b1, i, at(s)))
      BY <2>5, <3>2, <3>4, FillSound
    <3> QED BY <1>1, <3>1, <3>2, <3>5
  <2>12. CASE tk.kind = "stopLimit"
    <3>1. c = IF tk.trig THEN try(limit) ELSE armed(StopTriggered(buy, bar, tk.stop))
      BY <1>1, <1>2, <1>5, <2>12 DEF CheckResting
    <3> HIDE DEF limit, try, armed, buy
    <3> QED BY <1>1, <2>2, <2>4, <2>6, <2>7, <3>1
  <2>13. CASE tk.kind = "touch"
    <3>1. c = IF tk.trig THEN try(limit) ELSE armed(TouchTriggered(buy, bar, tk.stop))
      BY <1>1, <1>2, <1>5, <2>13 DEF CheckResting
    <3> HIDE DEF limit, try, armed, buy
    <3> QED BY <1>1, <2>2, <2>4, <2>6, <2>7, <3>1
  <2>14. CASE tk.kind \in {"moo", "moc"}
    BY <1>1, <1>2, <1>5, <2>14 DEF CheckResting
  <2> QED BY <2>1, <2>8, <2>9, <2>10, <2>11, <2>12, <2>13, <2>14 DEF Kinds
<1> QED BY <1>1, <1>3, <1>4, <1>5

-----------------------------------------------------------------------------
(* Every step of the session keeps them.                                   *)

\* The bars print numbers, and so does the withdrawal.
Priced == (\A e \in Ends : PricedBar(ses.bars[e])) /\ sells \in Int

LEMMA PrintedBars ==
  ASSUME Shape, BeginSession
  PROVE  \A e \in Ends : PricedBar(ses'.bars[e])
<1>1. PICK bs : ses'.bars = bs /\ \A e \in Ends : bs[e] \in Bars \cup {NoBar, Flat(price)}
  <2> DEFINE day == ses.day + 1
             data == IF Days[day] = "partial" /\ ~(mode.daily /\ mode.live)
                     THEN "empty" ELSE Days[day]
             partial == data = "partial"
             skipped == data = "empty" /\ (mode.daily \/ mode.warm \/ price = 0)
             due == IF partial THEN DueBefore(Now) ELSE {}
             fast == mode.fast /\ ~user.indicator
             pre == IF mode.daily THEN DueBefore(Close) ELSE {}
             phase == IF skipped THEN "idle" ELSE IF Tied(pre) THEN "error"
                      ELSE IF partial THEN "pre" ELSE "open"
             printed(bars) ==
               [e \in Ends |->
                  CASE data # "data" -> IF partial THEN NoBar ELSE Flat(price)
                    [] mode.daily /\ e # Close -> NoBar
                    [] OTHER -> bars[e]]
  <2>1. PICK bars \in Tapes :
          ses' = [ses EXCEPT
               !.day = day, !.data = data, !.bars = printed(bars), !.at = 0,
               !.phase = phase, !.snap = {}, !.due = due, !.prevT = 0, !.primed = 0,
               !.first = FALSE, !.fast = fast, !.fired = [v \in Events |-> 0]]
    BY Zenon DEF BeginSession
  <2>2. PICK bs : bs = printed(bars)
    OBVIOUS
  <2>3. \A e \in Ends : bs[e] \in Bars \cup {NoBar, Flat(price)}
    BY <2>2, DataAssumption
  <2> HIDE DEF day, data, due, fast, skipped, partial, printed, phase
  <2>4. ses'.bars = bs
    BY <2>1, <2>2 DEF SesFields, Shape
  <2> QED BY <2>3, <2>4
<1>2. ASSUME NEW e \in Ends PROVE PricedBar(bs[e])
  BY <1>1 DEF Bars, NoBar, Flat, Prices, Shape, PricedBar
<1> QED BY <1>1, <1>2

LEMMA PricedStep ==
  ASSUME Shape, Where, Tape, Happened, Priced, [Next]_vars
  PROVE  Priced'
<1>1. ses'.bars = ses.bars \/ BeginSession
  <2>1. CASE UNCHANGED vars \/ Algorithm
    BY <2>1, AlgorithmEffect DEF vars
  <2>2. CASE Passes
    BY <2>2, PassesEffect DEF SameBar
  <2>3. CASE NextBar
    BY <2>3, NextBarEffect
  <2>4. CASE Withdraw \/ PreBarEvent \/ PreBarDone
    BY <2>4, WithdrawEffect, PreBarEventEffect, PreBarDoneEffect DEF SameBar
  <2>5. CASE CheckQuit \/ FireEvent \/ BarDone
    BY <2>5, CheckQuitEffect, FireEventEffect, BarDoneEffect DEF SameBar
  <2>6. CASE Prime \/ PrimeEvent \/ PrimeDone
    BY <2>6, PrimeEffect, PrimeEventEffect, PrimeDoneEffect DEF SameBar
  <2> QED BY <2>1, <2>2, <2>3, <2>4, <2>5, <2>6, NextSplit
<1>2. \A e \in Ends : PricedBar(ses'.bars[e])
  BY <1>1, PrintedBars DEF Priced
<1>3. sells' \in {sells, sells + WithdrawQty, 0}
  <2>1. CASE BeginSession
    BY <2>1 DEF BeginSession
  <2>2. CASE Withdraw
    BY <2>2 DEF Withdraw
  <2>3. CASE ~BeginSession /\ ~Withdraw
    BY <2>3 DEF vars, Next, Loop, Algorithm, NextBar, PreBarEvent, PreBarDone,
       TakePrices, Visit, Leave, OnData, CheckQuit, FireEvent, EventsDone, BarDone, Prime,
       PrimeEvent, PrimeDone, EndSession, EndOfDay, NextDay, Place, Cancel, Update, Quit,
       RegisterIndicator, Return
  <2> QED BY <2>1, <2>2, <2>3
<1>4. sells' \in Int
  BY <1>3, LedgerAssumption DEF Priced
<1> QED BY <1>2, <1>4 DEF Priced, PricedBar

LEMMA VisitSound ==
  ASSUME Shape, Where, Tape, Booked, Priced, Sound(book),
         NEW ph \in {"moo", "pass1", "moc", "pass2", "late", "close"}, Visit(ph)
  PROVE  Sound(book')
<1>1. ses.snap # {} /\ book' = Handle(ph, Min(ses.snap)) /\ ses.phase = ph
  BY VisitEffect DEF Visit, Walking
<1>2. PICK i \in ses.snap : book' = Handle(ph, i) /\ i \in DOMAIN book.tickets
  BY <1>1, SnapMin
<1>3. \A px \in Int : IsOpen(book, i) => Sound(Fill(book, i, px))
  BY <1>2, FillSound DEF IsOpen
<1>4. price \in Int
  BY DEF Shape
<1>5. PICK bar : bar = ses.bars[ses.at]
  OBVIOUS
<1>6. ph \in {"moo", "pass1", "pass2"} => PricedBar(bar)
  <2>1. ASSUME ph \in {"moo", "pass1", "pass2"} PROVE ses.at \in Ends
    <3>1. Stepping
      BY <1>1, <2>1 DEF Stepping, InBar
    <3>2. ses.at # 0
      BY <3>1 DEF Where, Shape
    <3> QED BY <3>2 DEF Tape, Printed
  <2> QED BY <1>5, <2>1 DEF Priced
<1>7. CASE ph = "moo"
  <2>1. book' = book \/ (IsOpen(book, i) /\ book' = Fill(book, i, bar.o))
    BY <1>2, <1>5, <1>7 DEF Handle
  <2>2. bar.o \in Int
    BY <1>6, <1>7 DEF PricedBar
  <2> QED BY <1>3, <2>1, <2>2
<1>8. CASE ph \in {"pass1", "pass2"}
  <2>1. PICK exclude \in BOOLEAN : book' = CheckResting(book, i, bar, exclude)
    <3>1. CASE ph = "pass1"
      <4>1. book' = CheckResting(book, i, bar, ses.at <= ses.primed)
        BY <1>2, <1>5, <3>1 DEF Handle
      <4>2. (ses.at <= ses.primed) \in BOOLEAN
        OBVIOUS
      <4> QED BY <4>1, <4>2, Zenon
    <3>2. CASE ph = "pass2"
      <4>1. book' = CheckResting(book, i, bar, TRUE)
        BY <1>2, <1>5, <3>2 DEF Handle
      <4> QED BY <4>1, Zenon
    <3> QED BY <1>8, <3>1, <3>2
  <2> QED BY <1>2, <1>6, <1>8, <2>1, RestingSound
<1>9. CASE ph \in {"late", "moc", "close"}
  <2>1. book' = book \/ (IsOpen(book, i) /\ book' = Fill(book, i, price))
    BY <1>2, <1>9 DEF Handle
  <2> QED BY <1>3, <1>4, <2>1
<1> QED BY <1>7, <1>8, <1>9

LEMMA SoundStep ==
  ASSUME Shape, Where, Tape, Booked, Priced, Sound(book), [Next]_vars
  PROVE  Sound(book')
<1>1. CASE \E ph \in {"moo", "pass1", "moc", "pass2", "late", "close"} : Visit(ph)
  BY <1>1, VisitSound
<1>2. CASE Withdraw
  <2>1. PICK held : held = IF book.qty > 0 THEN book.qty ELSE 0
    OBVIOUS
  <2>2. PICK q : q = Lower(sells, held)
    OBVIOUS
  <2>3. q \in Int
    BY <2>1, <2>2 DEF Lower, Priced, Sound
  <2>4. PICK o : o = [kind |-> "market", qty |-> -q, lim |-> None, stop |-> None]
    OBVIOUS
  <2>5. IsOrder(o) /\ Numbered(o)
    BY <2>3, <2>4 DEF IsOrder, Numbered, Kinds, None
  <2>6. book' = Market(book, o) \/ book' = book
    BY <1>2, <2>1, <2>2, <2>4 DEF Withdraw
  <2> QED BY <2>5, <2>6, MarketSound DEF Shape
<1>3. CASE Place
  <2>1. PICK o \in mode.orders : book' = PlaceOrder(book, o)
    BY <1>3 DEF Place
  <2>2. o \in Orders
    BY ModesAssumption DEF Shape, ModeType
  <2> QED BY <2>1, <2>2, PlaceSound DEF Shape
<1>4. CASE Cancel
  <2>1. PICK i \in OpenTickets(book) : book' = SetStatus(book, i, "canceled")
    BY <1>4 DEF Cancel
  <2>2. i \in DOMAIN book.tickets /\ book.tickets[i].status = "submitted"
    BY DEF OpenTickets, IsOpen
  <2> QED BY <2>1, <2>2, StatusSound DEF Statuses
<1>5. CASE Update
  <2>1. PICK i \in OpenTickets(book), o \in mode.orders :
          book' = [book EXCEPT !.tickets[i] = Amended(@, o)]
    BY <1>5 DEF Update
  <2>2. /\ i \in DOMAIN book.tickets /\ book.tickets[i].status = "submitted"
        /\ IsTicket(book.tickets[i]) /\ Numbered(book.tickets[i])
    BY DEF OpenTickets, IsOpen, Sound, IsBook
  <2>3. o \in Orders
    BY ModesAssumption DEF Shape, ModeType
  <2>4. o.qty \in Int /\ o.lim \in Int /\ o.stop \in Int
    BY <2>3, OrdersAssumption
  <2>5. PICK t : t = Amended(book.tickets[i], o)
    OBVIOUS
  <2>6. PICK lim \in Int, stop \in Int :
          t = [book.tickets[i] EXCEPT !.qty = o.qty, !.stop = stop, !.lim = lim]
    <3>1. PICK lim : lim = IF o.kind = "trail" THEN book.tickets[i].lim ELSE o.lim
      OBVIOUS
    <3>4. PICK stop : stop = IF o.stop = None THEN book.tickets[i].stop ELSE o.stop
      OBVIOUS
    <3>2. lim \in Int /\ stop \in Int
      BY <2>2, <2>4, <3>1, <3>4 DEF Numbered
    <3>3. t = [book.tickets[i] EXCEPT !.qty = o.qty, !.stop = stop, !.lim = lim]
      BY <2>5, <3>1, <3>4, Zenon DEF Amended
    <3> QED BY <3>2, <3>3
  <2>7. Kept(book.tickets[i], t) /\ Numbered(t)
    <3>1. Kept(book.tickets[i], t)
      BY <2>2, <2>6 DEF Kept, IsTicket
    <3>2. Numbered(t)
      BY <2>2, <2>4, <2>6 DEF Numbered, IsTicket
    <3> QED BY <3>1, <3>2
  <2>8. PICK c : c = book' /\ c = [book EXCEPT !.tickets[i] = t]
    BY <2>1, <2>5, Zenon
  <2>9. Sound(c)
    BY <2>2, <2>7, <2>8, SoundTicket
  <2> QED BY <2>8, <2>9
<1>6. CASE UNCHANGED vars
  BY <1>6 DEF vars
<1>7. CASE Quit \/ RegisterIndicator \/ Return
  BY <1>7 DEF Quit, RegisterIndicator, Return
<1>8. CASE Leave("moo", "pass1") \/ Leave("pass1", "moc") \/ Leave("moc", "data")
           \/ Leave("pass2", "late")
  BY <1>8 DEF Leave
<1>9. CASE BeginSession \/ NextBar \/ PreBarEvent \/ PreBarDone \/ TakePrices
           \/ OnData \/ CheckQuit \/ FireEvent \/ EventsDone
  BY <1>9 DEF BeginSession, NextBar, PreBarEvent, PreBarDone, TakePrices,
              OnData, CheckQuit, FireEvent, EventsDone
<1>10. CASE BarDone \/ Prime \/ PrimeEvent \/ PrimeDone \/ EndSession \/ EndOfDay \/ NextDay
  BY <1>10 DEF BarDone, Prime, PrimeEvent, PrimeDone, EndSession, EndOfDay, NextDay
<1> QED BY <1>1, <1>2, <1>3, <1>4, <1>5, <1>6, <1>7, <1>8, <1>9, <1>10
        DEF Next, Loop, Algorithm

-----------------------------------------------------------------------------
(* The sums the property takes are these.                                  *)

PaidFor(f) == IF f.rows = {} THEN Bought(f) * f.px
              ELSE SumOver(f.rows, LAMBDA r : Rows[r].qty * Rows[r].px)

LEMMA BoughtIs ==
  ASSUME NEW f, f.rows \subseteq DOMAIN Rows
  PROVE  Bought(f) = Volume(book, f) /\ PaidFor(f) = Cost(book, f)
<1>1. CASE f.rows = {}
  BY <1>1 DEF Bought, PaidFor, Volume, Cost
<1>2. CASE f.rows # {}
  <2>1. PICK R : R = f.rows
    OBVIOUS
  <2>2. Bought(f) = SumOver(R, LAMBDA r : Rows[r].qty)
        /\ PaidFor(f) = SumOver(R, LAMBDA r : Rows[r].qty * Rows[r].px)
    BY <1>2, <2>1, Zenon DEF Bought, PaidFor
  <2>3. Bought(f) = Total(RowQty, R) /\ PaidFor(f) = Total(RowPaid, R)
    BY <2>1, <2>2, RowsTraded, RowsPaid, Zenon
  <2> QED BY <1>2, <2>1, <2>3 DEF Volume, Cost
<1> QED BY <1>1, <1>2

LEMMA SleeveVolumes ==
  ASSUME Sound(book), NEW S, S = DOMAIN book.fills
  PROVE  SumOver(S, LAMBDA k : Bought(book.fills[k])) = Total(Volumes(book), S)
<1> DEFINE iter == CHOOSE g : g = [s \in SUBSET S |->
                     IF s = {} THEN 0 ELSE Bought(book.fills[One(s)]) + g[Rest(s)]]
<1>1. SumOver(S, LAMBDA k : Bought(book.fills[k])) = iter[S]
  BY Zenon DEF SumOver, MapThenSumSet, MapThenFoldSet, One, Rest
<1>2. PICK v : v = Volumes(book)
  OBVIOUS
<1>3. IsFiniteSet(S) /\ \A k \in S : v[k] \in Int
  BY <1>2, SoundIs
<1>4. PICK g \in [SUBSET S -> Int] : IsSum(g, S, v) /\ Total(v, S) = g[S]
  BY <1>3, TotalIs
<1>5. \A k \in S : v[k] = Bought(book.fills[k])
  <2>1. ASSUME NEW k \in S PROVE Volume(book, book.fills[k]) = Bought(book.fills[k])
    BY BoughtIs DEF Sound, FillOK
  <2> QED BY <1>2, <2>1 DEF Volumes
<1>6. \A s \in SUBSET S : s # {} => v[One(s)] = Bought(book.fills[One(s)])
  BY <1>5, RestIsLess
<1>7. g = [s \in SUBSET S |-> IF s = {} THEN 0 ELSE Bought(book.fills[One(s)]) + g[Rest(s)]]
  BY <1>4, <1>6 DEF IsSum
<1>8. iter = [s \in SUBSET S |-> IF s = {} THEN 0
                                 ELSE Bought(book.fills[One(s)]) + iter[Rest(s)]]
  BY <1>7, Zenon
<1> HIDE DEF iter
<1>9. IsSum(iter, S, v)
  BY <1>6, <1>8 DEF IsSum
<1>10. iter[S] = g[S]
  BY <1>3, <1>4, <1>9, SumUnique
<1> QED BY <1>1, <1>2, <1>4, <1>10

LEMMA SleeveCosts ==
  ASSUME Sound(book), NEW S, S = DOMAIN book.fills
  PROVE  SumOver(S, LAMBDA k : PaidFor(book.fills[k])) = Total(Costs(book), S)
<1> DEFINE iter == CHOOSE g : g = [s \in SUBSET S |->
                     IF s = {} THEN 0 ELSE PaidFor(book.fills[One(s)]) + g[Rest(s)]]
<1>1. SumOver(S, LAMBDA k : PaidFor(book.fills[k])) = iter[S]
  BY Zenon DEF SumOver, MapThenSumSet, MapThenFoldSet, One, Rest
<1>2. PICK v : v = Costs(book)
  OBVIOUS
<1>3. IsFiniteSet(S) /\ \A k \in S : v[k] \in Int
  BY <1>2, SoundIs
<1>4. PICK g \in [SUBSET S -> Int] : IsSum(g, S, v) /\ Total(v, S) = g[S]
  BY <1>3, TotalIs
<1>5. \A k \in S : v[k] = PaidFor(book.fills[k])
  <2>1. ASSUME NEW k \in S PROVE Cost(book, book.fills[k]) = PaidFor(book.fills[k])
    BY BoughtIs DEF Sound, FillOK
  <2> QED BY <1>2, <2>1 DEF Costs
<1>6. \A s \in SUBSET S : s # {} => v[One(s)] = PaidFor(book.fills[One(s)])
  BY <1>5, RestIsLess
<1>7. g = [s \in SUBSET S |-> IF s = {} THEN 0 ELSE PaidFor(book.fills[One(s)]) + g[Rest(s)]]
  BY <1>4, <1>6 DEF IsSum
<1>8. iter = [s \in SUBSET S |-> IF s = {} THEN 0
                                 ELSE PaidFor(book.fills[One(s)]) + iter[Rest(s)]]
  BY <1>7, Zenon
<1> HIDE DEF iter
<1>9. IsSum(iter, S, v)
  BY <1>6, <1>8 DEF IsSum
<1>10. iter[S] = g[S]
  BY <1>3, <1>4, <1>9, SumUnique
<1> QED BY <1>1, <1>2, <1>4, <1>10

LEMMA AccountsInit ==
  ASSUME Init
  PROVE  Priced /\ Sound(book)
<1>1. Priced
  BY DEF Init, Priced, PricedBar, NoBar
<1>2. PICK b : b = book
  OBVIOUS
<1>3. /\ b.tickets = <<>> /\ b.fills = <<>> /\ HasFields(b) /\ b.cash = Cash /\ b.qty = 0
  BY <1>2 DEF Init, HasFields
<1>4. DOMAIN b.tickets = {} /\ DOMAIN b.fills = {}
  BY <1>3
<1>5. IsBook(b)
  BY <1>3, <1>4, EmptyIsSeq DEF IsBook
<1>6. Total(Volumes(b), {}) = 0 /\ Total(Costs(b), {}) = 0
  BY TotalEmpty
<1>7. Sound(b)
  BY <1>3, <1>4, <1>5, <1>6, LedgerAssumption DEF Sound
<1> QED BY <1>1, <1>2, <1>7

\* The sleeve is what its orders did: position and cash are the opening cash and the
\* sums over every fill there was, the executions of a broker's order together.
THEOREM Sleeve == Spec => []SleeveIsItsFills
<1>1. Init => IInv /\ Priced /\ Sound(book)
  BY IInvInit, AccountsInit
<1>2. (IInv /\ Priced /\ Sound(book)) /\ [Next]_vars => (IInv /\ Priced /\ Sound(book))'
  BY IInvStep, PricedStep, SoundStep DEF IInv
<1>3. IInv /\ Sound(book) => SleeveIsItsFills
  <2> SUFFICES ASSUME IInv, Sound(book) PROVE SleeveIsItsFills
    OBVIOUS
  <2>1. FilledOnce
    BY DEF IInv, Recorded
  <2>2. PICK S : S = DOMAIN book.fills
    OBVIOUS
  <2>3. book.qty = SumOver(S, LAMBDA k : Bought(book.fills[k]))
    <3>1. book.qty = Total(Volumes(book), S)
      BY <2>2 DEF Sound
    <3> QED BY <2>2, <3>1, SleeveVolumes, Zenon
  <2>4. book.cash = Cash - SumOver(S, LAMBDA k : PaidFor(book.fills[k]))
    <3>1. book.cash = Cash - Total(Costs(book), S)
      BY <2>2 DEF Sound
    <3> QED BY <2>2, <3>1, SleeveCosts, Zenon
  <2> QED BY <2>1, <2>2, <2>3, <2>4, Zenon DEF SleeveIsItsFills, PaidFor
<1> QED BY <1>1, <1>2, <1>3, PTL DEF Spec
=============================================================================
