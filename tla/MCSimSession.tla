---------------------------- MODULE MCSimSession ----------------------------
(* Instances of SimSession for TLC. *)
EXTENDS SimSession

Order(k, q, x, y) == [kind |-> k, qty |-> q, lim |-> x, stop |-> y]

Buy     == Order("market", 1, None, None)
TakeAt4 == Order("limit", -2, 4, None)
Bracket == Order("stopLimit", -1, 4, 3)
Relaxed == Order("stopLimit", -1, 2, 2)
Chase   == Order("stop", 1, None, 3)
Further == Order("stop", 1, None, 4)
Protect == Order("trail", -1, 1, None)
Touch   == Order("touch", 1, 3, 3)
AtClose == Order("moc", -1, None, None)
AtOpen  == Order("moo", 1, None, None)
MCOrders == {Buy, TakeAt4, Bracket, Relaxed, Chase, Further, Protect, Touch, AtClose, AtOpen}

Mode(d, l, w, f, o, g, os) ==
  [daily |-> d, live |-> l, warm |-> w, fast |-> f, ondata |-> o, ledger |-> g,
   orders |-> os]

MCModes == {
  Mode(FALSE, FALSE, FALSE, TRUE, FALSE, FALSE, {Buy, Bracket, Relaxed}), \* fast backtest
  Mode(FALSE, FALSE, FALSE, TRUE, FALSE, FALSE, {Chase, Further}),
  Mode(FALSE, FALSE, FALSE, TRUE, FALSE, FALSE, {AtClose, Protect, Touch}),
  Mode(FALSE, TRUE, FALSE, TRUE, FALSE, TRUE, {Buy, TakeAt4}),            \* fast, live replay
  Mode(FALSE, FALSE, FALSE, FALSE, TRUE, FALSE, {AtOpen, TakeAt4}),       \* walked
  Mode(TRUE, FALSE, FALSE, FALSE, TRUE, FALSE, {Chase, AtClose}),        \* daily
  Mode(TRUE, TRUE, FALSE, FALSE, FALSE, TRUE, {Buy, AtClose}),            \* daily, live
  Mode(FALSE, TRUE, FALSE, FALSE, TRUE, TRUE, {Buy, TakeAt4}),            \* a live replay
  Mode(FALSE, TRUE, TRUE, FALSE, FALSE, TRUE, {Buy, TakeAt4})}            \* warm engine

Dip  == [o |-> 3, h |-> 3, l |-> 2, c |-> 3]
Rise == [o |-> 3, h |-> 5, l |-> 3, c |-> 4]

\* The first bar of a session is thin or a dip; the two after the second event,
\* which the quiet-bar path may skip, are a dip and a dip or a rise.
MCTapes == {t \in [Ends -> {Dip, Rise, NoBar}] :
              /\ t[2] \in {Dip, NoBar} /\ t[3] = Rise /\ t[4] = Dip
              /\ t[5] \in {Dip, Rise} /\ t[6] = Rise}
MCFires == <<1, 3>>
MCDays == <<"data", "partial", "data">>

\* One broker order, executed in two parts.
MCRows == <<[day |-> 1, ms |-> 1, qty |-> -1, px |-> 4, tag |-> 1, oid |-> 7],
            [day |-> 1, ms |-> 3, qty |-> -1, px |-> 5, tag |-> 1, oid |-> 7]>>
=============================================================================
