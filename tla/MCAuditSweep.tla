---------------------------- MODULE MCAuditSweep ----------------------------
(* Instances of AuditSweep for TLC: one symbol at 600 (tenths of a cent).  *)
EXTENDS AuditSweep

Stop(l) == [kind |-> "stop", level |-> l]
Profit(l) == [kind |-> "limit", level |-> l]
P(q, x, e, m) == [qty |-> q, exits |-> x, entries |-> e, ticket |-> m, px |-> 600]

Raised == P(1, {Stop(521)}, {}, 0)
Bracket == P(1, {Stop(503), Profit(701)}, {}, 0)
Short == P(-1, {Stop(701)}, {}, 0)
Enter(k, l) == [kind |-> k, level |-> l, qty |-> 1]
Dip == P(0, {}, {Enter("limit", 550)}, 0)
OnClose == P(0, {}, {Enter("limit", 540)}, 1)

(* The capabilities the three adapters declare, as far as a sweep reads     *)
(* them; of the three only Schwab takes an on-close order itself.           *)
Alpaca == [cids |-> TRUE, ackIds |-> TRUE, fillIds |-> FALSE, levels |-> TRUE,
           replace |-> TRUE, shorts |-> TRUE, native |-> {"limit", "stop"}]
Webull == [Alpaca EXCEPT !.ackIds = FALSE, !.fillIds = TRUE, !.levels = FALSE, !.replace = FALSE]
Schwab == [Alpaca EXCEPT !.cids = FALSE, !.shorts = FALSE, !.native = {"limit", "stop", "moc"}]

AllVenues == {Alpaca, Webull, Schwab}

Of(v, owner, kept) == [venue |-> v, owner |-> owner, kept |-> kept]
AllStarts == {Of(Alpaca, 0, 0), Of(Webull, 0, 0), Of(Schwab, 0, 0),
              Of(Webull, 1, 1), Of(Webull, 1, 0)}
AllPayloads == {Raised, Bracket, Short, Dip, OnClose}
=============================================================================
