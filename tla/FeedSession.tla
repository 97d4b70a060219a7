---------------------------- MODULE FeedSession ----------------------------
(***************************************************************************)
(* A live market-data feed and the worker it feeds.  The feed (Alpaca's or *)
(* the Schwab plugin's) owns one websocket and is pumped by FeedRunner:    *)
(* each turn handles at most one wire frame, stores the frame's bars in    *)
(* one commit, announces the bars that changed something, and publishes    *)
(* the feed's state under a key with a lifetime.  The worker reads that    *)
(* key once a cycle, turns it into a verdict (check_feed) and, while the   *)
(* feed is silent, fetches its symbols' bars over REST.                    *)
(*                                                                         *)
(* Time is a coarse tick: in each one the pump turns and the worker cycles *)
(* at least once (both block for a second at most).  Instants the code     *)
(* keeps as epoch seconds are kept as ages, stopped just past the largest  *)
(* timeout they are compared with.  The venue's frames carry an            *)
(* acknowledgement, the bars of one minute, a quote or heartbeat, or an    *)
(* error; a bar that fails bar_is_sane or an unreadable frame is a beat.   *)
(***************************************************************************)
EXTENDS Integers, FiniteSets, Sequences

CONSTANTS
    Symbols,        \* what a feed may be asked to carry
    Needs,          \* the symbols of the worker's deployment
    Starts,         \* the feeds to check: <<vendor, the set first wanted>>
    FrameTimeout,   \* SilencePolicy.frame_timeout_s
    BarTimeout,     \* SilencePolicy.bar_timeout_s
    StateTtl,       \* FEED_STATE_TTL_S
    AbsentGrace,    \* FEED_ABSENT_GRACE_S
    RefreshEvery,   \* FEED_REFRESH_EVERY_S
    BackoffMax,     \* BACKOFF_MAX_S (BACKOFF_S is 1)
    LimitBackoff,   \* CONN_LIMIT_BACKOFF_S
    AuthBackoff,    \* AUTH_BACKOFF_S
    MaxWire,        \* bound: frames in flight
    MaxPrints,      \* bound: minutes the market prints
    MaxFaults,      \* bound: drops, refusals, limits, restarts, REST failures
    MaxChanges,     \* bound: changes of the subscribed set, session ends
    MayDie          \* the venue may go away for good

ASSUME FeedAssumption ==
    /\ IsFiniteSet(Symbols) /\ Needs \subseteq Symbols /\ Needs # {}
    /\ Starts \subseteq {"alpaca", "schwab"} \X SUBSET Symbols /\ Starts # {}
    /\ \A s \in Starts : Needs \subseteq s[2]
    /\ {FrameTimeout, BarTimeout, StateTtl, AbsentGrace, RefreshEvery,
        MaxPrints, MaxFaults, MaxChanges} \subseteq Nat
    /\ {BackoffMax, LimitBackoff, AuthBackoff, MaxWire}
           \subseteq Nat \ {0}
    /\ FrameTimeout <= BarTimeout
    /\ MayDie \in BOOLEAN

Base    == 1                                        \* BACKOFF_S
Minutes == 1..MaxPrints
AgeCap  == BarTimeout + 1
LateCap == FrameTimeout + StateTtl + AbsentGrace + 2
Never   == -1                                       \* None: no frame, no bar
Larger(x, y)    == IF x > y THEN x ELSE y
Smaller(x, y)   == IF x < y THEN x ELSE y
Older(age, cap) == IF age = Never THEN Never ELSE Smaller(age + 1, cap)
NoState == [connected |-> FALSE, symbols |-> {}, frameAge |-> Never,
            barAge |-> Never]

VARIABLES
    feed,      \* the quote feed object and its FeedState
    carry,     \* what the venue sends on this socket
    wire,      \* frames in flight
    pump,      \* where the pump is: poll, announce or publish
    toSay,     \* bars stored from the last frame, not announced yet
    events,    \* announced bars the worker has not read
    tape,      \* the minutes each symbol printed
    bars,      \* bar_days: the minutes stored for each symbol
    key,       \* feed:state on the bus, with its remaining lifetime
    worker,    \* the worker's watch of the feed
    now,       \* the session, its age and what this tick still owes
    lost,      \* the venue is gone for good
    left,      \* bounds not used up yet
    deaf,      \* ticks without a frame that the worker took for a live feed
    waited,    \* ticks since the last connection attempt failed
    dry        \* connection failures since the last frame

vars == <<feed, carry, wire, pump, toSay, events, tape, bars, key, worker,
          now, lost, left, deaf, waited, dry>>

feedVars   == <<feed, carry, wire, deaf, waited, dry>>
storeVars  == <<tape, bars>>
workerVars == <<worker, key>>

\* A feed object just built: no socket, nothing heard, the first backoff.
\* up is the process that holds it.
Fresh(v, want) ==
    [vendor |-> v, up |-> TRUE, sock |-> FALSE, wanted |-> want,
     symbols |-> {}, backoff |-> Base, retryIn |-> 0,
     frameAge |-> Never, barAge |-> Never]

Frames ==
    [kind : {"ack"}, syms : SUBSET Symbols]
        \cup [kind : {"bars"}, m : Minutes, syms : (SUBSET Symbols) \ {{}}]
        \cup [kind : {"beat", "limit", "error", "refused"}]

Init ==
    /\ \E s \in Starts : feed = Fresh(s[1], s[2])
    /\ carry = {} /\ wire = <<>>
    /\ pump = "poll" /\ toSay = {} /\ events = {}
    /\ tape = [s \in Symbols |-> {}] /\ bars = [s \in Symbols |-> {}]
    /\ key = [ttl |-> 0, state |-> NoState]
    /\ worker = [silent |-> FALSE, absent |-> FALSE, absentFor |-> 0,
                 refreshedAgo |-> RefreshEvery]
    /\ now = [open |-> TRUE, age |-> 0, polled |-> FALSE,
              cycled |-> FALSE]
    /\ lost = FALSE
    /\ left = [prints |-> MaxPrints, faults |-> MaxFaults,
               changes |-> MaxChanges]
    /\ deaf = 0 /\ waited = 0 /\ dry = 0

Fault == left.faults > 0 /\ left' = [left EXCEPT !.faults = @ - 1]

-----------------------------------------------------------------------------
(* The socket.                                                             *)

\* mutant: the doubled backoff is not capped
Uncapped(f, floor) ==
    LET b == Larger(f.backoff, floor) IN
    [f EXCEPT !.sock = FALSE, !.symbols = {}, !.retryIn = b, !.backoff = 2 * b]

\* mutant: the dead socket's subscriptions are still claimed
StillClaims(f, floor) ==
    LET b == Larger(f.backoff, floor) IN
    [f EXCEPT !.sock = FALSE, !.retryIn = b,
              !.backoff = Smaller(2 * b, BackoffMax)]

\* _fail: the socket and its subscriptions are gone, the retry is scheduled
\* after the backoff, and the next backoff is twice as long.
Failed(f, floor) ==
    LET b == Larger(f.backoff, floor) IN
    [f EXCEPT !.sock = FALSE, !.symbols = {}, !.retryIn = b,
              !.backoff = Smaller(2 * b, BackoffMax)]
DropWith(f, floor) ==
    /\ feed' = Failed(f, floor)
    /\ carry' = {} /\ wire' = <<>>
    /\ waited' = 0 /\ dry' = Smaller(dry + 1, 3)

\* The venue's answer to a request that leaves it carrying `now`: Alpaca
\* acknowledges with the whole set, Schwab with a code only.
Answer(now_) ==
    IF feed.vendor = "alpaca" THEN <<[kind |-> "ack", syms |-> now_]>> ELSE <<>>

\* mutant: a socket that opened resets the backoff
NotedAndReset(f) ==
    [f EXCEPT !.backoff = Base,
              !.symbols = IF f.vendor = "schwab" THEN f.wanted ELSE @]

\* _note_subscribed: Schwab's state lists what was sent on the socket.
Noted(f) == IF f.vendor = "schwab" THEN [f EXCEPT !.symbols = f.wanted] ELSE f

\* The connection comes up and the whole wanted set is subscribed on it.
Connect ==
    /\ pump = "poll" /\ feed.up /\ ~feed.sock /\ feed.retryIn = 0
    /\ ~lost
    /\ feed' = Noted([feed EXCEPT !.sock = TRUE])
    /\ carry' = feed.wanted
    /\ wire' = IF feed.wanted = {} THEN <<>> ELSE Answer(feed.wanted)
    /\ pump' = "publish"
    /\ UNCHANGED <<toSay, events, storeVars, workerVars, now, lost, left,
                   deaf, waited, dry>>

\* Schwab refuses the subscription of some symbols on an open socket: the
\* refusal is logged when it is read, and nothing else.
ConnectRefused ==
    /\ pump = "poll" /\ feed.up /\ ~feed.sock /\ feed.retryIn = 0
    /\ ~lost /\ feed.vendor = "schwab" /\ feed.wanted # {} /\ Fault
    /\ feed' = Noted([feed EXCEPT !.sock = TRUE])
    /\ \E no \in (SUBSET feed.wanted) \ {{}} : carry' = feed.wanted \ no
    /\ wire' = <<[kind |-> "refused"]>>
    /\ pump' = "publish"
    /\ UNCHANGED <<toSay, events, storeVars, workerVars, now, lost,
                   deaf, waited, dry>>

\* The attempt fails: no socket or handshake, another connection holds the
\* account's stream slot (Alpaca), or the refresh token is dead (Schwab).
ConnectFails ==
    /\ pump = "poll" /\ feed.up /\ ~feed.sock /\ feed.retryIn = 0
    /\ \/ lost /\ UNCHANGED left
       \/ ~lost /\ Fault
    /\ \/ DropWith(feed, 0)
       \/ feed.vendor = "alpaca" /\ DropWith(feed, LimitBackoff)
       \/ feed.vendor = "schwab" /\ DropWith(feed, AuthBackoff)
    /\ pump' = "publish"
    /\ UNCHANGED <<toSay, events, storeVars, workerVars, now, lost, deaf>>

\* Inside the backoff a poll sleeps and returns.
WaitToRetry ==
    /\ pump = "poll" /\ feed.up /\ ~feed.sock /\ feed.retryIn > 0
    /\ ~now.polled
    /\ pump' = "publish"
    /\ UNCHANGED <<feedVars, toSay, events, storeVars, workerVars, now, lost,
                   left>>

-----------------------------------------------------------------------------
(* One frame.                                                              *)

\* A frame is what proves the connection works: it resets the backoff.
Heard(f) == [f EXCEPT !.frameAge = 0, !.backoff = Base]
Take == wire' = Tail(wire) /\ deaf' = 0 /\ dry' = 0 /\ waited' = 0

Reading(kind) ==
    /\ pump = "poll" /\ feed.up /\ feed.sock
    /\ wire # <<>> /\ Head(wire).kind = kind

\* Alpaca's acknowledgement carries the set the venue now sends.
ReadAck ==
    /\ Reading("ack") /\ Take /\ feed.vendor = "alpaca"
    /\ feed' = [Heard(feed) EXCEPT !.symbols = Head(wire).syms]
    /\ pump' = "publish"
    /\ UNCHANGED <<carry, toSay, events, storeVars, workerVars, now, lost,
                   left>>

\* A quote, a heartbeat, a refusal, an unknown or malformed message: the
\* frame counts as heard and changes nothing else.
ReadOther ==
    /\ (Reading("beat") \/ Reading("refused")) /\ Take
    /\ feed' = Heard(feed)
    /\ pump' = "publish"
    /\ UNCHANGED <<carry, toSay, events, storeVars, workerVars, now, lost,
                   left>>

\* BarDayStore.write: the whole frame in one commit; the bars that changed
\* something come back to be announced.
Changed(frame) == {s \in frame.syms : frame.m \notin bars[s]}

Stored(frame) ==
    [s \in Symbols |-> IF s \in frame.syms THEN bars[s] \cup {frame.m}
                       ELSE bars[s]]
StoreFrame ==
    /\ Reading("bars") /\ Take
    /\ LET frame == Head(wire)
           new == Changed(frame)
       IN /\ bars' = Stored(frame)
          /\ feed' = IF new = {} THEN Heard(feed)
                     ELSE [Heard(feed) EXCEPT !.barAge = 0]
          /\ toSay' = {[m |-> frame.m, sym |-> s, whole |-> frame.syms]
                         : s \in new}
          /\ pump' = IF new = {} THEN "publish" ELSE "announce"
    /\ UNCHANGED <<carry, events, tape, workerVars, now, lost, left>>

\* The write raises: poll logs that the frame was dropped and goes on.
StoreFails ==
    /\ Reading("bars") /\ Take /\ Fault
    /\ feed' = Heard(feed)
    /\ pump' = "publish"
    /\ UNCHANGED <<carry, toSay, events, storeVars, workerVars, now, lost>>

\* notify_bar, one changed bar at a time.
Announce ==
    /\ pump = "announce"
    /\ \E e \in toSay :
          /\ toSay' = toSay \ {e}
          /\ events' = events \cup {e}
          /\ pump' = IF toSay = {e} THEN "publish" ELSE "announce"
    /\ UNCHANGED <<feedVars, storeVars, workerVars, now, lost, left>>

\* An error frame drops the socket: the connection limit with its longer
\* backoff, an authentication code with the plain one (_on_error); Schwab's
\* login denied with the authorization's.
ReadError ==
    /\ Reading("limit") \/ Reading("error")
    /\ LET f == Heard(feed) IN
       /\ feed' = Failed(f, IF Head(wire).kind = "error" THEN 0
                            ELSE IF f.vendor = "alpaca" THEN LimitBackoff
                            ELSE AuthBackoff)
       /\ carry' = {} /\ wire' = <<>>
       /\ deaf' = 0 /\ waited' = 0 /\ dry' = 1
    /\ pump' = "publish"
    /\ UNCHANGED <<toSay, events, storeVars, workerVars, now, lost, left>>

\* Nothing came within the timeout.
ReadNothing ==
    /\ pump = "poll" /\ feed.up /\ feed.sock /\ wire = <<>> /\ ~now.polled
    /\ pump' = "publish"
    /\ UNCHANGED <<feedVars, toSay, events, storeVars, workerVars, now, lost,
                   left>>

\* The read raises: frames in flight are lost with the socket.
ReadFails ==
    /\ pump = "poll" /\ feed.up /\ feed.sock
    /\ \/ lost /\ wire = <<>> /\ UNCHANGED left
       \/ Fault
    /\ DropWith(feed, 0)
    /\ pump' = "publish"
    /\ UNCHANGED <<toSay, events, storeVars, workerVars, now, lost, deaf>>

\* refresh_status, then publish_feed_state, at most once per FSTATE_MIN_S.
Publish ==
    /\ pump = "publish"
    /\ pump' = "poll"
    /\ now' = [now EXCEPT !.polled = TRUE]
    /\ key' = IF now.polled THEN key
              ELSE [ttl |-> StateTtl,
                    state |-> [connected |-> feed.sock,
                               symbols |-> feed.symbols,
                               frameAge |-> feed.frameAge,
                               barAge |-> feed.barAge]]
    /\ UNCHANGED <<feedVars, toSay, events, storeVars, worker, lost, left>>

-----------------------------------------------------------------------------
(* Subscriptions, between two polls (the host's rescan runs on the pump).  *)

\* _send_subscription: the sent request is answered, refused (Schwab) or fails with the socket.
Sent(f, new) ==
    \/ /\ feed' = Noted(f) /\ carry' = new
       /\ Len(wire) < MaxWire /\ wire' = wire \o Answer(new)
       /\ left' = [left EXCEPT !.changes = @ - 1]
       /\ UNCHANGED <<waited, dry>>
    \/ /\ f.vendor = "schwab" /\ left.faults > 0
       /\ feed' = Noted(f) /\ UNCHANGED carry
       /\ Len(wire) < MaxWire /\ wire' = Append(wire, [kind |-> "refused"])
       /\ left' = [left EXCEPT !.changes = @ - 1, !.faults = @ - 1]
       /\ UNCHANGED <<waited, dry>>
    \/ /\ left.faults > 0 /\ DropWith(f, 0)
       /\ left' = [left EXCEPT !.changes = @ - 1, !.faults = @ - 1]

Asked(f, new) ==
    IF feed.sock THEN Sent(f, new)
    ELSE /\ feed' = f
         /\ left' = [left EXCEPT !.changes = @ - 1]
         /\ UNCHANGED <<carry, wire, waited, dry>>

Subscribe(fresh) ==
    /\ pump = "poll" /\ feed.up /\ left.changes > 0
    /\ fresh \subseteq Symbols \ feed.wanted /\ fresh # {}
    /\ Asked([feed EXCEPT !.wanted = @ \cup fresh], carry \cup fresh)
    /\ UNCHANGED <<pump, toSay, events, storeVars, workerVars, now, lost,
                   deaf>>

Unsubscribe(gone) ==
    /\ pump = "poll" /\ feed.up /\ left.changes > 0
    /\ gone \subseteq feed.wanted \ Needs /\ gone # {}
    /\ Asked([feed EXCEPT !.wanted = @ \ gone], carry \ gone)
    /\ UNCHANGED <<pump, toSay, events, storeVars, workerVars, now, lost,
                   deaf>>

\* The process that holds the feed dies, or comes back with a new object
\* and no memory of the last frame.
FeedDies ==
    /\ feed.up /\ Fault
    /\ feed' = [Fresh(feed.vendor, feed.wanted) EXCEPT !.up = FALSE]
    /\ carry' = {} /\ wire' = <<>> /\ toSay' = {} /\ pump' = "poll"
    /\ waited' = 0 /\ dry' = 0
    /\ UNCHANGED <<events, storeVars, workerVars, now, lost, deaf>>

FeedStarts ==
    /\ ~feed.up /\ ~lost
    /\ feed' = Fresh(feed.vendor, feed.wanted)
    /\ UNCHANGED <<carry, wire, pump, toSay, events, storeVars, workerVars,
                   now, lost, left, deaf, waited, dry>>

-----------------------------------------------------------------------------
(* The venue.                                                              *)

Push(frame) == Len(wire) < MaxWire /\ wire' = Append(wire, frame)

\* A minute ends: every symbol of some prints it; those carried on the
\* socket are sent in one frame.
MinutePrints(some) ==
    /\ now.open /\ left.prints > 0 /\ some # {}
    /\ LET m == MaxPrints - left.prints + 1 IN
       /\ tape' = [s \in Symbols |-> IF s \in some THEN tape[s] \cup {m}
                                     ELSE tape[s]]
       /\ IF feed.sock /\ ~lost /\ some \cap carry # {}
          THEN Push([kind |-> "bars", m |-> m, syms |-> some \cap carry])
          ELSE UNCHANGED wire
    /\ left' = [left EXCEPT !.prints = @ - 1]
    /\ UNCHANGED <<feed, carry, pump, toSay, events, bars, workerVars, now,
                   lost, deaf, waited, dry>>

\* A candle is sent again, unchanged.
Resend ==
    /\ feed.sock /\ ~lost /\ Fault /\ wire = <<>>
    /\ \E m \in Minutes :
          LET again == {s \in carry : m \in tape[s]} IN
          again # {} /\ Push([kind |-> "bars", m |-> m, syms |-> again])
    /\ UNCHANGED <<feed, carry, pump, toSay, events, storeVars, workerVars,
                   now, lost, deaf, waited, dry>>

Beat ==
    /\ feed.sock /\ ~lost /\ wire = <<>> /\ feed.frameAge # 0
    /\ Push([kind |-> "beat"])
    /\ UNCHANGED <<feed, carry, pump, toSay, events, storeVars, workerVars,
                   now, lost, left, deaf, waited, dry>>

Complain ==
    /\ feed.sock /\ ~lost /\ Fault
    /\ \E k \in {"limit", "error"} :
          /\ k = "error" => feed.vendor = "alpaca"
          /\ Push([kind |-> k])
    /\ UNCHANGED <<feed, carry, pump, toSay, events, storeVars, workerVars,
                   now, lost, deaf, waited, dry>>

GoAway ==
    /\ MayDie /\ ~lost /\ lost' = TRUE
    /\ UNCHANGED <<feedVars, pump, toSay, events, storeVars, workerVars, now,
                   left>>

-----------------------------------------------------------------------------
(* The worker.                                                             *)

\* check_feed, for the symbols this deployment needs: a state with no frame
\* or no bar is measured from the session's open.
AgeOr(age) == IF age = Never THEN now.age ELSE age
Silent(state) ==
    \/ ~state.connected
    \/ ~(Needs \subseteq state.symbols)
    \/ AgeOr(state.frameAge) > FrameTimeout
    \/ AgeOr(state.barAge) > BarTimeout

\* mutant: no key, no verdict
VerdictPresent == key.ttl > 0 /\ Silent(key.state)

\* _feed_health: an absent key becomes silence once the absence outlives
\* FEED_ABSENT_GRACE_S.
Verdict ==
    IF key.ttl > 0 THEN Silent(key.state)
    ELSE worker.absent /\ worker.absentFor > AbsentGrace

\* At most one fetch per FEED_REFRESH_EVERY_S.
RefreshDue == worker.refreshedAgo >= RefreshEvery

\* _feed_bars and the end of the cycle that drained the bar events.
Cycle ==
    /\ ~now.cycled
    /\ now' = [now EXCEPT !.cycled = TRUE]
    /\ events' = {}
    /\ LET silent == now.open /\ Verdict
           ask    == silent /\ RefreshDue
       IN /\ worker' =
                [silent |-> silent,
                 absent |-> now.open /\ key.ttl = 0,
                 absentFor |-> IF now.open /\ key.ttl = 0 /\ worker.absent
                               THEN worker.absentFor ELSE 0,
                 refreshedAgo |-> IF ask THEN 0 ELSE worker.refreshedAgo]
          /\ \/ ~ask /\ UNCHANGED <<bars, left>>
             \/ /\ ask /\ UNCHANGED left
                /\ bars' = [s \in Symbols |-> IF s \in Needs
                               THEN bars[s] \cup tape[s] ELSE bars[s]]
             \/ \E no \in (SUBSET Needs) \ {{}} :
                   /\ ask /\ Fault
                   /\ bars' = [s \in Symbols |-> IF s \in Needs \ no
                                  THEN bars[s] \cup tape[s] ELSE bars[s]]
    /\ UNCHANGED <<feedVars, pump, toSay, tape, key, lost>>

-----------------------------------------------------------------------------
(* Time.                                                                   *)

\* A second's turns are over: the pump polled, the worker cycled and what
\* the venue sent has been read.  Once the faults are used up a live venue
\* sends something in every tick.
Tick ==
    /\ pump = "poll" /\ now.cycled /\ (feed.up => now.polled)
    /\ wire = <<>>
    /\ (feed.sock /\ ~lost /\ left.faults = 0) => feed.frameAge = 0
    /\ feed' = [feed EXCEPT !.frameAge = Older(@, AgeCap),
                            !.barAge   = Older(@, AgeCap),
                            !.retryIn  = Larger(@ - 1, 0)]
    /\ key' = [ttl |-> Larger(key.ttl - 1, 0),
               state |-> IF key.ttl <= 1 THEN NoState
                         ELSE [key.state EXCEPT
                                 !.frameAge = Older(@, AgeCap),
                                 !.barAge   = Older(@, AgeCap)]]
    /\ worker' = [worker EXCEPT
                     !.absentFor = IF worker.absent
                                   THEN Smaller(@ + 1, AbsentGrace + 1) ELSE 0,
                     !.refreshedAgo = Smaller(@ + 1, RefreshEvery)]
    /\ now' = [open |-> now.open, age |-> Smaller(now.age + 1, AgeCap),
               polled |-> FALSE, cycled |-> FALSE]
    /\ deaf' = IF now.open /\ ~worker.silent THEN Smaller(deaf + 1, LateCap)
               ELSE 0
    /\ waited' = IF dry = 0 THEN 0 ELSE Smaller(waited + 1, BackoffMax)
    /\ UNCHANGED <<carry, wire, pump, toSay, events, storeVars, lost, left,
                   dry>>

\* The session ends.
CloseSession ==
    /\ now.open /\ left.changes > 0
    /\ now' = [now EXCEPT !.open = FALSE]
    /\ left' = [left EXCEPT !.changes = @ - 1]
    /\ UNCHANGED <<feedVars, pump, toSay, events, storeVars, workerVars, lost>>

\* The next one opens, after a night in which the worker cycled and no
\* regular-session bar was stored: the last one is older than any timeout.
Overnight(age) == IF age = Never THEN Never ELSE AgeCap
OpenSession ==
    /\ ~now.open /\ ~worker.silent /\ ~worker.absent
    /\ now' = [now EXCEPT !.open = TRUE, !.age = 0, !.cycled = FALSE]
    /\ feed' = [feed EXCEPT !.barAge = Overnight(@)]
    /\ key' = [key EXCEPT !.state.barAge = Overnight(@)]
    /\ deaf' = 0
    /\ UNCHANGED <<carry, wire, waited, dry, pump, toSay, events, storeVars,
                   worker, lost, left>>

Poll ==
    \/ Connect \/ ConnectRefused \/ ConnectFails \/ WaitToRetry
    \/ ReadAck \/ ReadOther \/ StoreFrame \/ StoreFails
    \/ ReadError \/ ReadNothing
    \/ ReadFails
    \/ Announce \/ Publish

Next ==
    \/ Poll \/ FeedStarts \/ FeedDies
    \/ \E S \in SUBSET Symbols : Subscribe(S) \/ Unsubscribe(S) \/ MinutePrints(S)
    \/ Resend \/ Beat \/ Complain \/ GoAway
    \/ Cycle \/ Tick \/ CloseSession \/ OpenSession

\* The pump and the worker run in loops that never end and catch what is
\* raised; time passes; a live venue sends; a supervisor restarts the feed.
Fairness ==
    /\ WF_vars(Poll) /\ WF_vars(Cycle) /\ WF_vars(Tick)
    /\ WF_vars(Beat) /\ WF_vars(FeedStarts) /\ WF_vars(OpenSession)

Spec == Init /\ [][Next]_vars /\ Fairness

-----------------------------------------------------------------------------
(* Properties.                                                             *)

Ages == Never..AgeCap

\* What the feed object and FeedState hold, the socket and what is on it.
LongestWait == Larger(BackoffMax, Larger(LimitBackoff, AuthBackoff))
FeedType ==
    [vendor : {"alpaca", "schwab"}, up : BOOLEAN, sock : BOOLEAN,
     wanted : SUBSET Symbols, symbols : SUBSET Symbols,
     backoff : 1..BackoffMax, retryIn : 0..LongestWait, frameAge : Ages, barAge : Ages]
SocketOK == feed \in FeedType /\ carry \subseteq Symbols
WireOK   == wire \in Seq(Frames) /\ Len(wire) <= MaxWire

\* The runner, the bars it announces and the tables.
PumpOK == pump \in {"poll", "announce", "publish"} /\ lost \in BOOLEAN
SpokenOK(es) ==
    \A e \in es : e.m \in Minutes /\ e.sym \in e.whole /\ e.whole \subseteq Symbols
TablesOK == tape \in [Symbols -> SUBSET Minutes] /\ bars \in [Symbols -> SUBSET Minutes]

\* The bus key, the worker's loop, the session and the bounds.
KeyOK ==
    key \in [ttl : 0..StateTtl,
             state : [connected : BOOLEAN, symbols : SUBSET Symbols,
                      frameAge : Ages, barAge : Ages]]
WorkerOK ==
    worker \in [silent : BOOLEAN, absent : BOOLEAN, absentFor : 0..AbsentGrace + 1,
                refreshedAgo : 0..RefreshEvery]
NowOK == now \in [open : BOOLEAN, age : 0..AgeCap, polled : BOOLEAN, cycled : BOOLEAN]
LeftOK ==
    left \in [prints : 0..MaxPrints, faults : 0..MaxFaults, changes : 0..MaxChanges]
CountsOK == deaf \in 0..LateCap /\ waited \in 0..BackoffMax /\ dry \in 0..3

\* One type invariant for the module: every variable has the shape the feed
\* object, FeedState, bar_days, the bus key and the worker loop give it.
TypeOK ==
    /\ SocketOK /\ WireOK /\ PumpOK /\ SpokenOK(toSay) /\ SpokenOK(events)
    /\ TablesOK /\ KeyOK /\ WorkerOK /\ NowOK /\ LeftOK /\ CountsOK

\* A reader woken by any announcement of a frame finds the frame's whole
\* minute in the store, whoever it is for (feed_runner.py's ordering).
WholeFrame ==
    \A e \in events : \A s \in e.whole : e.m \in bars[s]

\* A dead socket claims nothing.  Alpaca's state claims exactly what the venue
\* was left carrying, once no acknowledgement is in flight, through drops,
\* reconnections and changes of the set.  Schwab's does not: its answers carry
\* no key list, so the state claims what was last asked on the socket, and a
\* refused request leaves that claim standing (_note_subscribed,
\* _on_response).
StateIsCarried ==
    /\ ~feed.sock => feed.symbols = {}
    /\ feed.vendor = "alpaca" /\ (\A i \in 1..Len(wire) : wire[i].kind # "ack")
       => feed.symbols = carry
    /\ feed.vendor = "schwab" /\ feed.sock => feed.symbols = feed.wanted

\* What the feed tells its readers is so: an announced frame is stored; at
\* Alpaca a claimed symbol is carried, while at Schwab it was asked for and may
\* have been refused.
FeedIsHonest == WholeFrame /\ StateIsCarried

\* However the stream dies -- a socket that errors, one that goes quiet, a
\* process that stops publishing, any of them after another -- the worker
\* takes it for alive at most this long.
DeadIsSilent == deaf < LateCap

\* Reconnecting backs off: after n failures without a frame between them the
\* next attempt waits 2^(n-1), capped; a dead refresh token or a taken
\* stream slot never shortens it.
Attempt == Connect \/ ConnectRefused \/ ConnectFails
BacksOff ==
    [][Attempt /\ dry > 0 => waited >= Smaller(2 ^ (dry - 1), BackoffMax)]_vars

\* Unless the venue is gone for good, the feed ends up connected with the
\* wanted set subscribed, on the last socket as on the first.
Resubscribed ==
    <>[](\/ lost
         \/ /\ feed.sock /\ feed.symbols = feed.wanted
            /\ feed.vendor = "alpaca" => carry = feed.wanted)

\* Both: a venue that hangs up is neither hammered nor forgotten.
Reconnects == BacksOff /\ Resubscribed

\* When the stream never comes back, the bars its deployment needs still
\* reach the store, every one of them, over REST.
FallbackFeeds ==
    <>[]lost => <>[](\A s \in Needs : tape[s] \subseteq bars[s])

\* Both: a dead stream is noticed in bounded time (DeadIsSilent) and then made up
\* for.
SilenceIsServed == [](deaf < LateCap) /\ FallbackFeeds

\* loop.py:246 tells the operator "feed back ... bar notifications again"
\* when silence ends in a session: then a state heard from the feed says so.
BackMeansFrames ==
    [][worker.silent /\ ~worker'.silent /\ now.open => key.ttl > 0]_vars

\* health.py:115 calls a feed silent for "frames but no bars during the
\* regular session": then BarTimeout of this session went by without one.
OpenIsNotSilent ==
    [][(/\ Cycle /\ now.open /\ now.age <= BarTimeout
        /\ key.ttl > 0 /\ key.state.connected
        /\ Needs \subseteq key.state.symbols
        /\ key.state.frameAge \in 0..FrameTimeout)
         => ~worker'.silent]_vars

=============================================================================
