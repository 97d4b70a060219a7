------------------------- MODULE FeedSession_proofs -------------------------
(***************************************************************************)
(* Proofs about FeedSession, for any symbols, vendors, timeouts and bounds: *)
(* the types; what the feed tells its readers is so; reconnecting backs    *)
(* off; and a stream that died is noticed in bounded time.                 *)
(***************************************************************************)
EXTENDS FeedSession, SequenceTheorems, TLAPS

-----------------------------------------------------------------------------
(* Types.                                                                  *)

\* A frame's fields, by its kind.
LEMMA FrameFields ==
  ASSUME NEW f \in Frames
  PROVE  /\ f.kind = "ack" => f.syms \in SUBSET Symbols
         /\ f.kind = "bars" => f.m \in Minutes /\ f.syms \in SUBSET Symbols
  BY DEF Frames

LEMMA FramesMade ==
  /\ \A syms \in SUBSET Symbols : [kind |-> "ack", syms |-> syms] \in Frames
  /\ \A m \in Minutes, syms \in SUBSET Symbols :
       syms # {} => [kind |-> "bars", m |-> m, syms |-> syms] \in Frames
  /\ \A k \in {"beat", "limit", "error", "refused"} : [kind |-> k] \in Frames
  BY DEF Frames

\* Taking the first frame, and adding a last one.
LEMMA WireTaken ==
  ASSUME wire \in Seq(Frames), Len(wire) <= MaxWire, wire # <<>>
  PROVE  /\ Head(wire) \in Frames
         /\ Tail(wire) \in Seq(Frames) /\ Len(Tail(wire)) <= MaxWire
  BY HeadTailProperties, FeedAssumption

LEMMA WirePushed ==
  ASSUME wire \in Seq(Frames), NEW f \in Frames, Len(wire) < MaxWire
  PROVE  Append(wire, f) \in Seq(Frames) /\ Len(Append(wire, f)) <= MaxWire
  BY AppendProperties, FeedAssumption

LEMMA AgesMove ==
  /\ Never \in Ages /\ 0 \in Ages /\ AgeCap \in Ages
  /\ \A a \in Ages : Older(a, AgeCap) \in Ages /\ Overnight(a) \in Ages
  BY FeedAssumption DEF Ages, Never, AgeCap, Older, Overnight, Smaller

LEMMA Waits ==
  /\ LongestWait \in Nat /\ 1 \in 1..BackoffMax /\ BackoffMax \in Nat
  /\ \A b \in 1..BackoffMax, floor \in {0, LimitBackoff, AuthBackoff} :
       /\ Larger(b, floor) \in 0..LongestWait
       /\ Smaller(2 * Larger(b, floor), BackoffMax) \in 1..BackoffMax
  BY FeedAssumption DEF LongestWait, Larger, Smaller

LEMMA FeedFields ==
  ASSUME NEW f \in FeedType
  PROVE  /\ f.vendor \in {"alpaca", "schwab"} /\ f.up \in BOOLEAN /\ f.sock \in BOOLEAN
         /\ f.wanted \in SUBSET Symbols /\ f.symbols \in SUBSET Symbols
         /\ f.frameAge \in Ages /\ f.barAge \in Ages
  BY DEF FeedType

\* What the feed's helpers make of a feed is a feed.
LEMMA FeedMade ==
  ASSUME NEW f \in FeedType
  PROVE  /\ \A floor \in {0, LimitBackoff, AuthBackoff} : Failed(f, floor) \in FeedType
         /\ Noted(f) \in FeedType /\ Heard(f) \in FeedType
         /\ [f EXCEPT !.sock = TRUE] \in FeedType
         /\ [f EXCEPT !.barAge = 0] \in FeedType
         /\ [f EXCEPT !.barAge = Overnight(@)] \in FeedType
         /\ Fresh(f.vendor, f.wanted) \in FeedType
         /\ [Fresh(f.vendor, f.wanted) EXCEPT !.up = FALSE] \in FeedType
         /\ \A w \in SUBSET Symbols : [f EXCEPT !.wanted = w] \in FeedType
         /\ \A w \in SUBSET Symbols : [f EXCEPT !.symbols = w] \in FeedType
<1> DEFINE R == 0..LongestWait
<1> DEFINE B == 1..BackoffMax
<1>f. f \in [vendor : {"alpaca", "schwab"}, up : BOOLEAN, sock : BOOLEAN,
             wanted : SUBSET Symbols, symbols : SUBSET Symbols,
             backoff : B, retryIn : R, frameAge : Ages, barAge : Ages]
  BY DEF FeedType
<1>r. 0 \in R /\ 1 \in B
  BY Waits
<1>1. ASSUME NEW floor \in {0, LimitBackoff, AuthBackoff}
      PROVE  Failed(f, floor) \in FeedType
  <2> DEFINE w == Larger(f.backoff, floor)
  <2> DEFINE n == Smaller(2 * w, BackoffMax)
  <2>1. w \in R /\ n \in B
    BY Waits, <1>f
  <2>2. Failed(f, floor) = [f EXCEPT !.sock = FALSE, !.symbols = {}, !.retryIn = w,
                                     !.backoff = n]
    BY DEF Failed
  <2> HIDE DEF w, n, R, B
  <2> QED BY <2>1, <2>2, <1>f DEF FeedType, R, B
<1>2. FeedType = [vendor : {"alpaca", "schwab"}, up : BOOLEAN, sock : BOOLEAN,
                  wanted : SUBSET Symbols, symbols : SUBSET Symbols,
                  backoff : B, retryIn : R, frameAge : Ages, barAge : Ages]
  BY DEF FeedType
<1> HIDE DEF R, B
<1>3. Noted(f) \in FeedType /\ Heard(f) \in FeedType
  BY <1>f, <1>r, <1>2, AgesMove DEF Noted, Heard, Base
<1>4. Fresh(f.vendor, f.wanted) \in FeedType
  BY <1>f, <1>r, <1>2, AgesMove DEF Fresh, Base
<1>5. [Fresh(f.vendor, f.wanted) EXCEPT !.up = FALSE] \in FeedType
  BY <1>f, <1>r, <1>2, AgesMove DEF Fresh, Base
<1>6. [f EXCEPT !.sock = TRUE] \in FeedType /\ [f EXCEPT !.barAge = 0] \in FeedType
  BY <1>f, <1>2, AgesMove
<1>7. [f EXCEPT !.barAge = Overnight(@)] \in FeedType
  BY <1>f, <1>2, AgesMove
<1>8. \A w \in SUBSET Symbols :
        [f EXCEPT !.wanted = w] \in FeedType /\ [f EXCEPT !.symbols = w] \in FeedType
  BY <1>f, <1>2
<1> QED BY <1>1, <1>3, <1>4, <1>5, <1>6, <1>7, <1>8

\* What a fault, a failure and a dropped socket leave behind.
LEMMA FaultType == ASSUME LeftOK, Fault PROVE LeftOK'
  BY FeedAssumption DEF LeftOK, Fault

LEMMA CountsType ==
  /\ 0 \in 0..LateCap /\ 0 \in 0..BackoffMax /\ {0, 1} \subseteq 0..3
  /\ \A n \in 0..3 : Smaller(n + 1, 3) \in 0..3
  /\ \A n \in 0..BackoffMax : Smaller(n + 1, BackoffMax) \in 0..BackoffMax
  /\ \A n \in 0..LateCap : Smaller(n + 1, LateCap) \in 0..LateCap
  BY FeedAssumption DEF LateCap, Smaller

\* A counter stopped at its cap never leaves its range.
LEMMA CounterMoves ==
  ASSUME NEW cap \in Nat
  PROVE  0 \in 0..cap /\ \A n \in 0..cap : Smaller(n + 1, cap) \in 0..cap
  BY DEF Smaller

LEMMA DropType ==
  ASSUME CountsOK, deaf' \in 0..LateCap, NEW f \in FeedType,
         NEW floor \in {0, LimitBackoff, AuthBackoff}, DropWith(f, floor)
  PROVE  SocketOK' /\ WireOK' /\ CountsOK'
<1>1. SocketOK'
  BY FeedMade DEF DropWith, SocketOK
<1>2. WireOK'
  BY EmptySeq, FeedAssumption DEF DropWith, WireOK
<1>3. CountsOK'
  BY CountsType DEF DropWith, CountsOK
<1> QED BY <1>1, <1>2, <1>3

LEMMA InitType == ASSUME Init PROVE TypeOK
<1>1. SocketOK
  <2>1. PICK s \in Starts : feed = Fresh(s[1], s[2])
    BY DEF Init
  <2>2. s[1] \in {"alpaca", "schwab"} /\ s[2] \in SUBSET Symbols
    BY <2>1, FeedAssumption
  <2>3. feed \in FeedType
    <3> DEFINE R == 0..LongestWait
    <3> DEFINE B == 1..BackoffMax
    <3>1. 0 \in R /\ 1 \in B
      BY Waits
    <3>2. FeedType = [vendor : {"alpaca", "schwab"}, up : BOOLEAN, sock : BOOLEAN,
                      wanted : SUBSET Symbols, symbols : SUBSET Symbols,
                      backoff : B, retryIn : R, frameAge : Ages, barAge : Ages]
      BY DEF FeedType
    <3> HIDE DEF R, B
    <3> QED BY <2>1, <2>2, <3>1, <3>2, AgesMove DEF Fresh, Base
  <2> QED BY <2>3 DEF Init, SocketOK
<1>2. WireOK
  BY EmptySeq, FeedAssumption DEF Init, WireOK
<1>3. PumpOK /\ SpokenOK(toSay) /\ SpokenOK(events) /\ TablesOK
  BY DEF Init, PumpOK, SpokenOK, TablesOK
<1>4. KeyOK
  BY AgesMove, FeedAssumption DEF Init, KeyOK, NoState
<1>5. WorkerOK /\ NowOK /\ LeftOK
  BY FeedAssumption DEF Init, WorkerOK, NowOK, LeftOK, AgeCap
<1>6. CountsOK
  BY CountsType DEF Init, CountsOK
<1> QED BY <1>1, <1>2, <1>3, <1>4, <1>5, <1>6 DEF TypeOK

\* A socket that opens; the answer to what was asked on it.
LEMMA AnswerType ==
  ASSUME NEW w \in SUBSET Symbols
  PROVE  Answer(w) \in Seq(Frames) /\ Len(Answer(w)) <= 1
<1>1. CASE feed.vendor = "alpaca"
  <2> DEFINE f == [kind |-> "ack", syms |-> w]
  <2>1. f \in Frames
    BY FramesMade
  <2>2. Answer(w) = <<f>>
    BY <1>1 DEF Answer
  <2> HIDE DEF f
  <2> QED BY <2>1, <2>2
<1>2. CASE feed.vendor # "alpaca"
  BY <1>2, EmptySeq DEF Answer
<1> QED BY <1>1, <1>2

LEMMA OneFrame ==
  ASSUME NEW f \in Frames PROVE <<f>> \in Seq(Frames) /\ Len(<<f>>) <= MaxWire
  BY FeedAssumption

LEMMA ConnectType == ASSUME TypeOK, Connect PROVE TypeOK'
<1>1. SocketOK'
  BY FeedMade, FeedFields DEF TypeOK, Connect, SocketOK
<1>2. WireOK'
  BY FeedFields, AnswerType, EmptySeq, FeedAssumption DEF TypeOK, Connect, WireOK, SocketOK
<1>3. /\ PumpOK' /\ SpokenOK(toSay)' /\ SpokenOK(events)' /\ TablesOK'
      /\ KeyOK' /\ WorkerOK' /\ NowOK' /\ LeftOK' /\ CountsOK'
  BY DEF TypeOK, Connect, PumpOK, SpokenOK, TablesOK, KeyOK, WorkerOK, NowOK, LeftOK,
         CountsOK, storeVars, workerVars, feedVars
<1> QED BY <1>1, <1>2, <1>3 DEF TypeOK

LEMMA ConnectRefusedType == ASSUME TypeOK, ConnectRefused PROVE TypeOK'
<1>1. SocketOK'
  BY FeedMade, FeedFields DEF TypeOK, ConnectRefused, SocketOK
<1>2. WireOK'
  BY FramesMade, OneFrame DEF TypeOK, ConnectRefused, WireOK
<1>3. LeftOK'
  BY FaultType DEF TypeOK, ConnectRefused
<1>4. /\ PumpOK' /\ SpokenOK(toSay)' /\ SpokenOK(events)' /\ TablesOK'
      /\ KeyOK' /\ WorkerOK' /\ NowOK' /\ CountsOK'
  BY DEF TypeOK, ConnectRefused, PumpOK, SpokenOK, TablesOK, KeyOK, WorkerOK, NowOK,
         CountsOK, storeVars, workerVars, feedVars
<1> QED BY <1>1, <1>2, <1>3, <1>4 DEF TypeOK

LEMMA ConnectFailsType == ASSUME TypeOK, ConnectFails PROVE TypeOK'
<1>1. SocketOK' /\ WireOK' /\ CountsOK'
  BY DropType DEF TypeOK, ConnectFails, SocketOK, CountsOK
<1>2. LeftOK'
  BY FaultType DEF TypeOK, ConnectFails, LeftOK
<1>3. /\ PumpOK' /\ SpokenOK(toSay)' /\ SpokenOK(events)'
      /\ TablesOK' /\ KeyOK' /\ WorkerOK' /\ NowOK'
  BY DEF TypeOK, ConnectFails, PumpOK, SpokenOK, TablesOK, KeyOK, WorkerOK, NowOK,
         storeVars, workerVars, feedVars
<1> QED BY <1>1, <1>2, <1>3 DEF TypeOK

LEMMA WaitToRetryType == ASSUME TypeOK, WaitToRetry PROVE TypeOK'
<1>1. /\ SocketOK' /\ WireOK' /\ PumpOK' /\ SpokenOK(toSay)' /\ SpokenOK(events)'
      /\ TablesOK' /\ KeyOK' /\ WorkerOK' /\ NowOK' /\ LeftOK' /\ CountsOK'
  BY DEF TypeOK, WaitToRetry, SocketOK, WireOK, PumpOK, SpokenOK, TablesOK, KeyOK,
         WorkerOK, NowOK, LeftOK, CountsOK, storeVars, workerVars, feedVars
<1> QED BY <1>1 DEF TypeOK

LEMMA ReadAckType == ASSUME TypeOK, ReadAck PROVE TypeOK'
<1>1. SocketOK'
  BY WireTaken, FrameFields, FeedMade DEF TypeOK, ReadAck, Reading, SocketOK, WireOK
<1>2. WireOK'
  BY WireTaken DEF TypeOK, ReadAck, Reading, Take, WireOK
<1>3. CountsOK'
  BY CountsType DEF TypeOK, ReadAck, Take, CountsOK
<1>4. /\ PumpOK' /\ SpokenOK(toSay)' /\ SpokenOK(events)' /\ TablesOK'
      /\ KeyOK' /\ WorkerOK' /\ NowOK' /\ LeftOK'
  BY DEF TypeOK, ReadAck, PumpOK, SpokenOK, TablesOK, KeyOK, WorkerOK, NowOK, LeftOK,
         storeVars, workerVars, feedVars
<1> QED BY <1>1, <1>2, <1>3, <1>4 DEF TypeOK

LEMMA ReadOtherType == ASSUME TypeOK, ReadOther PROVE TypeOK'
<1>1. SocketOK'
  BY FeedMade DEF TypeOK, ReadOther, SocketOK
<1>2. WireOK'
  BY WireTaken DEF TypeOK, ReadOther, Reading, Take, WireOK
<1>3. CountsOK'
  BY CountsType DEF TypeOK, ReadOther, Take, CountsOK
<1>4. /\ PumpOK' /\ SpokenOK(toSay)' /\ SpokenOK(events)' /\ TablesOK'
      /\ KeyOK' /\ WorkerOK' /\ NowOK' /\ LeftOK'
  BY DEF TypeOK, ReadOther, PumpOK, SpokenOK, TablesOK, KeyOK, WorkerOK, NowOK, LeftOK,
         storeVars, workerVars, feedVars
<1> QED BY <1>1, <1>2, <1>3, <1>4 DEF TypeOK

\* One frame's bars, stored and put up for announcement.
LEMMA StoreFrameType == ASSUME TypeOK, StoreFrame PROVE TypeOK'
<1> DEFINE frame == Head(wire)
<1>0. /\ frame \in Frames /\ frame.m \in Minutes /\ frame.syms \in SUBSET Symbols
      /\ Tail(wire) \in Seq(Frames) /\ Len(Tail(wire)) <= MaxWire
  BY WireTaken, FrameFields DEF TypeOK, WireOK, StoreFrame, Reading
<1>1. SocketOK'
  <2>1. Heard(feed) \in FeedType /\ [Heard(feed) EXCEPT !.barAge = 0] \in FeedType
    BY FeedMade DEF TypeOK, SocketOK
  <2> QED BY <2>1 DEF TypeOK, StoreFrame, SocketOK
<1>2. WireOK' /\ CountsOK'
  BY <1>0, CountsType DEF TypeOK, StoreFrame, Take, WireOK, CountsOK
<1>3. TablesOK'
  BY <1>0 DEF TypeOK, StoreFrame, Stored, TablesOK
<1>4. SpokenOK(toSay)'
  BY <1>0 DEF StoreFrame, Changed, SpokenOK
<1>5. PumpOK' /\ SpokenOK(events)' /\ KeyOK' /\ WorkerOK' /\ NowOK' /\ LeftOK'
  BY DEF TypeOK, StoreFrame, PumpOK, SpokenOK, KeyOK, WorkerOK, NowOK, LeftOK, workerVars
<1> QED BY <1>1, <1>2, <1>3, <1>4, <1>5 DEF TypeOK

LEMMA StoreFailsType == ASSUME TypeOK, StoreFails PROVE TypeOK'
<1>1. SocketOK'
  BY FeedMade DEF TypeOK, StoreFails, SocketOK
<1>2. WireOK'
  BY WireTaken DEF TypeOK, StoreFails, Reading, Take, WireOK
<1>3. CountsOK'
  BY CountsType DEF TypeOK, StoreFails, Take, CountsOK
<1>4. LeftOK'
  BY FaultType DEF TypeOK, StoreFails
<1>5. /\ PumpOK' /\ SpokenOK(toSay)' /\ SpokenOK(events)' /\ TablesOK'
      /\ KeyOK' /\ WorkerOK' /\ NowOK'
  BY DEF TypeOK, StoreFails, PumpOK, SpokenOK, TablesOK, KeyOK, WorkerOK, NowOK,
         storeVars, workerVars
<1> QED BY <1>1, <1>2, <1>3, <1>4, <1>5 DEF TypeOK

LEMMA AnnounceType == ASSUME TypeOK, Announce PROVE TypeOK'
<1>1. SpokenOK(toSay)' /\ SpokenOK(events)'
  BY DEF TypeOK, Announce, SpokenOK
<1>2. /\ SocketOK' /\ WireOK' /\ PumpOK' /\ TablesOK'
      /\ KeyOK' /\ WorkerOK' /\ NowOK' /\ LeftOK' /\ CountsOK'
  BY DEF TypeOK, Announce, SocketOK, WireOK, PumpOK, TablesOK, KeyOK, WorkerOK, NowOK,
         LeftOK, CountsOK, storeVars, workerVars, feedVars
<1> QED BY <1>1, <1>2 DEF TypeOK

LEMMA ReadErrorType == ASSUME TypeOK, ReadError PROVE TypeOK'
<1>1. SocketOK'
  <2>1. Heard(feed) \in FeedType
    BY FeedMade DEF TypeOK, SocketOK
  <2>2. \A floor \in {0, LimitBackoff, AuthBackoff} : Failed(Heard(feed), floor) \in FeedType
    BY <2>1, FeedMade
  <2> QED BY <2>2 DEF ReadError, SocketOK
<1>2. WireOK' /\ CountsOK'
  BY EmptySeq, CountsType, FeedAssumption DEF TypeOK, ReadError, WireOK, CountsOK
<1>3. /\ PumpOK' /\ SpokenOK(toSay)' /\ SpokenOK(events)' /\ TablesOK'
      /\ KeyOK' /\ WorkerOK' /\ NowOK' /\ LeftOK'
  BY DEF TypeOK, ReadError, PumpOK, SpokenOK, TablesOK, KeyOK, WorkerOK, NowOK, LeftOK,
         storeVars, workerVars
<1> QED BY <1>1, <1>2, <1>3 DEF TypeOK

LEMMA ReadNothingType == ASSUME TypeOK, ReadNothing PROVE TypeOK'
<1>1. /\ SocketOK' /\ WireOK' /\ PumpOK' /\ SpokenOK(toSay)' /\ SpokenOK(events)'
      /\ TablesOK' /\ KeyOK' /\ WorkerOK' /\ NowOK' /\ LeftOK' /\ CountsOK'
  BY DEF TypeOK, ReadNothing, SocketOK, WireOK, PumpOK, SpokenOK, TablesOK, KeyOK,
         WorkerOK, NowOK, LeftOK, CountsOK, storeVars, workerVars, feedVars
<1> QED BY <1>1 DEF TypeOK

LEMMA ReadFailsType == ASSUME TypeOK, ReadFails PROVE TypeOK'
<1>1. SocketOK' /\ WireOK' /\ CountsOK'
  BY DropType DEF TypeOK, ReadFails, SocketOK, CountsOK
<1>2. LeftOK'
  BY FaultType DEF TypeOK, ReadFails, LeftOK
<1>3. /\ PumpOK' /\ SpokenOK(toSay)' /\ SpokenOK(events)'
      /\ TablesOK' /\ KeyOK' /\ WorkerOK' /\ NowOK'
  BY DEF TypeOK, ReadFails, PumpOK, SpokenOK, TablesOK, KeyOK, WorkerOK, NowOK, storeVars,
         workerVars, feedVars
<1> QED BY <1>1, <1>2, <1>3 DEF TypeOK

LEMMA PublishType == ASSUME TypeOK, Publish PROVE TypeOK'
<1>1. KeyOK'
  BY FeedFields, FeedAssumption DEF TypeOK, Publish, KeyOK, SocketOK
<1>2. NowOK'
  BY DEF TypeOK, Publish, NowOK
<1>3. /\ SocketOK' /\ WireOK' /\ PumpOK' /\ SpokenOK(toSay)'
      /\ SpokenOK(events)' /\ TablesOK' /\ WorkerOK' /\ LeftOK' /\ CountsOK'
  BY DEF TypeOK, Publish, SocketOK, WireOK, PumpOK, SpokenOK, TablesOK, WorkerOK, LeftOK,
         CountsOK, storeVars, workerVars, feedVars
<1> QED BY <1>1, <1>2, <1>3 DEF TypeOK

\* A change of the wanted set, sent or remembered.
LEMMA ChangeType ==
  ASSUME LeftOK, left.changes > 0,
         \/ left' = [left EXCEPT !.changes = @ - 1]
         \/ left.faults > 0 /\ left' = [left EXCEPT !.changes = @ - 1, !.faults = @ - 1]
  PROVE  LeftOK'
<1> DEFINE p == 0..MaxPrints
<1> DEFINE q == 0..MaxFaults
<1> DEFINE c == 0..MaxChanges
<1>1. left \in [prints : p, faults : q, changes : c] /\ left.changes - 1 \in c
  BY FeedAssumption DEF LeftOK
<1>2. left.faults > 0 => left.faults - 1 \in q
  BY FeedAssumption DEF LeftOK
<1>3. LeftOK' <=> left' \in [prints : p, faults : q, changes : c]
  BY DEF LeftOK
<1> HIDE DEF p, q, c
<1> QED BY <1>1, <1>2, <1>3

LEMMA SentType ==
  ASSUME TypeOK, NEW f \in FeedType, NEW new \in SUBSET Symbols, Sent(f, new),
         left.changes > 0, UNCHANGED deaf
  PROVE  SocketOK' /\ WireOK' /\ CountsOK' /\ LeftOK'
<1>1. CASE DropWith(f, 0)
  <2>1. SocketOK' /\ WireOK' /\ CountsOK'
    BY <1>1, DropType DEF TypeOK, CountsOK
  <2>2. LeftOK'
    BY <1>1, ChangeType DEF TypeOK, Sent
  <2> QED BY <2>1, <2>2
<1>2. CASE ~DropWith(f, 0)
  <2>1. SocketOK'
    BY <1>2, FeedMade DEF TypeOK, Sent, SocketOK
  <2>2. WireOK'
    <3>1. /\ wire \o Answer(new) \in Seq(Frames)
          /\ Len(wire \o Answer(new)) = Len(wire) + Len(Answer(new))
      BY AnswerType, ConcatProperties DEF TypeOK, WireOK
    <3>2. [kind |-> "refused"] \in Frames
      BY FramesMade
    <3>3. Len(wire) \in Nat /\ Len(Answer(new)) \in Nat /\ Len(Answer(new)) <= 1
      BY AnswerType, LenProperties DEF TypeOK, WireOK
    <3>4. CASE wire' = wire \o Answer(new) /\ Len(wire) < MaxWire
      BY <3>1, <3>3, <3>4, FeedAssumption DEF WireOK
    <3>5. CASE wire' = Append(wire, [kind |-> "refused"]) /\ Len(wire) < MaxWire
      BY <3>2, <3>5, WirePushed DEF TypeOK, WireOK
    <3> QED BY <1>2, <3>4, <3>5 DEF Sent
  <2>3. CountsOK' /\ LeftOK'
    BY <1>2, ChangeType DEF TypeOK, Sent, CountsOK
  <2> QED BY <2>1, <2>2, <2>3
<1> QED BY <1>1, <1>2

LEMMA AskedType ==
  ASSUME TypeOK, NEW f \in FeedType, NEW new \in SUBSET Symbols, Asked(f, new),
         left.changes > 0, UNCHANGED deaf
  PROVE  SocketOK' /\ WireOK' /\ CountsOK' /\ LeftOK'
<1>1. CASE feed.sock
  BY <1>1, SentType DEF Asked
<1>2. CASE ~feed.sock
  <2>1. SocketOK' /\ WireOK' /\ CountsOK'
    BY <1>2 DEF TypeOK, Asked, SocketOK, WireOK, CountsOK
  <2>2. LeftOK'
    BY <1>2, ChangeType DEF TypeOK, Asked
  <2> QED BY <2>1, <2>2
<1> QED BY <1>1, <1>2

LEMMA SubscribeType == ASSUME TypeOK, NEW fresh \in SUBSET Symbols, Subscribe(fresh) PROVE TypeOK'
<1> DEFINE f == [feed EXCEPT !.wanted = @ \cup fresh]
<1>1. f \in FeedType /\ carry \cup fresh \in SUBSET Symbols
  BY FeedMade, FeedFields DEF TypeOK, SocketOK
<1>2. SocketOK' /\ WireOK' /\ CountsOK' /\ LeftOK'
  BY <1>1, AskedType DEF Subscribe
<1>3. /\ PumpOK' /\ SpokenOK(toSay)' /\ SpokenOK(events)' /\ TablesOK'
      /\ KeyOK' /\ WorkerOK' /\ NowOK'
  BY DEF TypeOK, Subscribe, PumpOK, SpokenOK, TablesOK, KeyOK, WorkerOK, NowOK, storeVars, workerVars
<1> QED BY <1>2, <1>3 DEF TypeOK

LEMMA UnsubscribeType == ASSUME TypeOK, NEW gone \in SUBSET Symbols, Unsubscribe(gone) PROVE TypeOK'
<1> DEFINE f == [feed EXCEPT !.wanted = @ \ gone]
<1>1. f \in FeedType /\ carry \ gone \in SUBSET Symbols
  BY FeedMade, FeedFields DEF TypeOK, SocketOK
<1>2. SocketOK' /\ WireOK' /\ CountsOK' /\ LeftOK'
  BY <1>1, AskedType DEF Unsubscribe
<1>3. /\ PumpOK' /\ SpokenOK(toSay)' /\ SpokenOK(events)' /\ TablesOK'
      /\ KeyOK' /\ WorkerOK' /\ NowOK'
  BY DEF TypeOK, Unsubscribe, PumpOK, SpokenOK, TablesOK, KeyOK, WorkerOK, NowOK, storeVars, workerVars
<1> QED BY <1>2, <1>3 DEF TypeOK

LEMMA FeedDiesType == ASSUME TypeOK, FeedDies PROVE TypeOK'
<1>1. SocketOK'
  BY FeedMade DEF TypeOK, FeedDies, SocketOK
<1>2. WireOK' /\ CountsOK'
  BY EmptySeq, CountsType, FeedAssumption DEF TypeOK, FeedDies, WireOK, CountsOK
<1>3. LeftOK'
  BY FaultType DEF TypeOK, FeedDies
<1>4. /\ PumpOK' /\ SpokenOK(toSay)' /\ SpokenOK(events)'
      /\ TablesOK' /\ KeyOK' /\ WorkerOK' /\ NowOK'
  BY DEF TypeOK, FeedDies, PumpOK, SpokenOK, TablesOK, KeyOK, WorkerOK, NowOK, storeVars,
         workerVars, feedVars
<1> QED BY <1>1, <1>2, <1>3, <1>4 DEF TypeOK

LEMMA FeedStartsType == ASSUME TypeOK, FeedStarts PROVE TypeOK'
<1>1. SocketOK'
  BY FeedMade DEF TypeOK, FeedStarts, SocketOK
<1>2. /\ WireOK' /\ PumpOK' /\ SpokenOK(toSay)' /\ SpokenOK(events)' /\ TablesOK'
      /\ KeyOK' /\ WorkerOK' /\ NowOK' /\ LeftOK' /\ CountsOK'
  BY DEF TypeOK, FeedStarts, WireOK, PumpOK, SpokenOK, TablesOK, KeyOK, WorkerOK, NowOK,
         LeftOK, CountsOK, storeVars, workerVars, feedVars
<1> QED BY <1>1, <1>2 DEF TypeOK

\* A minute printed is one of the minutes, and what is sent of it was carried.
LEMMA MinutePrintsType ==
  ASSUME TypeOK, NEW some \in SUBSET Symbols, MinutePrints(some) PROVE TypeOK'
<1> DEFINE m == MaxPrints - left.prints + 1
<1>1. m \in Minutes
  BY FeedAssumption DEF TypeOK, MinutePrints, LeftOK, Minutes
<1>2. WireOK'
  <2>1. CASE UNCHANGED wire
    BY <2>1 DEF TypeOK, WireOK
  <2>2. CASE some \cap carry # {} /\ Push([kind |-> "bars", m |-> m, syms |-> some \cap carry])
    BY <1>1, <2>2, FramesMade, WirePushed DEF TypeOK, WireOK, Push
  <2> QED BY <2>1, <2>2 DEF MinutePrints
<1>3. TablesOK'
  BY <1>1 DEF TypeOK, MinutePrints, TablesOK
<1>4. LeftOK'
  BY FeedAssumption DEF TypeOK, MinutePrints, LeftOK
<1>5. /\ SocketOK' /\ PumpOK' /\ SpokenOK(toSay)' /\ SpokenOK(events)' /\ KeyOK'
      /\ WorkerOK' /\ NowOK' /\ CountsOK'
  BY DEF TypeOK, MinutePrints, SocketOK, PumpOK, SpokenOK, KeyOK, WorkerOK, NowOK, CountsOK,
         workerVars
<1> QED BY <1>2, <1>3, <1>4, <1>5 DEF TypeOK

LEMMA ResendType == ASSUME TypeOK, Resend PROVE TypeOK'
<1>1. WireOK'
  <2>1. PICK m \in Minutes :
          LET again == {s \in carry : m \in tape[s]} IN
          again # {} /\ Push([kind |-> "bars", m |-> m, syms |-> again])
    BY DEF Resend
  <2>2. {s \in carry : m \in tape[s]} \in SUBSET Symbols
    BY DEF TypeOK, SocketOK
  <2> QED BY <2>1, <2>2, FramesMade, WirePushed DEF TypeOK, WireOK, Push
<1>2. LeftOK'
  BY FaultType DEF TypeOK, Resend
<1>3. /\ SocketOK' /\ PumpOK' /\ SpokenOK(toSay)' /\ SpokenOK(events)' /\ TablesOK'
      /\ KeyOK' /\ WorkerOK' /\ NowOK' /\ CountsOK'
  BY DEF TypeOK, Resend, SocketOK, PumpOK, SpokenOK, TablesOK, KeyOK, WorkerOK, NowOK,
         CountsOK, storeVars, workerVars
<1> QED BY <1>1, <1>2, <1>3 DEF TypeOK

LEMMA BeatType == ASSUME TypeOK, Beat PROVE TypeOK'
<1>1. WireOK'
  BY FramesMade, WirePushed DEF TypeOK, Beat, Push, WireOK
<1>2. /\ SocketOK' /\ PumpOK' /\ SpokenOK(toSay)' /\ SpokenOK(events)' /\ TablesOK'
      /\ KeyOK' /\ WorkerOK' /\ NowOK' /\ LeftOK' /\ CountsOK'
  BY DEF TypeOK, Beat, SocketOK, PumpOK, SpokenOK, TablesOK, KeyOK, WorkerOK, NowOK,
         LeftOK, CountsOK, storeVars, workerVars, feedVars
<1> QED BY <1>1, <1>2 DEF TypeOK

LEMMA ComplainType == ASSUME TypeOK, Complain PROVE TypeOK'
<1>1. WireOK'
  BY FramesMade, WirePushed DEF TypeOK, Complain, Push, WireOK
<1>2. LeftOK'
  BY FaultType DEF TypeOK, Complain
<1>3. /\ SocketOK' /\ PumpOK' /\ SpokenOK(toSay)' /\ SpokenOK(events)'
      /\ TablesOK' /\ KeyOK' /\ WorkerOK' /\ NowOK' /\ CountsOK'
  BY DEF TypeOK, Complain, SocketOK, PumpOK, SpokenOK, TablesOK, KeyOK, WorkerOK, NowOK,
         CountsOK, storeVars, workerVars, feedVars
<1> QED BY <1>1, <1>2, <1>3 DEF TypeOK

LEMMA GoAwayType == ASSUME TypeOK, GoAway PROVE TypeOK'
<1>1. /\ SocketOK' /\ WireOK' /\ PumpOK' /\ SpokenOK(toSay)' /\ SpokenOK(events)'
      /\ TablesOK' /\ KeyOK' /\ WorkerOK' /\ NowOK' /\ LeftOK' /\ CountsOK'
  BY DEF TypeOK, GoAway, SocketOK, WireOK, PumpOK, SpokenOK, TablesOK, KeyOK, WorkerOK,
         NowOK, LeftOK, CountsOK, storeVars, workerVars, feedVars
<1> QED BY <1>1 DEF TypeOK

LEMMA CycleType == ASSUME TypeOK, Cycle PROVE TypeOK'
<1>1. WorkerOK'
  BY FeedAssumption DEF TypeOK, Cycle, WorkerOK, NowOK, KeyOK
<1>2. TablesOK'
  BY DEF TypeOK, Cycle, TablesOK
<1>3. LeftOK'
  BY FaultType DEF TypeOK, Cycle, LeftOK
<1>4. NowOK' /\ SpokenOK(events)'
  BY DEF TypeOK, Cycle, NowOK, SpokenOK
<1>5. SocketOK' /\ WireOK' /\ PumpOK' /\ SpokenOK(toSay)' /\ KeyOK' /\ CountsOK'
  BY DEF TypeOK, Cycle, SocketOK, WireOK, PumpOK, SpokenOK, KeyOK, CountsOK, feedVars
<1> QED BY <1>1, <1>2, <1>3, <1>4, <1>5 DEF TypeOK

LEMMA TickType == ASSUME TypeOK, Tick PROVE TypeOK'
<1>1. SocketOK'
  <2> DEFINE R == 0..LongestWait
  <2> DEFINE older(a) == Older(a, AgeCap)
  <2> DEFINE wait == Larger(feed.retryIn - 1, 0)
  <2>1. feed.retryIn \in R => wait \in R
    BY Waits DEF Larger
  <2>2. \A a \in Ages : older(a) \in Ages
    BY AgesMove
  <2>3. FeedType = [vendor : {"alpaca", "schwab"}, up : BOOLEAN, sock : BOOLEAN,
                    wanted : SUBSET Symbols, symbols : SUBSET Symbols,
                    backoff : 1..BackoffMax, retryIn : R, frameAge : Ages, barAge : Ages]
    BY DEF FeedType
  <2>4. feed' = [feed EXCEPT !.frameAge = older(@), !.barAge = older(@), !.retryIn = wait]
    BY DEF Tick
  <2> HIDE DEF R, older, wait
  <2>5. PICK f : f = feed /\ f \in FeedType
    BY DEF TypeOK, SocketOK
  <2>6. PICK a \in Ages, b \in Ages : a = older(f.frameAge) /\ b = older(f.barAge)
    BY <2>2, <2>3, <2>5
  <2>7. wait \in R
    BY <2>1, <2>3, <2>5
  <2>8. feed' = [f EXCEPT !.frameAge = a, !.barAge = b, !.retryIn = wait]
    BY <2>4, <2>5, <2>6
  <2>9. [f EXCEPT !.frameAge = a, !.barAge = b, !.retryIn = wait] \in FeedType
    BY <2>3, <2>5, <2>6, <2>7
  <2>10. carry' \subseteq Symbols
    BY DEF TypeOK, Tick, SocketOK
  <2> QED BY <2>8, <2>9, <2>10 DEF SocketOK
<1>2. KeyOK'
  <2> DEFINE T == 0..StateTtl
  <2> DEFINE older(a) == Older(a, AgeCap)
  <2> DEFINE ttl == Larger(key.ttl - 1, 0)
  <2> DEFINE S == [connected : BOOLEAN, symbols : SUBSET Symbols, frameAge : Ages, barAge : Ages]
  <2>1. key.ttl \in T => ttl \in T
    BY FeedAssumption DEF Larger
  <2>2. \A a \in Ages : older(a) \in Ages
    BY AgesMove
  <2>3. NoState \in S
    BY AgesMove DEF NoState
  <2>4. key \in [ttl : T, state : S] /\ (KeyOK' <=> key' \in [ttl : T, state : S])
    BY DEF TypeOK, KeyOK
  <2>5. key' = [ttl |-> ttl, state |-> IF key.ttl <= 1 THEN NoState
                  ELSE [key.state EXCEPT !.frameAge = older(@), !.barAge = older(@)]]
    BY DEF Tick
  <2> HIDE DEF T, older, ttl
  <2>6. [key.state EXCEPT !.frameAge = older(@), !.barAge = older(@)] \in S
    BY <2>2, <2>4
  <2> HIDE DEF S
  <2> QED BY <2>1, <2>3, <2>4, <2>5, <2>6
<1>3. WorkerOK'
  <2> DEFINE A == 0..AbsentGrace + 1
  <2> DEFINE R == 0..RefreshEvery
  <2> DEFINE absent(n) == Smaller(n + 1, AbsentGrace + 1)
  <2> DEFINE ago(n) == Smaller(n + 1, RefreshEvery)
  <2> DEFINE W == [silent : BOOLEAN, absent : BOOLEAN, absentFor : A, refreshedAgo : R]
  <2>1. /\ 0 \in A /\ (\A n \in A : absent(n) \in A)
        /\ \A n \in R : ago(n) \in R
    BY CounterMoves, FeedAssumption
  <2>2. worker \in W /\ (WorkerOK' <=> worker' \in W)
    BY DEF TypeOK, WorkerOK
  <2>3. worker' = [worker EXCEPT
                     !.absentFor = IF worker.absent THEN absent(@) ELSE 0,
                     !.refreshedAgo = ago(@)]
    BY DEF Tick
  <2> HIDE DEF A, R, absent, ago
  <2> QED BY <2>1, <2>2, <2>3
<1>4. NowOK'
  <2> DEFINE G == 0..AgeCap
  <2> DEFINE aged == Smaller(now.age + 1, AgeCap)
  <2>1. now.age \in G => aged \in G
    BY CounterMoves, FeedAssumption DEF AgeCap
  <2>2. /\ now \in [open : BOOLEAN, age : G, polled : BOOLEAN, cycled : BOOLEAN]
        /\ NowOK' <=> now' \in [open : BOOLEAN, age : G, polled : BOOLEAN, cycled : BOOLEAN]
    BY DEF TypeOK, NowOK
  <2>3. now' = [open |-> now.open, age |-> aged, polled |-> FALSE, cycled |-> FALSE]
    BY DEF Tick
  <2> HIDE DEF G, aged
  <2> QED BY <2>1, <2>2, <2>3
<1>5. CountsOK'
  BY CountsType DEF TypeOK, Tick, CountsOK
<1>6. WireOK' /\ PumpOK' /\ SpokenOK(toSay)' /\ SpokenOK(events)' /\ TablesOK' /\ LeftOK'
  BY DEF TypeOK, Tick, WireOK, PumpOK, SpokenOK, TablesOK, LeftOK, storeVars, workerVars,
         feedVars
<1> QED BY <1>1, <1>2, <1>3, <1>4, <1>5, <1>6 DEF TypeOK

LEMMA CloseSessionType == ASSUME TypeOK, CloseSession PROVE TypeOK'
<1>1. NowOK'
  BY DEF TypeOK, CloseSession, NowOK
<1>2. LeftOK'
  BY FeedAssumption DEF TypeOK, CloseSession, LeftOK
<1>3. /\ SocketOK' /\ WireOK' /\ PumpOK' /\ SpokenOK(toSay)'
      /\ SpokenOK(events)' /\ TablesOK' /\ KeyOK' /\ WorkerOK' /\ CountsOK'
  BY DEF TypeOK, CloseSession, SocketOK, WireOK, PumpOK, SpokenOK, TablesOK, KeyOK,
         WorkerOK, CountsOK, storeVars, workerVars, feedVars
<1> QED BY <1>1, <1>2, <1>3 DEF TypeOK

LEMMA OpenSessionType == ASSUME TypeOK, OpenSession PROVE TypeOK'
<1>1. SocketOK'
  BY FeedMade DEF TypeOK, OpenSession, SocketOK
<1>2. KeyOK'
  BY AgesMove DEF TypeOK, OpenSession, KeyOK
<1>3. NowOK'
  <2> DEFINE G == 0..AgeCap
  <2>1. 0 \in G
    BY FeedAssumption DEF AgeCap
  <2> HIDE DEF G
  <2>2. /\ now \in [open : BOOLEAN, age : G, polled : BOOLEAN, cycled : BOOLEAN]
        /\ NowOK' <=> now' \in [open : BOOLEAN, age : G, polled : BOOLEAN, cycled : BOOLEAN]
    BY DEF TypeOK, NowOK, G
  <2> QED BY <2>1, <2>2 DEF OpenSession
<1>4. CountsOK'
  BY CountsType DEF TypeOK, OpenSession, CountsOK
<1>5. /\ WireOK' /\ PumpOK' /\ SpokenOK(toSay)'
      /\ SpokenOK(events)' /\ TablesOK' /\ WorkerOK' /\ LeftOK'
  BY DEF TypeOK, OpenSession, WireOK, PumpOK, SpokenOK, TablesOK, WorkerOK, LeftOK,
         storeVars, workerVars, feedVars
<1> QED BY <1>1, <1>2, <1>3, <1>4, <1>5 DEF TypeOK

LEMMA TypeStep == TypeOK /\ [Next]_vars => TypeOK'
<1> SUFFICES ASSUME TypeOK, [Next]_vars PROVE TypeOK'
  OBVIOUS
<1>1. CASE Poll
  BY <1>1, ConnectType, ConnectRefusedType, ConnectFailsType, WaitToRetryType, ReadAckType,
     ReadOtherType, StoreFrameType, StoreFailsType, ReadErrorType, ReadNothingType, ReadFailsType,
     AnnounceType, PublishType DEF Poll
<1>2. CASE FeedStarts \/ FeedDies
  BY <1>2, FeedStartsType, FeedDiesType
<1>3. CASE \E S \in SUBSET Symbols : Subscribe(S) \/ Unsubscribe(S) \/ MinutePrints(S)
  BY <1>3, SubscribeType, UnsubscribeType, MinutePrintsType
<1>4. CASE Resend \/ Beat \/ Complain \/ GoAway
  BY <1>4, ResendType, BeatType, ComplainType, GoAwayType
<1>5. CASE Cycle \/ Tick \/ CloseSession \/ OpenSession
  BY <1>5, CycleType, TickType, CloseSessionType, OpenSessionType
<1>6. CASE UNCHANGED vars
  BY <1>6 DEF vars, TypeOK, SocketOK, WireOK, PumpOK, SpokenOK, TablesOK, KeyOK, WorkerOK,
              NowOK, LeftOK, CountsOK
<1> QED BY <1>1, <1>2, <1>3, <1>4, <1>5, <1>6 DEF Next

\* Every variable keeps the shape the feed object, FeedState, bar_days, the bus
\* key and the worker loop give it: in particular the backoff and the retry
\* never leave their bounds, and every age stops past the largest timeout.
THEOREM Types == Spec => []TypeOK
<1>1. Init => TypeOK
  BY InitType
<1> QED BY <1>1, TypeStep, PTL DEF Spec
-----------------------------------------------------------------------------
(* What the feed tells its readers is so.                                  *)

\* The bars of a frame are stored before any of them is spoken of.
SpokenIsStored(es) == \A e \in es : \A s \in e.whole : e.m \in bars[s]

\* A dead socket carries nothing, and a dead process has no socket.
DeadIsEmpty ==
    /\ ~feed.up => ~feed.sock
    /\ ~feed.sock => feed.symbols = {} /\ carry = {} /\ wire = <<>>

\* The last acknowledgement among the frames of w names what the venue carries;
\* where there is none, what the state claims is that already.
AcksEndAt(w, claimed, carried) ==
    /\ (\A i \in 1..Len(w) : w[i].kind # "ack") => claimed = carried
    /\ \A i \in 1..Len(w) :
          w[i].kind = "ack" /\ (\A j \in 1..Len(w) : j > i => w[j].kind # "ack")
          => w[i].syms = carried
LastAckIsCarried ==
    feed.vendor = "alpaca" => AcksEndAt(wire, feed.symbols, carry)

\* Schwab's claim is what was last asked on the socket.
AskedIsClaimed ==
    feed.vendor = "schwab" /\ feed.sock => feed.symbols = feed.wanted

HonestInv ==
    /\ SpokenIsStored(toSay) /\ SpokenIsStored(events)
    /\ DeadIsEmpty /\ LastAckIsCarried /\ AskedIsClaimed

\* Reading a frame, adding an acknowledgement or anything else.
LEMMA AckTaken ==
  ASSUME NEW w \in Seq(Frames), w # <<>>, NEW claimed, NEW carried,
         AcksEndAt(w, claimed, carried)
  PROVE  /\ Head(w).kind = "ack" => AcksEndAt(Tail(w), Head(w).syms, carried)
         /\ Head(w).kind # "ack" => AcksEndAt(Tail(w), claimed, carried)
<1> DEFINE t == Tail(w)
<1>1. /\ Len(w) \in Nat /\ Len(t) = Len(w) - 1 /\ Head(w) = w[1]
      /\ \A i \in 1..Len(t) : t[i] = w[i + 1]
  BY HeadTailProperties, LenProperties
<1>2. \A i \in 1..Len(w) : i = 1 \/ (i - 1 \in 1..Len(t) /\ w[i] = t[i - 1])
  BY <1>1
<1> HIDE DEF t
<1>3. (\A i \in 1..Len(t) : t[i].kind # "ack")
        => \A j \in 1..Len(w) : j > 1 => w[j].kind # "ack"
  BY <1>1, <1>2
<1>4. ASSUME NEW i \in 1..Len(t), t[i].kind = "ack",
             \A j \in 1..Len(t) : j > i => t[j].kind # "ack"
      PROVE  t[i].syms = carried
  <2>1. i + 1 \in 1..Len(w) /\ w[i + 1] = t[i]
    BY <1>1
  <2>2. ASSUME NEW j \in 1..Len(w), j > i + 1 PROVE w[j].kind # "ack"
    <3>1. j # 1 /\ j - 1 > i
      BY <2>2
    <3>2. j - 1 \in 1..Len(t) /\ w[j] = t[j - 1]
      BY <1>2, <3>1
    <3> QED BY <1>4, <3>1, <3>2
  <2> QED BY <2>1, <2>2, <1>4 DEF AcksEndAt
<1>5. 1 \in 1..Len(w)
  BY <1>1, EmptySeq
<1>6. ASSUME \A i \in 1..Len(t) : t[i].kind # "ack"
      PROVE  IF w[1].kind = "ack" THEN w[1].syms = carried ELSE claimed = carried
  BY <1>3, <1>5, <1>6, <1>1 DEF AcksEndAt
<1> QED BY <1>1, <1>4, <1>6 DEF AcksEndAt, t

LEMMA AckPushed ==
  ASSUME NEW w \in Seq(Frames), NEW f \in Frames, NEW claimed, NEW carried
  PROVE  /\ f.kind = "ack" /\ f.syms = carried
              => AcksEndAt(Append(w, f), claimed, carried)
         /\ f.kind # "ack" /\ AcksEndAt(w, claimed, carried)
              => AcksEndAt(Append(w, f), claimed, carried)
<1> DEFINE v == Append(w, f)
<1>1. /\ Len(w) \in Nat /\ Len(v) = Len(w) + 1 /\ v[Len(w) + 1] = f
      /\ \A i \in 1..Len(w) : v[i] = w[i]
  BY AppendProperties, LenProperties
<1> HIDE DEF v
<1>2. ASSUME f.kind = "ack", f.syms = carried PROVE AcksEndAt(v, claimed, carried)
  <2>1. Len(v) \in 1..Len(v) /\ v[Len(v)] = f
    BY <1>1
  <2>2. \A i \in 1..Len(v) : i = Len(v) \/ Len(v) > i
    BY <1>1
  <2> QED BY <1>2, <2>1, <2>2 DEF AcksEndAt
<1>3. ASSUME f.kind # "ack", AcksEndAt(w, claimed, carried)
      PROVE  AcksEndAt(v, claimed, carried)
  <2>1. \A i \in 1..Len(v) : i = Len(w) + 1 \/ (i \in 1..Len(w) /\ v[i] = w[i])
    BY <1>1
  <2>2. 1..Len(w) \subseteq 1..Len(v)
    BY <1>1
  <2> QED BY <1>1, <1>3, <2>1, <2>2 DEF AcksEndAt
<1> QED BY <1>2, <1>3 DEF v

\* With an empty wire there is nothing to wait for.
LEMMA NoAck == ASSUME NEW c PROVE AcksEndAt(<<>>, c, c)
  BY EmptySeq DEF AcksEndAt

LEMMA HonestInit == ASSUME Init PROVE HonestInv
<1>1. SpokenIsStored(toSay) /\ SpokenIsStored(events) /\ DeadIsEmpty
  BY DEF Init, SpokenIsStored, DeadIsEmpty, Fresh
<1>2. LastAckIsCarried
  BY NoAck DEF Init, LastAckIsCarried, Fresh
<1>3. AskedIsClaimed
  BY DEF Init, AskedIsClaimed, Fresh
<1> QED BY <1>1, <1>2, <1>3 DEF HonestInv

\* Bars are never taken back, and those of a frame are in before it is spoken of.
LEMMA StoredStep ==
  ASSUME TypeOK, SpokenIsStored(toSay), SpokenIsStored(events), Next
  PROVE  SpokenIsStored(toSay)' /\ SpokenIsStored(events)'
<1>1. CASE StoreFrame
  <2> DEFINE frame == Head(wire)
  <2>1. frame.syms \subseteq Symbols
    BY <1>1, WireTaken, FrameFields DEF TypeOK, WireOK, StoreFrame, Reading
  <2>2. /\ \A s \in frame.syms : frame.m \in bars'[s]
        /\ \A s \in Symbols : bars[s] \subseteq bars'[s]
    BY <1>1, <2>1 DEF StoreFrame, Stored
  <2>3. SpokenIsStored(toSay)'
    BY <1>1, <2>2 DEF StoreFrame, SpokenIsStored
  <2>4. SpokenIsStored(events)'
    BY <1>1, <2>2 DEF TypeOK, SpokenOK, StoreFrame, SpokenIsStored
  <2> QED BY <2>3, <2>4
<1>2. CASE Announce
  BY <1>2 DEF Announce, SpokenIsStored, storeVars
<1>3. CASE Cycle
  <2>1. \A s \in Symbols : bars[s] \subseteq bars'[s]
    BY <1>3 DEF TypeOK, TablesOK, Cycle
  <2> QED BY <1>3, <2>1 DEF TypeOK, SpokenOK, Cycle, SpokenIsStored
<1>4. CASE FeedDies
  BY <1>4 DEF FeedDies, SpokenIsStored, storeVars
<1>5. CASE UNCHANGED <<toSay, events, bars>>
  BY <1>5 DEF SpokenIsStored
<1>6. ASSUME NEW S \in SUBSET Symbols, Subscribe(S) \/ Unsubscribe(S) \/ MinutePrints(S)
      PROVE  UNCHANGED <<toSay, events, bars>>
  BY <1>6 DEF Subscribe, Unsubscribe, MinutePrints, storeVars
<1>7. ASSUME Poll, ~StoreFrame, ~Announce PROVE UNCHANGED <<toSay, events, bars>>
  BY <1>7 DEF Poll, Connect, ConnectRefused, ConnectFails, WaitToRetry, ReadAck, ReadOther,
              StoreFails, ReadError, ReadNothing, ReadFails, Publish, storeVars
<1>8. ASSUME FeedStarts \/ Resend \/ Beat \/ Complain \/ GoAway \/ Tick \/ CloseSession
             \/ OpenSession
      PROVE  UNCHANGED <<toSay, events, bars>>
  BY <1>8 DEF FeedStarts, Resend, Beat, Complain, GoAway, Tick, CloseSession, OpenSession,
              storeVars
<1> QED BY <1>1, <1>2, <1>3, <1>4, <1>5, <1>6, <1>7, <1>8 DEF Next

\* A dead socket is left empty, and only a live one is ever given anything.
LEMMA DroppedIsEmpty ==
  ASSUME NEW f \in FeedType, NEW floor, DropWith(f, floor), DeadIsEmpty, f.up = feed.up
  PROVE  DeadIsEmpty'
  BY DEF DropWith, Failed, DeadIsEmpty, FeedType

LEMMA AskedEmpty ==
  ASSUME NEW f \in FeedType, NEW new \in SUBSET Symbols, Asked(f, new), DeadIsEmpty,
         f.up, f.sock = feed.sock, f.symbols = feed.symbols
  PROVE  DeadIsEmpty'
<1>1. CASE DropWith(f, 0)
  BY <1>1 DEF DropWith, Failed, DeadIsEmpty, FeedType
<1>2. CASE ~feed.sock
  BY <1>2 DEF Asked, DeadIsEmpty, FeedType
<1>3. CASE feed.sock /\ ~DropWith(f, 0)
  <2>1. feed' = Noted(f)
    BY <1>3 DEF Asked, Sent
  <2> QED BY <1>3, <2>1 DEF Noted, DeadIsEmpty, FeedType
<1> QED BY <1>1, <1>2, <1>3

LEMMA EmptyStep ==
  ASSUME TypeOK, DeadIsEmpty, Next PROVE DeadIsEmpty'
<1>0. feed \in FeedType /\ carry \in SUBSET Symbols
  BY DEF TypeOK, SocketOK
<1>1. CASE Connect \/ ConnectRefused
  BY <1>0, <1>1 DEF Connect, ConnectRefused, Noted, DeadIsEmpty, FeedType
<1>2. CASE ConnectFails \/ ReadFails
  BY <1>0, <1>2, DroppedIsEmpty DEF ConnectFails, ReadFails
<1>3. CASE ReadAck \/ ReadOther \/ StoreFrame \/ StoreFails
  BY <1>0, <1>3 DEF ReadAck, ReadOther, StoreFrame, StoreFails, Reading, Heard, DeadIsEmpty, FeedType
<1>4. CASE ReadError
  BY <1>0, <1>4 DEF ReadError, Reading, Heard, Failed, DeadIsEmpty, FeedType
<1>5. CASE FeedStarts \/ FeedDies
  BY <1>0, <1>5 DEF FeedStarts, FeedDies, Fresh, DeadIsEmpty, FeedType
<1>6. ASSUME NEW S \in SUBSET Symbols, Subscribe(S) PROVE DeadIsEmpty'
  <2> DEFINE f == [feed EXCEPT !.wanted = @ \cup S]
  <2>1. f \in FeedType /\ f.up /\ f.sock = feed.sock /\ f.symbols = feed.symbols
    BY <1>0, <1>6, FeedMade DEF Subscribe, FeedType
  <2> HIDE DEF f
  <2>2. Asked(f, carry \cup S) /\ carry \cup S \in SUBSET Symbols
    BY <1>0, <1>6 DEF Subscribe, f
  <2> QED BY <2>1, <2>2, AskedEmpty
<1>7. ASSUME NEW S \in SUBSET Symbols, Unsubscribe(S) PROVE DeadIsEmpty'
  <2> DEFINE f == [feed EXCEPT !.wanted = @ \ S]
  <2>1. f \in FeedType /\ f.up /\ f.sock = feed.sock /\ f.symbols = feed.symbols
    BY <1>0, <1>7, FeedMade DEF Unsubscribe, FeedType
  <2> HIDE DEF f
  <2>2. Asked(f, carry \ S) /\ carry \ S \in SUBSET Symbols
    BY <1>0, <1>7 DEF Unsubscribe, f
  <2> QED BY <2>1, <2>2, AskedEmpty
<1>8. ASSUME NEW S \in SUBSET Symbols, MinutePrints(S) PROVE DeadIsEmpty'
  BY <1>8 DEF MinutePrints, DeadIsEmpty
<1>9. CASE Resend \/ Beat \/ Complain
  BY <1>9 DEF Resend, Beat, Complain, DeadIsEmpty, feedVars
<1>10. CASE Tick \/ OpenSession
  BY <1>0, <1>10 DEF Tick, OpenSession, DeadIsEmpty, FeedType
<1>11. CASE WaitToRetry \/ ReadNothing \/ Announce \/ Publish \/ GoAway \/ Cycle \/ CloseSession
  BY <1>11 DEF WaitToRetry, ReadNothing, Announce, Publish, GoAway, Cycle, CloseSession,
               DeadIsEmpty, feedVars
<1> QED BY <1>1, <1>2, <1>3, <1>4, <1>5, <1>6, <1>7, <1>8, <1>9, <1>10, <1>11 DEF Next, Poll

\* The last acknowledgement, through a dropped socket, a changed set and the rest.
LEMMA DroppedAck ==
  ASSUME NEW f \in FeedType, NEW floor, DropWith(f, floor)
  PROVE  LastAckIsCarried'
<1>1. feed'.symbols = {} /\ carry' = {} /\ wire' = <<>>
  BY DEF DropWith, Failed, FeedType
<1> QED BY <1>1, NoAck DEF LastAckIsCarried

LEMMA AnswerAck ==
  ASSUME NEW w \in Seq(Frames), NEW new \in SUBSET Symbols, NEW claimed,
         feed.vendor = "alpaca"
  PROVE  AcksEndAt(w \o Answer(new), claimed, new)
<1> DEFINE f == [kind |-> "ack", syms |-> new]
<1>1. f \in Frames /\ f.kind = "ack" /\ f.syms = new
  BY FramesMade
<1>2. w \o Answer(new) = Append(w, f)
  BY <1>1 DEF Answer
<1> HIDE DEF f
<1> QED BY <1>1, <1>2, AckPushed

LEMMA AskedAck ==
  ASSUME TypeOK, NEW f \in FeedType, NEW new \in SUBSET Symbols, Asked(f, new),
         LastAckIsCarried, DeadIsEmpty, f.vendor = feed.vendor, f.symbols = feed.symbols
  PROVE  LastAckIsCarried'
<1>1. CASE DropWith(f, 0)
  BY <1>1, DroppedAck
<1>2. CASE ~feed.sock
  BY <1>2 DEF Asked, LastAckIsCarried
<1>3. CASE feed.sock /\ ~DropWith(f, 0)
  <2> SUFFICES ASSUME feed'.vendor = "alpaca" PROVE AcksEndAt(wire', feed'.symbols, carry')
    BY DEF LastAckIsCarried
  <2>1. feed' = Noted(f)
    BY <1>3 DEF Asked, Sent
  <2>2. f.vendor = "alpaca" /\ feed' = f
    BY <2>1 DEF Noted, FeedType
  <2>3. wire' = wire \o Answer(new) /\ carry' = new
    BY <1>3, <2>2 DEF Asked, Sent
  <2> QED BY <2>2, <2>3, AnswerAck DEF TypeOK, WireOK
<1> QED BY <1>1, <1>2, <1>3

LEMMA AckStep ==
  ASSUME TypeOK, DeadIsEmpty, LastAckIsCarried, Next PROVE LastAckIsCarried'
<1>0. feed \in FeedType /\ carry \in SUBSET Symbols /\ wire \in Seq(Frames)
  BY DEF TypeOK, SocketOK, WireOK
<1>1. CASE Connect
  <2> SUFFICES ASSUME feed'.vendor = "alpaca" PROVE AcksEndAt(wire', feed'.symbols, carry')
    BY DEF LastAckIsCarried
  <2>1. feed.vendor = "alpaca" /\ feed'.symbols = {} /\ carry' = feed.wanted
    BY <1>0, <1>1 DEF Connect, Noted, DeadIsEmpty, FeedType
  <2>2. CASE feed.wanted = {}
    BY <1>1, <2>1, <2>2, NoAck DEF Connect
  <2>3. CASE feed.wanted # {}
    <3>1. <<>> \o Answer(feed.wanted) = Answer(feed.wanted)
      BY <1>0, FeedFields, AnswerType, ConcatEmptySeq
    <3>2. AcksEndAt(<<>> \o Answer(feed.wanted), {}, feed.wanted)
      BY <1>0, <2>1, FeedFields, AnswerAck, EmptySeq
    <3> QED BY <1>1, <2>1, <2>3, <3>1, <3>2 DEF Connect
  <2> QED BY <2>2, <2>3
<1>2. CASE ConnectRefused
  BY <1>0, <1>2 DEF ConnectRefused, Noted, LastAckIsCarried, FeedType
<1>3. CASE ConnectFails \/ ReadFails
  BY <1>0, <1>3, DroppedAck DEF ConnectFails, ReadFails
<1>4. CASE ReadAck
  BY <1>0, <1>4, AckTaken DEF ReadAck, Reading, Take, Heard, LastAckIsCarried, FeedType
<1>5. CASE ReadOther \/ StoreFrame \/ StoreFails
  <2>1. /\ wire # <<>> /\ Head(wire).kind # "ack" /\ wire' = Tail(wire)
        /\ feed'.vendor = feed.vendor /\ feed'.symbols = feed.symbols /\ carry' = carry
    BY <1>0, <1>5 DEF ReadOther, StoreFrame, StoreFails, Reading, Take, Heard, FeedType
  <2> QED BY <1>0, <2>1, AckTaken DEF LastAckIsCarried
<1>6. CASE ReadError
  <2>1. feed'.symbols = {} /\ carry' = {} /\ wire' = <<>>
    BY <1>0, <1>6 DEF ReadError, Heard, Failed, FeedType
  <2> QED BY <2>1, NoAck DEF LastAckIsCarried
<1>7. CASE FeedDies
  <2>1. feed'.symbols = {} /\ carry' = {} /\ wire' = <<>>
    BY <1>0, <1>7 DEF FeedDies, Fresh, FeedType
  <2> QED BY <2>1, NoAck DEF LastAckIsCarried
<1>8. CASE FeedStarts
  <2>1. feed'.symbols = {} /\ carry' = {} /\ wire' = <<>>
    BY <1>0, <1>8 DEF FeedStarts, Fresh, FeedType, DeadIsEmpty
  <2> QED BY <2>1, NoAck DEF LastAckIsCarried
<1>9. ASSUME NEW S \in SUBSET Symbols, Subscribe(S) PROVE LastAckIsCarried'
  <2> DEFINE f == [feed EXCEPT !.wanted = @ \cup S]
  <2>1. f \in FeedType /\ f.vendor = feed.vendor /\ f.symbols = feed.symbols
    BY <1>0, FeedMade DEF FeedType
  <2> HIDE DEF f
  <2>2. Asked(f, carry \cup S) /\ carry \cup S \in SUBSET Symbols
    BY <1>0, <1>9 DEF Subscribe, f
  <2> QED BY <2>1, <2>2, AskedAck
<1>10. ASSUME NEW S \in SUBSET Symbols, Unsubscribe(S) PROVE LastAckIsCarried'
  <2> DEFINE f == [feed EXCEPT !.wanted = @ \ S]
  <2>1. f \in FeedType /\ f.vendor = feed.vendor /\ f.symbols = feed.symbols
    BY <1>0, FeedMade DEF FeedType
  <2> HIDE DEF f
  <2>2. Asked(f, carry \ S) /\ carry \ S \in SUBSET Symbols
    BY <1>0, <1>10 DEF Unsubscribe, f
  <2> QED BY <2>1, <2>2, AskedAck
<1>11. ASSUME NEW f \in Frames, f.kind # "ack", Push(f), UNCHANGED <<feed, carry>>
       PROVE  LastAckIsCarried'
  BY <1>0, <1>11, AckPushed DEF Push, LastAckIsCarried
<1>12. ASSUME NEW S \in SUBSET Symbols, MinutePrints(S) PROVE LastAckIsCarried'
  <2>1. CASE UNCHANGED wire
    BY <1>12, <2>1 DEF MinutePrints, LastAckIsCarried
  <2>2. CASE ~UNCHANGED wire
    <3> DEFINE f == [kind |-> "bars", m |-> MaxPrints - left.prints + 1, syms |-> S \cap carry]
    <3>1. f \in Frames /\ f.kind # "ack"
      <4>1. MaxPrints - left.prints + 1 \in Minutes
        BY <1>12, FeedAssumption DEF TypeOK, MinutePrints, LeftOK, Minutes
      <4> QED BY <1>12, <2>2, <4>1, FramesMade DEF MinutePrints
    <3>2. Push(f) /\ UNCHANGED <<feed, carry>>
      BY <1>12, <2>2 DEF MinutePrints
    <3> HIDE DEF f
    <3> QED BY <3>1, <3>2, <1>11
  <2> QED BY <2>1, <2>2
<1>13. CASE Resend
  <2>1. PICK m \in Minutes :
          LET again == {s \in carry : m \in tape[s]} IN
          again # {} /\ Push([kind |-> "bars", m |-> m, syms |-> again])
    BY <1>13 DEF Resend
  <2> DEFINE f == [kind |-> "bars", m |-> m, syms |-> {s \in carry : m \in tape[s]}]
  <2>2. f \in Frames /\ f.kind # "ack" /\ Push(f)
    BY <1>0, <2>1, FramesMade
  <2> HIDE DEF f
  <2> QED BY <1>11, <1>13, <2>2 DEF Resend
<1>14. CASE Beat \/ Complain
  BY <1>11, <1>14, FramesMade DEF Beat, Complain
<1>15. CASE Tick \/ OpenSession
  BY <1>0, <1>15 DEF Tick, OpenSession, LastAckIsCarried, FeedType
<1>16. CASE WaitToRetry \/ ReadNothing \/ Announce \/ Publish \/ GoAway \/ Cycle \/ CloseSession
  BY <1>16 DEF WaitToRetry, ReadNothing, Announce, Publish, GoAway, Cycle, CloseSession,
               LastAckIsCarried, feedVars
<1> QED BY <1>1, <1>2, <1>3, <1>4, <1>5, <1>6, <1>7, <1>8, <1>9, <1>10, <1>12, <1>13,
           <1>14, <1>15, <1>16 DEF Next, Poll

\* Every change of the wanted set and every connection notes it; only a dead
\* socket is asked nothing.
LEMMA AskedClaims ==
  ASSUME NEW f \in FeedType, NEW new \in SUBSET Symbols, Asked(f, new), f.sock = feed.sock
  PROVE  AskedIsClaimed'
<1>1. CASE DropWith(f, 0)
  BY <1>1 DEF DropWith, Failed, AskedIsClaimed, FeedType
<1>2. CASE ~feed.sock
  BY <1>2 DEF Asked, AskedIsClaimed
<1>3. CASE feed.sock /\ ~DropWith(f, 0)
  <2>1. feed' = Noted(f)
    BY <1>3 DEF Asked, Sent
  <2> QED BY <2>1 DEF Noted, AskedIsClaimed, FeedType
<1> QED BY <1>1, <1>2, <1>3

LEMMA ClaimStep ==
  ASSUME TypeOK, AskedIsClaimed, Next PROVE AskedIsClaimed'
<1>0. feed \in FeedType /\ carry \in SUBSET Symbols
  BY DEF TypeOK, SocketOK
<1>1. CASE Connect \/ ConnectRefused
  BY <1>0, <1>1 DEF Connect, ConnectRefused, Noted, AskedIsClaimed, FeedType
<1>2. CASE ConnectFails \/ ReadFails
  BY <1>0, <1>2 DEF ConnectFails, ReadFails, DropWith, Failed, AskedIsClaimed, FeedType
<1>3. CASE ReadAck \/ ReadOther \/ StoreFrame \/ StoreFails
  BY <1>0, <1>3 DEF ReadAck, ReadOther, StoreFrame, StoreFails, Heard, AskedIsClaimed, FeedType
<1>4. CASE ReadError
  BY <1>0, <1>4 DEF ReadError, Heard, Failed, AskedIsClaimed, FeedType
<1>5. CASE FeedStarts \/ FeedDies
  BY <1>0, <1>5 DEF FeedStarts, FeedDies, Fresh, AskedIsClaimed, FeedType
<1>6. ASSUME NEW S \in SUBSET Symbols, Subscribe(S) PROVE AskedIsClaimed'
  <2> DEFINE f == [feed EXCEPT !.wanted = @ \cup S]
  <2>1. f \in FeedType /\ f.sock = feed.sock
    BY <1>0, FeedMade DEF FeedType
  <2> HIDE DEF f
  <2>2. Asked(f, carry \cup S) /\ carry \cup S \in SUBSET Symbols
    BY <1>0, <1>6 DEF Subscribe, f
  <2> QED BY <2>1, <2>2, AskedClaims
<1>7. ASSUME NEW S \in SUBSET Symbols, Unsubscribe(S) PROVE AskedIsClaimed'
  <2> DEFINE f == [feed EXCEPT !.wanted = @ \ S]
  <2>1. f \in FeedType /\ f.sock = feed.sock
    BY <1>0, FeedMade DEF FeedType
  <2> HIDE DEF f
  <2>2. Asked(f, carry \ S) /\ carry \ S \in SUBSET Symbols
    BY <1>0, <1>7 DEF Unsubscribe, f
  <2> QED BY <2>1, <2>2, AskedClaims
<1>8. ASSUME NEW S \in SUBSET Symbols, MinutePrints(S) PROVE AskedIsClaimed'
  BY <1>8 DEF MinutePrints, AskedIsClaimed
<1>9. CASE Resend \/ Beat \/ Complain
  BY <1>9 DEF Resend, Beat, Complain, AskedIsClaimed
<1>10. CASE Tick \/ OpenSession
  BY <1>0, <1>10 DEF Tick, OpenSession, AskedIsClaimed, FeedType
<1>11. CASE WaitToRetry \/ ReadNothing \/ Announce \/ Publish \/ GoAway \/ Cycle \/ CloseSession
  BY <1>11 DEF WaitToRetry, ReadNothing, Announce, Publish, GoAway, Cycle, CloseSession,
               AskedIsClaimed, feedVars
<1> QED BY <1>1, <1>2, <1>3, <1>4, <1>5, <1>6, <1>7, <1>8, <1>9, <1>10, <1>11 DEF Next, Poll

LEMMA HonestStep == TypeOK /\ HonestInv /\ [Next]_vars => HonestInv'
<1> SUFFICES ASSUME TypeOK, HonestInv, [Next]_vars PROVE HonestInv'
  OBVIOUS
<1>1. CASE Next
  BY <1>1, StoredStep, EmptyStep, AckStep, ClaimStep DEF HonestInv
<1>2. CASE UNCHANGED vars
  BY <1>2 DEF vars, HonestInv, SpokenIsStored, DeadIsEmpty, LastAckIsCarried, AskedIsClaimed
<1> QED BY <1>1, <1>2

\* What the feed tells its readers is so: whoever an announcement wakes finds
\* the whole frame's minute in the store (feed_runner.py's order); a dead
\* socket claims nothing; Alpaca's state claims exactly what the venue was left
\* carrying once no acknowledgement is in flight, and Schwab's what was last
\* asked on the socket, refused or not -- for any sets, wire depth, faults,
\* timeouts.
THEOREM Honest == Spec => []FeedIsHonest
<1>1. Init => HonestInv
  BY HonestInit
<1>2. TypeOK /\ HonestInv => FeedIsHonest
  BY DEF HonestInv, SpokenIsStored, DeadIsEmpty, LastAckIsCarried, AcksEndAt, FeedIsHonest,
         WholeFrame, StateIsCarried, AskedIsClaimed
<1> QED BY <1>1, <1>2, HonestStep, Types, PTL DEF Spec

-----------------------------------------------------------------------------
(* Reconnecting backs off.                                                 *)

\* What the n-th doubling of the backoff is worth.
Doubled(n) == Smaller(2 ^ n, BackoffMax)

\* After n failures the backoff has been doubled n times, and what is left of
\* the wait makes up with what has been waited for the one before that.
BackoffInv ==
    /\ ~feed.up => dry = 0
    /\ feed.backoff >= Doubled(dry)
    /\ dry > 0 => feed.retryIn + waited >= Doubled(dry - 1)

LEMMA Doubling ==
  /\ \A n \in 0..3 : Doubled(n) \in 1..BackoffMax
  /\ Doubled(0) = 1
  /\ \A n \in 0..3, w \in Nat : w >= Doubled(n) =>
       /\ w >= Doubled(Smaller(n + 1, 3) - 1)
       /\ Smaller(2 * w, BackoffMax) >= Doubled(Smaller(n + 1, 3))
<1>1. 2 ^ 0 = 1 /\ 2 ^ 1 = 2 /\ 2 ^ 2 = 4 /\ 2 ^ 3 = 8
  OBVIOUS
<1>2. BackoffMax \in Nat \ {0}
  BY FeedAssumption
<1>3. /\ Doubled(0) = Smaller(1, BackoffMax) /\ Doubled(1) = Smaller(2, BackoffMax)
      /\ Doubled(2) = Smaller(4, BackoffMax) /\ Doubled(3) = Smaller(8, BackoffMax)
  BY <1>1 DEF Doubled
<1>4. \A n \in 0..3 : Doubled(n) \in 1..BackoffMax
  BY <1>2, <1>3 DEF Smaller
<1>5. Doubled(0) = 1
  BY <1>2, <1>3 DEF Smaller
<1>6. ASSUME NEW n \in 0..3, NEW w \in Nat, w >= Doubled(n)
      PROVE  /\ w >= Doubled(Smaller(n + 1, 3) - 1)
             /\ Smaller(2 * w, BackoffMax) >= Doubled(Smaller(n + 1, 3))
  <2>1. CASE n = 0
    BY <1>2, <1>3, <1>6, <2>1 DEF Smaller
  <2>2. CASE n = 1
    BY <1>2, <1>3, <1>6, <2>2 DEF Smaller
  <2>3. CASE n = 2
    BY <1>2, <1>3, <1>6, <2>3 DEF Smaller
  <2>4. CASE n = 3
    BY <1>2, <1>3, <1>6, <2>4 DEF Smaller
  <2> QED BY <2>1, <2>2, <2>3, <2>4
<1> QED BY <1>4, <1>5, <1>6

LEMMA BackoffTypes ==
  ASSUME TypeOK
  PROVE  /\ feed \in FeedType /\ feed.backoff \in 1..BackoffMax
         /\ feed.retryIn \in Nat /\ waited \in 0..BackoffMax /\ dry \in 0..3
  BY Waits DEF TypeOK, SocketOK, CountsOK, FeedType

LEMMA FailedFields ==
  ASSUME NEW f \in FeedType, NEW floor \in {0, LimitBackoff, AuthBackoff}
  PROVE  LET w == Larger(f.backoff, floor) IN
         /\ w \in Nat /\ w >= f.backoff
         /\ Failed(f, floor).up = f.up /\ Failed(f, floor).retryIn = w
         /\ Failed(f, floor).backoff = Smaller(2 * w, BackoffMax)
<1>1. f.backoff \in Nat /\ floor \in Nat
  BY FeedAssumption DEF FeedType
<1>2. Larger(f.backoff, floor) \in Nat /\ Larger(f.backoff, floor) >= f.backoff
  BY <1>1 DEF Larger
<1> QED BY <1>2 DEF Failed, FeedType

\* A failure doubles both: the wait it schedules and the next one.
LEMMA DroppedBackoff ==
  ASSUME TypeOK, BackoffInv, NEW f \in FeedType,
         NEW floor \in {0, LimitBackoff, AuthBackoff}, DropWith(f, floor),
         f.up, f.backoff = feed.backoff
  PROVE  BackoffInv'
<1> DEFINE w == Larger(f.backoff, floor)
<1>1. /\ feed'.up /\ feed'.retryIn = w /\ w \in Nat /\ w >= feed.backoff
      /\ feed'.backoff = Smaller(2 * w, BackoffMax)
  BY FailedFields DEF DropWith
<1>2. dry' = Smaller(dry + 1, 3) /\ waited' = 0
  BY DEF DropWith
<1> HIDE DEF w
<1>3. dry \in 0..3 /\ feed.backoff \in Nat /\ Doubled(dry) \in Nat /\ w >= Doubled(dry)
  BY <1>1, BackoffTypes, Doubling DEF BackoffInv
<1>4. w >= Doubled(dry' - 1) /\ Smaller(2 * w, BackoffMax) >= Doubled(dry')
  BY <1>1, <1>2, <1>3, Doubling
<1> QED BY <1>1, <1>2, <1>4 DEF BackoffInv

\* Nothing else moves the backoff or the wait but a frame, a new object, time.
LEMMA KeptBackoff ==
  ASSUME BackoffInv, feed'.up = feed.up, feed'.backoff = feed.backoff,
         feed'.retryIn = feed.retryIn, UNCHANGED <<waited, dry>>
  PROVE  BackoffInv'
  BY DEF BackoffInv

LEMMA AskedBackoff ==
  ASSUME TypeOK, BackoffInv, NEW f \in FeedType, NEW new \in SUBSET Symbols, Asked(f, new),
         f.up, feed.up, f.backoff = feed.backoff, f.retryIn = feed.retryIn
  PROVE  BackoffInv'
<1>1. CASE DropWith(f, 0)
  BY <1>1, DroppedBackoff
<1>2. CASE ~DropWith(f, 0)
  <2>1. (feed' = Noted(f) \/ feed' = f) /\ UNCHANGED <<waited, dry>>
    BY <1>2 DEF Asked, Sent
  <2>2. feed'.up = f.up /\ feed'.backoff = f.backoff /\ feed'.retryIn = f.retryIn
    BY <2>1 DEF Noted, FeedType
  <2> QED BY <2>1, <2>2, KeptBackoff
<1> QED BY <1>1, <1>2

LEMMA BackoffStep ==
  ASSUME TypeOK, BackoffInv, Next PROVE BackoffInv'
<1>0. /\ feed \in FeedType /\ feed.backoff \in 1..BackoffMax /\ feed.retryIn \in Nat
      /\ waited \in 0..BackoffMax /\ dry \in 0..3 /\ carry \in SUBSET Symbols
  BY BackoffTypes DEF TypeOK, SocketOK
<1>1. CASE Connect \/ ConnectRefused
  BY <1>0, <1>1, KeptBackoff DEF Connect, ConnectRefused, Noted, FeedType
<1>2. CASE ConnectFails \/ ReadFails
  BY <1>0, <1>2, DroppedBackoff DEF ConnectFails, ReadFails
<1>3. CASE ReadAck \/ ReadOther \/ StoreFrame \/ StoreFails
  <2>1. feed'.backoff = 1 /\ feed'.up /\ dry' = 0
    BY <1>0, <1>3 DEF ReadAck, ReadOther, StoreFrame, StoreFails, Reading, Take, Heard, Base, FeedType
  <2> QED BY <2>1, Doubling DEF BackoffInv
<1>4. CASE ReadError
  <2> DEFINE f == Heard(feed)
  <2>1. f \in FeedType /\ f.backoff = 1 /\ f.up
    BY <1>0, <1>4, FeedMade DEF ReadError, Reading, Heard, Base, FeedType
  <2>2. PICK floor \in {0, LimitBackoff, AuthBackoff} : feed' = Failed(f, floor)
    BY <1>4 DEF ReadError
  <2> DEFINE w == Larger(f.backoff, floor)
  <2>3. /\ w \in Nat /\ w >= 1 /\ feed'.up /\ feed'.retryIn = w
        /\ feed'.backoff = Smaller(2 * w, BackoffMax)
    BY <2>1, <2>2, FailedFields
  <2> HIDE DEF f, w
  <2>4. Smaller(0 + 1, 3) = 1
    BY DEF Smaller
  <2>5. w >= Doubled(0) /\ Smaller(2 * w, BackoffMax) >= Doubled(1)
    BY <2>3, <2>4, Doubling
  <2>6. dry' = 1 /\ waited' = 0
    BY <1>4 DEF ReadError
  <2> QED BY <2>3, <2>5, <2>6 DEF BackoffInv
<1>5. CASE FeedStarts \/ FeedDies
  <2>1. dry' = 0 /\ feed'.backoff = 1
    BY <1>0, <1>5 DEF FeedStarts, FeedDies, Fresh, Base, BackoffInv
  <2> QED BY <2>1, Doubling DEF BackoffInv
<1>6. ASSUME NEW S \in SUBSET Symbols, Subscribe(S) PROVE BackoffInv'
  <2> DEFINE f == [feed EXCEPT !.wanted = @ \cup S]
  <2>1. /\ f \in FeedType /\ f.up /\ feed.up /\ f.backoff = feed.backoff
        /\ f.retryIn = feed.retryIn
    BY <1>0, <1>6, FeedMade DEF Subscribe, FeedType
  <2> HIDE DEF f
  <2>2. Asked(f, carry \cup S) /\ carry \cup S \in SUBSET Symbols
    BY <1>0, <1>6 DEF Subscribe, f
  <2> QED BY <2>1, <2>2, AskedBackoff
<1>7. ASSUME NEW S \in SUBSET Symbols, Unsubscribe(S) PROVE BackoffInv'
  <2> DEFINE f == [feed EXCEPT !.wanted = @ \ S]
  <2>1. /\ f \in FeedType /\ f.up /\ feed.up /\ f.backoff = feed.backoff
        /\ f.retryIn = feed.retryIn
    BY <1>0, <1>7, FeedMade DEF Unsubscribe, FeedType
  <2> HIDE DEF f
  <2>2. Asked(f, carry \ S) /\ carry \ S \in SUBSET Symbols
    BY <1>0, <1>7 DEF Unsubscribe, f
  <2> QED BY <2>1, <2>2, AskedBackoff
<1>8. ASSUME NEW S \in SUBSET Symbols, MinutePrints(S) PROVE BackoffInv'
  BY <1>8 DEF MinutePrints, BackoffInv
<1>9. CASE Resend \/ Beat \/ Complain
  BY <1>9 DEF Resend, Beat, Complain, BackoffInv, feedVars
<1>10. CASE Tick
  <2>1. /\ feed'.up = feed.up /\ feed'.backoff = feed.backoff /\ dry' = dry
        /\ feed'.retryIn = Larger(feed.retryIn - 1, 0)
        /\ dry > 0 => waited' = Smaller(waited + 1, BackoffMax)
    BY <1>0, <1>10 DEF Tick, FeedType
  <2>2. dry > 0 => Doubled(dry - 1) \in 1..BackoffMax
    BY <1>0, Doubling
  <2>3. ASSUME dry > 0 PROVE feed'.retryIn + waited' >= Doubled(dry - 1)
    <3>1. \A r, n, top \in Nat : \A d \in 1..top :
             r + n >= d => Larger(r - 1, 0) + Smaller(n + 1, top) >= d
      BY DEF Larger, Smaller
    <3>2. /\ feed.retryIn \in Nat /\ waited \in Nat /\ BackoffMax \in Nat
          /\ Doubled(dry - 1) \in 1..BackoffMax
          /\ feed.retryIn + waited >= Doubled(dry - 1)
      BY <1>0, <2>2, <2>3, Waits DEF BackoffInv
    <3> QED BY <2>1, <2>3, <3>1, <3>2
  <2> QED BY <2>1, <2>3 DEF BackoffInv
<1>11. CASE OpenSession
  BY <1>0, <1>11, KeptBackoff DEF OpenSession, FeedType
<1>12. CASE WaitToRetry \/ ReadNothing \/ Announce \/ Publish \/ GoAway \/ Cycle \/ CloseSession
  BY <1>12 DEF WaitToRetry, ReadNothing, Announce, Publish, GoAway, Cycle, CloseSession,
               BackoffInv, feedVars
<1> QED BY <1>1, <1>2, <1>3, <1>4, <1>5, <1>6, <1>7, <1>8, <1>9, <1>10, <1>11, <1>12
        DEF Next, Poll

LEMMA BackoffAlways == Spec => []BackoffInv
<1>1. ASSUME Init PROVE BackoffInv
  BY <1>1, Doubling DEF Init, Fresh, Base, BackoffInv
<1>2. TypeOK /\ BackoffInv /\ [Next]_vars => BackoffInv'
  <2> SUFFICES ASSUME TypeOK, BackoffInv, UNCHANGED vars PROVE BackoffInv'
    BY BackoffStep
  <2> QED BY DEF vars, BackoffInv
<1> QED BY <1>1, <1>2, Types, PTL DEF Spec

\* A venue that hangs up is not hammered: whatever failed before, and whichever
\* of the limit's and the authorization's longer waits lay between, an attempt
\* after n failures without a frame comes no sooner than 2^(n-1), capped.
THEOREM BackingOff == Spec => BacksOff
<1>1. TypeOK /\ BackoffInv /\ Attempt /\ dry > 0 => waited >= Smaller(2 ^ (dry - 1), BackoffMax)
  <2> SUFFICES ASSUME TypeOK, BackoffInv, Attempt, dry > 0 PROVE waited >= Doubled(dry - 1)
    BY DEF Doubled
  <2>1. feed.retryIn = 0
    BY DEF Attempt, Connect, ConnectRefused, ConnectFails
  <2> QED BY <2>1, BackoffTypes DEF BackoffInv
<1> QED BY <1>1, Types, BackoffAlways, PTL DEF BacksOff

-----------------------------------------------------------------------------
(* A dead stream is noticed.                                               *)

\* The longest the worker may have taken a dead stream for a live one before it
\* missed the key: none at all when the key never lives.
Unmissed == IF StateTtl = 0 THEN 0 ELSE FrameTimeout + 1

\* What the state, the key and the session say of the last frame is no younger
\* than the silence is long.
SilenceIsAged ==
    /\ \A age \in {feed.frameAge, key.state.frameAge} :
          age # Never => Smaller(deaf, AgeCap) <= age
    /\ Smaller(deaf, AgeCap) <= now.age

\* Until the cycle of this tick the silence is as long as the last one left it;
\* a cycle that takes the feed for live has seen a fresh frame or is within the
\* grace of a key it misses.
DeafInv ==
    /\ SilenceIsAged
    /\ now.open /\ ~now.cycled
         => deaf <= Unmissed + (IF worker.absent THEN worker.absentFor ELSE 0)
    /\ now.open /\ now.cycled /\ ~worker.silent =>
         IF worker.absent THEN worker.absentFor <= AbsentGrace
                               /\ deaf <= Unmissed + worker.absentFor
         ELSE StateTtl > 0 /\ deaf <= FrameTimeout
    /\ deaf <= Unmissed + AbsentGrace + 1

\* The constants and the state as the arithmetic needs them.
LEMMA Clocks ==
  ASSUME TypeOK
  PROVE  /\ FrameTimeout \in Nat /\ StateTtl \in Nat /\ AbsentGrace \in Nat
         /\ AgeCap \in Nat /\ FrameTimeout < AgeCap /\ Unmissed \in Nat
         /\ Unmissed + AbsentGrace + 1 < LateCap /\ LateCap \in Nat
         /\ deaf \in 0..LateCap /\ now.age \in 0..AgeCap
         /\ feed \in FeedType /\ feed.frameAge \in Ages /\ key.state.frameAge \in Ages
         /\ key.ttl \in 0..StateTtl
         /\ worker.absent \in BOOLEAN /\ worker.absentFor \in 0..AbsentGrace + 1
<1>1. /\ FrameTimeout \in Nat /\ StateTtl \in Nat /\ AbsentGrace \in Nat /\ BarTimeout \in Nat
      /\ FrameTimeout <= BarTimeout
  BY FeedAssumption
<1>2. /\ AgeCap \in Nat /\ FrameTimeout < AgeCap /\ Unmissed \in Nat
      /\ Unmissed + AbsentGrace + 1 < LateCap /\ LateCap \in Nat
  BY <1>1 DEF AgeCap, Unmissed, LateCap
<1>3. deaf \in 0..LateCap /\ now.age \in 0..AgeCap
  BY DEF TypeOK, CountsOK, NowOK
<1>4. feed \in FeedType /\ feed.frameAge \in Ages
  BY FeedFields DEF TypeOK, SocketOK
<1>5. key.state.frameAge \in Ages /\ key.ttl \in 0..StateTtl
  BY DEF TypeOK, KeyOK
<1>6. worker.absent \in BOOLEAN /\ worker.absentFor \in 0..AbsentGrace + 1
  BY DEF TypeOK, WorkerOK
<1> QED BY <1>1, <1>2, <1>3, <1>4, <1>5, <1>6

LEMMA AgeIs == \A a \in Ages : a = Never \/ (a # Never /\ a \in 0..AgeCap)
  BY FeedAssumption DEF Ages, Never, AgeCap

\* Hearing a frame, or opening a session, ends the silence.
LEMMA HeardEnds ==
  ASSUME TypeOK, TypeOK', DeafInv, deaf' = 0, UNCHANGED worker,
         now'.cycled => UNCHANGED now
  PROVE  DeafInv'
<1>1. Smaller(0, AgeCap) = 0
  BY Clocks DEF Smaller
<1>2. /\ feed'.frameAge \in Ages /\ key'.state.frameAge \in Ages /\ 0 <= now'.age
  BY Clocks, FeedFields DEF TypeOK, SocketOK, KeyOK, NowOK
<1>3. SilenceIsAged'
  BY <1>1, <1>2, AgeIs DEF SilenceIsAged
<1>4. /\ Unmissed \in Nat /\ AbsentGrace \in Nat /\ FrameTimeout \in Nat
      /\ worker.absentFor \in Nat /\ StateTtl \in Nat
  BY Clocks
<1>5. deaf' <= Unmissed + (IF worker.absent THEN worker.absentFor ELSE 0)
  BY <1>4
<1>6. now'.open /\ now'.cycled /\ ~worker.silent =>
         IF worker.absent THEN worker.absentFor <= AbsentGrace
                               /\ deaf' <= Unmissed + worker.absentFor
         ELSE StateTtl > 0 /\ deaf' <= FrameTimeout
  BY <1>4 DEF DeafInv
<1> QED BY <1>3, <1>4, <1>5, <1>6 DEF DeafInv

\* What neither hears, nor cycles, nor lets time pass leaves it as it is.
LEMMA StillDeaf ==
  ASSUME DeafInv, UNCHANGED <<key, now, worker, deaf>>,
         feed'.frameAge = feed.frameAge \/ feed'.frameAge = Never
  PROVE  DeafInv'
  BY DEF DeafInv, SilenceIsAged

LEMMA SubscribedDeaf ==
  ASSUME TypeOK, NEW f \in FeedType, NEW new \in SUBSET Symbols, Asked(f, new),
         f.frameAge = feed.frameAge
  PROVE  feed'.frameAge = feed.frameAge
  BY DEF Asked, Sent, DropWith, Failed, Noted, FeedType

\* A worker that takes the feed for live has just seen a fresh frame, or is
\* within the grace of a key it has missed since it last did.
LEMMA CycleDeaf ==
  ASSUME TypeOK, DeafInv, Cycle PROVE DeafInv'
<1>0. /\ UNCHANGED <<feed, key, deaf>> /\ now' = [now EXCEPT !.cycled = TRUE]
  BY DEF Cycle, feedVars
<1>1. now'.open = now.open /\ now'.age = now.age /\ now'.cycled /\ ~now.cycled
  BY <1>0 DEF TypeOK, NowOK, Cycle
<1>2. SilenceIsAged'
  BY <1>0, <1>1 DEF DeafInv, SilenceIsAged
<1>3. ASSUME now.open, ~worker'.silent
      PROVE  IF worker'.absent THEN worker'.absentFor <= AbsentGrace
                                    /\ deaf <= Unmissed + worker'.absentFor
             ELSE StateTtl > 0 /\ deaf <= FrameTimeout
  <2>1. /\ ~Verdict /\ (worker'.absent <=> key.ttl = 0)
        /\ worker'.absentFor = IF key.ttl = 0 /\ worker.absent THEN worker.absentFor ELSE 0
    BY <1>3 DEF Cycle
  <2>2. CASE key.ttl > 0
    <3>1. ~Silent(key.state)
      BY <2>1, <2>2 DEF Verdict
    <3>2. AgeOr(key.state.frameAge) \in 0..AgeCap /\ AgeOr(key.state.frameAge) <= FrameTimeout
      BY <3>1, Clocks, AgeIs DEF Silent, AgeOr
    <3>3. Smaller(deaf, AgeCap) <= AgeOr(key.state.frameAge)
      BY Clocks DEF DeafInv, SilenceIsAged, AgeOr
    <3>4. deaf <= FrameTimeout
      BY <3>2, <3>3, Clocks DEF Smaller
    <3> QED BY <2>1, <2>2, <3>4, Clocks
  <2>3. CASE ~(key.ttl > 0)
    <3>1. key.ttl = 0 /\ worker'.absent
      BY <2>1, <2>3, Clocks
    <3>2. ~(worker.absent /\ worker.absentFor > AbsentGrace)
      BY <2>1, <2>3 DEF Verdict
    <3>3. deaf <= Unmissed + (IF worker.absent THEN worker.absentFor ELSE 0)
      BY <1>1, <1>3 DEF DeafInv
    <3> QED BY <2>1, <3>1, <3>2, <3>3, Clocks
  <2> QED BY <2>2, <2>3
<1> QED BY <1>0, <1>1, <1>2, <1>3 DEF DeafInv

\* A tick lengthens the silence by one, and all that measures it.
LEMMA TickDeaf ==
  ASSUME TypeOK, DeafInv, Tick PROVE DeafInv'
<1>1. /\ feed'.frameAge = Older(feed.frameAge, AgeCap)
      /\ key'.state.frameAge = Never
         \/ key'.state.frameAge = Older(key.state.frameAge, AgeCap)
      /\ now'.open = now.open /\ now'.age = Smaller(now.age + 1, AgeCap) /\ ~now'.cycled
      /\ worker'.absent = worker.absent
      /\ worker.absent => worker'.absentFor = Smaller(worker.absentFor + 1, AbsentGrace + 1)
      /\ deaf' = (IF now.open /\ ~worker.silent THEN Smaller(deaf + 1, LateCap) ELSE 0)
      /\ now.cycled
  BY DEF Tick, NoState, TypeOK, SocketOK, FeedType, KeyOK, WorkerOK
<1>2. SilenceIsAged'
  <2>1. \A n, m, top, late \in Nat :
           /\ Smaller(n, top) <= m => Smaller(Smaller(n + 1, late), top) <= Smaller(m + 1, top)
           /\ Smaller(0, top) <= Smaller(m + 1, top)
    BY DEF Smaller
  <2>2. ASSUME NEW m \in Nat, Smaller(deaf, AgeCap) <= m
        PROVE  Smaller(deaf', AgeCap) <= Smaller(m + 1, AgeCap)
    <3>1. deaf \in Nat /\ AgeCap \in Nat /\ LateCap \in Nat
      BY Clocks
    <3>2. CASE deaf' = 0
      BY <2>1, <2>2, <3>1, <3>2
    <3>3. CASE deaf' = Smaller(deaf + 1, LateCap)
      BY <2>1, <2>2, <3>1, <3>3
    <3> QED BY <1>1, <3>2, <3>3
  <2>3. Smaller(deaf', AgeCap) <= now'.age
    <3>1. now.age \in Nat /\ Smaller(deaf, AgeCap) <= now.age
      BY Clocks DEF DeafInv, SilenceIsAged
    <3> QED BY <1>1, <2>2, <3>1
  <2>4. ASSUME NEW a \in Ages, a # Never, Smaller(deaf, AgeCap) <= a
        PROVE  Smaller(deaf', AgeCap) <= Older(a, AgeCap)
    <3>1. a \in Nat /\ Older(a, AgeCap) = Smaller(a + 1, AgeCap)
      BY <2>4, AgeIs DEF Older
    <3> QED BY <2>4, <2>2, <3>1
  <2>5. Older(Never, AgeCap) = Never
    BY DEF Older
  <2> QED BY <1>1, <2>3, <2>4, <2>5, Clocks DEF DeafInv, SilenceIsAged
<1>3. deaf' <= Unmissed + (IF worker'.absent THEN worker'.absentFor ELSE 0)
  <2>1. CASE now.open /\ ~worker.silent
    <3>1. CASE worker.absent
      BY <1>1, <2>1, <3>1, Clocks DEF DeafInv, Smaller
    <3>2. CASE ~worker.absent
      <4>1. StateTtl > 0 /\ deaf <= FrameTimeout
        BY <1>1, <2>1, <3>2 DEF DeafInv
      <4>2. Unmissed = FrameTimeout + 1
        BY <4>1, Clocks DEF Unmissed
      <4> QED BY <1>1, <2>1, <3>2, <4>1, <4>2, Clocks DEF Smaller
    <3> QED BY <3>1, <3>2
  <2>2. CASE ~(now.open /\ ~worker.silent)
    <3>1. worker'.absent => worker'.absentFor \in Nat
      BY <1>1, Clocks DEF Smaller
    <3> QED BY <1>1, <2>2, <3>1, Clocks
  <2> QED BY <2>1, <2>2
<1>4. worker'.absent => worker'.absentFor <= AbsentGrace + 1
  BY <1>1, Clocks DEF Smaller
<1>5. deaf' <= Unmissed + AbsentGrace + 1
  <2>1. deaf' \in Nat
    BY <1>1, Clocks DEF Smaller
  <2>2. worker'.absent => worker'.absentFor \in Nat
    BY <1>1, Clocks DEF Smaller
  <2> QED BY <1>3, <1>4, <2>1, <2>2, Clocks
<1> QED BY <1>1, <1>2, <1>3, <1>5 DEF DeafInv

LEMMA DeafStep ==
  ASSUME TypeOK, TypeOK', DeafInv, Next PROVE DeafInv'
<1>0. feed \in FeedType /\ carry \in SUBSET Symbols
  BY DEF TypeOK, SocketOK
<1>1. CASE Connect \/ ConnectRefused
  BY <1>0, <1>1, StillDeaf DEF Connect, ConnectRefused, Noted, FeedType, workerVars
<1>2. CASE ConnectFails \/ ReadFails
  <2>1. feed'.frameAge = feed.frameAge
    BY <1>0, <1>2 DEF ConnectFails, ReadFails, DropWith, Failed, FeedType
  <2> QED BY <1>2, <2>1, StillDeaf DEF ConnectFails, ReadFails, workerVars
<1>3. CASE ReadAck \/ ReadOther \/ StoreFrame \/ StoreFails \/ ReadError
  BY <1>3, HeardEnds DEF ReadAck, ReadOther, StoreFrame, StoreFails, ReadError, Take, workerVars
<1>4. CASE FeedStarts \/ FeedDies
  BY <1>0, <1>4, StillDeaf DEF FeedStarts, FeedDies, Fresh, workerVars
<1>5. ASSUME NEW S \in SUBSET Symbols, Subscribe(S) PROVE DeafInv'
  <2> DEFINE f == [feed EXCEPT !.wanted = @ \cup S]
  <2>1. f \in FeedType /\ f.frameAge = feed.frameAge
    BY <1>0, FeedMade DEF FeedType
  <2> HIDE DEF f
  <2>2. Asked(f, carry \cup S) /\ carry \cup S \in SUBSET Symbols
    BY <1>0, <1>5 DEF Subscribe, f
  <2> QED BY <1>5, <2>1, <2>2, SubscribedDeaf, StillDeaf DEF Subscribe, workerVars
<1>6. ASSUME NEW S \in SUBSET Symbols, Unsubscribe(S) PROVE DeafInv'
  <2> DEFINE f == [feed EXCEPT !.wanted = @ \ S]
  <2>1. f \in FeedType /\ f.frameAge = feed.frameAge
    BY <1>0, FeedMade DEF FeedType
  <2> HIDE DEF f
  <2>2. Asked(f, carry \ S) /\ carry \ S \in SUBSET Symbols
    BY <1>0, <1>6 DEF Unsubscribe, f
  <2> QED BY <1>6, <2>1, <2>2, SubscribedDeaf, StillDeaf DEF Unsubscribe, workerVars
<1>7. ASSUME NEW S \in SUBSET Symbols, MinutePrints(S) PROVE DeafInv'
  BY <1>7, StillDeaf DEF MinutePrints, workerVars
<1>8. CASE Resend \/ Beat \/ Complain
  BY <1>8, StillDeaf DEF Resend, Beat, Complain, workerVars
<1>9. CASE WaitToRetry \/ ReadNothing \/ Announce \/ GoAway
  BY <1>9, StillDeaf DEF WaitToRetry, ReadNothing, Announce, GoAway, feedVars, workerVars
<1>10. CASE Publish
  <2>1. /\ UNCHANGED <<feed, worker, deaf>>
        /\ now'.open = now.open /\ now'.age = now.age /\ now'.cycled = now.cycled
        /\ key'.state.frameAge = key.state.frameAge \/ key'.state.frameAge = feed.frameAge
    BY <1>10 DEF Publish, TypeOK, NowOK, feedVars
  <2> QED BY <2>1 DEF DeafInv, SilenceIsAged
<1>11. CASE CloseSession
  <2>1. /\ UNCHANGED <<feed, key, worker, deaf>> /\ ~now'.open /\ now'.age = now.age
    BY <1>11 DEF CloseSession, TypeOK, NowOK, feedVars, workerVars
  <2> QED BY <2>1 DEF DeafInv, SilenceIsAged
<1>12. CASE OpenSession
  BY <1>12, HeardEnds DEF OpenSession, TypeOK, NowOK
<1> QED BY <1>1, <1>2, <1>3, <1>4, <1>5, <1>6, <1>7, <1>8, <1>9, <1>10, <1>11, <1>12,
           CycleDeaf, TickDeaf DEF Next, Poll

\* However the stream dies -- and whichever deaths follow each other -- the
\* worker takes it for alive for less than LateCap ticks (check_feed's frame
\* timeout, the key's lifetime and the grace of a missing key).
THEOREM Noticed == Spec => []DeadIsSilent
<1>1. ASSUME Init PROVE DeafInv
  <2>1. /\ feed.frameAge = Never /\ key.state.frameAge = Never /\ now.age = 0 /\ deaf = 0
        /\ ~worker.absent /\ ~now.cycled
    BY <1>1 DEF Init, Fresh, NoState
  <2>2. Smaller(0, AgeCap) = 0 /\ Unmissed \in Nat /\ AbsentGrace \in Nat
    BY <1>1, InitType, Clocks DEF Smaller
  <2> QED BY <2>1, <2>2 DEF DeafInv, SilenceIsAged
<1>2. TypeOK /\ TypeOK' /\ DeafInv /\ [Next]_vars => DeafInv'
  <2> SUFFICES ASSUME TypeOK, DeafInv, UNCHANGED vars PROVE DeafInv'
    BY DeafStep
  <2> QED BY DEF vars, DeafInv, SilenceIsAged
<1>3. TypeOK /\ DeafInv => DeadIsSilent
  BY Clocks DEF DeafInv, DeadIsSilent
<1> QED BY <1>1, <1>2, <1>3, Types, PTL DEF Spec

=============================================================================
