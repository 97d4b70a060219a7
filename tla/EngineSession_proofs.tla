------------------------ MODULE EngineSession_proofs ------------------------
(***************************************************************************)
(* Proofs about EngineSession, for any callers, transports and bounds: the *)
(* types; a published payload is whole; and the numbered exchange tells a  *)
(* lost answer from a late question.                                       *)
(***************************************************************************)
EXTENDS EngineSession, TLAPS

-----------------------------------------------------------------------------
(* Types.                                                                  *)

LEMMA CountsRange ==
  0 \in Counts /\ \A n \in 1..MaxBars : n \in Counts
  BY SessionAssumption DEF Counts

\* What the helpers make of a box is a box.
LEMMA BoxFields ==
  ASSUME BoxesOK, NEW b \in Boxes
  PROVE  /\ box[b] \in BoxType /\ box[b].last <= box[b].seq
         /\ box[b].seq \in Nat /\ box[b].last \in Nat
         /\ box[b].inbox \subseteq Requests /\ box[b].outbox \subseteq Answers
         /\ box[b].held \in Counts
         /\ box[b].lock \in Callers \cup {Free}
  BY DEF BoxesOK, BoxType

LEMMA KilledBox ==
  ASSUME NEW e \in BoxType
  PROVE  /\ Killed(e) \in BoxType
         /\ Killed(e).run = e.run /\ Killed(e).seq = e.seq /\ Killed(e).last = e.last
         /\ Killed(e).inbox = e.inbox /\ Killed(e).outbox = e.outbox
  BY DEF Killed, BoxType

LEMMA ClosedBox ==
  ASSUME NEW e \in BoxType
  PROVE  /\ Closed(e) \in BoxType
         /\ Closed(e).run = e.run /\ Closed(e).seq = e.seq /\ Closed(e).last = e.last
  BY KilledBox DEF Closed, BoxType

LEMMA GoneBox ==
  ASSUME BoxesOK, NEW b \in Boxes
  PROVE  /\ Gone(b) \in BoxType /\ Gone(b).last = 0 /\ Gone(b).seq = 0
         /\ Gone(b).run = "gone" /\ Gone(b).tr = "dead" /\ Gone(b).lock = box[b].lock
         /\ Gone(b).inbox = {} /\ Gone(b).outbox = box[b].outbox
         /\ ~Gone(b).lost /\ ~Gone(b).refusedRetry
<1>1. box[b].outbox \subseteq Answers /\ box[b].lock \in Callers \cup {Free}
  BY BoxFields
<1>2. 0 \in Counts
  BY SessionAssumption DEF Counts
<1> QED BY <1>1, <1>2 DEF Gone, Unlaunched, BoxType

\* One box or one caller changes, and stays what it is.
LEMMA BoxMoves ==
  ASSUME BoxesOK, NEW b \in Boxes, NEW e \in BoxType, e.last <= e.seq,
         box' = [box EXCEPT ![b] = e]
  PROVE  /\ BoxesOK'
         /\ RegOK /\ reg' = reg /\ e.run # "none" => RegOK'
  BY DEF BoxesOK, RegOK, NoBox, Boxes

LEMMA GoneMoves ==
  ASSUME BoxesOK, NEW b \in Boxes, box' = [box EXCEPT ![b] = Gone(b)]
  PROVE  /\ BoxesOK'
         /\ RegOK /\ reg' = reg => RegOK'
<1> DEFINE e == Gone(b)
<1>1. e \in BoxType /\ e.last <= e.seq /\ e.run # "none"
  BY GoneBox
<1> HIDE DEF e
<1>2. box' = [box EXCEPT ![b] = e]
  BY DEF e
<1> QED BY <1>1, <1>2, BoxMoves

LEMMA CallerMoves ==
  ASSUME CallersOK, NEW c \in Callers, NEW t \in CallerType, Named(t),
         caller' = [caller EXCEPT ![c] = t]
  PROVE  CallersOK'
  BY DEF CallersOK

LEMMA CallerFields ==
  ASSUME CallersOK, NEW c \in Callers
  PROVE  caller[c] \in CallerType /\ Named(caller[c])
  BY DEF CallersOK

LEMMA RestingCaller ==
  /\ AtRest \in CallerType /\ Named(AtRest) /\ Raised \in CallerType /\ Named(Raised)
  BY CountsRange DEF AtRest, Raised, CallerType, Named, NoBox

LEMMA RaisesType == ASSUME CallersOK, NEW c \in Callers, Raise(c) PROVE CallersOK'
  BY RestingCaller, CallerMoves DEF Raise

LEMMA FaultType == ASSUME RestOK, Fault, UNCHANGED <<mode, bars, paper>> PROVE RestOK'
  BY SessionAssumption DEF RestOK, Fault

LEMMA InitType == ASSUME Init PROVE TypeOK
<1>1. Unlaunched \in BoxType /\ Unlaunched.last <= Unlaunched.seq
  BY CountsRange DEF Unlaunched, BoxType
<1>2. BoxesOK /\ CallersOK
  BY <1>1, RestingCaller DEF Init, BoxesOK, CallersOK
<1>3. RegOK /\ RestOK
  BY SessionAssumption DEF Init, RegOK, RestOK
<1> QED BY <1>2, <1>3 DEF TypeOK

\* The caller that a tick starts: it calls, or it builds an engine first.
Call(c, n) == [caller[c] EXCEPT !.pc = "lookup", !.op = "tick", !.total = n]
Make(c, n, next) ==
    [caller[c] EXCEPT !.pc = "stop", !.then = next, !.via = "none", !.pushed = 0, !.total = n]

LEMMA TickMoves ==
  ASSUME TypeOK, NEW c \in Callers, Tick(c)
  PROVE  \E n \in Counts, next \in {"launch", "label"} :
            caller' = [caller EXCEPT ![c] = Call(c, n)]
            \/ caller' = [caller EXCEPT ![c] = Make(c, n, next)]
<1> DEFINE had == IF caller[c].via # "none" /\ (caller[c].via = "file" => Alive)
                  THEN caller[c].total ELSE 0
<1> DEFINE next == IF mode = "inproc" THEN "launch" ELSE "label"
<1>1. PICK n \in {Shown(bars'), had} :
         caller' = [caller EXCEPT ![c] = Call(c, n)]
         \/ caller' = [caller EXCEPT ![c] = Make(c, n, next)]
  BY DEF Tick, Call, Make
<1>2. bars' \in 0..MaxBars /\ caller[c].total \in Counts
  BY SessionAssumption, CallerFields DEF TypeOK, RestOK, Tick, CallerType
<1>3. n \in Counts
  BY <1>2, SessionAssumption DEF Shown, Counts
<1>4. next \in {"launch", "label"}
  OBVIOUS
<1> HIDE DEF next
<1> QED BY <1>1, <1>3, <1>4

LEMMA TickType == ASSUME TypeOK, NEW c \in Callers, Tick(c) PROVE TypeOK'
<1>1. CallersOK'
  <2>1. PICK n \in Counts, next \in {"launch", "label"} :
           caller' = [caller EXCEPT ![c] = Call(c, n)]
           \/ caller' = [caller EXCEPT ![c] = Make(c, n, next)]
    BY TickMoves
  <2>2. Call(c, n) \in CallerType /\ Named(Call(c, n))
    BY CallerFields DEF TypeOK, Call, CallerType, Named
  <2>3. Make(c, n, next) \in CallerType /\ Named(Make(c, n, next))
    BY CallerFields, CountsRange DEF TypeOK, Make, CallerType, Named
  <2> QED BY <2>1, <2>2, <2>3, CallerMoves DEF TypeOK
<1>2. RestOK'
  <2>1. left.ticks \in 0..MaxTicks /\ left.faults \in 0..MaxFaults /\ left.ticks > 0
    BY DEF TypeOK, RestOK, Tick
  <2>2. PICK k \in {left.faults, left.faults - 1} :
           (k # left.faults => left.faults > 0)
           /\ left' = [ticks |-> left.ticks - 1, faults |-> k]
    BY DEF Tick
  <2>3. left' \in [ticks : 0..MaxTicks, faults : 0..MaxFaults]
    BY <2>1, <2>2, SessionAssumption
  <2>4. bars' \in 1..MaxBars
    BY SessionAssumption DEF TypeOK, RestOK, Tick
  <2> QED BY <2>3, <2>4 DEF TypeOK, RestOK, Tick
<1> QED BY <1>1, <1>2 DEF TypeOK, Tick, BoxesOK, RegOK

LEMMA StopAsksType == ASSUME TypeOK, NEW c \in Callers, StopAsks(c) PROVE TypeOK'
<1>1. CASE reg = NoBox
  <2> DEFINE t == [caller[c] EXCEPT !.pc = caller[c].then]
  <2>1. t \in CallerType /\ Named(t) /\ caller' = [caller EXCEPT ![c] = t]
    BY <1>1, CallerFields DEF TypeOK, StopAsks, Goto, CallerType, Named
  <2> HIDE DEF t
  <2>2. CallersOK'
    BY <2>1, CallerMoves DEF TypeOK
  <2> QED BY <1>1, <2>2 DEF TypeOK, StopAsks, BoxesOK, RegOK, RestOK
<1>2. CASE reg # NoBox
  <2>0. reg \in Boxes /\ box[reg] \in BoxType
    BY <1>2, BoxFields DEF TypeOK, RegOK
  <2> DEFINE t == IF mode = "inproc" THEN [caller[c] EXCEPT !.pc = caller[c].then]
                  ELSE [caller[c] EXCEPT !.pc = "kill", !.box = reg]
  <2> DEFINE n == box[reg].seq + 1
  <2> DEFINE r == [seq |-> n, op |-> "stop", pushed |-> 0, total |-> 0]
  <2> DEFINE e == [Killed(box[reg]) EXCEPT !.seq = n, !.inbox = @ \cup {r}]
  <2>1. t \in CallerType /\ Named(t)
    BY <2>0, CallerFields DEF TypeOK, CallerType, Named
  <2>2. r \in Requests /\ n \in Nat /\ box[reg].last <= n
    BY <2>0, BoxFields, CountsRange DEF TypeOK, Requests
  <2> HIDE DEF n, r
  <2>3. e \in BoxType /\ e.last <= e.seq /\ e.run = box[reg].run
    BY <2>0, <2>2, KilledBox DEF BoxType
  <2>4. box' = [box EXCEPT ![reg] = e] /\ caller' = [caller EXCEPT ![c] = t] /\ reg' = NoBox
    BY <1>2 DEF StopAsks, Goto, n, r
  <2> HIDE DEF t, e
  <2>5. BoxesOK' /\ CallersOK' /\ RegOK'
    BY <2>0, <2>1, <2>3, <2>4, BoxMoves, CallerMoves DEF TypeOK, RegOK
  <2> QED BY <2>5 DEF TypeOK, StopAsks, RestOK
<1> QED BY <1>1, <1>2

LEMMA StopKillsType == ASSUME TypeOK, NEW c \in Callers, StopKills(c) PROVE TypeOK'
<1> DEFINE t == [caller[c] EXCEPT !.pc = caller[c].then, !.box = NoBox]
<1>0. caller[c].box \in Boxes
  BY CallerFields DEF TypeOK, StopKills, At, Named
<1>1. t \in CallerType /\ Named(t) /\ caller' = [caller EXCEPT ![c] = t]
  BY CallerFields DEF TypeOK, StopKills, CallerType, Named
<1> HIDE DEF t
<1>2. CallersOK'
  BY <1>1, CallerMoves DEF TypeOK
<1>3. BoxesOK' /\ RegOK'
  BY <1>0, GoneMoves DEF TypeOK, StopKills
<1> QED BY <1>2, <1>3 DEF TypeOK, StopKills, RestOK

LEMMA KillLabelledType == ASSUME TypeOK, NEW c \in Callers, KillLabelled(c) PROVE TypeOK'
<1> DEFINE t == [caller[c] EXCEPT !.pc = "launch"]
<1>1. t \in CallerType /\ Named(t) /\ caller' = [caller EXCEPT ![c] = t]
  BY CallerFields DEF TypeOK, KillLabelled, Goto, CallerType, Named
<1> HIDE DEF t
<1>2. CallersOK'
  BY <1>1, CallerMoves DEF TypeOK
<1>3. \A b \in Boxes : box'[b] = box[b] \/ box'[b] = Gone(b)
  BY DEF KillLabelled
<1>4. BoxesOK'
  BY <1>3, BoxFields, GoneBox DEF TypeOK, KillLabelled, BoxesOK
<1>5. RegOK'
  BY <1>3, GoneBox DEF TypeOK, KillLabelled, RegOK
<1> QED BY <1>2, <1>4, <1>5 DEF TypeOK, KillLabelled, RestOK

LEMMA LaunchType == ASSUME TypeOK, NEW c \in Callers, Launch(c) PROVE TypeOK'
<1>1. CASE Raise(c) /\ UNCHANGED <<reg, box>>
  BY <1>1, RaisesType DEF TypeOK, Launch, BoxesOK, RegOK, RestOK
<1>2. ASSUME NEW b \in Boxes,
             box' = [box EXCEPT ![b] = [@ EXCEPT !.run = "building", !.tr = "file"]],
             reg' = IF mode = "inproc" THEN reg ELSE b,
             caller' = [caller EXCEPT ![c] = [@ EXCEPT !.pc = "ready", !.box = b]]
      PROVE  BoxesOK' /\ RegOK' /\ CallersOK'
  <2> DEFINE t == [caller[c] EXCEPT !.pc = "ready", !.box = b]
  <2> DEFINE e == [box[b] EXCEPT !.run = "building", !.tr = "file"]
  <2>1. t \in CallerType /\ Named(t) /\ caller' = [caller EXCEPT ![c] = t]
    BY <1>2, CallerFields DEF TypeOK, CallerType, Named
  <2>2. e \in BoxType /\ e.last <= e.seq /\ e.run = "building" /\ box' = [box EXCEPT ![b] = e]
    BY <1>2, BoxFields DEF TypeOK, BoxType
  <2> HIDE DEF t, e
  <2>3. BoxesOK' /\ CallersOK'
    BY <2>1, <2>2, BoxMoves, CallerMoves DEF TypeOK
  <2>4. RegOK'
    BY <1>2, <2>2 DEF TypeOK, RegOK, BoxesOK
  <2> QED BY <2>3, <2>4
<1>3. RestOK'
  BY DEF TypeOK, Launch, RestOK
<1> QED BY <1>1, <1>2, <1>3 DEF TypeOK, Launch

LEMMA BuildsType == ASSUME TypeOK, NEW b \in Boxes, Builds(b) PROVE TypeOK'
<1>1. CASE box' = [box EXCEPT ![b].run = "up"]
  <2> DEFINE e == [box[b] EXCEPT !.run = "up"]
  <2>1. e \in BoxType /\ e.last <= e.seq /\ e.run = "up" /\ box' = [box EXCEPT ![b] = e]
    BY <1>1, BoxFields DEF TypeOK, BoxType
  <2> HIDE DEF e
  <2> QED BY <2>1, BoxMoves, FaultType DEF TypeOK, Builds, CallersOK, RestOK
<1>2. CASE box' = [box EXCEPT ![b] = Gone(b)]
  BY <1>2, GoneMoves, FaultType DEF TypeOK, Builds, CallersOK, RestOK
<1> QED BY <1>1, <1>2 DEF Builds
LEMMA ReadyType == ASSUME TypeOK, NEW c \in Callers, Ready(c) PROVE TypeOK'
<1> DEFINE b == caller[c].box
<1>0. b \in Boxes
  BY CallerFields DEF TypeOK, Ready, At, Named
<1>1. PICK tr \in {mode, "file"} :
        /\ tr # mode => mode = "socket" /\ Fault
        /\ tr = mode => UNCHANGED left
        /\ box' = [box EXCEPT ![b].tr = IF @ = "dead" THEN "dead" ELSE tr]
        /\ caller' = [caller EXCEPT ![c] = [@ EXCEPT !.pc = "lookup", !.op = "warm", !.via = tr]]
  BY DEF Ready
<1>2. tr \in {"socket", "file", "inproc"}
  BY SessionAssumption DEF TypeOK, RestOK
<1> DEFINE t == [caller[c] EXCEPT !.pc = "lookup", !.op = "warm", !.via = tr]
<1> DEFINE e == [box[b] EXCEPT !.tr = IF @ = "dead" THEN "dead" ELSE tr]
<1>3. t \in CallerType /\ Named(t)
  BY <1>0, <1>2, CallerFields DEF TypeOK, CallerType, Named
<1>4. e \in BoxType /\ e.last <= e.seq /\ e.run = "up"
  BY <1>0, <1>2, BoxFields DEF TypeOK, Ready, Up, BoxType
<1>5. caller' = [caller EXCEPT ![c] = t] /\ box' = [box EXCEPT ![b] = e]
  BY <1>1
<1>6. reg' = b \/ reg' = reg
  BY DEF Ready
<1> HIDE DEF t, e, b
<1>7. CallersOK' /\ BoxesOK'
  BY <1>0, <1>3, <1>4, <1>5, CallerMoves, BoxMoves DEF TypeOK
<1>8. RegOK'
  BY <1>0, <1>4, <1>5, <1>6 DEF TypeOK, RegOK, BoxesOK
<1>9. RestOK'
  BY <1>1, FaultType DEF TypeOK, Ready, RestOK
<1> QED BY <1>7, <1>8, <1>9 DEF TypeOK

LEMMA RaisesOnly ==
  ASSUME TypeOK, NEW c \in Callers, Raise(c), UNCHANGED <<mode, bars, reg, box, paper>>,
         UNCHANGED left \/ Fault
  PROVE  TypeOK'
<1>1. CallersOK'
  BY RaisesType DEF TypeOK
<1>2. RestOK'
  BY FaultType DEF TypeOK, RestOK
<1> QED BY <1>1, <1>2 DEF TypeOK, BoxesOK, RegOK

LEMMA NotReadyType == ASSUME TypeOK, NEW c \in Callers, NotReady(c) PROVE TypeOK'
  BY RaisesOnly DEF NotReady

LEMMA BusyType == ASSUME TypeOK, NEW c \in Callers, Busy(c) PROVE TypeOK'
  BY RaisesOnly DEF Busy

LEMMA LookupType == ASSUME TypeOK, NEW c \in Callers, Lookup(c) PROVE TypeOK'
<1>1. CASE reg = NoBox
  BY <1>1, RaisesOnly DEF Lookup
<1>2. CASE reg # NoBox
  <2> DEFINE t == [caller[c] EXCEPT !.box = reg,
                                    !.pc = IF mode = "inproc" THEN "queue" ELSE "lock"]
  <2>1. t \in CallerType /\ Named(t) /\ caller' = [caller EXCEPT ![c] = t]
    BY <1>2, CallerFields DEF TypeOK, RegOK, Lookup, At, CallerType, Named
  <2> HIDE DEF t
  <2>2. CallersOK'
    BY <2>1, CallerMoves DEF TypeOK
  <2> QED BY <2>2 DEF TypeOK, Lookup, BoxesOK, RegOK, RestOK
<1> QED BY <1>1, <1>2

\* One caller and one box move, and nothing else.
LEMMA BothMove ==
  ASSUME TypeOK, NEW c \in Callers, NEW t \in CallerType, Named(t),
         NEW b \in Boxes, NEW e \in BoxType, e.last <= e.seq, e.run = box[b].run,
         caller' = [caller EXCEPT ![c] = t], box' = [box EXCEPT ![b] = e],
         UNCHANGED <<mode, bars, reg>>
  PROVE  CallersOK' /\ BoxesOK' /\ RegOK'
<1>1. CallersOK' /\ BoxesOK'
  BY CallerMoves, BoxMoves DEF TypeOK
<1>2. RegOK'
  BY DEF TypeOK, RegOK, BoxesOK
<1> QED BY <1>1, <1>2

LEMMA AcquireType == ASSUME TypeOK, NEW c \in Callers, Acquire(c) PROVE TypeOK'
<1> DEFINE b == caller[c].box
<1> DEFINE n == box[b].seq + 1
<1> DEFINE t == [caller[c] EXCEPT !.pc = "send", !.seq = n]
<1> DEFINE e == [box[b] EXCEPT !.seq = n, !.lock = c]
<1>0. /\ b \in Boxes /\ caller[c] \in CallerType /\ caller[c].op # "none"
      /\ box[b] \in BoxType /\ n \in Nat /\ box[b].last <= n
  BY CallerFields, BoxFields DEF TypeOK, Acquire, At, Named
<1>3. caller' = [caller EXCEPT ![c] = t] /\ box' = [box EXCEPT ![b] = e]
  BY DEF Acquire
<1> HIDE DEF n
<1>1. e \in BoxType /\ e.last <= e.seq /\ e.run = box[b].run
  BY <1>0 DEF BoxType
<1>2. t \in CallerType /\ Named(t)
  BY <1>0 DEF CallerType, Named
<1> HIDE DEF b, t, e
<1>4. UNCHANGED <<mode, bars, reg>>
  BY DEF Acquire
<1>5. CallersOK' /\ BoxesOK' /\ RegOK'
  BY <1>0, <1>1, <1>2, <1>3, <1>4, BothMove
<1> QED BY <1>5 DEF TypeOK, Acquire, RestOK

\* A released lock, a request added.
LEMMA ReleasedBox ==
  ASSUME BoxesOK, NEW b \in Boxes
  PROVE  /\ Released(b) = [box EXCEPT ![b] = [box[b] EXCEPT !.lock = Free]]
         /\ [box[b] EXCEPT !.lock = Free] \in BoxType
  BY BoxFields DEF Released, BoxType

LEMMA InboxType ==
  ASSUME TypeOK, NEW c \in Callers, NEW seq \in Nat, caller[c].op # "none",
         caller[c].box \in Boxes
  PROVE  Request(c, seq) \in Requests /\ Inbox(c, seq) \subseteq Requests
<1>1. /\ caller[c].total \in Counts /\ caller[c].pushed \in Counts
      /\ caller[c].op \in {"warm", "tick"}
  BY CallerFields, CountsRange DEF TypeOK, RestOK, CallerType
<1>2. Request(c, seq) \in Requests
  BY <1>1 DEF Request, Requests
<1>3. box[caller[c].box].inbox \subseteq Requests
  BY BoxFields DEF TypeOK
<1> QED BY <1>2, <1>3 DEF Inbox

LEMMA SendType == ASSUME TypeOK, NEW c \in Callers, Send(c) PROVE TypeOK'
<1> DEFINE b == caller[c].box
<1>0. /\ b \in Boxes /\ caller[c] \in CallerType /\ caller[c].op # "none"
      /\ caller[c].seq \in Nat /\ box[b] \in BoxType /\ box[b].last <= box[b].seq
  BY CallerFields, BoxFields DEF TypeOK, Send, At, Named, CallerType
<1>1. CASE box[b].tr = "dead"
  <2> DEFINE e == [box[b] EXCEPT !.lock = Free]
  <2>1. e \in BoxType /\ e.last <= e.seq /\ e.run = box[b].run
    BY <1>0 DEF BoxType
  <2>2. box' = [box EXCEPT ![b] = e] /\ caller' = [caller EXCEPT ![c] = Raised]
    BY <1>1 DEF Send, Released, Raise
  <2> HIDE DEF e, b
  <2>3. CallersOK' /\ BoxesOK' /\ RegOK'
    BY <1>0, <2>1, <2>2, BothMove, RestingCaller DEF Send
  <2> QED BY <2>3 DEF TypeOK, Send, RestOK
<1>2. CASE box[b].tr # "dead"
  <2> DEFINE t == [caller[c] EXCEPT !.pc = "wait"]
  <2> DEFINE e == [box[b] EXCEPT !.inbox = Inbox(c, caller[c].seq)]
  <2>1. e \in BoxType /\ e.last <= e.seq /\ e.run = box[b].run
    BY <1>0, InboxType DEF BoxType
  <2>2. t \in CallerType /\ Named(t)
    BY <1>0, CountsRange DEF TypeOK, RestOK, CallerType, Named
  <2>3. box' = [box EXCEPT ![b] = e] /\ caller' = [caller EXCEPT ![c] = t]
    BY <1>2 DEF Send, Goto
  <2> HIDE DEF e, b, t
  <2>4. CallersOK' /\ BoxesOK' /\ RegOK'
    BY <1>0, <2>1, <2>2, <2>3, BothMove DEF Send
  <2> QED BY <2>4 DEF TypeOK, Send, RestOK
<1> QED BY <1>1, <1>2

LEMMA QueueType == ASSUME TypeOK, NEW c \in Callers, Queue(c) PROVE TypeOK'
<1> DEFINE b == caller[c].box
<1> DEFINE n == box[b].seq + 1
<1>0. /\ b \in Boxes /\ caller[c] \in CallerType /\ caller[c].op # "none"
      /\ box[b] \in BoxType /\ n \in Nat /\ box[b].last <= n
  BY CallerFields, BoxFields DEF TypeOK, Queue, At, Named
<1>1. CASE box[b].tr = "dead"
  BY <1>1, RaisesOnly DEF Queue
<1>2. CASE box[b].tr # "dead"
  <2> DEFINE t == [caller[c] EXCEPT !.pc = "wait", !.seq = n]
  <2> DEFINE e == [box[b] EXCEPT !.inbox = Inbox(c, n), !.seq = n]
  <2>3. box' = [box EXCEPT ![b] = e] /\ caller' = [caller EXCEPT ![c] = t]
    BY <1>2 DEF Queue
  <2> HIDE DEF n
  <2>1. e \in BoxType /\ e.last <= e.seq /\ e.run = box[b].run
    BY <1>0, InboxType DEF BoxType
  <2>2. t \in CallerType /\ Named(t)
    BY <1>0, CountsRange DEF TypeOK, RestOK, CallerType, Named
  <2> HIDE DEF e, b, t
  <2>4. CallersOK' /\ BoxesOK' /\ RegOK'
    BY <1>0, <2>1, <2>2, <2>3, BothMove DEF Queue
  <2> QED BY <2>4 DEF TypeOK, Queue, RestOK
<1> QED BY <1>1, <1>2

LEMMA AnsweredType == ASSUME TypeOK, NEW c \in Callers, Answered(c) PROVE TypeOK'
<1> DEFINE b == caller[c].box
<1>0. /\ b \in Boxes /\ caller[c] \in CallerType /\ caller[c].op # "none"
      /\ box[b] \in BoxType /\ box[b].last <= box[b].seq
  BY CallerFields, BoxFields DEF TypeOK, Answered, At, Named
<1>1. PICK a \in Replies(c) :
        /\ box' = [Released(b) EXCEPT ![b].outbox = @ \ {a}]
        /\ \/ Raise(c) /\ UNCHANGED paper
           \/ /\ a.ok /\ caller[c].op = "warm"
              /\ caller' = [caller EXCEPT ![c] = [@ EXCEPT !.pc = "lookup", !.op = "tick",
                                                           !.pushed = 0]]
              /\ UNCHANGED paper
           \/ /\ a.ok /\ caller[c].op = "tick"
              /\ caller' = [caller EXCEPT ![c] =
                              [AtRest EXCEPT !.via = caller[c].via, !.pushed = a.held,
                                             !.total = caller[c].total]]
              /\ paper' = [whole |-> Complete(c, a), sure |-> a.sure]
  BY DEF Answered
<1>2. a \in Answers
  BY <1>0, <1>1 DEF Replies, BoxType
<1> DEFINE e == [box[b] EXCEPT !.lock = Free, !.outbox = @ \ {a}]
<1>3. e \in BoxType /\ e.last <= e.seq /\ e.run = box[b].run
  BY <1>0 DEF BoxType
<1>4. box' = [box EXCEPT ![b] = e]
  <2> DEFINE r == [box[b] EXCEPT !.lock = Free]
  <2>1. Released(b) = [box EXCEPT ![b] = r]
    BY <1>0, ReleasedBox DEF TypeOK
  <2>2. r.outbox = box[b].outbox
    BY <1>0 DEF BoxType
  <2>3. [r EXCEPT !.outbox = @ \ {a}] = e
    BY <1>0, <2>2 DEF BoxType
  <2> HIDE DEF r
  <2>4. [Released(b) EXCEPT ![b].outbox = @ \ {a}] = [box EXCEPT ![b] = [r EXCEPT !.outbox = @ \ {a}]]
    BY <1>0, <2>1 DEF TypeOK, BoxesOK
  <2> QED BY <1>1, <2>3, <2>4
<1>5. \E t \in CallerType : Named(t) /\ caller' = [caller EXCEPT ![c] = t]
  <2>1. CASE Raise(c)
    BY <2>1, RestingCaller DEF Raise
  <2> DEFINE again == [caller[c] EXCEPT !.pc = "lookup", !.op = "tick", !.pushed = 0]
  <2> DEFINE rest == [AtRest EXCEPT !.via = caller[c].via, !.pushed = a.held,
                                    !.total = caller[c].total]
  <2>2. again \in CallerType /\ Named(again)
    BY <1>0, CountsRange DEF CallerType, Named
  <2>3. rest \in CallerType /\ Named(rest)
    BY <1>0, <1>2, RestingCaller DEF Answers, CallerType, Named, AtRest
  <2> QED BY <1>1, <2>1, <2>2, <2>3
<1>6. RestOK'
  <2> DEFINE w == Complete(c, a)
  <2>1. w \in BOOLEAN /\ a.sure \in BOOLEAN
    BY <1>2 DEF Answers, Complete
  <2>2. paper' = paper \/ paper' = [whole |-> w, sure |-> a.sure]
    BY <1>1
  <2> HIDE DEF w
  <2> QED BY <2>1, <2>2 DEF TypeOK, RestOK, Answered
<1> HIDE DEF b, e
<1>7. CallersOK' /\ BoxesOK' /\ RegOK'
  BY <1>0, <1>3, <1>4, <1>5, BothMove DEF Answered
<1> QED BY <1>6, <1>7 DEF TypeOK

\* What is left of the box a call over the wire gave up on.
LEMMA GivenUpBox ==
  ASSUME TypeOK, NEW b \in Boxes
  PROVE  \E e \in BoxType :
            /\ GivenUp(b) = [box EXCEPT ![b] = e]
            /\ e.last <= e.seq /\ e.run = box[b].run
<1>0. box[b] \in BoxType /\ box[b].last <= box[b].seq /\ box \in [Boxes -> BoxType]
  BY BoxFields DEF TypeOK, BoxesOK
<1>2. CASE box[b].tr = "socket"
  <2> DEFINE r == [box[b] EXCEPT !.lock = Free]
  <2> DEFINE e == Closed(r)
  <2>1. r \in BoxType /\ r.last = box[b].last /\ r.seq = box[b].seq /\ r.run = box[b].run
    BY <1>0 DEF BoxType
  <2>2. Released(b) = [box EXCEPT ![b] = r] /\ Released(b)[b] = r
    BY <1>0, ReleasedBox DEF TypeOK
  <2>3. GivenUp(b) = [box EXCEPT ![b] = e]
    BY <1>0, <1>2, <2>2 DEF GivenUp
  <2> HIDE DEF r
  <2>4. e \in BoxType /\ e.last <= e.seq /\ e.run = box[b].run
    BY <1>0, <2>1, ClosedBox
  <2> QED BY <2>3, <2>4
<1>3. CASE box[b].tr # "socket"
  <2> DEFINE e == [box[b] EXCEPT !.lock = Free]
  <2>1. e \in BoxType /\ e.last <= e.seq /\ e.run = box[b].run
    BY <1>0 DEF BoxType
  <2>2. GivenUp(b) = [box EXCEPT ![b] = e]
    BY <1>0, <1>3, ReleasedBox DEF GivenUp, TypeOK
  <2> QED BY <2>1, <2>2
<1> QED BY <1>2, <1>3

\* The call taken back, the session marked dead and the engine marked dead.
LEMMA VoidedBox ==
  ASSUME BoxesOK, NEW b \in Boxes, NEW seq
  PROVE  /\ [box[b] EXCEPT !.inbox = Cancelled(b, seq)] \in BoxType
         /\ [box[b] EXCEPT !.inbox = Cancelled(b, seq)].last = box[b].last
         /\ [box[b] EXCEPT !.inbox = Cancelled(b, seq)].seq = box[b].seq
         /\ [box[b] EXCEPT !.inbox = Cancelled(b, seq)].run = box[b].run
         /\ [box[b] EXCEPT !.dead = TRUE, !.lost = TRUE] \in BoxType
         /\ [box[b] EXCEPT !.dead = TRUE, !.lost = TRUE].last = box[b].last
         /\ [box[b] EXCEPT !.dead = TRUE, !.lost = TRUE].seq = box[b].seq
         /\ [box[b] EXCEPT !.dead = TRUE, !.lost = TRUE].run = box[b].run
<1>1. box[b] \in BoxType
  BY BoxFields
<1>2. Cancelled(b, seq) \subseteq box[b].inbox
  BY DEF Cancelled
<1>3. PICK q \in SUBSET Requests : q = Cancelled(b, seq)
  BY <1>1, <1>2 DEF BoxType
<1>4. /\ [box[b] EXCEPT !.inbox = q] \in BoxType
      /\ [box[b] EXCEPT !.inbox = q].last = box[b].last
      /\ [box[b] EXCEPT !.inbox = q].seq = box[b].seq
      /\ [box[b] EXCEPT !.inbox = q].run = box[b].run
  BY <1>1 DEF BoxType
<1>5. /\ [box[b] EXCEPT !.dead = TRUE, !.lost = TRUE] \in BoxType
      /\ [box[b] EXCEPT !.dead = TRUE, !.lost = TRUE].last = box[b].last
      /\ [box[b] EXCEPT !.dead = TRUE, !.lost = TRUE].seq = box[b].seq
      /\ [box[b] EXCEPT !.dead = TRUE, !.lost = TRUE].run = box[b].run
  BY <1>1 DEF BoxType
<1> QED BY <1>3, <1>4, <1>5

LEMMA UnansweredType == ASSUME TypeOK, NEW c \in Callers, Unanswered(c) PROVE TypeOK'
<1> DEFINE b == caller[c].box
<1>0. b \in Boxes /\ box[b] \in BoxType /\ box[b].last <= box[b].seq
      /\ caller[c] \in CallerType
  BY CallerFields, BoxFields DEF TypeOK, Unanswered, At, Named
<1>1. CallersOK' /\ BoxesOK' /\ RegOK'
  <2>1. CASE mode = "inproc"
    <3> DEFINE t == [caller[c] EXCEPT !.pc = "mark"]
    <3> DEFINE e == [box[b] EXCEPT !.inbox = Cancelled(b, caller[c].seq)]
    <3>1. t \in CallerType /\ Named(t)
      BY <1>0 DEF CallerType, Named
    <3>2. e \in BoxType /\ e.last <= e.seq /\ e.run = box[b].run
      BY <1>0, VoidedBox DEF TypeOK
    <3>3. caller' = [caller EXCEPT ![c] = t] /\ box' = [box EXCEPT ![b] = e]
      BY <2>1 DEF Unanswered, Goto
    <3> HIDE DEF t, e, b
    <3> QED BY <1>0, <3>1, <3>2, <3>3, BothMove DEF Unanswered
  <2>2. CASE mode # "inproc"
    <3>1. PICK e \in BoxType :
             /\ box' = [box EXCEPT ![b] = e]
             /\ e.last <= e.seq /\ e.run = box[b].run
      BY <1>0, <2>2, GivenUpBox DEF Unanswered
    <3>2. caller' = [caller EXCEPT ![c] = Raised]
      BY <2>2 DEF Unanswered, Raise
    <3> HIDE DEF b
    <3> QED BY <1>0, <3>1, <3>2, BothMove, RestingCaller DEF Unanswered
  <2> QED BY <2>1, <2>2
<1>2. RestOK'
  BY FaultType DEF TypeOK, Unanswered, RestOK
<1> QED BY <1>1, <1>2 DEF TypeOK

LEMMA MarksType == ASSUME TypeOK, NEW c \in Callers, Marks(c) PROVE TypeOK'
<1> DEFINE b == caller[c].box
<1> DEFINE t == [caller[c] EXCEPT !.pc = "void"]
<1> DEFINE e == Killed(box[b])
<1>0. b \in Boxes /\ box[b] \in BoxType /\ box[b].last <= box[b].seq
      /\ caller[c] \in CallerType
  BY CallerFields, BoxFields DEF TypeOK, Marks, At, Named
<1>1. t \in CallerType /\ Named(t)
  BY <1>0 DEF CallerType, Named
<1>2. e \in BoxType /\ e.last <= e.seq /\ e.run = box[b].run
  BY <1>0, KilledBox
<1>3. caller' = [caller EXCEPT ![c] = t] /\ box' = [box EXCEPT ![b] = e]
  BY DEF Marks, Goto
<1> HIDE DEF t, e, b
<1>4. CallersOK' /\ BoxesOK' /\ RegOK'
  BY <1>0, <1>1, <1>2, <1>3, BothMove DEF Marks
<1> QED BY <1>4 DEF TypeOK, Marks, RestOK

LEMMA VoidsType == ASSUME TypeOK, NEW c \in Callers, Voids(c) PROVE TypeOK'
<1> DEFINE b == caller[c].box
<1> DEFINE e == [box[b] EXCEPT !.dead = TRUE, !.lost = TRUE]
<1>0. b \in Boxes /\ box[b].last <= box[b].seq
  BY CallerFields, BoxFields DEF TypeOK, Voids, At, Named
<1>1. e \in BoxType /\ e.last <= e.seq /\ e.run = box[b].run
  BY <1>0, VoidedBox DEF TypeOK
<1>2. caller' = [caller EXCEPT ![c] = Raised] /\ box' = [box EXCEPT ![b] = e]
  BY DEF Voids, Raise
<1> HIDE DEF e, b
<1>3. CallersOK' /\ BoxesOK' /\ RegOK'
  BY <1>0, <1>1, <1>2, BothMove, RestingCaller DEF Voids
<1> QED BY <1>3 DEF TypeOK, Voids, RestOK

\* What the engine makes of a request is a box that answered it.
LEMMA ServedBox ==
  ASSUME TypeOK, NEW b \in Boxes, NEW r \in box[b].inbox
  PROVE  /\ r \in Requests /\ r.seq \in Nat
         /\ [box[b] EXCEPT !.dead = TRUE, !.refusedRetry = @ \/ Duplicate(b, r)] \in BoxType
         /\ Accepts(b, r) => \A n \in Takes(b, r) : Ran(b, r, n) \in BoxType
<1>0. r \in Requests /\ box[b] \in BoxType /\ box[b].held \in Counts
  BY BoxFields DEF TypeOK
<1>1. r.seq \in Nat /\ r.total \in Counts /\ r.pushed \in Counts
  BY <1>0 DEF Requests
<1>2. [box[b] EXCEPT !.dead = TRUE, !.refusedRetry = @ \/ Duplicate(b, r)] \in BoxType
  <2> DEFINE d == box[b].refusedRetry \/ Duplicate(b, r)
  <2>1. d \in BOOLEAN
    BY <1>0 DEF BoxType, Duplicate
  <2> HIDE DEF d
  <2>2. [box[b] EXCEPT !.dead = TRUE, !.refusedRetry = d] \in BoxType
    BY <1>0, <2>1 DEF BoxType
  <2> QED BY <2>2 DEF d
<1>3. ASSUME Accepts(b, r), NEW n \in Takes(b, r) PROVE Ran(b, r, n) \in BoxType
  <2> DEFINE w == box[b].warmed \/ r.op = "warm"
  <2> DEFINE h == box[b].held + n
  <2>1. w \in BOOLEAN
    BY <1>0 DEF BoxType
  <2>2. h \in Counts
    <3>1. n = 0 \/ (r.op = "tick" /\ r.total > 0 /\ n = r.total - r.pushed)
      BY <1>3 DEF Takes, Taken
    <3>2. CASE n = 0
      BY <1>0, <3>2, SessionAssumption DEF Counts
    <3>3. CASE r.op = "tick" /\ r.total > 0 /\ n = r.total - r.pushed
      BY <1>0, <1>1, <1>3, <3>3, SessionAssumption DEF Accepts, InSync, Counts
    <3> QED BY <3>1, <3>2, <3>3
  <2>3. Ran(b, r, n) = [box[b] EXCEPT !.warmed = w, !.held = h]
    BY <1>0 DEF Ran, BoxType
  <2> HIDE DEF w, h
  <2> QED BY <1>0, <2>1, <2>2, <2>3 DEF BoxType
<1> QED BY <1>0, <1>1, <1>2, <1>3

LEMMA RepliedBox ==
  ASSUME NEW b, NEW e \in BoxType, NEW seq \in Nat, NEW ok \in BOOLEAN
  PROVE  /\ Replied(b, e, seq, ok) \in BoxType
         /\ Replied(b, e, seq, ok).last = seq /\ Replied(b, e, seq, ok).seq = e.seq
         /\ Replied(b, e, seq, ok).run = e.run /\ Replied(b, e, seq, ok).tr = e.tr
         /\ Replied(b, e, seq, ok).lock = e.lock /\ Replied(b, e, seq, ok).dead = e.dead
         /\ Replied(b, e, seq, ok).lost = e.lost
         /\ Replied(b, e, seq, ok).refusedRetry = e.refusedRetry
<1> DEFINE a == [seq |-> seq, ok |-> ok, held |-> e.held, warmed |-> e.warmed,
                 sure |-> ~e.lost]
<1> DEFINE left_ == {r \in e.inbox : r.seq # seq}
<1> DEFINE out == IF ~Waiting(b, seq) \/ (mode = "socket" /\ e.tr = "dead")
                  THEN e.outbox ELSE e.outbox \cup {a}
<1>1. a \in Answers
  <2>1. (~e.lost) \in BOOLEAN
    OBVIOUS
  <2> QED BY <2>1 DEF Answers, BoxType
<1>2. left_ \subseteq Requests
  BY DEF BoxType
<1>3. out \subseteq Answers
  BY <1>1 DEF BoxType
<1>4. Replied(b, e, seq, ok) = [e EXCEPT !.last = seq, !.inbox = left_, !.outbox = out]
  BY DEF Replied, BoxType
<1> HIDE DEF out, left_, a
<1> QED BY <1>2, <1>3, <1>4 DEF BoxType

LEMMA ServeType ==
  ASSUME TypeOK, NEW b \in Boxes, Serve(b),
         \A q \in box[b].inbox : q.seq <= box[b].seq
  PROVE  TypeOK'
<1>1. PICK r \in box[b].inbox :
        \/ box' = [box EXCEPT ![b] = Gone(b)]
        \/ /\ Accepts(b, r)
           /\ \E n \in Takes(b, r) :
                 box' = [box EXCEPT ![b] = Replied(b, Ran(b, r, n), r.seq, TRUE)]
        \/ box' = [box EXCEPT ![b] =
                     Replied(b, [box[b] EXCEPT !.dead = TRUE,
                                               !.refusedRetry = @ \/ Duplicate(b, r)],
                             r.seq, FALSE)]
  BY DEF Serve
<1>2. UNCHANGED <<mode, bars, reg, caller, paper>> /\ (UNCHANGED left \/ Fault)
  BY DEF Serve
<1>3. BoxesOK' /\ RegOK'
  <2>1. CASE box' = [box EXCEPT ![b] = Gone(b)]
    BY <1>2, <2>1, GoneMoves DEF TypeOK
  <2>2. ASSUME NEW e \in BoxType, e.run = box[b].run, e.seq = box[b].seq, NEW ok \in BOOLEAN,
               box' = [box EXCEPT ![b] = Replied(b, e, r.seq, ok)]
        PROVE  BoxesOK' /\ RegOK'
    <3> DEFINE f == Replied(b, e, r.seq, ok)
    <3>1. f \in BoxType /\ f.last <= f.seq /\ f.run = "up"
      <4>1. r.seq \in Nat /\ r.seq <= e.seq /\ e.run = "up"
        BY <2>2, ServedBox DEF Serve, Up
      <4>2. f \in BoxType /\ f.last = r.seq /\ f.seq = e.seq /\ f.run = e.run
        BY <2>2, <4>1, RepliedBox
      <4> QED BY <4>1, <4>2
    <3> HIDE DEF f
    <3>2. box' = [box EXCEPT ![b] = f]
      BY <2>2 DEF f
    <3> QED BY <1>2, <3>1, <3>2, BoxMoves DEF TypeOK
  <2>3. \A n : Ran(b, r, n).run = box[b].run /\ Ran(b, r, n).seq = box[b].seq
    BY BoxFields DEF TypeOK, Ran, BoxType
  <2> DEFINE d == [box[b] EXCEPT !.dead = TRUE, !.refusedRetry = @ \/ Duplicate(b, r)]
  <2>4. d \in BoxType /\ d.run = box[b].run /\ d.seq = box[b].seq
    <3>1. d \in BoxType
      BY ServedBox
    <3>2. PICK x \in BoxType : x = box[b]
      BY BoxFields DEF TypeOK
    <3>3. PICK u : u = (box[b].refusedRetry \/ Duplicate(b, r))
      OBVIOUS
    <3>4. d = [x EXCEPT !.dead = TRUE, !.refusedRetry = u]
      BY <3>2, <3>3 DEF BoxType
    <3>5. d.run = x.run /\ d.seq = x.seq
      BY <3>2, <3>4 DEF BoxType
    <3> QED BY <3>1, <3>2, <3>5
  <2>5. ASSUME Accepts(b, r), NEW n \in Takes(b, r),
               box' = [box EXCEPT ![b] = Replied(b, Ran(b, r, n), r.seq, TRUE)]
        PROVE  BoxesOK' /\ RegOK'
    BY <2>2, <2>3, <2>5, ServedBox
  <2>6. CASE box' = [box EXCEPT ![b] = Replied(b, d, r.seq, FALSE)]
    BY <2>2, <2>4, <2>6
  <2> QED BY <1>1, <2>1, <2>5, <2>6
<1>4. CallersOK' /\ RestOK'
  BY <1>2, FaultType DEF TypeOK, CallersOK, RestOK
<1> QED BY <1>3, <1>4 DEF TypeOK

LEMMA ExitType ==
  ASSUME TypeOK, NEW b \in Boxes, IdleExit(b) \/ BoxDies(b) PROVE TypeOK'
<1>1. box' = [box EXCEPT ![b] = Gone(b)] /\ UNCHANGED <<mode, bars, reg, caller, paper>>
  BY DEF IdleExit, BoxDies
<1>2. BoxesOK' /\ RegOK'
  BY <1>1, GoneMoves DEF TypeOK
<1>3. CallersOK' /\ RestOK'
  BY <1>1, FaultType DEF TypeOK, CallersOK, RestOK, IdleExit, BoxDies
<1> QED BY <1>2, <1>3 DEF TypeOK

LEMMA ServiceRestartsType == ASSUME TypeOK, ServiceRestarts PROVE TypeOK'
<1>1. BoxesOK'
  BY BoxFields, GoneBox DEF TypeOK, ServiceRestarts, BoxesOK
<1>2. CallersOK'
  BY RestingCaller DEF TypeOK, ServiceRestarts, CallersOK
<1>3. RegOK' /\ RestOK'
  BY FaultType DEF TypeOK, ServiceRestarts, RegOK, RestOK
<1> QED BY <1>1, <1>2, <1>3 DEF TypeOK

\* Every step keeps the types, as long as the numbers in a live inbox are its own.
LEMMA TypeStep ==
  ASSUME TypeOK, [Next]_vars,
         \A b \in Boxes : Up(b) => \A q \in box[b].inbox : q.seq <= box[b].seq
  PROVE  TypeOK'
<1>1. CASE ServiceRestarts
  BY <1>1, ServiceRestartsType
<1>2. ASSUME NEW c \in Callers, Tick(c) \/ Step(c) PROVE TypeOK'
  BY <1>2, TickType, StopAsksType, StopKillsType, KillLabelledType, LaunchType, ReadyType,
     NotReadyType, LookupType, AcquireType, BusyType, SendType, QueueType, AnsweredType,
     UnansweredType, MarksType, VoidsType DEF Step
<1>3. ASSUME NEW b \in Boxes, Run(b) \/ IdleExit(b) \/ BoxDies(b) PROVE TypeOK'
  BY <1>3, BuildsType, ServeType, ExitType DEF Run, Serve
<1>4. CASE UNCHANGED vars
  BY <1>4 DEF vars, TypeOK, BoxesOK, CallersOK, RegOK, RestOK
<1> QED BY <1>1, <1>2, <1>3, <1>4 DEF Next

-----------------------------------------------------------------------------
(* The numbered exchange.                                                  *)

\* Sequence numbers only go up: what waits in an inbox is above what was
\* answered, and what was answered was numbered before.
Numbered(e) ==
    /\ \A r \in e.inbox : e.last < r.seq /\ r.seq <= e.seq
    /\ \A a \in e.outbox : a.seq <= e.last

\* A box that lost an answer gives no other: its socket is closed for good, or
\* its engine is dead.
Silenced(e, m) ==
    /\ e.tr = "socket" => m = "socket"
    /\ e.lost => (m = "socket" /\ e.tr = "dead") \/ (m = "inproc" /\ e.dead)
    /\ \A a \in e.outbox : a.ok => a.sure

Good(e, m) ==
    /\ e.run = "gone" => e.tr = "dead"
    /\ e.run = "none" => ~e.lost
    /\ e.run # "gone" => Numbered(e)
    /\ Silenced(e, m) /\ ~e.refusedRetry

\* Who sends or waits holds the box's lock, with a number the box gave out; who
\* is about to send on a live transport is ahead of all that was sent.
Calling(c) == At(c, "send") \/ At(c, "wait")
Turn(c) ==
    LET e == box[caller[c].box] IN
    /\ At(c, "lock") \/ At(c, "send") => mode # "inproc"
    /\ At(c, "queue") \/ At(c, "mark") \/ At(c, "void") => mode = "inproc"
    /\ Calling(c) => /\ mode # "inproc" => e.lock = c
                     /\ e.run # "gone" => caller[c].seq <= e.seq
    /\ At(c, "send") /\ e.tr # "dead"
         => e.last < caller[c].seq /\ \A r \in e.inbox : r.seq < caller[c].seq

\* What carries the number a caller waits on is its own question, or the answer
\* to it.
Own(c) ==
    LET e == box[caller[c].box] IN
    At(c, "wait") =>
       /\ e.run # "gone" => \A r \in e.inbox : r.seq = caller[c].seq
             => r.op = caller[c].op /\ r.total = caller[c].total
       /\ \A a \in e.outbox : a.seq = caller[c].seq /\ a.ok /\ caller[c].op = "tick"
             => Complete(c, a)

\* A thread only ever holds a box that was launched.
Launched(c) ==
    caller[c].pc \in {"kill", "ready", "lock", "send", "queue", "wait", "mark", "void"}
        => box[caller[c].box].run # "none"

SessionInv ==
    /\ \A b \in Boxes : Good(box[b], mode)
    /\ \A c \in Callers : Turn(c) /\ Own(c) /\ Launched(c)
    /\ paper.whole /\ paper.sure

\* An answer a to a tick that pushed total bars of the day is whole.
Made(a, total) == a.warmed /\ (a.held = 0 \/ total \in {0, a.held})

\* A box may change from x to y under the feet of a caller that sends or waits.
Keeps(x, y, m) ==
    /\ m # "inproc" => y.lock = x.lock
    /\ y.run # "gone" =>
         /\ x.run # "gone" /\ x.seq <= y.seq
         /\ \A r \in y.inbox : r \in x.inbox \/ r.seq > x.seq
    /\ m # "inproc" /\ y.tr # "dead" =>
         /\ x.tr # "dead" /\ y.inbox \subseteq x.inbox
         /\ y.last = x.last \/ \E r \in x.inbox : y.last = r.seq
    /\ \A a \in y.outbox :
         \/ a \in x.outbox
         \/ x.run # "gone" /\ \E r \in x.inbox :
              a.seq = r.seq /\ (a.ok /\ r.op = "tick" => Made(a, r.total))

LEMMA SameKeeps == ASSUME NEW x \in BoxType, NEW m PROVE Keeps(x, x, m)
  BY DEF Keeps, BoxType

\* A caller that did not move keeps its turn and its own.
LEMMA OthersStep ==
  ASSUME TypeOK, TypeOK', SessionInv, NEW d \in Callers, mode' = mode, caller'[d] = caller[d],
         Calling(d) => Keeps(box[caller[d].box], box'[caller[d].box], mode),
         \A b \in Boxes : box[b].run # "none" => box'[b].run # "none"
  PROVE  Turn(d)' /\ Own(d)' /\ Launched(d)'
<1> DEFINE b == caller[d].box
<1> DEFINE x == box[b]
<1> DEFINE y == box'[b]
<1>0. /\ caller[d] \in CallerType /\ Named(caller[d])
      /\ Turn(d) /\ Own(d) /\ Launched(d)
  BY CallerFields DEF TypeOK, SessionInv
<1>1. CASE ~Calling(d)
  BY <1>0, <1>1 DEF Turn, Own, Launched, Calling, At, Named
<1>2. CASE Calling(d)
  <2>1. b \in Boxes /\ Keeps(x, y, mode)
    BY <1>0, <1>2 DEF Calling, At, Named
  <2>2. /\ x \in BoxType /\ x.last \in Nat /\ x.seq \in Nat /\ x.inbox \subseteq Requests
        /\ y \in BoxType /\ y.last \in Nat /\ y.seq \in Nat /\ y.inbox \subseteq Requests
        /\ caller[d].seq \in Nat
    BY <1>0, <2>1 DEF TypeOK, BoxesOK, BoxType, CallerType
  <2>3. \A r \in Requests : r.seq \in Nat
    BY DEF Requests
  <2>4. caller'[d].box = b /\ caller'[d].pc = caller[d].pc /\ caller'[d].seq = caller[d].seq
    OBVIOUS
  <2>5. (At(d, "lock") <=> At(d, "lock")') /\ (At(d, "send") <=> At(d, "send")')
        /\ (At(d, "queue") <=> At(d, "queue")') /\ (At(d, "wait") <=> At(d, "wait")')
        /\ (At(d, "mark") <=> At(d, "mark")') /\ (At(d, "void") <=> At(d, "void")')
    BY DEF At
  <2> HIDE DEF b, x, y
  <2>6. mode # "inproc" => y.lock = d
    BY <1>0, <1>2, <2>1 DEF Turn, Keeps, x, b
  <2>7. y.run # "gone" => caller[d].seq <= y.seq
    <3>1. y.run # "gone" => x.run # "gone" /\ x.seq <= y.seq /\ caller[d].seq <= x.seq
      BY <1>0, <1>2, <2>1 DEF Turn, Keeps, x, b
    <3> QED BY <2>2, <3>1
  <2>8. ASSUME At(d, "send"), y.tr # "dead"
        PROVE  y.last < caller[d].seq /\ \A r \in y.inbox : r.seq < caller[d].seq
    BY <1>0, <2>1, <2>8 DEF Turn, Keeps, x, b
  <2>9. Turn(d)'
    BY <1>0, <2>4, <2>5, <2>6, <2>7, <2>8 DEF Turn, Calling, x, y, b
  <2>10. ASSUME At(d, "wait"), y.run # "gone", NEW r \in y.inbox, r.seq = caller[d].seq
         PROVE  r.op = caller[d].op /\ r.total = caller[d].total
    <3>1. x.run # "gone" /\ caller[d].seq <= x.seq /\ (r \in x.inbox \/ r.seq > x.seq)
      BY <1>0, <1>2, <2>1, <2>10 DEF Turn, Keeps, x, b
    <3>2. r \in x.inbox
      BY <2>2, <2>3, <2>10, <3>1
    <3> QED BY <1>0, <2>10, <3>1, <3>2 DEF Own, x, b
  <2>11. ASSUME At(d, "wait"), NEW a \in y.outbox, a.seq = caller[d].seq, a.ok,
                caller[d].op = "tick"
         PROVE  Complete(d, a)
    <3>1. CASE a \in x.outbox
      BY <1>0, <2>11, <3>1 DEF Own, x, b
    <3>2. CASE a \notin x.outbox
      <4>1. PICK r \in x.inbox :
               a.seq = r.seq /\ (a.ok /\ r.op = "tick" => Made(a, r.total))
        BY <2>1, <3>2 DEF Keeps
      <4>2. x.run # "gone"
        BY <2>1, <3>2 DEF Keeps
      <4>3. r.op = "tick" /\ r.total = caller[d].total
        BY <1>0, <2>11, <4>1, <4>2 DEF Own, x, b
      <4> QED BY <2>11, <4>1, <4>3 DEF Complete, Made
    <3> QED BY <3>1, <3>2
  <2>12. Own(d)'
    BY <2>4, <2>5, <2>10, <2>11 DEF Own, Complete, x, y, b
  <2>13. Launched(d)'
    BY <1>0, <2>1, <2>4 DEF Launched, b
  <2> QED BY <2>9, <2>12, <2>13
<1> QED BY <1>1, <1>2

\* A thread that holds no box has nothing to keep.
LEMMA AtEase ==
  ASSUME NEW c \in Callers,
         caller'[c].pc \notin {"kill", "ready", "lock", "send", "queue", "wait", "mark", "void"}
  PROVE  Turn(c)' /\ Own(c)' /\ Launched(c)'
  BY DEF Turn, Own, Launched, Calling, At

LEMMA RaisedAtEase == ASSUME TypeOK, NEW c \in Callers, Raise(c) PROVE Turn(c)' /\ Own(c)' /\ Launched(c)'
<1>1. caller'[c].pc = "stop"
  BY DEF TypeOK, CallersOK, Raise, Raised, AtRest
<1> QED BY <1>1, AtEase

\* The invariant follows from the boxes that changed and the callers that moved.
LEMMA SessionStep ==
  ASSUME TypeOK, TypeOK', SessionInv, mode' = mode, paper'.whole, paper'.sure,
         \A b \in Boxes : Good(box'[b], mode) /\ (box[b].run # "none" => box'[b].run # "none"),
         \A d \in Callers :
            \/ Turn(d)' /\ Own(d)' /\ Launched(d)'
            \/ /\ caller'[d] = caller[d]
               /\ Calling(d) => Keeps(box[caller[d].box], box'[caller[d].box], mode)
  PROVE  SessionInv'
<1>1. \A d \in Callers : Turn(d)' /\ Own(d)' /\ Launched(d)'
  BY OthersStep
<1> QED BY <1>1 DEF SessionInv

\* No box changes.
LEMMA CallerStep ==
  ASSUME TypeOK, TypeOK', SessionInv, UNCHANGED <<mode, box, paper>>, NEW c \in Callers,
         \A d \in Callers \ {c} : caller'[d] = caller[d],
         Turn(c)' /\ Own(c)' /\ Launched(c)'
  PROVE  SessionInv'
<1>1. ASSUME NEW d \in Callers, caller'[d] = caller[d], Calling(d)
      PROVE  Keeps(box[caller[d].box], box'[caller[d].box], mode)
  <2>1. caller[d].box \in Boxes
    BY <1>1, CallerFields DEF TypeOK, Calling, At, Named
  <2> QED BY <2>1, BoxFields, SameKeeps DEF TypeOK
<1>2. \A b \in Boxes : Good(box'[b], mode) /\ (box[b].run # "none" => box'[b].run # "none")
  BY DEF SessionInv
<1>3. paper'.whole /\ paper'.sure /\ mode' = mode
  BY DEF SessionInv
<1> QED BY <1>1, <1>2, <1>3, SessionStep

\* One box changes.
LEMMA BoxStep ==
  ASSUME TypeOK, TypeOK', SessionInv, mode' = mode, paper'.whole, paper'.sure,
         NEW b \in Boxes, NEW e, box' = [box EXCEPT ![b] = e], Good(e, mode),
         box[b].run # "none" => e.run # "none",
         \A d \in Callers :
            \/ Turn(d)' /\ Own(d)' /\ Launched(d)'
            \/ caller'[d] = caller[d] /\ (Calling(d) /\ caller[d].box = b => Keeps(box[b], e, mode))
  PROVE  SessionInv'
<1>0. box'[b] = e /\ \A a \in Boxes \ {b} : box'[a] = box[a]
  BY DEF TypeOK, BoxesOK
<1>1. ASSUME NEW d \in Callers, ~(Turn(d)' /\ Own(d)' /\ Launched(d)'), Calling(d)
      PROVE  Keeps(box[caller[d].box], box'[caller[d].box], mode)
  <2>1. caller[d].box \in Boxes
    BY <1>1, CallerFields DEF TypeOK, Calling, At, Named
  <2>2. CASE caller[d].box = b
    BY <1>0, <1>1, <2>2
  <2>3. CASE caller[d].box # b
    BY <1>0, <2>1, <2>3, BoxFields, SameKeeps DEF TypeOK
  <2> QED BY <2>2, <2>3
<1>2. \A a \in Boxes : Good(box'[a], mode) /\ (box[a].run # "none" => box'[a].run # "none")
  BY <1>0 DEF SessionInv
<1> QED BY <1>1, <1>2, SessionStep

\* One box and one caller.
LEMMA MoveStep ==
  ASSUME TypeOK, TypeOK', SessionInv, mode' = mode, paper'.whole, paper'.sure,
         NEW b \in Boxes, NEW e, box' = [box EXCEPT ![b] = e], Good(e, mode),
         box[b].run # "none" => e.run # "none",
         NEW c \in Callers, \A d \in Callers \ {c} : caller'[d] = caller[d],
         \A d \in Callers \ {c} : Calling(d) /\ caller[d].box = b => Keeps(box[b], e, mode),
         Turn(c)' /\ Own(c)' /\ Launched(c)'
  PROVE  SessionInv'
<1>1. \A d \in Callers :
         \/ Turn(d)' /\ Own(d)' /\ Launched(d)'
         \/ caller'[d] = caller[d] /\ (Calling(d) /\ caller[d].box = b => Keeps(box[b], e, mode))
  OBVIOUS
<1> QED BY <1>1, BoxStep

\* Over a container's lock callers take turns.
LEMMA Alone ==
  ASSUME TypeOK, SessionInv, mode # "inproc", NEW c \in Callers, NEW d \in Callers,
         Calling(d), caller[c].box = caller[d].box,
         Calling(c) \/ box[caller[c].box].lock = Free
  PROVE  c = d
  BY SessionAssumption DEF SessionInv, Turn

LEMMA GoneGood ==
  ASSUME TypeOK, SessionInv, NEW b \in Boxes
  PROVE  Good(Gone(b), mode) /\ Keeps(box[b], Gone(b), mode)
<1>1. Good(box[b], mode)
  BY DEF SessionInv
<1> QED BY <1>1, GoneBox DEF TypeOK, Good, Silenced, Keeps

LEMMA InitSession == ASSUME Init PROVE SessionInv
<1>1. \A m : Good(Unlaunched, m)
  BY DEF Unlaunched, Good, Numbered, Silenced
<1> QED BY <1>1 DEF Init, SessionInv, AtRest, Turn, Own, Launched, Calling, At
LEMMA OneCaller ==
  ASSUME TypeOK, NEW c \in Callers, NEW t, caller' = [caller EXCEPT ![c] = t]
  PROVE  caller'[c] = t /\ \A d \in Callers \ {c} : caller'[d] = caller[d]
  BY DEF TypeOK, CallersOK

LEMMA TickSession ==
  ASSUME TypeOK, TypeOK', SessionInv, NEW c \in Callers, Tick(c) PROVE SessionInv'
<1>1. caller'[c].pc \in {"lookup", "stop"} /\ \A d \in Callers \ {c} : caller'[d] = caller[d]
  <2>1. PICK n \in Counts, next \in {"launch", "label"} :
           caller' = [caller EXCEPT ![c] = Call(c, n)]
           \/ caller' = [caller EXCEPT ![c] = Make(c, n, next)]
    BY TickMoves
  <2>2. Call(c, n).pc = "lookup" /\ Make(c, n, next).pc = "stop"
    BY CallerFields DEF TypeOK, Call, Make, CallerType
  <2> QED BY <2>1, <2>2, OneCaller
<1> QED BY <1>1, AtEase, CallerStep DEF Tick

LEMMA RaisesSession ==
  ASSUME TypeOK, TypeOK', SessionInv, NEW c \in Callers, Raise(c), UNCHANGED <<mode, box, paper>>
  PROVE  SessionInv'
<1>1. \A d \in Callers \ {c} : caller'[d] = caller[d]
  BY DEF TypeOK, CallersOK, Raise
<1> QED BY <1>1, RaisedAtEase, CallerStep

LEMMA StopAsksSession ==
  ASSUME TypeOK, TypeOK', SessionInv, NEW c \in Callers, StopAsks(c) PROVE SessionInv'
<1>0. \A d \in Callers \ {c} : caller'[d] = caller[d]
  BY DEF TypeOK, CallersOK, StopAsks, Goto
<1>1. CASE reg = NoBox
  <2>1. caller'[c].pc \in {"idle", "label", "launch"}
    BY <1>1, CallerFields DEF TypeOK, CallersOK, StopAsks, Goto, CallerType
  <2> QED BY <1>0, <1>1, <2>1, AtEase, CallerStep DEF StopAsks
<1>2. CASE reg # NoBox
  <2> DEFINE x == box[reg]
  <2> DEFINE n == x.seq + 1
  <2> DEFINE r == [seq |-> n, op |-> "stop", pushed |-> 0, total |-> 0]
  <2> DEFINE e == [Killed(x) EXCEPT !.seq = n, !.inbox = @ \cup {r}]
  <2>0. reg \in Boxes /\ x \in BoxType /\ x.run # "none" /\ x.last <= x.seq /\ x.seq \in Nat
        /\ x.last \in Nat /\ Good(x, mode)
    BY <1>2, BoxFields DEF TypeOK, RegOK, SessionInv
  <2>1. n \in Nat /\ x.last < n /\ x.seq < n /\ r.seq = n
    BY <2>0
  <2>2. box' = [box EXCEPT ![reg] = e]
    BY <1>2 DEF StopAsks
  <2> HIDE DEF x, n, r
  <2>3. /\ e.run = x.run /\ e.seq = n /\ e.tr = "dead" /\ e.lock = x.lock /\ e.dead = x.dead
        /\ e.last = x.last /\ e.lost = x.lost /\ e.refusedRetry = x.refusedRetry
        /\ e.inbox = x.inbox \cup {r} /\ e.outbox = x.outbox
    BY <2>0 DEF Killed, BoxType
  <2> HIDE DEF e
  <2>4. \A q \in x.inbox : q.seq \in Nat
    BY <2>0 DEF BoxType, Requests
  <2>5. Good(e, mode)
    <3>1. e.run # "gone" => Numbered(e)
      BY <2>0, <2>1, <2>3, <2>4 DEF Good, Numbered
    <3> QED BY <2>0, <2>3, <3>1 DEF Good, Silenced
  <2>6. Keeps(x, e, mode)
    BY <2>0, <2>1, <2>3 DEF Keeps
  <2>7. Turn(c)' /\ Own(c)' /\ Launched(c)'
    <3>1. CASE mode = "inproc"
      <4> DEFINE t == [caller[c] EXCEPT !.pc = caller[c].then]
      <4>1. t.pc \in {"idle", "label", "launch"}
        BY CallerFields DEF TypeOK, CallerType
      <4>2. caller' = [caller EXCEPT ![c] = t]
        BY <1>2, <3>1 DEF StopAsks, Goto
      <4> HIDE DEF t
      <4> QED BY <4>1, <4>2, OneCaller, AtEase
    <3>2. CASE mode # "inproc"
      <4> DEFINE t == [caller[c] EXCEPT !.pc = "kill", !.box = reg]
      <4>1. t.pc = "kill" /\ t.box = reg
        BY CallerFields DEF TypeOK, CallerType
      <4>2. caller' = [caller EXCEPT ![c] = t]
        BY <1>2, <3>2 DEF StopAsks
      <4> HIDE DEF t
      <4>3. caller'[c].pc = "kill" /\ caller'[c].box = reg
        BY <4>1, <4>2, OneCaller
      <4>4. box'[reg].run # "none"
        BY <2>0, <2>2, <2>3 DEF TypeOK, BoxesOK
      <4> QED BY <4>3, <4>4 DEF Turn, Own, Launched, Calling, At
    <3> QED BY <3>1, <3>2
  <2>8. mode' = mode /\ paper' = paper
    BY DEF StopAsks
  <2> QED BY <1>0, <2>0, <2>2, <2>3, <2>5, <2>6, <2>7, <2>8, BoxStep DEF SessionInv, x
<1> QED BY <1>1, <1>2

\* A box dies; whoever used it still has what it had.
LEMMA DiesSession ==
  ASSUME TypeOK, TypeOK', SessionInv, NEW b \in Boxes, box' = [box EXCEPT ![b] = Gone(b)],
         UNCHANGED <<mode, paper>>,
         \A d \in Callers : caller'[d] = caller[d] \/ (Turn(d)' /\ Own(d)' /\ Launched(d)')
  PROVE  SessionInv'
<1> DEFINE e == Gone(b)
<1>1. Good(e, mode) /\ Keeps(box[b], e, mode) /\ e.run # "none"
  BY GoneGood, GoneBox DEF TypeOK
<1>2. box' = [box EXCEPT ![b] = e]
  OBVIOUS
<1> HIDE DEF e
<1> QED BY <1>1, <1>2, BoxStep DEF SessionInv

LEMMA StopKillsSession ==
  ASSUME TypeOK, TypeOK', SessionInv, NEW c \in Callers, StopKills(c) PROVE SessionInv'
<1>0. \A d \in Callers \ {c} : caller'[d] = caller[d]
  BY DEF TypeOK, CallersOK, StopKills
<1>1. caller'[c].pc \in {"idle", "label", "launch"}
  BY CallerFields DEF TypeOK, CallersOK, StopKills, CallerType
<1>2. caller[c].box \in Boxes
  BY CallerFields DEF TypeOK, StopKills, At, Named
<1> QED BY <1>0, <1>1, <1>2, AtEase, CallerStep, DiesSession DEF StopKills

LEMMA KillLabelledSession ==
  ASSUME TypeOK, TypeOK', SessionInv, NEW c \in Callers, KillLabelled(c) PROVE SessionInv'
<1>0. \A d \in Callers \ {c} : caller'[d] = caller[d]
  BY DEF TypeOK, CallersOK, KillLabelled, Goto
<1>1. Turn(c)' /\ Own(c)' /\ Launched(c)'
  BY CallerFields, AtEase DEF TypeOK, CallersOK, KillLabelled, Goto, CallerType
<1>2. \A b \in Boxes : box'[b] = box[b] \/ box'[b] = Gone(b)
  BY DEF KillLabelled
<1>3. \A b \in Boxes : Good(box'[b], mode) /\ Keeps(box[b], box'[b], mode)
                       /\ (box[b].run # "none" => box'[b].run # "none")
  BY <1>2, GoneGood, GoneBox, BoxFields, SameKeeps DEF TypeOK, SessionInv
<1>4. \A d \in Callers : Calling(d) => caller[d].box \in Boxes
  BY CallerFields DEF TypeOK, Calling, At, Named
<1> QED BY <1>0, <1>1, <1>3, <1>4, SessionStep DEF KillLabelled, SessionInv

LEMMA ServiceRestartsSession ==
  ASSUME TypeOK, TypeOK', SessionInv, ServiceRestarts PROVE SessionInv'
<1>1. \A d \in Callers : Turn(d)' /\ Own(d)' /\ Launched(d)'
  <2>1. \A d \in Callers : caller'[d].pc \in {"idle", "stop"}
    BY DEF ServiceRestarts, Raised, AtRest, At
  <2> QED BY <2>1, AtEase
<1>2. \A b \in Boxes : box'[b] = box[b] \/ box'[b] = Gone(b)
  BY DEF ServiceRestarts
<1>3. \A b \in Boxes : Good(box'[b], mode) /\ (box[b].run # "none" => box'[b].run # "none")
  BY <1>2, GoneGood, GoneBox DEF TypeOK, SessionInv
<1> QED BY <1>1, <1>3, SessionStep DEF ServiceRestarts, SessionInv

LEMMA LaunchSession ==
  ASSUME TypeOK, TypeOK', SessionInv, NEW c \in Callers, Launch(c) PROVE SessionInv'
<1>1. CASE Raise(c) /\ UNCHANGED <<reg, box>>
  BY <1>1, RaisesSession DEF Launch
<1>2. ASSUME NEW b \in Boxes, box[b].run = "none",
             box' = [box EXCEPT ![b] = [@ EXCEPT !.run = "building", !.tr = "file"]],
             caller' = [caller EXCEPT ![c] = [@ EXCEPT !.pc = "ready", !.box = b]]
      PROVE  SessionInv'
  <2> DEFINE x == box[b]
  <2> DEFINE e == [x EXCEPT !.run = "building", !.tr = "file"]
  <2>0. x \in BoxType /\ Good(x, mode)
    BY BoxFields DEF TypeOK, SessionInv
  <2>1. box' = [box EXCEPT ![b] = e]
    BY <1>2
  <2>2. e.run = "building" /\ Good(e, mode)
    BY <1>2, <2>0 DEF BoxType, Good, Numbered, Silenced
  <2> HIDE DEF x, e
  <2>3. Turn(c)' /\ Own(c)' /\ Launched(c)'
    <3>1. caller'[c].pc = "ready" /\ caller'[c].box = b
      BY <1>2, CallerFields DEF TypeOK, CallersOK, CallerType
    <3>2. box'[b].run # "none"
      BY <2>1, <2>2 DEF TypeOK, BoxesOK
    <3> QED BY <3>1, <3>2 DEF Turn, Own, Launched, Calling, At
  <2>4. \A d \in Callers \ {c} : caller'[d] = caller[d] /\ ~(Calling(d) /\ caller[d].box = b)
    BY <1>2 DEF TypeOK, CallersOK, SessionInv, Launched, Calling, At
  <2>5. mode' = mode /\ paper' = paper
    BY DEF Launch
  <2> QED BY <2>1, <2>2, <2>3, <2>4, <2>5, BoxStep DEF SessionInv
<1> QED BY <1>1, <1>2 DEF Launch

LEMMA BuildsSession ==
  ASSUME TypeOK, TypeOK', SessionInv, NEW b \in Boxes, Builds(b) PROVE SessionInv'
<1>1. CASE box' = [box EXCEPT ![b].run = "up"]
  <2> DEFINE e == [box[b] EXCEPT !.run = "up"]
  <2>1. box[b] \in BoxType /\ Good(box[b], mode) /\ box' = [box EXCEPT ![b] = e]
        /\ box[b].run = "building"
    BY <1>1, BoxFields DEF TypeOK, SessionInv, Builds
  <2>2. e.run = "up" /\ Good(e, mode) /\ Keeps(box[b], e, mode)
    BY <2>1 DEF BoxType, Good, Numbered, Silenced, Keeps
  <2> HIDE DEF e
  <2> QED BY <2>1, <2>2, BoxStep DEF Builds, SessionInv
<1>2. CASE box' = [box EXCEPT ![b] = Gone(b)]
  BY <1>2, DiesSession DEF Builds
<1> QED BY <1>1, <1>2 DEF Builds

LEMMA ReadySession ==
  ASSUME TypeOK, TypeOK', SessionInv, NEW c \in Callers, Ready(c) PROVE SessionInv'
<1> DEFINE b == caller[c].box
<1> DEFINE x == box[b]
<1>1. PICK tr \in {mode, "file"} :
        /\ box' = [box EXCEPT ![b].tr = IF @ = "dead" THEN "dead" ELSE tr]
        /\ caller' = [caller EXCEPT ![c] = [@ EXCEPT !.pc = "lookup", !.op = "warm", !.via = tr]]
  BY DEF Ready
<1> DEFINE e == [x EXCEPT !.tr = IF @ = "dead" THEN "dead" ELSE tr]
<1>2. b \in Boxes /\ x \in BoxType /\ x.run = "up" /\ Good(x, mode)
  BY CallerFields, BoxFields DEF TypeOK, Ready, At, Named, Up, SessionInv
<1>3. box' = [box EXCEPT ![b] = e]
  BY <1>1
<1>4. Turn(c)' /\ Own(c)' /\ Launched(c)'
  BY <1>1, CallerFields, AtEase DEF TypeOK, CallersOK, CallerType
<1>5. \A d \in Callers \ {c} : caller'[d] = caller[d]
  BY <1>1 DEF TypeOK, CallersOK
<1>6. e.run = "up" /\ Good(e, mode) /\ Keeps(x, e, mode)
  BY <1>2 DEF BoxType, Good, Numbered, Silenced, Keeps
<1>7. mode' = mode /\ paper' = paper
  BY DEF Ready
<1> HIDE DEF e, b
<1> QED BY <1>2, <1>3, <1>4, <1>5, <1>6, <1>7, BoxStep DEF SessionInv

LEMMA LookupSession ==
  ASSUME TypeOK, TypeOK', SessionInv, NEW c \in Callers, Lookup(c) PROVE SessionInv'
<1>1. CASE reg = NoBox
  BY <1>1, RaisesSession DEF Lookup
<1>2. CASE reg # NoBox
  <2>1. /\ caller'[c].box = reg
        /\ caller'[c].pc = IF mode = "inproc" THEN "queue" ELSE "lock"
        /\ \A d \in Callers \ {c} : caller'[d] = caller[d]
    <3> DEFINE t == [caller[c] EXCEPT !.box = reg,
                                      !.pc = IF mode = "inproc" THEN "queue" ELSE "lock"]
    <3>1. t.box = reg /\ t.pc = IF mode = "inproc" THEN "queue" ELSE "lock"
      BY CallerFields DEF TypeOK, CallerType
    <3>2. caller' = [caller EXCEPT ![c] = t]
      BY <1>2 DEF Lookup
    <3> HIDE DEF t
    <3> QED BY <3>1, <3>2, OneCaller
  <2>2. Turn(c)' /\ Own(c)' /\ Launched(c)'
    BY <1>2, <2>1 DEF TypeOK, RegOK, Lookup, Turn, Own, Launched, Calling, At
  <2> QED BY <2>1, <2>2, CallerStep DEF Lookup
<1> QED BY <1>1, <1>2
LEMMA AcquireSession ==
  ASSUME TypeOK, TypeOK', SessionInv, NEW c \in Callers, Acquire(c) PROVE SessionInv'
<1> DEFINE b == caller[c].box
<1> DEFINE x == box[b]
<1> DEFINE n == x.seq + 1
<1> DEFINE t == [caller[c] EXCEPT !.pc = "send", !.seq = n]
<1> DEFINE e == [x EXCEPT !.seq = n, !.lock = c]
<1>0. /\ b \in Boxes /\ x \in BoxType /\ x.seq \in Nat /\ x.last \in Nat /\ x.last <= x.seq
      /\ x.lock = Free /\ Good(x, mode) /\ mode # "inproc" /\ x.run # "none"
  BY CallerFields, BoxFields DEF TypeOK, Acquire, At, Named, SessionInv, Turn, Launched
<1>1. n \in Nat /\ x.last < n /\ x.seq < n /\ \A r \in x.inbox : r.seq \in Nat
  BY <1>0 DEF BoxType, Requests
<1>2. caller' = [caller EXCEPT ![c] = t] /\ box' = [box EXCEPT ![b] = e]
  BY DEF Acquire
<1>3. t.pc = "send" /\ t.box = b /\ t.seq = n
  BY CallerFields DEF TypeOK, CallerType
<1>4. \A d \in Callers : ~(Calling(d) /\ caller[d].box = b)
  BY <1>0, SessionAssumption DEF SessionInv, Turn
<1> HIDE DEF b, x, n
<1>5. /\ e.run = x.run /\ e.seq = n /\ e.tr = x.tr /\ e.lock = c /\ e.dead = x.dead
      /\ e.last = x.last /\ e.lost = x.lost /\ e.refusedRetry = x.refusedRetry
      /\ e.inbox = x.inbox /\ e.outbox = x.outbox
  BY <1>0 DEF BoxType
<1> HIDE DEF t, e
<1>6. Good(e, mode)
  <2>1. e.run # "gone" => Numbered(e)
    BY <1>0, <1>1, <1>5 DEF Good, Numbered
  <2> QED BY <1>0, <1>5, <2>1 DEF Good, Silenced
<1>7. caller'[c] = t /\ \A d \in Callers \ {c} : caller'[d] = caller[d]
  BY <1>2, OneCaller
<1>8. box'[b] = e /\ mode' = mode /\ paper' = paper
  BY <1>0, <1>2 DEF Acquire, TypeOK, BoxesOK
<1>9. Turn(c)' /\ Own(c)' /\ Launched(c)'
  <2>1. e.tr # "dead" => e.last < n /\ \A r \in e.inbox : r.seq < n
    BY <1>0, <1>1, <1>5 DEF Good, Numbered
  <2> QED BY <1>0, <1>1, <1>3, <1>5, <1>7, <1>8, <2>1 DEF Turn, Own, Launched, Calling, At
<1>10. paper'.whole /\ paper'.sure
  BY <1>8 DEF SessionInv
<1>11. \A d \in Callers : ~(Calling(d) /\ caller[d].box = b)
  BY <1>4 DEF b
<1>12. box[b].run # "none" => e.run # "none"
  BY <1>0, <1>5 DEF x
<1> QED BY <1>0, <1>2, <1>6, <1>7, <1>8, <1>9, <1>10, <1>11, <1>12, MoveStep

LEMMA ReleasedGood ==
  ASSUME NEW x \in BoxType, NEW m, Good(x, m)
  PROVE  Good([x EXCEPT !.lock = Free], m) /\ [x EXCEPT !.lock = Free].run = x.run
  BY DEF BoxType, Good, Numbered, Silenced

\* A call that raises, and lets the lock go.
LEMMA LetsGo ==
  ASSUME TypeOK, TypeOK', SessionInv, NEW c \in Callers, Calling(c), mode # "inproc",
         UNCHANGED <<mode, paper>>, NEW e, Good(e, mode),
         e.run = box[caller[c].box].run,
         box' = [box EXCEPT ![caller[c].box] = e], Raise(c)
  PROVE  SessionInv'
<1> DEFINE b == caller[c].box
<1>1. b \in Boxes
  BY CallerFields DEF TypeOK, Calling, At, Named
<1>2. \A d \in Callers \ {c} : ~(Calling(d) /\ caller[d].box = b)
  BY Alone
<1>3. \A d \in Callers \ {c} : caller'[d] = caller[d]
  BY DEF TypeOK, CallersOK, Raise
<1> QED BY <1>1, <1>2, <1>3, RaisedAtEase, BoxStep DEF SessionInv

LEMMA SendSession ==
  ASSUME TypeOK, TypeOK', SessionInv, NEW c \in Callers, Send(c) PROVE SessionInv'
<1> DEFINE b == caller[c].box
<1> DEFINE x == box[b]
<1> DEFINE n == caller[c].seq
<1>0. /\ b \in Boxes /\ x \in BoxType /\ x.seq \in Nat /\ x.last \in Nat /\ n \in Nat
      /\ Calling(c) /\ Good(x, mode) /\ mode # "inproc" /\ x.run # "none"
      /\ x.lock = c /\ (x.run # "gone" => n <= x.seq)
      /\ (x.tr # "dead" => x.last < n /\ \A r \in x.inbox : r.seq < n)
  BY CallerFields, BoxFields
     DEF TypeOK, Send, At, Named, SessionInv, Turn, Launched, Calling, CallerType
<1>1. CASE x.tr = "dead"
  <2>1. Raise(c) /\ box' = [box EXCEPT ![b] = [x EXCEPT !.lock = Free]]
    BY <1>0, <1>1, ReleasedBox DEF TypeOK, Send
  <2>2. Good([x EXCEPT !.lock = Free], mode) /\ [x EXCEPT !.lock = Free].run = x.run
    BY <1>0, ReleasedGood
  <2> QED BY <1>0, <2>1, <2>2, LetsGo DEF Send
<1>2. CASE x.tr # "dead"
  <2> DEFINE q == Request(c, n)
  <2> DEFINE e == [x EXCEPT !.inbox = x.inbox \cup {q}]
  <2> DEFINE t == [caller[c] EXCEPT !.pc = "wait"]
  <2>1. x.run # "gone"
    BY <1>0, <1>2 DEF Good
  <2>2. caller' = [caller EXCEPT ![c] = t] /\ box' = [box EXCEPT ![b] = e]
    BY <1>0, <1>2, <2>1 DEF Send, Inbox, Goto
  <2>3. /\ t.pc = "wait" /\ t.box = b /\ t.seq = n /\ t.op = caller[c].op
        /\ t.total = caller[c].total
    BY CallerFields DEF TypeOK, CallerType
  <2>4. q.seq = n /\ q.op = caller[c].op /\ q.total = caller[c].total
    BY DEF Request
  <2>5. \A d \in Callers \ {c} : ~(Calling(d) /\ caller[d].box = b)
    BY <1>0, Alone
  <2>6. \A r \in x.inbox : r.seq \in Nat
    BY <1>0 DEF BoxType, Requests
  <2>7. \A a \in x.outbox : a.seq \in Nat /\ a.seq <= x.last
    BY <1>0, <2>1 DEF BoxType, Answers, Good, Numbered
  <2> HIDE DEF b, x, n, q
  <2>8. /\ e.run = x.run /\ e.seq = x.seq /\ e.tr = x.tr /\ e.lock = c /\ e.dead = x.dead
        /\ e.last = x.last /\ e.lost = x.lost /\ e.refusedRetry = x.refusedRetry
        /\ e.inbox = x.inbox \cup {q} /\ e.outbox = x.outbox
    BY <1>0 DEF BoxType
  <2> HIDE DEF t, e
  <2>9. Good(e, mode)
    <3>1. Numbered(e)
      BY <1>0, <1>2, <2>1, <2>4, <2>8 DEF Good, Numbered
    <3> QED BY <1>0, <2>8, <3>1 DEF Good, Silenced
  <2>10. caller'[c] = t /\ \A d \in Callers \ {c} : caller'[d] = caller[d]
    BY <2>2, OneCaller
  <2>11. box'[b] = e /\ mode' = mode /\ paper' = paper
    BY <1>0, <2>2 DEF Send, TypeOK, BoxesOK
  <2>12. \A a \in e.outbox : a.seq # n
    BY <1>0, <1>2, <2>7, <2>8
  <2>13. \A r \in e.inbox : r.seq = n => r = q
    BY <1>0, <1>2, <2>6, <2>8
  <2>14. Turn(c)' /\ Launched(c)'
    BY <1>0, <2>3, <2>8, <2>10, <2>11 DEF Turn, Launched, Calling, At
  <2>15. Own(c)'
    BY <2>3, <2>4, <2>10, <2>11, <2>12, <2>13 DEF Own, At
  <2>16. paper'.whole /\ paper'.sure
    BY <2>11 DEF SessionInv
  <2>17. \A d \in Callers \ {c} : ~(Calling(d) /\ caller[d].box = b)
    BY <2>5 DEF b
  <2>18. box[b].run # "none" => e.run # "none"
    BY <1>0, <2>8 DEF x
  <2> QED BY <1>0, <2>2, <2>9, <2>10, <2>11, <2>14, <2>15, <2>16, <2>17, <2>18, MoveStep
<1> QED BY <1>1, <1>2
LEMMA QueueSession ==
  ASSUME TypeOK, TypeOK', SessionInv, NEW c \in Callers, Queue(c) PROVE SessionInv'
<1> DEFINE b == caller[c].box
<1> DEFINE x == box[b]
<1> DEFINE n == x.seq + 1
<1>0. /\ b \in Boxes /\ x \in BoxType /\ x.seq \in Nat /\ x.last \in Nat /\ x.last <= x.seq
      /\ Good(x, mode) /\ mode = "inproc" /\ x.run # "none"
  BY CallerFields, BoxFields DEF TypeOK, Queue, At, Named, SessionInv, Turn, Launched
<1>1. CASE x.tr = "dead"
  BY <1>1, RaisesSession DEF Queue
<1>2. CASE x.tr # "dead"
  <2> DEFINE q == Request(c, n)
  <2> DEFINE e == [x EXCEPT !.inbox = x.inbox \cup {q}, !.seq = n]
  <2> DEFINE t == [caller[c] EXCEPT !.pc = "wait", !.seq = n]
  <2>1. x.run # "gone"
    BY <1>0, <1>2 DEF Good
  <2>2. caller' = [caller EXCEPT ![c] = t] /\ box' = [box EXCEPT ![b] = e]
    BY <1>0, <1>2, <2>1 DEF Queue, Inbox
  <2>3. /\ t.pc = "wait" /\ t.box = b /\ t.seq = n /\ t.op = caller[c].op
        /\ t.total = caller[c].total
    BY CallerFields DEF TypeOK, CallerType
  <2>4. q.seq = n /\ q.op = caller[c].op /\ q.total = caller[c].total
    BY DEF Request
  <2>5. n \in Nat /\ x.seq < n /\ x.last < n
    BY <1>0
  <2>6. \A r \in x.inbox : r.seq \in Nat /\ r.seq <= x.seq
    BY <1>0, <2>1 DEF BoxType, Requests, Good, Numbered
  <2>7. \A a \in x.outbox : a.seq \in Nat /\ a.seq <= x.last
    BY <1>0, <2>1 DEF BoxType, Answers, Good, Numbered
  <2> HIDE DEF b, x, n, q
  <2>8. /\ e.run = x.run /\ e.seq = n /\ e.tr = x.tr /\ e.lock = x.lock /\ e.dead = x.dead
        /\ e.last = x.last /\ e.lost = x.lost /\ e.refusedRetry = x.refusedRetry
        /\ e.inbox = x.inbox \cup {q} /\ e.outbox = x.outbox
    BY <1>0 DEF BoxType
  <2> HIDE DEF t, e
  <2>9. Good(e, mode)
    <3>1. Numbered(e)
      BY <1>0, <2>1, <2>4, <2>5, <2>6, <2>8 DEF Good, Numbered
    <3> QED BY <1>0, <2>8, <3>1 DEF Good, Silenced
  <2>10. caller'[c] = t /\ \A d \in Callers \ {c} : caller'[d] = caller[d]
    BY <2>2, OneCaller
  <2>11. box'[b] = e /\ mode' = mode /\ paper' = paper
    BY <1>0, <2>2 DEF Queue, TypeOK, BoxesOK
  <2>12. \A a \in e.outbox : a.seq # n
    BY <1>0, <2>5, <2>7, <2>8
  <2>13. \A r \in e.inbox : r.seq = n => r = q
    BY <1>0, <2>5, <2>6, <2>8
  <2>14. Turn(c)' /\ Launched(c)'
    BY <1>0, <2>3, <2>5, <2>8, <2>10, <2>11 DEF Turn, Launched, Calling, At
  <2>15. Own(c)'
    BY <2>3, <2>4, <2>10, <2>11, <2>12, <2>13 DEF Own, At
  <2>16. paper'.whole /\ paper'.sure
    BY <2>11 DEF SessionInv
  <2>17. Keeps(box[b], e, mode)
    <3>1. Keeps(x, e, mode)
      BY <1>0, <2>1, <2>4, <2>5, <2>8 DEF Keeps
    <3> QED BY <3>1 DEF x
  <2>18. box[b].run # "none" => e.run # "none"
    BY <1>0, <2>8 DEF x
  <2> QED BY <1>0, <2>2, <2>9, <2>10, <2>11, <2>14, <2>15, <2>16, <2>17, <2>18, MoveStep
<1> QED BY <1>1, <1>2

LEMMA AnsweredSession ==
  ASSUME TypeOK, TypeOK', SessionInv, NEW c \in Callers, Answered(c) PROVE SessionInv'
<1> DEFINE b == caller[c].box
<1> DEFINE x == box[b]
<1>0. /\ b \in Boxes /\ x \in BoxType /\ Good(x, mode) /\ x.run # "none"
      /\ Calling(c) /\ Own(c)
  BY CallerFields, BoxFields DEF TypeOK, Answered, At, Named, SessionInv, Launched, Calling
<1>1. PICK a \in Replies(c) :
       /\ box' = [Released(b) EXCEPT ![b].outbox = @ \ {a}]
       /\ \/ Raise(c) /\ UNCHANGED paper
          \/ /\ caller' = [caller EXCEPT ![c] = [@ EXCEPT !.pc = "lookup", !.op = "tick",
                                                          !.pushed = 0]]
             /\ UNCHANGED paper
          \/ /\ a.ok /\ caller[c].op = "tick"
             /\ caller' = [caller EXCEPT ![c] =
                             [AtRest EXCEPT !.via = caller[c].via, !.pushed = a.held,
                                            !.total = caller[c].total]]
             /\ paper' = [whole |-> Complete(c, a), sure |-> a.sure]
  BY DEF Answered
<1> DEFINE e == [x EXCEPT !.lock = Free, !.outbox = x.outbox \ {a}]
<1>2. box' = [box EXCEPT ![b] = e]
  <2> DEFINE f == [x EXCEPT !.lock = Free]
  <2> DEFINE g == [f EXCEPT !.outbox = f.outbox \ {a}]
  <2>1. Released(b) = [box EXCEPT ![b] = f]
    BY <1>0, ReleasedBox DEF TypeOK
  <2>2. f.outbox = x.outbox /\ g = e
    BY <1>0 DEF BoxType
  <2>3. Released(b)[b] = f
    BY <1>0, <2>1 DEF TypeOK, BoxesOK
  <2>4. box' = [Released(b) EXCEPT ![b] = g]
    BY <1>1, <2>3
  <2> HIDE DEF f, g, e
  <2> QED BY <2>1, <2>2, <2>4 DEF TypeOK, BoxesOK
<1>3. a \in x.outbox /\ a.seq = caller[c].seq
  BY DEF Replies
<1>4. paper'.whole /\ paper'.sure
  <2>1. CASE UNCHANGED paper
    BY <2>1 DEF SessionInv
  <2>2. CASE /\ a.ok /\ caller[c].op = "tick"
             /\ paper' = [whole |-> Complete(c, a), sure |-> a.sure]
    <3>1. a.sure
      BY <1>0, <1>3, <2>2 DEF Good, Silenced
    <3>2. Complete(c, a)
      BY <1>0, <1>3, <2>2 DEF Own, Answered
    <3> QED BY <2>2, <3>1, <3>2
  <2> QED BY <1>1, <2>1, <2>2
<1>5. caller'[c].pc \in {"stop", "lookup", "idle"}
      /\ \A d \in Callers \ {c} : caller'[d] = caller[d]
  <2>1. CASE Raise(c)
    <3>1. Raised.pc = "stop"
      BY DEF Raised, AtRest
    <3>2. caller' = [caller EXCEPT ![c] = Raised]
      BY <2>1 DEF Raise
    <3> QED BY <3>1, <3>2, OneCaller
  <2>2. CASE caller' = [caller EXCEPT ![c] = [@ EXCEPT !.pc = "lookup", !.op = "tick",
                                                       !.pushed = 0]]
    <3> DEFINE t == [caller[c] EXCEPT !.pc = "lookup", !.op = "tick", !.pushed = 0]
    <3>1. t.pc = "lookup" /\ caller' = [caller EXCEPT ![c] = t]
      BY <2>2, CallerFields DEF TypeOK, CallerType
    <3> HIDE DEF t
    <3> QED BY <3>1, OneCaller
  <2>3. CASE caller' = [caller EXCEPT ![c] =
                          [AtRest EXCEPT !.via = caller[c].via, !.pushed = a.held,
                                         !.total = caller[c].total]]
    <3> DEFINE t == [AtRest EXCEPT !.via = caller[c].via, !.pushed = a.held,
                                   !.total = caller[c].total]
    <3>1. t.pc = "idle" /\ caller' = [caller EXCEPT ![c] = t]
      BY <2>3 DEF AtRest
    <3> HIDE DEF t
    <3> QED BY <3>1, OneCaller
  <2> QED BY <1>1, <2>1, <2>2, <2>3
<1>6. Turn(c)' /\ Own(c)' /\ Launched(c)'
  BY <1>5, AtEase
<1>7. Good(e, mode) /\ e.run = x.run /\ (mode = "inproc" => Keeps(x, e, mode))
  <2> HIDE DEF b, x
  <2> DEFINE o == x.outbox \ {a}
  <2>1. o \subseteq x.outbox
    OBVIOUS
  <2> HIDE DEF o
  <2>2. [x EXCEPT !.lock = Free, !.outbox = o] = e
    BY DEF o
  <2>3. /\ e.run = x.run /\ e.seq = x.seq /\ e.tr = x.tr /\ e.dead = x.dead
        /\ e.last = x.last /\ e.lost = x.lost /\ e.refusedRetry = x.refusedRetry
        /\ e.inbox = x.inbox /\ e.outbox = o
    BY <1>0, <2>2 DEF BoxType
  <2> HIDE DEF e
  <2>4. x.seq \in Nat
    BY <1>0 DEF BoxType
  <2> QED BY <1>0, <2>1, <2>3, <2>4 DEF Good, Numbered, Silenced, Keeps
<1>8. \A d \in Callers \ {c} : Calling(d) /\ caller[d].box = b => Keeps(x, e, mode)
  BY <1>0, <1>7, Alone
<1>9. mode' = mode
  BY DEF Answered
<1> HIDE DEF e
<1> QED BY <1>0, <1>2, <1>4, <1>5, <1>6, <1>7, <1>8, <1>9, MoveStep

LEMMA UnansweredSession ==
  ASSUME TypeOK, TypeOK', SessionInv, NEW c \in Callers, Unanswered(c) PROVE SessionInv'
<1> DEFINE b == caller[c].box
<1> DEFINE x == box[b]
<1>0. /\ b \in Boxes /\ x \in BoxType /\ Good(x, mode) /\ x.run # "none" /\ Calling(c)
  BY CallerFields, BoxFields DEF TypeOK, Unanswered, At, Named, SessionInv, Launched, Calling
<1>1. mode' = mode /\ paper' = paper
      /\ (mode # "inproc" => Raise(c) /\ box' = GivenUp(b))
  BY DEF Unanswered
<1>2. CASE mode = "inproc"
  <2> DEFINE q == Cancelled(b, caller[c].seq)
  <2> DEFINE e == [x EXCEPT !.inbox = q]
  <2>1. box' = [box EXCEPT ![b] = e] /\ caller' = [caller EXCEPT ![c].pc = "mark"]
    BY <1>2 DEF Unanswered, Goto
  <2>2. q \subseteq x.inbox
    BY DEF Cancelled
  <2> HIDE DEF q
  <2>3. /\ e.run = x.run /\ e.seq = x.seq /\ e.tr = x.tr /\ e.dead = x.dead
        /\ e.last = x.last /\ e.lost = x.lost /\ e.refusedRetry = x.refusedRetry
        /\ e.inbox = q /\ e.outbox = x.outbox
    BY <1>0 DEF BoxType
  <2>4. \A d \in Callers \ {c} : caller'[d] = caller[d]
    BY <2>1 DEF TypeOK, CallersOK
  <2>5. Good(e, mode) /\ Keeps(x, e, mode)
    <3> HIDE DEF b, x, e
    <3>1. x.seq \in Nat
      BY <1>0 DEF BoxType
    <3> QED BY <1>0, <1>2, <2>2, <2>3, <3>1 DEF Good, Numbered, Silenced, Keeps
  <2>6. Turn(c)' /\ Own(c)' /\ Launched(c)'
    <3>1. caller'[c].pc = "mark" /\ caller'[c].box = b
      BY <2>1, CallerFields DEF TypeOK, CallersOK, CallerType
    <3>2. box'[b].run # "none"
      BY <1>0, <2>1, <2>3 DEF TypeOK, BoxesOK
    <3> QED BY <1>1, <1>2, <3>1, <3>2 DEF Turn, Own, Launched, Calling, At
  <2>7. paper'.whole /\ paper'.sure
    BY <1>1 DEF SessionInv
  <2>8. box' = [box EXCEPT ![b] = e] /\ e.run = box[b].run /\ Keeps(box[b], e, mode)
    BY <2>1, <2>3, <2>5 DEF x
  <2> HIDE DEF b, x, e
  <2> QED BY <1>0, <1>1, <2>4, <2>5, <2>6, <2>7, <2>8, MoveStep
<1>3. CASE mode # "inproc"
  <2> DEFINE f == [x EXCEPT !.lock = Free]
  <2>1. f \in BoxType /\ Good(f, mode) /\ f.run = x.run /\ f.tr = x.tr
        /\ Released(b) = [box EXCEPT ![b] = f] /\ Released(b)[b] = f
    <3>1. box \in [Boxes -> BoxType] /\ BoxesOK
      BY DEF TypeOK, BoxesOK
    <3>2. Released(b) = [box EXCEPT ![b] = f] /\ f \in BoxType
      BY <1>0, <3>1, ReleasedBox
    <3>3. Good(f, mode) /\ f.run = x.run
      BY <1>0, ReleasedGood
    <3>4. f.tr = x.tr
      BY <1>0 DEF BoxType
    <3> HIDE DEF f
    <3>5. Released(b)[b] = f
      BY <1>0, <3>1, <3>2
    <3> QED BY <3>2, <3>3, <3>4, <3>5
  <2>2. CASE x.tr = "socket"
    <3> DEFINE e == Closed(f)
    <3>1. box' = [box EXCEPT ![b] = e]
      BY <1>0, <1>1, <1>3, <2>1, <2>2 DEF GivenUp
    <3> HIDE DEF f
    <3>2. /\ e.run = f.run /\ e.seq = f.seq /\ e.tr = "dead" /\ e.dead = f.dead
          /\ e.last = f.last /\ e.lost = TRUE /\ e.refusedRetry = f.refusedRetry
          /\ e.inbox = f.inbox /\ e.outbox = f.outbox
      BY <2>1 DEF Closed, Killed, BoxType
    <3>3. mode = "socket" /\ f.run # "none"
      BY <1>0, <2>1, <2>2 DEF Good, Silenced
    <3> HIDE DEF e
    <3>4. Good(e, mode)
      BY <2>1, <3>2, <3>3 DEF Good, Numbered, Silenced
    <3> QED BY <1>0, <1>1, <1>3, <2>1, <3>1, <3>2, <3>4, LetsGo
  <2>3. CASE x.tr # "socket"
    <3>1. box' = [box EXCEPT ![b] = f]
      BY <1>0, <1>1, <1>3, <2>1, <2>3 DEF GivenUp
    <3> HIDE DEF f
    <3> QED BY <1>0, <1>1, <1>3, <2>1, <3>1, LetsGo
  <2> QED BY <2>2, <2>3
<1> QED BY <1>2, <1>3

\* The in-process watchdog's other two statements.
LEMMA MarksSession ==
  ASSUME TypeOK, TypeOK', SessionInv, NEW c \in Callers, Marks(c)
  PROVE  SessionInv'
<1> DEFINE b == caller[c].box
<1> DEFINE x == box[b]
<1> DEFINE e == Killed(x)
<1>0. b \in Boxes /\ x \in BoxType /\ Good(x, mode) /\ x.run # "none" /\ mode = "inproc"
  BY CallerFields, BoxFields DEF TypeOK, Marks, At, Named, SessionInv, Launched, Turn
<1>1. box' = [box EXCEPT ![b] = e] /\ caller' = [caller EXCEPT ![c].pc = "void"]
      /\ mode' = mode /\ paper' = paper
  BY DEF Marks, Goto
<1>2. /\ e.run = x.run /\ e.seq = x.seq /\ e.tr = "dead" /\ e.dead = x.dead
      /\ e.last = x.last /\ e.lost = x.lost /\ e.refusedRetry = x.refusedRetry
      /\ e.inbox = x.inbox /\ e.outbox = x.outbox
  BY <1>0 DEF Killed, BoxType
<1>3. \A d \in Callers \ {c} : caller'[d] = caller[d]
  BY <1>1 DEF TypeOK, CallersOK
<1>4. Good(e, mode) /\ Keeps(x, e, mode)
  <2> HIDE DEF b, x, e
  <2>1. x.seq \in Nat
    BY <1>0 DEF BoxType
  <2> QED BY <1>0, <1>2, <2>1 DEF Good, Numbered, Silenced, Keeps
<1>5. Turn(c)' /\ Own(c)' /\ Launched(c)'
  <2>1. caller'[c].pc = "void" /\ caller'[c].box = b
    BY <1>1, CallerFields DEF TypeOK, CallersOK, CallerType
  <2>2. box'[b].run # "none"
    BY <1>0, <1>1, <1>2 DEF TypeOK, BoxesOK
  <2> QED BY <1>0, <1>1, <2>1, <2>2 DEF Turn, Own, Launched, Calling, At
<1>6. paper'.whole /\ paper'.sure
  BY <1>1 DEF SessionInv
<1>7. e.run = box[b].run /\ Keeps(box[b], e, mode)
  BY <1>2, <1>4 DEF x
<1> HIDE DEF b, x, e
<1> QED BY <1>0, <1>1, <1>3, <1>4, <1>5, <1>6, <1>7, MoveStep

LEMMA VoidsSession ==
  ASSUME TypeOK, TypeOK', SessionInv, NEW c \in Callers, Voids(c)
  PROVE  SessionInv'
<1> DEFINE b == caller[c].box
<1> DEFINE x == box[b]
<1> DEFINE e == [x EXCEPT !.dead = TRUE, !.lost = TRUE]
<1>0. b \in Boxes /\ x \in BoxType /\ Good(x, mode) /\ x.run # "none" /\ mode = "inproc"
  BY CallerFields, BoxFields DEF TypeOK, Voids, At, Named, SessionInv, Launched, Turn
<1>1. box' = [box EXCEPT ![b] = e] /\ Raise(c) /\ mode' = mode /\ paper' = paper
  BY DEF Voids
<1>2. /\ e.run = x.run /\ e.seq = x.seq /\ e.tr = x.tr /\ e.dead = TRUE
      /\ e.last = x.last /\ e.lost = TRUE /\ e.refusedRetry = x.refusedRetry
      /\ e.inbox = x.inbox /\ e.outbox = x.outbox
  BY <1>0 DEF BoxType
<1>3. \A d \in Callers \ {c} : caller'[d] = caller[d]
  BY <1>1, OneCaller DEF Raise
<1>4. Good(e, mode) /\ Keeps(x, e, mode)
  <2> HIDE DEF b, x, e
  <2>1. x.seq \in Nat
    BY <1>0 DEF BoxType
  <2> QED BY <1>0, <1>2, <2>1 DEF Good, Numbered, Silenced, Keeps
<1>5. Turn(c)' /\ Own(c)' /\ Launched(c)'
  BY <1>1, RaisedAtEase
<1>6. paper'.whole /\ paper'.sure
  BY <1>1 DEF SessionInv
<1>7. e.run = box[b].run /\ Keeps(box[b], e, mode)
  BY <1>2, <1>4 DEF x
<1> HIDE DEF b, x, e
<1> QED BY <1>0, <1>1, <1>3, <1>4, <1>5, <1>6, <1>7, MoveStep

\* The engine answers the lowest number it has: x becomes e, which answers.
LEMMA RepliedGood ==
  ASSUME TypeOK, NEW b, NEW x \in BoxType, Good(x, mode), x.run = "up",
         NEW r \in x.inbox, \A q \in x.inbox : r.seq <= q.seq,
         NEW e \in BoxType, NEW ok \in BOOLEAN,
         e.run = x.run, e.seq = x.seq, e.tr = x.tr, e.lock = x.lock, e.lost = x.lost,
         e.inbox = x.inbox, e.outbox = x.outbox, ~e.refusedRetry, x.dead => e.dead,
         ok => ~e.dead,
         ok /\ r.op = "tick" => Made(e, r.total)
  PROVE  /\ Good(Replied(b, e, r.seq, ok), mode)
         /\ Keeps(x, Replied(b, e, r.seq, ok), mode)
         /\ Replied(b, e, r.seq, ok).run = "up"
<1> DEFINE n == r.seq
<1> DEFINE y == Replied(b, e, n, ok)
<1>0. /\ x.seq \in Nat /\ x.last \in Nat /\ n \in Nat /\ x.last < n /\ n <= x.seq
      /\ \A q \in x.inbox : q.seq \in Nat /\ n <= q.seq /\ q.seq <= x.seq
      /\ \A a \in x.outbox : a.seq \in Nat /\ a.seq <= x.last
  BY DEF BoxType, Requests, Answers, Good, Numbered
<1> HIDE DEF n
<1>a. /\ y.last = n /\ y.seq = e.seq /\ y.run = e.run /\ y.tr = e.tr
      /\ y.lock = e.lock /\ y.dead = e.dead /\ y.lost = e.lost
      /\ y.refusedRetry = e.refusedRetry
  BY <1>0, RepliedBox
<1>b. /\ \A q \in y.inbox : q \in e.inbox /\ q.seq # n
      /\ \A a \in y.outbox :
            a \in e.outbox
            \/ /\ a.seq = n /\ a.held = e.held /\ (a.ok => ok)
               /\ (e.warmed => a.warmed) /\ (~e.lost => a.sure)
               /\ ~(mode = "socket" /\ e.tr = "dead")
  <2> DEFINE new == [seq |-> n, ok |-> ok, held |-> e.held, warmed |-> e.warmed,
                     sure |-> ~e.lost]
  <2> DEFINE rest == {q \in e.inbox : q.seq # n}
  <2> DEFINE out == IF ~Waiting(b, n) \/ (mode = "socket" /\ e.tr = "dead")
                    THEN e.outbox ELSE e.outbox \cup {new}
  <2>1. /\ new.seq = n /\ new.held = e.held /\ (new.ok => ok)
        /\ (e.warmed => new.warmed) /\ (~e.lost => new.sure)
    OBVIOUS
  <2>2. y = [e EXCEPT !.last = n, !.inbox = rest, !.outbox = out]
    BY DEF Replied, BoxType
  <2>3. \A a \in out : a \in e.outbox \/ (a = new /\ ~(mode = "socket" /\ e.tr = "dead"))
    OBVIOUS
  <2>4. \A q \in rest : q \in e.inbox /\ q.seq # n
    OBVIOUS
  <2> HIDE DEF new, rest, out, y
  <2>5. y.inbox = rest /\ y.outbox = out
    BY <2>2 DEF BoxType
  <2> QED BY <2>1, <2>3, <2>4, <2>5
<1> HIDE DEF y
<1>1. /\ y.last = n /\ y.seq = x.seq /\ y.run = "up" /\ y.tr = x.tr
      /\ y.lock = x.lock /\ y.dead = e.dead /\ y.lost = x.lost /\ ~y.refusedRetry
      /\ \A q \in y.inbox : q \in x.inbox /\ q.seq # n
  BY <1>a, <1>b
<1>2. \A a \in y.outbox :
         \/ a \in x.outbox
         \/ /\ a.seq = n /\ a.held = e.held /\ (a.ok => ok)
            /\ (e.warmed => a.warmed) /\ (~e.lost => a.sure)
            /\ ~(mode = "socket" /\ x.tr = "dead")
  BY <1>b
<1>3. Numbered(y)
  BY <1>0, <1>1, <1>2 DEF Numbered
<1>4. ASSUME NEW a \in y.outbox, a.ok PROVE a.sure
  <2>1. CASE a \in x.outbox
    BY <1>4, <2>1 DEF Good, Silenced
  <2>2. CASE a \notin x.outbox
    <3>1. ok /\ ~(mode = "socket" /\ x.tr = "dead")
      BY <1>2, <1>4, <2>2
    <3>2. ~x.lost
      BY <3>1 DEF Good, Silenced
    <3> QED BY <1>2, <2>2, <3>2
  <2> QED BY <2>1, <2>2
<1>5. y.lost => (mode = "socket" /\ y.tr = "dead") \/ (mode = "inproc" /\ y.dead)
  BY <1>1 DEF Good, Silenced
<1>6. y.tr = "socket" => mode = "socket"
  BY <1>1 DEF Good, Silenced
<1>7. Good(y, mode)
  BY <1>1, <1>3, <1>4, <1>5, <1>6 DEF Good, Silenced
<1>8. ASSUME NEW a \in y.outbox, a \notin x.outbox
      PROVE  a.seq = r.seq /\ (a.ok /\ r.op = "tick" => Made(a, r.total))
  BY <1>2, <1>8 DEF n, Made
<1>9. y.last = r.seq
  BY <1>1 DEF n
<1>10. Keeps(x, y, mode)
  BY <1>0, <1>1, <1>8, <1>9 DEF Keeps
<1> QED BY <1>1, <1>7, <1>10 DEF y, n

LEMMA ServeSession ==
  ASSUME TypeOK, TypeOK', SessionInv, NEW b \in Boxes, Serve(b) PROVE SessionInv'
<1> DEFINE x == box[b]
<1>0. x \in BoxType /\ Good(x, mode) /\ x.run = "up"
  BY BoxFields DEF TypeOK, Serve, Up, SessionInv
<1>1. PICK r \in x.inbox :
        /\ \A q \in x.inbox : r.seq <= q.seq
        /\ \/ box' = [box EXCEPT ![b] = Gone(b)]
           \/ /\ Accepts(b, r)
              /\ \E n \in Takes(b, r) :
                    box' = [box EXCEPT ![b] = Replied(b, Ran(b, r, n), r.seq, TRUE)]
           \/ box' = [box EXCEPT ![b] =
                        Replied(b, [box[b] EXCEPT !.dead = TRUE,
                                                  !.refusedRetry = @ \/ Duplicate(b, r)],
                                r.seq, FALSE)]
  BY DEF Serve
<1>2. mode' = mode /\ caller' = caller /\ paper' = paper
  BY DEF Serve
<1>3. r \in Requests /\ r.seq \in Nat /\ r.total \in Counts /\ r.pushed \in Counts
  BY <1>0 DEF BoxType, Requests
<1>4. ~Duplicate(b, r)
  BY <1>0, <1>3 DEF Good, Numbered, Duplicate, BoxType
<1>5. ASSUME NEW y, Good(y, mode), Keeps(x, y, mode), y.run = "up",
             box' = [box EXCEPT ![b] = y]
      PROVE  SessionInv'
  BY <1>2, <1>5, BoxStep DEF SessionInv
<1>9. ASSUME NEW e \in BoxType, NEW ok \in BOOLEAN,
             e.run = x.run, e.seq = x.seq, e.tr = x.tr, e.lock = x.lock, e.lost = x.lost,
             e.inbox = x.inbox, e.outbox = x.outbox, ~e.refusedRetry, x.dead => e.dead,
             ok => ~e.dead,
             ok /\ r.op = "tick" => Made(e, r.total),
             box' = [box EXCEPT ![b] = Replied(b, e, r.seq, ok)]
      PROVE  SessionInv'
  <2> DEFINE y == Replied(b, e, r.seq, ok)
  <2> HIDE DEF x
  <2>1. \A q \in x.inbox : r.seq <= q.seq
    BY <1>1
  <2>2. Good(y, mode) /\ Keeps(x, y, mode) /\ y.run = "up"
    BY <1>0, <1>9, <2>1, RepliedGood
  <2> HIDE DEF y
  <2>3. box' = [box EXCEPT ![b] = y]
    BY <1>9 DEF y
  <2> QED BY <1>5, <2>2, <2>3
<1>6. CASE box' = [box EXCEPT ![b] = Gone(b)]
  BY <1>2, <1>6, DiesSession
<1>7. ASSUME Accepts(b, r), NEW n \in Takes(b, r),
             box' = [box EXCEPT ![b] = Replied(b, Ran(b, r, n), r.seq, TRUE)]
      PROVE  SessionInv'
  <2> DEFINE e == Ran(b, r, n)
  <2>1. e \in BoxType
    BY <1>7, ServedBox
  <2>2. /\ e.run = x.run /\ e.seq = x.seq /\ e.tr = x.tr /\ e.lock = x.lock
        /\ e.lost = x.lost /\ e.inbox = x.inbox /\ e.outbox = x.outbox
        /\ e.refusedRetry = x.refusedRetry /\ e.dead = x.dead /\ e.held = x.held + n
    BY <1>0 DEF Ran, BoxType
  <2>3. ASSUME r.op = "tick" PROVE Made(e, r.total)
    <3>1. e.warmed
      <4>1. x.warmed
        BY <1>7, <2>3 DEF Accepts
      <4> QED BY <1>0, <4>1 DEF Ran, BoxType
    <3>2. x.held \in Int /\ r.total \in Nat /\ r.pushed \in Int
      BY <1>0, <1>3, SessionAssumption DEF BoxType, Counts
    <3>3. CASE n = 0 /\ x.held = 0
      BY <2>2, <3>1, <3>3 DEF Made
    <3>4. CASE r.total = 0
      BY <3>1, <3>4 DEF Made
    <3>5. CASE n = r.total - r.pushed /\ r.total # 0
      <4>1. x.held + (r.total - r.pushed) = r.total
        BY <1>7, <2>3, <3>5 DEF Accepts, InSync
      <4>2. e.held = r.total
        BY <2>2, <3>2, <3>5, <4>1
      <4> QED BY <3>1, <4>2 DEF Made
    <3>6. \/ n = 0 /\ x.held = 0
          \/ r.total = 0
          \/ n = r.total - r.pushed /\ r.total # 0
      BY <1>7, <2>3, <3>2 DEF Takes, Taken, Declines
    <3> QED BY <3>3, <3>4, <3>5, <3>6
  <2>4. ~e.dead /\ ~e.refusedRetry
    BY <1>0, <1>7, <2>2 DEF Accepts, Good
  <2>5. box' = [box EXCEPT ![b] = Replied(b, e, r.seq, TRUE)]
    BY <1>7
  <2> HIDE DEF e, x
  <2> QED BY <1>9, <2>1, <2>2, <2>3, <2>4, <2>5
<1>8. CASE box' = [box EXCEPT ![b] =
                     Replied(b, [box[b] EXCEPT !.dead = TRUE,
                                               !.refusedRetry = @ \/ Duplicate(b, r)],
                             r.seq, FALSE)]
  <2> DEFINE e == [box[b] EXCEPT !.dead = TRUE, !.refusedRetry = @ \/ Duplicate(b, r)]
  <2>1. e \in BoxType
    BY ServedBox
  <2>2. /\ e.run = x.run /\ e.seq = x.seq /\ e.tr = x.tr /\ e.lock = x.lock
        /\ e.lost = x.lost /\ e.inbox = x.inbox /\ e.outbox = x.outbox /\ e.dead = TRUE
    BY <1>0 DEF BoxType
  <2>3. ~e.refusedRetry
    BY <1>0, <1>4 DEF BoxType, Good
  <2>4. box' = [box EXCEPT ![b] = Replied(b, e, r.seq, FALSE)]
    BY <1>8
  <2> HIDE DEF e, x
  <2> QED BY <1>9, <2>1, <2>2, <2>3, <2>4
<1> QED BY <1>1, <1>6, <1>7, <1>8

\* Every step keeps the invariant.
LEMMA SessionNext ==
  ASSUME TypeOK, TypeOK', SessionInv, [Next]_vars PROVE SessionInv'
<1>2. CASE ServiceRestarts
  BY <1>2, ServiceRestartsSession
<1>3. ASSUME NEW c \in Callers, Tick(c) \/ Step(c) PROVE SessionInv'
  <2>1. CASE NotReady(c) \/ Busy(c)
    BY <2>1, RaisesSession DEF NotReady, Busy
  <2> QED BY <1>3, <2>1, TickSession, StopAsksSession, StopKillsSession, KillLabelledSession,
             LaunchSession, ReadySession, LookupSession, AcquireSession, SendSession,
             QueueSession, AnsweredSession, UnansweredSession, MarksSession, VoidsSession
             DEF Step
<1>4. ASSUME NEW b \in Boxes, Run(b) \/ IdleExit(b) \/ BoxDies(b) PROVE SessionInv'
  <2>1. CASE IdleExit(b) \/ BoxDies(b)
    BY <2>1, DiesSession DEF IdleExit, BoxDies
  <2> QED BY <1>4, <2>1, BuildsSession, ServeSession DEF Run
<1>5. CASE UNCHANGED vars
  BY <1>5 DEF vars, SessionInv, Turn, Own, Complete, Launched, Calling, At
<1> QED BY <1>2, <1>3, <1>4, <1>5 DEF Next

-----------------------------------------------------------------------------
(* What follows.                                                           *)

\* The two invariants need each other: that a live engine's last answer stays
\* below its numbers is both a type and the exchange.
LEMMA Invariant == Spec => [](TypeOK /\ SessionInv)
<1>1. Init => TypeOK /\ SessionInv
  BY InitType, InitSession
<1>2. TypeOK /\ SessionInv /\ [Next]_vars => TypeOK' /\ SessionInv'
  <2> SUFFICES ASSUME TypeOK, SessionInv, [Next]_vars PROVE TypeOK' /\ SessionInv'
    OBVIOUS
  <2>1. \A b \in Boxes : Up(b) => \A q \in box[b].inbox : q.seq <= box[b].seq
    BY DEF SessionInv, Good, Numbered, Up
  <2>2. TypeOK'
    BY <2>1, TypeStep
  <2> QED BY <2>2, SessionNext
<1> QED BY <1>1, <1>2, PTL DEF Spec

\* The boxes, callers and registry of the model have their types: a thread that
\* holds an engine holds one, the registry names a launched one, and no answer
\* is numbered above the questions asked (pyrunner's session tables).
THEOREM Types == Spec => []TypeOK
<1>1. TypeOK /\ SessionInv => TypeOK
  OBVIOUS
<1> QED BY <1>1, Invariant, PTL

\* A payload is published only off an engine that ran the history and holds every
\* bar the store had when the tick went out, whoever replaced, killed or restarted
\* engines meanwhile (EngineOps' reconciliation of the pushed bars).
THEOREM Whole == Spec => []WholePayload
<1>1. SessionInv => WholePayload
  BY DEF SessionInv, WholePayload
<1> QED BY <1>1, Invariant, PTL

\* A call that went unanswered silences its engine for every caller, and no
\* request is ever refused as a retry it is not (session_call's lock and numbers).
THEOREM Exact == Spec => []AnswersAreExact
<1>1. SessionInv => AnswersAreExact
  BY DEF SessionInv, Good, AnswersAreExact, LostAnswerEnds, NoFalseRetry
<1> QED BY <1>1, Invariant, PTL
=============================================================================
