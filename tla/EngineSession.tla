--------------------------- MODULE EngineSession ---------------------------
(***************************************************************************)
(* One deployment's long-lived engine and the callers that drive it.  A    *)
(* caller builds the engine, warms it and then sends it one tick per bar;  *)
(* any error makes the caller discard the engine and serve a replay.  The  *)
(* engine is a container behind a unix socket or behind request files, or  *)
(* a thread of the caller's own process behind a queue.                    *)
(*                                                                         *)
(* A box is one engine that was launched, with the registry's entry for it *)
(* (its sequence counter, lock and transport).  Callers are the threads    *)
(* that may hold the same session: the worker and the poll it hands back   *)
(* to.  A tick carries the bars the caller believes the engine lacks; the  *)
(* day so far is a count of bars.  An engine opens the day on two bars or  *)
(* more, and may wait for its other symbols first; until then it holds     *)
(* none, and its payload is the close before.                              *)
(***************************************************************************)
EXTENDS Integers, FiniteSets

CONSTANTS
    Callers,
    Modes,       \* a subset of {"socket", "file", "inproc"}
    MaxBoxes,    \* bound: engines launched
    MaxBars,     \* bound: bars of the day
    MaxTicks,    \* bound
    MaxFaults    \* bound: restarts, deaths, missed deadlines, failed builds and reads

Boxes == 1..MaxBoxes
NoBox == 0
Free  == "free"       \* nobody holds the lock

ASSUME SessionAssumption ==
    /\ IsFiniteSet(Callers) /\ Callers # {}
    /\ Modes \subseteq {"socket", "file", "inproc"} /\ Modes # {}
    /\ {MaxBoxes, MaxBars, MaxTicks, MaxFaults} \subseteq Nat
    /\ MaxBoxes > 0 /\ MaxBars > 0
    /\ Free \notin Callers

VARIABLES
    mode,      \* how this install drives its engines
    bars,      \* bars of the day in the store
    reg,       \* _SESSIONS (_INPROC): the box the session id names
    box,       \* the boxes
    caller,    \* the callers' threads
    paper,     \* the last payload published from an engine
    left

vars == <<mode, bars, reg, box, caller, paper, left>>

Unlaunched ==
    [run |-> "none", seq |-> 0, tr |-> "none", lock |-> Free, dead |-> FALSE,
     warmed |-> FALSE, held |-> 0, last |-> 0, refusedRetry |-> FALSE,
     lost |-> FALSE, inbox |-> {}, outbox |-> {}]

\* The caller's _WARM_PY entry: via, the transport; pushed, the bars the
\* engine last said it holds; total, the bars of its rows.
AtRest == [pc |-> "idle", via |-> "none", pushed |-> 0, op |-> "none",
           box |-> NoBox, seq |-> 0, total |-> 0, then |-> "idle"]

Init ==
    /\ mode \in Modes /\ bars = 1 /\ reg = NoBox
    /\ box = [b \in Boxes |-> Unlaunched]
    /\ caller = [c \in Callers |-> AtRest]
    /\ paper = [whole |-> TRUE, sure |-> TRUE]
    /\ left = [ticks |-> MaxTicks, faults |-> MaxFaults]

Up(b) == box[b].run = "up"
At(c, pc) == caller[c].pc = pc
Goto(c, pc) == caller' = [caller EXCEPT ![c].pc = pc]
Fault == left.faults > 0 /\ left' = [left EXCEPT !.faults = @ - 1]

\* Every error raises to the tick, which drops the engine and serves a
\* replay: session_stop, and no entry.
Raised == [AtRest EXCEPT !.pc = "stop"]
Raise(c) == caller' = [caller EXCEPT ![c] = Raised]

-----------------------------------------------------------------------------
(* The tick.                                                               *)

\* session_alive: the state file says so and, on files, docker does.
Alive == reg # NoBox /\ box[reg].tr # "dead" /\ Up(reg)

\* What there is to push of a day of n bars: a lone one is left out.
Shown(n) == IF n < 2 THEN 0 ELSE n

\* warm_tick_python: a caller with an entry calls; on the file transport it
\* asks first whether the engine is alive; without one it builds.  Either
\* way it reads the rows before that, with the bar that closed meanwhile (a
\* tick follows every bar); a read that fails is logged, and leaves the rows
\* it had.
Tick(c) ==
    /\ At(c, "idle") /\ left.ticks > 0
    /\ bars' \in {n \in bars..MaxBars : n <= bars + 1}
    /\ LET keeps == caller[c].via # "none" /\ (caller[c].via = "file" => Alive)
           had   == IF keeps THEN caller[c].total ELSE 0
       IN
       \E n \in {Shown(bars'), had} :
       /\ n # Shown(bars') => left.faults > 0
       /\ left' = [ticks |-> left.ticks - 1,
                   faults |-> IF n = Shown(bars') THEN left.faults ELSE left.faults - 1]
       /\ \/ /\ keeps
             /\ caller' = [caller EXCEPT ![c] = [@ EXCEPT !.pc = "lookup", !.op = "tick",
                                         !.total = n]]
          \/ /\ ~keeps /\ \E b \in Boxes : box[b].run = "none"
             /\ caller' = [caller EXCEPT ![c] = [@ EXCEPT !.pc = "stop",
                                         !.then = IF mode = "inproc" THEN "launch" ELSE "label",
                                         !.via = "none", !.pushed = 0, !.total = n]]
    /\ UNCHANGED <<mode, reg, box, paper>>

-----------------------------------------------------------------------------
(* session_start and session_stop.                                         *)

\* The session's socket is closed for good.
Killed(e) == [e EXCEPT !.tr = "dead"]

\* The entry leaves the registry, its socket is closed and the engine asked
\* to stop; with no entry there is nothing to stop.  A thread is left to
\* find the stop in its queue.
StopAsks(c) ==
    /\ At(c, "stop")
    /\ IF reg = NoBox
       THEN Goto(c, caller[c].then) /\ UNCHANGED <<reg, box>>
       ELSE /\ reg' = NoBox
            /\ LET n == box[reg].seq + 1 IN
               box' = [box EXCEPT ![reg] =
                         [Killed(box[reg]) EXCEPT !.seq = n,
                            !.inbox = @ \cup {[seq |-> n, op |-> "stop",
                                               pushed |-> 0, total |-> 0]}]]
            /\ IF mode = "inproc" THEN Goto(c, caller[c].then)
               ELSE caller' = [caller EXCEPT ![c] = [@ EXCEPT !.pc = "kill", !.box = reg]]
    /\ UNCHANGED <<mode, bars, paper, left>>

Gone(b) == [Unlaunched EXCEPT !.run = "gone", !.tr = "dead",
                              !.lock = box[b].lock, !.outbox = box[b].outbox]

\* A moment later a container is killed, whatever it was doing.
StopKills(c) ==
    /\ At(c, "kill")
    /\ box' = [box EXCEPT ![caller[c].box] = Gone(caller[c].box)]
    /\ caller' = [caller EXCEPT ![c] = [@ EXCEPT !.pc = caller[c].then, !.box = NoBox]]
    /\ UNCHANGED <<mode, bars, reg, paper, left>>

\* kill_labelled: containers of the deployment that no registry knows.
KillLabelled(c) ==
    /\ At(c, "label")
    /\ box' = [b \in Boxes |->
                 IF box[b].run \in {"building", "up"} THEN Gone(b) ELSE box[b]]
    /\ Goto(c, "launch")
    /\ UNCHANGED <<mode, bars, reg, paper, left>>

\* docker run, and the registry names the new box; an older one stays up
\* when two callers launch at once.  A thread is named once it has built.
Launch(c) ==
    /\ At(c, "launch")
    /\ \/ \E b \in Boxes :
            /\ box[b].run = "none" /\ \A a \in 1..b - 1 : box[a].run # "none"
            /\ box' = [box EXCEPT ![b] = [@ EXCEPT !.run = "building", !.tr = "file"]]
            /\ reg' = IF mode = "inproc" THEN reg ELSE b
            /\ caller' = [caller EXCEPT ![c] = [@ EXCEPT !.pc = "ready", !.box = b]]
       \/ /\ \A b \in Boxes : box[b].run # "none"
          /\ Raise(c) /\ UNCHANGED <<reg, box>>
    /\ UNCHANGED <<mode, bars, paper, left>>

\* EngineServer.build: the engine is constructed and announces itself, or
\* the build fails.
Builds(b) ==
    /\ box[b].run = "building"
    /\ \/ box' = [box EXCEPT ![b].run = "up"] /\ UNCHANGED left
       \/ Fault /\ box' = [box EXCEPT ![b] = Gone(b)]
    /\ UNCHANGED <<mode, bars, reg, caller, paper>>

\* The wait for the announcement: the transport is fixed for the session's
\* life -- the socket may fall to files -- and the engine is warmed.
Ready(c) ==
    /\ At(c, "ready") /\ Up(caller[c].box)
    /\ \E tr \in {mode, "file"} :
       /\ tr # mode => mode = "socket" /\ Fault
       /\ tr = mode => UNCHANGED left
       /\ box' = [box EXCEPT ![caller[c].box].tr =
                                IF @ = "dead" THEN "dead" ELSE tr]
       /\ caller' = [caller EXCEPT ![c] = [@ EXCEPT !.pc = "lookup", !.op = "warm",
                                   !.via = tr]]
    /\ reg' = IF mode = "inproc" THEN caller[c].box ELSE reg
    /\ UNCHANGED <<mode, bars, paper>>

\* It failed to build, it is gone, or it took too long.
NotReady(c) ==
    /\ At(c, "ready")
    /\ \/ box[caller[c].box].run = "gone" /\ UNCHANGED left
       \/ Fault
    /\ Raise(c)
    /\ UNCHANGED <<mode, bars, reg, box, paper>>

-----------------------------------------------------------------------------
(* session_call.                                                           *)

Lookup(c) ==
    /\ At(c, "lookup")
    /\ IF reg = NoBox THEN Raise(c)
       ELSE caller' = [caller EXCEPT ![c] = [@ EXCEPT !.box = reg,
                         !.pc = IF mode = "inproc" THEN "queue" ELSE "lock"]]
    /\ UNCHANGED <<mode, bars, reg, box, paper, left>>

\* mutant: the session has no lock of its own
AcquireAnyway(c) ==
    /\ At(c, "lock")
    /\ LET b == caller[c].box IN
       /\ box' = [box EXCEPT ![b].seq = @ + 1]
       /\ caller' = [caller EXCEPT ![c] = [@ EXCEPT !.pc = "send", !.seq = box[b].seq + 1]]
    /\ UNCHANGED <<mode, bars, reg, paper, left>>

\* Two callers of one session take turns, and the sequence number is taken
\* inside the lock.
Acquire(c) ==
    /\ At(c, "lock") /\ box[caller[c].box].lock = Free
    /\ LET b == caller[c].box IN
       /\ box' = [box EXCEPT ![b] = [box[b] EXCEPT !.seq = @ + 1, !.lock = c]]
       /\ caller' = [caller EXCEPT ![c] = [@ EXCEPT !.pc = "send", !.seq = box[b].seq + 1]]
    /\ UNCHANGED <<mode, bars, reg, paper, left>>

\* The wait for the lock used up the budget: refused before sending.
Busy(c) ==
    /\ At(c, "lock") /\ box[caller[c].box].lock # Free
    /\ Fault /\ Raise(c)
    /\ UNCHANGED <<mode, bars, reg, box, paper>>

\* mutant: a call that raises keeps the lock
KeepsLock(b) == [box EXCEPT ![b].lock = @]

Released(b) == [box EXCEPT ![b].lock = Free]

\* The request goes out with the caller's rows, those after the bars the
\* engine reported.
Request(c, seq) == [seq |-> seq, op |-> caller[c].op,
                    pushed |-> caller[c].pushed, total |-> caller[c].total]
Inbox(c, seq) ==
    LET b == caller[c].box IN
    IF box[b].run = "gone" THEN {} ELSE box[b].inbox \cup {Request(c, seq)}

\* On a dead transport the call raises.
Send(c) ==
    /\ At(c, "send")
    /\ LET b == caller[c].box IN
       IF box[b].tr = "dead"
       THEN Raise(c) /\ box' = Released(b)
       ELSE /\ box' = [box EXCEPT ![b].inbox = Inbox(c, caller[c].seq)]
            /\ Goto(c, "wait")
    /\ UNCHANGED <<mode, bars, reg, paper, left>>

\* InProcSession.call: a dead session raises; otherwise the request joins
\* the worker thread's queue, in arrival order.
Queue(c) ==
    /\ At(c, "queue")
    /\ LET b == caller[c].box
           n == box[b].seq + 1 IN
       IF box[b].tr = "dead" THEN Raise(c) /\ UNCHANGED box
       ELSE /\ box' = [box EXCEPT ![b] = [@ EXCEPT !.inbox = Inbox(c, n), !.seq = n]]
            /\ caller' = [caller EXCEPT ![c] = [@ EXCEPT !.pc = "wait", !.seq = n]]
    /\ UNCHANGED <<mode, bars, reg, paper, left>>

Replies(c) == {a \in box[caller[c].box].outbox : a.seq = caller[c].seq}

\* What the payload of answer a to caller c is made of: the history, and
\* the close before or the caller's rows, or what other callers pushed to
\* an engine this one had no rows for.
Complete(c, a) == a.warmed /\ (a.held = 0 \/ caller[c].total \in {0, a.held})

\* The answer to the caller's own request: a refusal raises, a warm is
\* followed by the day's first tick, and a tick is a payload -- unless the
\* engine has not opened the day and the stored payload already has fills
\* of it, which WarmSession decides.
Answered(c) ==
    /\ At(c, "wait")
    /\ LET b == caller[c].box IN \E a \in Replies(c) :
       /\ box' = [Released(b) EXCEPT ![b].outbox = @ \ {a}]
       /\ \/ /\ a.ok => caller[c].op = "tick" /\ a.held = 0
             /\ Raise(c) /\ UNCHANGED paper
          \/ /\ a.ok /\ caller[c].op = "warm"
             /\ caller' = [caller EXCEPT ![c] = [@ EXCEPT !.pc = "lookup", !.op = "tick",
                                         !.pushed = 0]]
             /\ UNCHANGED paper
          \/ /\ a.ok /\ caller[c].op = "tick"
             /\ caller' = [caller EXCEPT ![c] =
                             [AtRest EXCEPT !.via = caller[c].via, !.pushed = a.held,
                                            !.total = caller[c].total]]
             /\ paper' = [whole |-> Complete(c, a), sure |-> a.sure]
    /\ UNCHANGED <<mode, bars, reg, left>>

\* A call that failed closes the socket for good; the file transport only
\* raises.  lost: the engine may step a request nobody waits for.
Closed(e) == [Killed(e) EXCEPT !.lost = TRUE]
GivenUp(b) ==
    IF box[b].tr = "socket" THEN [Released(b) EXCEPT ![b] = Closed(Released(b)[b])]
    ELSE Released(b)

\* The in-process watchdog cancels the future first: a request further back
\* in the queue is taken back, the one the worker is at runs on.
Cancelled(b, seq) ==
    {r \in box[b].inbox : r.seq # seq \/ \A q \in box[b].inbox : r.seq <= q.seq}

\* No answer: the engine is gone, the socket was closed by a stop, or the
\* deadline passes first.
Unanswered(c) ==
    /\ At(c, "wait") /\ Replies(c) = {}
    /\ LET b == caller[c].box IN
       /\ \/ (box[b].run = "gone" \/ box[b].tr = "dead") /\ UNCHANGED left
          \/ Fault
       /\ IF mode = "inproc"
          THEN /\ box' = [box EXCEPT ![b].inbox = Cancelled(b, caller[c].seq)]
               /\ Goto(c, "mark")
          ELSE box' = GivenUp(b) /\ Raise(c)
    /\ UNCHANGED <<mode, bars, reg, paper>>

\* Then it marks the session dead, and a statement later the engine; the
\* worker thread runs in between.
Marks(c) ==
    /\ At(c, "mark")
    /\ box' = [box EXCEPT ![caller[c].box] = Killed(@)]
    /\ Goto(c, "void")
    /\ UNCHANGED <<mode, bars, reg, paper, left>>
Voids(c) ==
    /\ At(c, "void")
    /\ box' = [box EXCEPT ![caller[c].box] = [@ EXCEPT !.dead = TRUE, !.lost = TRUE]]
    /\ Raise(c)
    /\ UNCHANGED <<mode, bars, reg, paper, left>>

-----------------------------------------------------------------------------
(* The engine.                                                             *)

\* mutant: the engine takes the bars as they come
AnyPush(b, r) == TRUE

\* _pushed_bars: what it holds and what is pushed make up the day, or there
\* is nothing for it.
InSync(b, r) == r.total = 0 \/ box[b].held + (r.total - r.pushed) = r.total

\* mutant: an engine steps before it was warmed
StepsCold(b, r) == ~box[b].dead /\ (r.op = "tick" => InSync(b, r))

\* EngineOps.call: a dead engine refuses, a tick before the warm-up or with
\* a push that does not reconcile kills it.
Accepts(b, r) ==
    ~box[b].dead /\ (r.op = "tick" => box[b].warmed /\ InSync(b, r))

\* A tick of an engine that has not opened the day may be declined: nothing
\* to open it with, or another symbol is still missing within the grace.
Declines(b, r) == r.op = "tick" /\ box[b].held = 0

\* takes: the bars it takes in.
Ran(b, r, takes) ==
    [box[b] EXCEPT !.warmed = @ \/ r.op = "warm", !.held = @ + takes]
Taken(b, r) == IF r.op = "tick" /\ r.total > 0 THEN r.total - r.pushed ELSE 0
Takes(b, r) == {Taken(b, r)} \cup (IF Declines(b, r) THEN {0} ELSE {})

Waiting(b, seq) ==
    \E c \in Callers : At(c, "wait") /\ caller[c].box = b /\ caller[c].seq = seq

\* The reply goes to the request's file or future; a closed socket takes it
\* nowhere.
Replied(b, e, seq, ok) ==
    [e EXCEPT !.last = seq, !.inbox = {r \in @ : r.seq # seq},
              !.outbox = IF ~Waiting(b, seq) \/ (mode = "socket" /\ e.tr = "dead")
                         THEN @
                         ELSE @ \cup {[seq |-> seq, ok |-> ok, held |-> e.held,
                                       warmed |-> e.warmed,
                                       sure |-> ~e.lost]}]

Duplicate(b, r) == r.seq <= box[b].last

\* Requests are taken in sequence order.  One at or below the last answered
\* is refused and kills the engine, as any error does; a stop ends it.
Serve(b) ==
    /\ Up(b) /\ box[b].inbox # {}
    /\ \E r \in {q \in box[b].inbox : \A p \in box[b].inbox : q.seq <= p.seq} :
       LET refused == Duplicate(b, r) \/ (r.op # "stop" /\ ~Accepts(b, r)) IN
       \/ /\ r.op = "stop" /\ ~refused
          /\ box' = [box EXCEPT ![b] = Gone(b)] /\ UNCHANGED left
       \/ /\ r.op # "stop" /\ ~refused
          /\ \E n \in Takes(b, r) :
                box' = [box EXCEPT ![b] = Replied(b, Ran(b, r, n), r.seq, TRUE)]
          /\ UNCHANGED left
       \/ /\ IF refused THEN UNCHANGED left
             ELSE r.op # "stop" /\ Fault              \* the strategy raised
          /\ box' = [box EXCEPT ![b] =
                       Replied(b, [box[b] EXCEPT !.dead = TRUE,
                                 !.refusedRetry = @ \/ Duplicate(b, r)],
                               r.seq, FALSE)]
    /\ UNCHANGED <<mode, bars, reg, caller, paper>>

\* Nobody called for DQENGINE_SERVE_IDLE_S.
IdleExit(b) ==
    /\ Up(b) /\ box[b].inbox = {} /\ mode # "inproc"
    /\ \A c \in Callers : caller[c].box # b
    /\ box' = [box EXCEPT ![b] = Gone(b)]
    /\ UNCHANGED <<mode, bars, reg, caller, paper, left>>

\* The container is killed from outside: memory, the host.
BoxDies(b) ==
    /\ Up(b) /\ mode # "inproc" /\ Fault
    /\ box' = [box EXCEPT ![b] = Gone(b)]
    /\ UNCHANGED <<mode, bars, reg, caller, paper>>

\* The sandbox service restarts: the registry is empty, its threads are
\* gone, and startup kills every labelled container.
ServiceRestarts ==
    /\ mode # "inproc" /\ Fault
    /\ reg' = NoBox
    /\ box' = [b \in Boxes |-> IF box[b].run = "none" THEN box[b] ELSE Gone(b)]
    /\ caller' = [c \in Callers |-> IF At(c, "idle") THEN caller[c]
                                    ELSE Raised]
    /\ UNCHANGED <<mode, bars, paper>>

-----------------------------------------------------------------------------

Step(c) ==
    \/ StopAsks(c) \/ StopKills(c) \/ KillLabelled(c) \/ Launch(c)
    \/ Ready(c) \/ NotReady(c)
    \/ Lookup(c) \/ Acquire(c) \/ Busy(c) \/ Send(c) \/ Queue(c)
    \/ Answered(c) \/ Unanswered(c) \/ Marks(c) \/ Voids(c)
Run(b) == Builds(b) \/ Serve(b)

Next ==
    \/ ServiceRestarts
    \/ \E c \in Callers : Tick(c) \/ Step(c)
    \/ \E b \in Boxes : Run(b) \/ IdleExit(b) \/ BoxDies(b)

\* Threads run, deadlines pass, and an idle server counts its hours.  No
\* tick and no fault is owed.  The lock wakes one of its waiters.
Fairness ==
    /\ \A c \in Callers : WF_vars(Step(c)) /\ SF_vars(Acquire(c))
    /\ \A b \in Boxes : WF_vars(Run(b)) /\ WF_vars(IdleExit(b))
Spec == Init /\ [][Next]_vars /\ Fairness

-----------------------------------------------------------------------------
(* Properties.                                                             *)

Counts == 0..MaxBars    \* bars of the day: none, some, all

\* What is asked of an engine, and what it answers.
Requests == [seq : Nat, op : {"stop", "warm", "tick"},
             pushed : Counts, total : Counts]
Answers  == [seq : Nat, ok : BOOLEAN, held : Counts, warmed : BOOLEAN,
             sure : BOOLEAN]

\* A launched engine with its registry entry, and a caller's thread.
BoxType ==
    [run : {"none", "building", "up", "gone"}, seq : Nat,
     tr : {"none", "socket", "file", "inproc", "dead"},
     lock : Callers \cup {Free}, dead : BOOLEAN, warmed : BOOLEAN,
     held : Counts, last : Nat, refusedRetry : BOOLEAN, lost : BOOLEAN,
     inbox : SUBSET Requests, outbox : SUBSET Answers]
CallerType ==
    [pc : {"idle", "stop", "kill", "label", "launch", "ready", "lookup", "lock",
           "send", "queue", "wait", "mark", "void"},
     via : {"none", "socket", "file", "inproc"}, pushed : Counts,
     op : {"none", "warm", "tick"}, box : Boxes \cup {NoBox}, seq : Nat,
     total : Counts, then : {"idle", "label", "launch"}]

\* A thread that holds a box names one, and one that calls has something to ask.
Named(t) ==
    /\ t.pc \in {"kill", "ready", "lock", "send", "queue", "wait", "mark", "void"}
         => t.box \in Boxes
    /\ t.pc \in {"lookup", "lock", "send", "queue", "wait"} => t.op # "none"
BoxesOK ==
    box \in [Boxes -> BoxType] /\ \A b \in Boxes : box[b].last <= box[b].seq
CallersOK ==
    caller \in [Callers -> CallerType] /\ \A c \in Callers : Named(caller[c])
RegOK  == reg \in Boxes \cup {NoBox} /\ (reg # NoBox => box[reg].run # "none")
RestOK ==
    /\ mode \in Modes /\ bars \in 1..MaxBars /\ paper \in [whole : BOOLEAN, sure : BOOLEAN]
    /\ left \in [ticks : 0..MaxTicks, faults : 0..MaxFaults]

\* One type invariant for the module: boxes, callers and the registry.
TypeOK == BoxesOK /\ CallersOK /\ RegOK /\ RestOK

\* A payload is only ever published off an engine that ran the history and
\* is at one of two points of the day: it holds exactly the bars the caller
\* had read for the tick -- also when another caller has replaced the engine
\* in between, so that they were counted for one that is gone -- or it has
\* not opened the day at all, its first bar alone or other symbols awaited,
\* and the payload is the close before.  Never a part of the caller's bars.
\* A caller that read none gets what the engine holds (warm_tick_python,
\* _bars_to_push, _pushed_bars).
WholePayload == paper.whole

\* Once a call over the socket, or in process, has raised unanswered, the
\* engine answers no other with a payload: it may have stepped bars nobody
\* knows of, and it is not asked again, by no caller (_socket_call: "the
\* socket is never reused"; InProcSession.call, which raises only when the
\* session and its engine are marked; the files promise no such thing).
LostAnswerEnds == paper.sure

\* A healthy engine is never killed by a false duplicate: callers that meet
\* on one session reach the server in the order of their numbers
\* (pyrunner.session_call, the comment on the lock).
NoFalseRetry == \A b \in Boxes : ~box[b].refusedRetry

\* Both: the numbered exchange tells a lost answer from a late question.
AnswersAreExact == LostAnswerEnds /\ NoFalseRetry

\* Every call ends, whatever dies under it; and a container no registry
\* names any more, left by two launches at once, does not outlive its idle
\* hours.
CallsEnd == \A c \in Callers : []<>At(c, "idle")
OrphansEnd == \A b \in Boxes : (Up(b) /\ reg # b) ~> ~Up(b)
Quiesces == CallsEnd /\ (mode # "inproc" => OrphansEnd)
=============================================================================
