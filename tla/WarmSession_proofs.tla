------------------------- MODULE WarmSession_proofs -------------------------
(***************************************************************************)
(* Proofs about WarmSession, for any symbols, bars, scheduled events and   *)
(* bounds.                                                                 *)
(*                                                                         *)
(* Sound says what a live engine is: where its two cursors are, which      *)
(* events have run by then, which bars it holds and delivered.  It is kept *)
(* by a build, an advance, a prime and the end of the session (EngineTick) *)
(* and so by the five ways a tick can go.  BarsInv, EngineInv, TruthInv    *)
(* and SettleInv say what the bar store, the engine, the ledger and the    *)
(* worker's cycle are to one another.                                      *)
(***************************************************************************)
EXTENDS WarmSession, FiniteSetTheorems, WellFoundedInduction, TLAPS

\* e is an engine that may be alive at clock now, with those bars in the store.
\* Of today's engine both cursors say which events have run; tomorrow's was warmed
\* through today and never opens.
Sound(e, now, known) ==
    /\ e \in Engine
    /\ e.open => e.day = 1 /\ ~e.completed
    /\ ~e.open /\ ~e.completed =>
         /\ e.held = NoBars /\ e.frontier = 0 /\ e.primed = 0
         /\ \A t \in Ends : e.slice[t] = {}
    /\ e.day = 1 =>
         \A f \in Fires : e.ran[f] = IF f <= Max({e.frontier, e.primed}) THEN 1 ELSE 0
    /\ e.day = 2 =>
         /\ now >= Morning
         /\ \A f \in Fires : e.ran[f] \in {0, 1} /\ (f \in ReplayFires(known) => e.ran[f] = 1)
    /\ \A s \in Refuses, t \in Ends : t \in e.held[s] <=> s \in e.slice[t]
    /\ \A s \in Syms : e.held[s] \subseteq Pushed(known)[s]
    /\ e.audit # "none" => e.completed

\* The store knows no bar before its end, an export only stored bars; a new day
\* starts with a new export.
BarsInv ==
    /\ \A s \in Syms : zip[s] \subseteq stored[s] /\ \A t \in stored[s] : t <= clock
    /\ clock >= Morning /\ zipFresh => zip = stored

\* The engine was built from no less broker truth than the payload has, and the
\* payload an audit passed is still the engine's.
EngineInv ==
    engine.alive =>
       /\ Sound(engine, clock, stored)
       /\ row.truth <= engine.truth /\ engine.truth <= rows
       /\ engine.audit = "ok" => row.fires = Snapshot(engine).fires

\* The ledger only grows, and a tick reads it before it can commit.
TruthInv ==
    /\ row.truth <= rows /\ seen <= rows
    /\ pc = "tick" => row.truth <= seen
    /\ pending => rows < MaxRows

\* Once the roll's tick is given, what any later tick of the day commits is told
\* before the worker is idle again.
SettleInv ==
    /\ pc \in {"idle", "down"} => due = {}
    /\ "roll" \in due \cup done => clock = Roll
    /\ "prewarm" \in due => clock >= Morning
    /\ "roll" \in done /\ pc \in {"tick", "publish"} => due # {}
    /\ "roll" \in done /\ pc \in {"idle", "ack"} => ~unsent

IInv == TypeOK /\ BarsInv /\ EngineInv /\ TruthInv /\ SettleInv

-----------------------------------------------------------------------------
(* Last and first of a set of times.                                       *)

\* A set of times that is not empty has a first one.
LEMMA MinIsLeast ==
    ASSUME NEW S, S \subseteq Nat, S # {}
    PROVE  Min(S) \in S /\ \A x \in S : Min(S) <= x
<1>1. OpToRel(<, Nat) = {p \in Nat \X Nat : p[1] < p[2]}
  BY Zenon DEF OpToRel
<1>2. \E x \in S : \A y \in S : ~(<<y, x>> \in OpToRel(<, Nat))
  BY NatLessThanWellFounded, WFMin
<1>3. PICK x \in S : \A y \in S : ~(<<y, x>> \in {p \in Nat \X Nat : p[1] < p[2]})
  BY <1>1, <1>2, Zenon
<1>4. ASSUME NEW y \in S, y < x PROVE FALSE
  <2>1. <<y, x>> \in Nat \X Nat /\ <<y, x>>[1] = y /\ <<y, x>>[2] = x
    OBVIOUS
  <2> QED BY <1>3, <1>4, <2>1, Zenon
<1>5. \A y \in S : x <= y
  BY <1>4
<1> QED BY <1>5 DEF Min

\* One that is bounded, too, has a last one.
LEMMA MaxIsGreatest ==
    ASSUME NEW S, S \subseteq Nat, S # {}, NEW n \in Nat, \A x \in S : x <= n
    PROVE  Max(S) \in S /\ \A x \in S : x <= Max(S)
<1> DEFINE T == {n - x : x \in S}
<1>0. \A x \in S : x \in Nat /\ x <= n /\ n - x \in Nat
  OBVIOUS
<1>1. T \subseteq Nat /\ T # {}
  BY <1>0
<1>2. Min(T) \in T /\ \A y \in T : Min(T) <= y
  BY <1>1, MinIsLeast
<1>3. PICK x \in S : Min(T) = n - x
  BY <1>2
<1>4. ASSUME NEW y \in S PROVE x >= y
  <2>1. n - y \in T /\ n - x <= n - y
    BY <1>2, <1>3
  <2> QED BY <2>1
<1> HIDE DEF T
<1>5. Max(S) \in S /\ \A y \in S : Max(S) >= y
  BY <1>4 DEF Max
<1> QED BY <1>0, <1>5

\* The later of two cursors.
LEMMA Later ==
    ASSUME NEW a \in Nat, NEW b \in Nat
    PROVE  Max({a, b}) = IF a <= b THEN b ELSE a
<1>1. \E n \in Nat : a <= n /\ b <= n
  BY a + b \in Nat, a <= a + b, b <= a + b
<1>2. Max({a, b}) \in {a, b} /\ \A x \in {a, b} : x <= Max({a, b})
  BY <1>1, MaxIsGreatest
<1> QED BY <1>2

\* Which bars are pushed only grows with the store.
LEMMA PushedGrows ==
    ASSUME NEW old \in Bars, NEW new \in Bars, NEW s \in Syms, old[s] \subseteq new[s]
    PROVE  /\ Pushed(old)[s] \subseteq Pushed(new)[s] /\ Pushed(new)[s] \subseteq new[s]
           /\ Pushed(new) \in Bars
<1>1. IsFiniteSet(new[s])
  <2>1. IsFiniteSet(Ends)
    BY FS_Interval, WarmAssumption DEF Ends
  <2> QED BY <2>1, FS_Subset DEF Bars
<1>2. Cardinality(old[s]) <= Cardinality(new[s]) /\ Cardinality(new[s]) \in Nat
      /\ Cardinality(old[s]) \in Nat
  BY <1>1, FS_Subset, FS_CardinalityType
<1> QED BY <1>2 DEF Pushed, Bars

-----------------------------------------------------------------------------
(* The engine.                                                             *)

\* a is e advanced by a push: it holds the push, and its frontier, slices and events
\* follow from the bars that are new.
Advanced(e, push, a) ==
    LET new == [s \in Syms |-> push[s] \ e.held[s]] IN
    /\ (\A f \in Fires : a.ran[f] \in 0..3) => a \in Engine
    /\ a.open = TRUE /\ a.held = push
    /\ a.day = e.day /\ a.completed = e.completed /\ a.primed = e.primed
    /\ a.truth = e.truth /\ a.audit = e.audit
    /\ a.frontier \in 0..Close /\ a.frontier >= e.frontier
    /\ \A s \in Syms : \A t \in new[s] : t <= a.frontier
    /\ \A t \in Ends : a.slice[t] = e.slice[t] \cup {s \in Syms : t \in new[s] /\ t > e.frontier}
    /\ \A f \in Fires : a.ran[f] = IF e.frontier < f /\ f <= a.frontier /\ f > e.primed
                                   THEN e.ran[f] + 1 ELSE e.ran[f]

LEMMA AdvanceFields ==
    ASSUME NEW e \in Engine, NEW push \in Bars, e.open \/ Opens(push)
    PROVE  Advanced(e, push, Advance(e, push))
<1> DEFINE new == [s \in Syms |-> push[s] \ e.held[s]]
           ends == {e.frontier} \cup UNION {new[s] : s \in Syms}
           front == Max(ends)
<1>1. ends \subseteq 0..Close /\ ends # {} /\ e.frontier \in Nat /\ Close \in Nat
  BY WarmAssumption DEF Engine, Bars, Ends
<1>2. front \in ends /\ \A t \in ends : t <= front
  <2>1. ends \subseteq Nat /\ \A t \in ends : t <= Close
    BY <1>1
  <2> HIDE DEF ends
  <2> QED BY <1>1, <2>1, MaxIsGreatest
<1>3. /\ front \in 0..Close /\ front >= e.frontier
      /\ \A s \in Syms : \A t \in new[s] : t <= front
  <2>1. \A s \in Syms : \A t \in new[s] : t \in ends
    OBVIOUS
  <2>2. e.frontier \in ends
    OBVIOUS
  <2> HIDE DEF new, ends, front
  <2> QED BY <1>1, <1>2, <2>1, <2>2
<1> DEFINE sl == [t \in Ends |-> e.slice[t] \cup {s \in Syms : t \in new[s] /\ t > e.frontier}]
           rn == [f \in Fires |-> IF e.frontier < f /\ f <= front /\ f > e.primed
                                  THEN e.ran[f] + 1 ELSE e.ran[f]]
           a == Advance(e, push)
<1>4. a = [e EXCEPT !.open = TRUE, !.held = push, !.frontier = front, !.slice = sl, !.ran = rn]
  BY Zenon DEF Advance
<1>5. sl \in [Ends -> SUBSET Syms]
  BY DEF Engine
<1>6. (\A f \in Fires : rn[f] \in 0..3) => rn \in [Fires -> 0..3]
  OBVIOUS
<1>7. /\ \A t \in Ends : sl[t] = e.slice[t] \cup {s \in Syms : t \in new[s] /\ t > e.frontier}
      /\ \A f \in Fires : rn[f] = IF e.frontier < f /\ f <= front /\ f > e.primed
                                  THEN e.ran[f] + 1 ELSE e.ran[f]
  OBVIOUS
<1> HIDE DEF front, sl, rn, a
<1>8. /\ a.open = TRUE /\ a.held = push /\ a.frontier = front /\ a.slice = sl /\ a.ran = rn
      /\ a.day = e.day /\ a.completed = e.completed /\ a.primed = e.primed
      /\ a.truth = e.truth /\ a.audit = e.audit
  BY <1>4 DEF Engine
<1>9. (\A f \in Fires : rn[f] \in 0..3) => a \in Engine
  BY <1>3, <1>4, <1>5, <1>6 DEF Engine
<1> HIDE DEF new
<1> QED BY <1>3, <1>7, <1>8, <1>9 DEF a, new, Advanced

\* The bars ahead of the frontier run the events they pass; a symbol that may not be
\* late is given every bar in its slice, because the push would have been refused.
LEMMA AdvanceSound ==
    ASSUME NEW now \in Nat, NEW known \in Bars, NEW e, Sound(e, now, known), ~e.completed,
           NEW push \in {NoBars, Pushed(known)}, e.open => push = Pushed(known),
           push # NoBars => e.day = 1, ~Refused(e, push)
    PROVE  LET a == Advance(e, push)
           IN  /\ Sound(a, now, known) /\ ~a.completed
               /\ a.day = e.day /\ a.truth = e.truth /\ a.audit = e.audit
<1>0. e \in Engine /\ push \in Bars /\ Pushed(known) \in Bars
  BY PushedGrows DEF Sound, NoBars, Bars, Pushed
<1>1. CASE ~(e.open \/ Opens(push))
  <2>1. Advance(e, push) = e
    BY <1>1, Zenon DEF Advance
  <2> QED BY <2>1
<1>2. CASE e.open \/ Opens(push)
  <2> DEFINE new == [s \in Syms |-> push[s] \ e.held[s]]
  <2>1. PICK a : a = Advance(e, push)
    OBVIOUS
  <2>2. Advanced(e, push, a)
    BY <1>0, <1>2, <2>1, AdvanceFields
  <2>3. push = Pushed(known) /\ e.day = 1
    <3>1. CASE e.open
      BY <1>0, <3>1 DEF Sound
    <3>2. CASE Opens(push)
      <4>1. push # NoBars
        BY <3>2 DEF Opens, NoBars
      <4> QED BY <4>1
    <3> QED BY <1>2, <3>1, <3>2
  <2>4. \A f \in Fires : a.ran[f] = IF f <= Max({a.frontier, a.primed}) THEN 1 ELSE 0
    <3> SUFFICES ASSUME NEW f \in Fires
                 PROVE  a.ran[f] = IF f <= Max({a.frontier, a.primed}) THEN 1 ELSE 0
      OBVIOUS
    <3>1. e.ran[f] = IF f <= Max({e.frontier, e.primed}) THEN 1 ELSE 0
      BY <2>3 DEF Sound
    <3>2. /\ e.frontier \in Nat /\ e.primed \in Nat /\ a.frontier \in Nat /\ f \in Nat
      BY <1>0, <2>2, WarmAssumption DEF Advanced, Engine, Roll
    <3>3. /\ Max({e.frontier, e.primed}) = IF e.frontier <= e.primed THEN e.primed ELSE e.frontier
          /\ Max({a.frontier, a.primed}) = IF a.frontier <= e.primed THEN e.primed ELSE a.frontier
      BY <2>2, <3>2, Later DEF Advanced
    <3>4. a.ran[f] = IF e.frontier < f /\ f <= a.frontier /\ f > e.primed
                     THEN e.ran[f] + 1 ELSE e.ran[f]
      BY <2>2 DEF Advanced
    <3>5. a.frontier >= e.frontier
      BY <2>2 DEF Advanced
    <3> QED BY <3>1, <3>2, <3>3, <3>4, <3>5
  <2>5. a \in Engine
    BY <2>2, <2>4 DEF Advanced
  <2>6. ASSUME NEW s \in Refuses, NEW t \in Ends
        PROVE  t \in a.held[s] <=> s \in a.slice[t]
    <3>0. s \in Syms
      BY WarmAssumption
    <3>1. t \in e.held[s] <=> s \in e.slice[t]
      BY DEF Sound
    <3>2. e.held[s] \subseteq push[s]
      BY <2>3, <3>0 DEF Sound
    <3>3. t \in new[s] => t > e.frontier
      <4>1. CASE e.open
        <5>1. t \in new[s] => ~(t <= e.frontier)
          BY <3>0, <4>1 DEF Refused
        <5> QED BY <5>1, <1>0, WarmAssumption DEF Engine, Ends
      <4>2. CASE ~e.open
        BY <4>2, WarmAssumption DEF Sound, Ends
      <4> QED BY <4>1, <4>2
    <3>4. a.slice[t] = e.slice[t] \cup {x \in Syms : t \in new[x] /\ t > e.frontier}
      BY <2>2 DEF Advanced
    <3>5. s \in a.slice[t] <=> s \in e.slice[t] \/ t \in new[s]
      BY <3>0, <3>3, <3>4
    <3> QED BY <2>2, <3>0, <3>1, <3>2, <3>5 DEF Advanced
  <2>7. /\ a.audit = "none" /\ a.open = TRUE /\ a.day = 1 /\ a.held = push /\ a.completed = FALSE
        /\ a.truth = e.truth
    BY <1>0, <2>2, <2>3 DEF Sound, Advanced, Engine
  <2> HIDE DEF new
  <2>8. Sound(a, now, known)
    BY <2>3, <2>4, <2>5, <2>6, <2>7 DEF Sound
  <2> QED BY <2>1, <2>3, <2>7, <2>8, <1>0 DEF Sound
<1> QED BY <1>1, <1>2

\* A prime runs what the clock has reached: after it, of an open session, no event
\* that is due has not run.
LEMMA PrimeSound ==
    ASSUME NEW known \in Bars, NEW e, Sound(e, clock, known), ~e.completed,
           clock \in Nat, e.open => clock <= Roll
    PROVE  LET p == Prime(e)
           IN  /\ Sound(p, clock, known) /\ ~p.completed
               /\ p.day = e.day /\ p.truth = e.truth /\ p.audit = e.audit /\ p.open = e.open
               /\ p.open => \A f \in Fires : f <= clock => p.ran[f] = 1
<1> DEFINE passed == Max({e.frontier, e.primed})
           now == {f \in Fires : passed < f /\ f <= clock}
           p == Prime(e)
<1>0. /\ e \in Engine /\ e.frontier \in Nat /\ e.primed \in Nat /\ Roll \in Nat
      /\ Fires \subseteq Nat
  <2>1. e \in Engine
    BY DEF Sound
  <2>2. e.frontier \in 0..Close /\ e.primed \in 0..Roll
    BY <2>1 DEF Engine
  <2>3. Close \in Nat /\ Fires \subseteq 1..Close
    BY WarmAssumption
  <2> QED BY <2>1, <2>2, <2>3 DEF Roll
<1>1. passed = IF e.frontier <= e.primed THEN e.primed ELSE e.frontier
  BY <1>0, Later
<1>2. CASE ~e.open \/ now = {}
  <2>1. p = e
    BY <1>2, Zenon DEF Prime
  <2>2. ASSUME e.open, NEW f \in Fires, f <= clock PROVE e.ran[f] = 1
    <3>1. f <= passed
      BY <1>0, <1>1, <1>2, <2>2
    <3>2. e.day = 1 /\ e.ran[f] = IF f <= passed THEN 1 ELSE 0
      BY <2>2 DEF Sound
    <3> QED BY <3>1, <3>2
  <2> HIDE DEF p
  <2> QED BY <2>1, <2>2 DEF p
<1>3. CASE ~(~e.open \/ now = {})
  <2>0. e.day = 1 /\ e.open = TRUE /\ clock <= Roll /\ e.completed = FALSE
    BY <1>0, <1>3 DEF Sound, Engine
  <2> DEFINE rn == [f \in Fires |-> IF f \in now THEN e.ran[f] + 1 ELSE e.ran[f]]
             top == Max({e.primed, clock})
  <2>1. p = [e EXCEPT !.ran = rn, !.primed = top]
    BY <1>3, Zenon DEF Prime
  <2>2. top = IF e.primed <= clock THEN clock ELSE e.primed
    BY <1>0, Later
  <2>3. top \in 0..Roll
    BY <2>0, <2>2, <1>0 DEF Engine
  <2>4. ASSUME NEW f \in Fires
        PROVE  /\ rn[f] = IF f <= Max({e.frontier, top}) THEN 1 ELSE 0
               /\ f <= clock => rn[f] = 1
    <3>1. Max({e.frontier, top}) = IF e.frontier <= top THEN top ELSE e.frontier
      BY <1>0, <2>3, Later
    <3>2. e.ran[f] = IF f <= passed THEN 1 ELSE 0
      BY <2>0 DEF Sound
    <3>3. f \in Nat /\ (f \in now <=> passed < f /\ f <= clock)
      BY <1>0
    <3>4. rn[f] = IF f \in now THEN e.ran[f] + 1 ELSE e.ran[f]
      OBVIOUS
    <3>5. \E x \in now : TRUE
      BY <1>3
    <3>6. passed < clock
      BY <1>0, <1>1, <3>5
    <3> HIDE DEF rn, top, now, passed
    <3> QED BY <1>0, <1>1, <2>2, <3>1, <3>2, <3>3, <3>4, <3>6
  <2>5. rn \in [Fires -> 0..3]
    <3>1. \A f \in Fires : rn[f] \in 0..3
      <4> HIDE DEF rn, top
      <4> QED BY <2>4
    <3>2. rn = [f \in Fires |-> rn[f]]
      OBVIOUS
    <3> HIDE DEF rn
    <3> QED BY <3>1, <3>2
  <2> HIDE DEF rn, top, p, now, passed
  <2>6. /\ p.ran = rn /\ p.primed = top /\ p.open = e.open /\ p.day = e.day
        /\ p.completed = e.completed /\ p.held = e.held /\ p.slice = e.slice
        /\ p.frontier = e.frontier /\ p.truth = e.truth /\ p.audit = e.audit
    BY <1>0, <2>1 DEF Engine
  <2>7. p \in Engine
    BY <1>0, <2>1, <2>3, <2>5 DEF Engine
  <2>8. \A f \in Fires : p.ran[f] = IF f <= Max({p.frontier, p.primed}) THEN 1 ELSE 0
    BY <2>4, <2>6
  <2>9. Sound(p, clock, known)
    <3>1. p.open = TRUE /\ p.completed = FALSE /\ p.day = 1 /\ p.audit = "none"
          /\ p.day # 2
      BY <2>0, <2>6 DEF Sound
    <3>2. /\ \A s \in Refuses, t \in Ends : t \in p.held[s] <=> s \in p.slice[t]
          /\ \A s \in Syms : p.held[s] \subseteq Pushed(known)[s]
      BY <2>6 DEF Sound
    <3> QED BY <2>7, <2>8, <3>1, <3>2, Zenon DEF Sound
  <2> QED BY <2>0, <2>4, <2>6, <2>9 DEF p
<1> QED BY <1>2, <1>3

\* From close + 60 s on the day is over.
LEMMA EndSound ==
    ASSUME NEW known \in Bars, NEW e, Sound(e, clock, known), e.audit = "none"
    PROVE  LET x == EndSession(e)
           IN  /\ Sound(x, clock, known) /\ x.ran = e.ran
               /\ x.day = e.day /\ x.truth = e.truth /\ x.audit = "none"
               /\ clock = Roll \/ x = e
<1>1. CASE clock # Roll
  <2>1. EndSession(e) = e
    BY <1>1 DEF EndSession
  <2> QED BY <1>1, <2>1
<1>2. CASE clock = Roll
  <2>1. PICK x : x = [e EXCEPT !.open = FALSE, !.completed = TRUE]
    OBVIOUS
  <2>2. e \in Engine
    BY DEF Sound
  <2>3. /\ x.ran = e.ran /\ x.primed = e.primed /\ x.open = FALSE /\ x.day = e.day
        /\ x.completed = TRUE /\ x.held = e.held /\ x.slice = e.slice
        /\ x.frontier = e.frontier /\ x.truth = e.truth /\ x.audit = "none"
    BY <2>1, <2>2 DEF Engine
  <2>4. x \in Engine
    BY <2>1, <2>2 DEF Engine
  <2>5. Sound(x, clock, known)
    BY <2>3, <2>4 DEF Sound
  <2>6. x = EndSession(e)
    BY <1>2, <2>1 DEF EndSession
  <2> QED BY <1>2, <2>3, <2>5, <2>6
<1> QED BY <1>1, <1>2

\* A new engine holds nothing of today; tomorrow's was warmed through today.
LEMMA BuiltSound ==
    ASSUME NEW z \in Bars, clock \in Nat, seen \in 0..MaxRows, clock >= Morning => z = stored
    PROVE  LET b == Built(z)
           IN  /\ Sound(b, clock, stored) /\ ~b.completed /\ ~b.open
               /\ b.day = Today /\ b.truth = seen /\ b.audit = "none"
<1>1. PICK ran : ran = [f \in Fires |-> IF Today = 2 /\ f \in ReplayFires(z) THEN 1 ELSE 0]
  OBVIOUS
<1>2. PICK slice : slice = [t \in Ends |-> {}]
  OBVIOUS
<1>3. PICK b : b = [alive |-> TRUE, day |-> Today, open |-> FALSE, completed |-> FALSE,
                    held |-> NoBars, frontier |-> 0, slice |-> slice, primed |-> 0,
                    ran |-> ran, truth |-> seen, audit |-> "none"]
  OBVIOUS
<1>4. b = Built(z)
  BY <1>1, <1>2, <1>3, Zenon DEF Built
<1>5. /\ b.open = FALSE /\ b.completed = FALSE /\ b.day = Today /\ b.held = NoBars
      /\ b.frontier = 0 /\ b.slice = slice /\ b.primed = 0 /\ b.ran = ran
      /\ b.truth = seen /\ b.audit = "none"
  BY <1>3
<1>6. /\ ran \in [Fires -> 0..3] /\ slice \in [Ends -> SUBSET Syms] /\ NoBars \in Bars
      /\ Today \in {1, 2} /\ 0 \in 0..Close /\ 0 \in 0..Roll
  BY <1>1, <1>2, WarmAssumption DEF NoBars, Bars, Today, Roll
<1>7. b \in Engine
  BY <1>3, <1>6 DEF Engine
<1>8. \A f \in Fires : f > 0 /\ Max({0, 0}) = 0 /\ f \in Nat
  BY Later, WarmAssumption
<1>9. \A f \in Fires : /\ Today = 1 => ran[f] = 0
                       /\ Today = 2 => ran[f] \in {0, 1} /\ (f \in ReplayFires(stored) => ran[f] = 1)
  BY <1>1, WarmAssumption DEF Today, Morning
<1>10. b.day = 1 =>
         \A f \in Fires : b.ran[f] = IF f <= Max({b.frontier, b.primed}) THEN 1 ELSE 0
  <2> SUFFICES ASSUME b.day = 1, NEW f \in Fires
               PROVE  b.ran[f] = IF f <= Max({b.frontier, b.primed}) THEN 1 ELSE 0
    OBVIOUS
  <2>1. Max({b.frontier, b.primed}) = 0 /\ f > 0 /\ f \in Nat
    BY <1>5, <1>8
  <2>2. b.ran[f] = 0
    BY <1>5, <1>9
  <2> QED BY <2>1, <2>2
<1>11. b.day = 2 =>
         /\ clock >= Morning
         /\ \A f \in Fires : b.ran[f] \in {0, 1} /\ (f \in ReplayFires(stored) => b.ran[f] = 1)
  BY <1>5, <1>9 DEF Today
<1>12. /\ \A s \in Refuses, t \in Ends : t \in b.held[s] <=> s \in b.slice[t]
       /\ \A s \in Syms : b.held[s] \subseteq Pushed(stored)[s]
       /\ \A t \in Ends : b.slice[t] = {}
  BY <1>2, <1>5, WarmAssumption DEF NoBars
<1>13. Sound(b, clock, stored)
  BY <1>5, <1>7, <1>10, <1>11, <1>12, Zenon DEF Sound
<1> QED BY <1>4, <1>5, <1>13

Handed == TypeOK /\ BarsInv /\ EngineInv /\ TruthInv /\ pc = "tick"

\* What an engine answers a tick with, unless it refuses: an engine that stands as
\* Sound says, and whose snapshot has every decision the stored bars reproduce, unless
\* its session has not opened.
LEMMA TickSound ==
    ASSUME Handed, ~Completed, ~Refused(Base, Push)
    PROVE  LET e == EngineTick(Base, Push)
           IN  /\ Sound(e, clock, stored) /\ e.audit = "none" /\ e.day = Today
               /\ row.truth <= e.truth /\ e.truth <= rows
               /\ ~e.completed /\ ~Backwards(e) =>
                    row.fires \cap ReplayFires(stored) \subseteq Snapshot(e).fires
<1>0. /\ clock \in Nat /\ stored \in Bars /\ zip \in Bars /\ seen \in 0..MaxRows
      /\ MaxRows \in Nat /\ row \in Payload /\ rows \in Nat
      /\ zipFresh \in BOOLEAN /\ engine \in Engine \cup {NoEngine}
  BY WarmAssumption DEF Handed, TypeOK, Tomorrow
<1>1. /\ Sound(Base, clock, stored) /\ ~Base.completed /\ Base.day = Today
      /\ row.truth <= Base.truth /\ Base.truth <= rows
      /\ Base.open => Standing
  <2>1. CASE Standing
    <3>1. Base = engine
      BY <2>1 DEF Base
    <3> QED BY <2>1, <3>1 DEF Handed, EngineInv, Standing, Completed
  <2>2. CASE ~Standing
    <3>1. Base = Built(Exported(zip, zipFresh))
      BY <2>2 DEF Base
    <3>2. /\ Exported(zip, zipFresh) \in Bars
          /\ clock >= Morning => Exported(zip, zipFresh) = stored
      BY <1>0 DEF Exported, Handed, BarsInv
    <3>3. row.truth <= seen /\ seen <= rows
      BY DEF Handed, TruthInv
    <3> QED BY <1>0, <3>1, <3>2, <3>3, BuiltSound
  <2> QED BY <2>1, <2>2
<1>2. /\ Push \in {NoBars, Pushed(stored)}
      /\ Base.open => Push = Pushed(stored)
      /\ Push # NoBars => Base.day = 1
  <2>1. Push \in {NoBars, Pushed(stored)} /\ (Push # NoBars => Today = 1)
    BY DEF Push, Today
  <2>2. ASSUME Base.open PROVE Push = Pushed(stored)
    <3>1. Base.day = 1 /\ Standing
      BY <1>1, <2>2 DEF Sound
    <3> QED BY <1>1, <3>1 DEF Push
  <2> QED BY <1>1, <2>1, <2>2
<1>3. PICK a : a = Advance(Base, Push)
  OBVIOUS
<1>4. /\ Sound(a, clock, stored) /\ ~a.completed
      /\ a.day = Today /\ a.truth = Base.truth /\ a.audit = Base.audit
  BY <1>0, <1>1, <1>2, <1>3, AdvanceSound
<1>5. a.open => clock <= Roll
  <2>1. a.open => Today = 1
    BY <1>4 DEF Sound
  <2> QED BY <1>0, <2>1, WarmAssumption DEF Today, Morning, Roll
<1>6. PICK p : p = Prime(a)
  OBVIOUS
<1>7. /\ Sound(p, clock, stored) /\ ~p.completed
      /\ p.day = Today /\ p.truth = Base.truth /\ p.audit = Base.audit
      /\ p.open => \A f \in Fires : f <= clock => p.ran[f] = 1
  BY <1>0, <1>4, <1>5, <1>6, PrimeSound
<1>8. p.audit = "none"
  BY <1>7 DEF Sound
<1>9. PICK e : e = EndSession(p)
  OBVIOUS
<1>10. /\ Sound(e, clock, stored) /\ e.ran = p.ran
       /\ e.day = Today /\ e.truth = Base.truth /\ e.audit = "none"
       /\ clock = Roll \/ e = p
  BY <1>0, <1>7, <1>8, <1>9, EndSound
<1>11. e = EngineTick(Base, Push)
  BY <1>3, <1>6, <1>9, Zenon DEF EngineTick
<1>12. ASSUME ~e.completed, ~Backwards(e), NEW f \in row.fires \cap ReplayFires(stored)
       PROVE  f \in Snapshot(e).fires
  <2>1. f \in Fires /\ f \in Nat /\ f <= clock
    <3>1. PICK s \in Syms : f \in Fires /\ \E t \in stored[s] : f <= t
      BY DEF ReplayFires
    <3>2. PICK t \in stored[s] : f <= t
      BY <3>1
    <3>3. t <= clock /\ t \in Nat /\ f \in Nat
      BY <1>0, <3>1, <3>2, WarmAssumption DEF Handed, BarsInv, Bars, Ends
    <3> QED BY <1>0, <3>1, <3>2, <3>3
  <2>2. e.ran[f] > 0
    <3>1. CASE e.open
      <4>1. e = p
        <5>1. ASSUME e # p PROVE FALSE
          <6>1. e = [p EXCEPT !.open = FALSE, !.completed = TRUE] /\ p \in Engine
            BY <1>7, <1>9, <5>1 DEF EndSession, Sound
          <6>2. e.open = FALSE
            BY <6>1 DEF Engine
          <6> QED BY <3>1, <6>2
        <5> QED BY <5>1
      <4> QED BY <1>7, <2>1, <3>1, <4>1
    <3>2. CASE ~e.open
      <4>1. e.day # 1
        BY <1>12, <3>2 DEF Backwards
      <4>2. e.day = 2
        BY <1>10, <4>1 DEF Today
      <4> QED BY <1>10, <1>12, <2>1, <4>2 DEF Sound
    <3> QED BY <3>1, <3>2
  <2> QED BY <2>1, <2>2 DEF Snapshot
<1> QED BY <1>1, <1>10, <1>11, <1>12

-----------------------------------------------------------------------------
(* A tick.                                                                 *)

\* What is left of an engine after a tick, next to the payload it left.
Stands(e, new) ==
    /\ Sound(e, clock, stored) /\ new.truth <= e.truth /\ e.truth <= rows
    /\ e.audit = "ok" => new.fires = Snapshot(e).fires

\* An export newer than the last one, or the last one.
Newer(z, isFresh) ==
    /\ z \in Bars /\ isFresh \in BOOLEAN
    /\ \A s \in Syms : zip[s] \subseteq z[s] /\ z[s] \subseteq stored[s]
    /\ clock >= Morning /\ isFresh => z = stored

Kept(new) == row.fires \cap ReplayFires(zip) \subseteq new.fires

\* What every way a tick can go has in common.
TickEffect ==
    /\ engine' = NoEngine \/ Stands(engine', row')
    /\ Newer(zip', zipFresh')
    /\ row' \in Payload /\ row.truth <= row'.truth /\ row'.truth <= rows
    /\ Kept(row') \/ (engine'.alive /\ engine'.audit = "failed")
    /\ {unsent', marker', owes'} \subseteq BOOLEAN /\ faults' \in 0..MaxFaults
    /\ pc' = "publish"
    /\ TickFrame

\* More bars, no fewer decisions.
LEMMA ReplayGrows ==
    ASSUME NEW y, NEW z, \A s \in Syms : y[s] \subseteq z[s]
    PROVE  ReplayFires(y) \subseteq ReplayFires(z) /\ ReplayFires(z) \subseteq Fires
  BY DEF ReplayFires

LEMMA HandedTypes ==
    ASSUME Handed
    PROVE  /\ clock \in Nat /\ stored \in Bars /\ zip \in Bars /\ zipFresh \in BOOLEAN
           /\ seen \in 0..MaxRows /\ rows \in 0..MaxRows /\ MaxRows \in Nat /\ row \in Payload
           /\ row.truth <= seen /\ seen <= rows /\ row.truth <= rows
           /\ faults \in 0..MaxFaults /\ MaxFaults \in Nat
           /\ Newer(zip, zipFresh) /\ Newer(stored, TRUE)
           /\ \A z, f : Newer(z, f) => Newer(Exported(z, f), TRUE)
<1>1. /\ clock \in Nat /\ stored \in Bars /\ zip \in Bars /\ zipFresh \in BOOLEAN
      /\ seen \in 0..MaxRows /\ rows \in 0..MaxRows /\ MaxRows \in Nat /\ row \in Payload
      /\ faults \in 0..MaxFaults /\ MaxFaults \in Nat
  BY WarmAssumption DEF Handed, TypeOK, Tomorrow
<1>2. row.truth <= seen /\ seen <= rows /\ row.truth <= rows
  BY DEF Handed, TruthInv
<1>3. \A s \in Syms : zip[s] \subseteq stored[s]
  BY DEF Handed, BarsInv
<1>4. clock >= Morning /\ zipFresh => zip = stored
  BY DEF Handed, BarsInv
<1>5. Newer(zip, zipFresh) /\ Newer(stored, TRUE)
  BY <1>1, <1>3, <1>4 DEF Newer
<1>6. ASSUME NEW z, NEW f, Newer(z, f) PROVE Newer(Exported(z, f), TRUE)
  BY <1>5, <1>6 DEF Newer, Exported
<1> QED BY <1>1, <1>2, <1>5, <1>6

\* A replay on the ledger version it was handed.
LEMMA ReplayServes ==
    ASSUME Handed, NEW z, NEW f, Newer(z, f), NEW n \in {0, 1},
           n = 1 => faults < MaxFaults, ServeReplay(z, f, n)
    PROVE  /\ Newer(zip', zipFresh') /\ row' \in Payload
           /\ row.truth <= row'.truth /\ row'.truth <= rows /\ Kept(row')
           /\ (unsent \in BOOLEAN => unsent' \in BOOLEAN) /\ faults' \in 0..MaxFaults
<1>1. zip' = Exported(z, f) /\ zipFresh' = TRUE
  BY DEF ServeReplay
<1>2. Newer(zip', zipFresh')
  BY <1>1, HandedTypes
<1>3. ReplayFires(zip) \subseteq ReplayFires(zip') /\ ReplayFires(zip') \subseteq Fires
  BY <1>2, ReplayGrows DEF Newer
<1>4. CASE Commit(Replay(zip', seen)) /\ faults' = faults + n
  <2>1. row' = [fires |-> ReplayFires(zip'), truth |-> seen] /\ unsent' = TRUE
    BY <1>4 DEF Commit, Replay
  <2>2. row'.fires = ReplayFires(zip') /\ row'.truth = seen
    BY <2>1
  <2>3. row' \in Payload
    BY <1>3, <2>1, HandedTypes DEF Payload
  <2>4. faults' \in 0..MaxFaults
    BY <1>4, HandedTypes
  <2> QED BY <1>2, <1>3, <2>1, <2>2, <2>3, <2>4, HandedTypes DEF Kept
<1>5. CASE faults + n < MaxFaults /\ faults' = faults + n + 1 /\ UNCHANGED <<row, unsent>>
  <2>1. faults' \in 0..MaxFaults
    BY <1>5, HandedTypes
  <2>2. row' = row /\ unsent' = unsent
    BY <1>5
  <2>3. row.truth \in 0..MaxRows /\ row \in Payload /\ row.truth <= rows
    BY HandedTypes DEF Payload
  <2>4. row.truth <= row.truth /\ Kept(row)
    BY <2>3 DEF Kept
  <2> QED BY <1>2, <2>1, <2>2, <2>3, <2>4
<1> QED BY <1>4, <1>5 DEF ServeReplay

\* A snapshot is a payload, whatever the audit says of it.
LEMMA SnapshotIs ==
    ASSUME NEW e \in Engine, NEW v \in {"ok", "failed"}
    PROVE  /\ Snapshot(e) \in Payload /\ Snapshot(e).truth = e.truth
           /\ LET x == [e EXCEPT !.audit = v]
              IN  /\ x \in Engine /\ Snapshot(x) = Snapshot(e) /\ x.audit = v
                  /\ x.alive = TRUE /\ x.truth = e.truth
<1>1. PICK x : x = [e EXCEPT !.audit = v]
  OBVIOUS
<1>2. x \in Engine /\ x.ran = e.ran /\ x.truth = e.truth /\ x.audit = v /\ x.alive = TRUE
  BY <1>1 DEF Engine
<1>3. Snapshot(x) = Snapshot(e)
  BY <1>2, Zenon DEF Snapshot
<1>4. e.truth \in 0..MaxRows
  BY DEF Engine
<1>5. Snapshot(e) \in Payload /\ Snapshot(e).truth = e.truth
  BY <1>4 DEF Snapshot, Payload
<1> QED BY <1>1, <1>2, <1>3, <1>5

\* What the audit says of an engine leaves it as sound as it was.
LEMMA AuditedSound ==
    ASSUME NEW e, Sound(e, clock, stored), e.completed, NEW v \in {"ok", "failed"}
    PROVE  Sound([e EXCEPT !.audit = v], clock, stored)
<1>1. PICK x : x = [e EXCEPT !.audit = v]
  OBVIOUS
<1>2. e \in Engine
  BY DEF Sound
<1>3. /\ x \in Engine /\ x.ran = e.ran /\ x.open = e.open /\ x.completed = e.completed
      /\ x.day = e.day /\ x.held = e.held /\ x.slice = e.slice /\ x.frontier = e.frontier
      /\ x.primed = e.primed
  BY <1>1, <1>2 DEF Engine
<1>4. Sound(x, clock, stored)
  BY <1>3 DEF Sound
<1> QED BY <1>1, <1>4

\* The audit's replay decides, or the engine stands as its word.
LEMMA AuditServes ==
    ASSUME Handed, NEW e, Sound(e, clock, stored), e.completed, e.audit = "none",
           row.truth <= e.truth, e.truth <= rows,
           NEW z, NEW f, Newer(z, f), Audit(e, z, f)
    PROVE  /\ engine' = NoEngine \/ Stands(engine', row')
           /\ Newer(zip', zipFresh')
           /\ row' \in Payload /\ row.truth <= row'.truth /\ row'.truth <= rows
           /\ Kept(row') \/ (engine'.alive /\ engine'.audit = "failed")
           /\ (unsent \in BOOLEAN => unsent' \in BOOLEAN) /\ faults' \in 0..MaxFaults
<1> DEFINE replay == Replay(Exported(z, f), rows)
<1>1. zip' = Exported(z, f) /\ zipFresh' = TRUE
  BY Zenon DEF Audit
<1>2. Newer(zip', zipFresh')
  BY <1>1, HandedTypes
<1>3. ReplayFires(zip) \subseteq ReplayFires(zip') /\ ReplayFires(zip') \subseteq Fires
  BY <1>2, ReplayGrows DEF Newer
<1>4. replay.fires = ReplayFires(zip') /\ replay.truth = rows /\ replay \in Payload
  BY <1>1, <1>3, HandedTypes DEF Replay, Payload
<1>5. e \in Engine
  BY DEF Sound
<1>6. row.truth \in Nat /\ e.truth \in Nat /\ rows \in Nat
  BY <1>5, HandedTypes DEF Engine, Payload
<1> HIDE DEF replay
<1>7. CASE Snapshot(e) = replay /\ engine' = [e EXCEPT !.audit = "ok"]
           /\ Commit(Snapshot(e)) /\ UNCHANGED faults
  <2>1. row' = replay /\ unsent' = TRUE /\ faults' = faults
    BY <1>7 DEF Commit
  <2>2. Sound(engine', clock, stored) /\ Snapshot(engine') = Snapshot(e)
        /\ engine'.truth = e.truth
    BY <1>5, <1>7, AuditedSound, SnapshotIs
  <2>3. e.truth = rows
    BY <1>4, <1>5, <1>7, SnapshotIs
  <2>4. Stands(engine', row')
    BY <1>4, <1>6, <1>7, <2>1, <2>2, <2>3 DEF Stands
  <2> QED BY <1>2, <1>3, <1>4, <1>6, <2>1, <2>4, HandedTypes DEF Kept
<1>8. CASE engine' = NoEngine /\ Commit(replay) /\ UNCHANGED faults
  <2>1. row' = replay /\ unsent' = TRUE /\ faults' = faults
    BY <1>8 DEF Commit
  <2> QED BY <1>2, <1>3, <1>4, <1>6, <1>8, <2>1, HandedTypes DEF Kept
<1>9. CASE faults < MaxFaults /\ faults' = faults + 1 /\ engine' = e /\ UNCHANGED <<row, unsent>>
  <2>1. faults' \in 0..MaxFaults
    BY <1>9, HandedTypes
  <2>2. row' = row /\ unsent' = unsent /\ row \in Payload /\ row.truth <= rows
    BY <1>9, HandedTypes
  <2>3. Stands(engine', row')
    BY <1>9, <2>2 DEF Stands
  <2> QED BY <1>2, <1>6, <2>1, <2>2, <2>3 DEF Kept
<1>10. CASE faults < MaxFaults /\ faults' = faults + 1
            /\ engine' = [e EXCEPT !.audit = "failed"] /\ Commit(Snapshot(e))
  <2>1. faults' \in 0..MaxFaults
    BY <1>10, HandedTypes
  <2>2. row' = Snapshot(e) /\ unsent' = TRUE
    BY <1>10 DEF Commit
  <2>3. /\ row' \in Payload /\ row'.truth = e.truth
        /\ engine'.truth = e.truth /\ engine'.audit = "failed" /\ engine'.alive = TRUE
    BY <1>5, <1>10, <2>2, SnapshotIs
  <2>4. Sound(engine', clock, stored)
    BY <1>10, AuditedSound
  <2>5. Stands(engine', row')
    BY <1>6, <2>3, <2>4 DEF Stands
  <2> QED BY <1>2, <1>6, <2>1, <2>2, <2>3, <2>5
<1> QED BY <1>7, <1>8, <1>9, <1>10 DEF Audit, replay

LEMMA MarkerReplayEffect ==
    ASSUME TypeOK, BarsInv, EngineInv, TruthInv, MarkerReplay
    PROVE  TickEffect
<1>1. Handed /\ Newer(zip, zipFresh)
  BY HandedTypes DEF Handed, MarkerReplay
<1>2. ServeReplay(zip, zipFresh, 0)
  BY DEF MarkerReplay
<1>3. {unsent, marker, owes} \subseteq BOOLEAN
  BY DEF TypeOK
<1>4. /\ engine' = NoEngine /\ pc' = "publish" /\ TickFrame /\ marker' = FALSE /\ owes' = owes
  BY DEF MarkerReplay
<1>5. /\ Newer(zip', zipFresh') /\ row' \in Payload /\ faults' \in 0..MaxFaults
      /\ row.truth <= row'.truth /\ row'.truth <= rows /\ Kept(row') /\ unsent' \in BOOLEAN
  <2>1. 0 \in {0, 1} /\ (0 = 1 => faults < MaxFaults) /\ unsent \in BOOLEAN
    BY <1>3
  <2> QED BY <1>1, <1>2, <2>1, ReplayServes
<1> QED BY <1>3, <1>4, <1>5 DEF TickEffect

LEMMA PostRollEffect ==
    ASSUME TypeOK, BarsInv, EngineInv, TruthInv, PostRoll
    PROVE  TickEffect
<1>1. Handed /\ Newer(zip, zipFresh)
  BY HandedTypes DEF Handed, PostRoll
<1>2. /\ pc' = "publish" /\ TickFrame /\ marker' = marker /\ owes' = owes
  BY DEF PostRoll
<1>3. {unsent, marker, owes} \subseteq BOOLEAN
  BY DEF TypeOK
<1>4. /\ Stands(engine, row) /\ engine.completed /\ engine \in Engine
  <2>1. engine.alive /\ engine.completed
    BY DEF PostRoll, Completed
  <2> QED BY <2>1 DEF EngineInv, Stands, Sound
<1>5. CASE /\ engine.audit # "none" /\ Commit(Snapshot(engine))
           /\ UNCHANGED <<zip, zipFresh, engine, faults>>
  <2>1. row' = Snapshot(engine) /\ unsent' = TRUE
    BY <1>5 DEF Commit
  <2>2. row' \in Payload /\ row'.truth = engine.truth
    BY <1>4, <2>1, SnapshotIs
  <2>3. row.truth <= engine.truth /\ engine.truth <= rows /\ engine.truth <= engine.truth
    BY <1>4 DEF Stands, Engine
  <2>4. Kept(row') \/ (engine'.alive /\ engine'.audit = "failed")
    <3>1. engine.audit \in {"ok", "failed"} /\ engine.alive = TRUE
      BY <1>4, <1>5 DEF Engine
    <3>2. engine.audit = "ok" => row'.fires = row.fires
      BY <1>4, <2>1 DEF Stands
    <3> QED BY <1>5, <3>1, <3>2 DEF Kept
  <2>5. Stands(engine', row')
    BY <1>4, <1>5, <2>1, <2>2, <2>3 DEF Stands
  <2>6. Newer(zip', zipFresh') /\ faults' \in 0..MaxFaults
    BY <1>1, <1>5, HandedTypes
  <2> QED BY <1>2, <1>3, <2>1, <2>2, <2>3, <2>4, <2>5, <2>6 DEF TickEffect
<1>6. CASE engine.audit = "none" /\ Audit(engine, zip, zipFresh)
  BY <1>1, <1>2, <1>3, <1>4, <1>6, AuditServes DEF Stands, TickEffect
<1> QED BY <1>5, <1>6 DEF PostRoll

LEMMA LiveTickEffect ==
    ASSUME TypeOK, BarsInv, EngineInv, TruthInv, LiveTick
    PROVE  TickEffect
<1>1. Handed
  BY DEF Handed, LiveTick
<1>2. PICK e : e = EngineTick(Base, Push)
  OBVIOUS
<1>3. /\ pc' = "publish" /\ TickFrame /\ marker' = marker /\ owes' = (owes \/ Standing)
      /\ ~Backwards(e) /\ ~Completed /\ ~Refused(Base, Push)
      /\ IF e.completed
         THEN Audit(e, BuildZip, BuildFresh)
         ELSE /\ engine' = e /\ Commit(Snapshot(e))
              /\ zip' = BuildZip /\ zipFresh' = BuildFresh /\ UNCHANGED faults
  BY <1>2 DEF LiveTick
<1>4. {unsent, marker, owes} \subseteq BOOLEAN
  BY DEF TypeOK
<1>5. owes' \in BOOLEAN
  BY <1>3, Zenon
<1>6. /\ Sound(e, clock, stored) /\ e.audit = "none"
      /\ row.truth <= e.truth /\ e.truth <= rows
      /\ ~e.completed => row.fires \cap ReplayFires(stored) \subseteq Snapshot(e).fires
  BY <1>1, <1>2, <1>3, TickSound
<1>7. Newer(BuildZip, BuildFresh)
  <2>1. /\ Newer(zip, zipFresh) /\ Newer(Exported(zip, zipFresh), TRUE)
        /\ zipFresh \in BOOLEAN
    BY <1>1, HandedTypes
  <2>2. CASE Standing
    <3>1. BuildZip = zip /\ BuildFresh = zipFresh
      BY <2>1, <2>2 DEF BuildZip, BuildFresh
    <3> QED BY <2>1, <3>1
  <2>3. CASE ~Standing
    <3>1. BuildZip = Exported(zip, zipFresh) /\ BuildFresh = TRUE
      BY <2>3 DEF BuildZip, BuildFresh
    <3> QED BY <2>1, <3>1
  <2> QED BY <2>2, <2>3
<1>8. CASE e.completed
  <2>1. Audit(e, BuildZip, BuildFresh)
    BY <1>3, <1>8
  <2> QED BY <1>1, <1>3, <1>4, <1>5, <1>6, <1>7, <1>8, <2>1, AuditServes DEF TickEffect
<1>9. CASE ~e.completed
  <2>1. /\ engine' = e /\ row' = Snapshot(e) /\ unsent' = TRUE
        /\ zip' = BuildZip /\ zipFresh' = BuildFresh /\ faults' = faults
    BY <1>3, <1>9 DEF Commit
  <2>2. e \in Engine
    BY <1>6 DEF Sound
  <2>3. row' \in Payload /\ row'.truth = e.truth /\ e.truth <= e.truth
    <3>1. row' \in Payload /\ row'.truth = e.truth
      BY <2>1, <2>2, SnapshotIs
    <3>2. e.truth \in 0..MaxRows /\ MaxRows \in Nat
      BY <2>2, WarmAssumption DEF Engine
    <3> QED BY <3>1, <3>2
  <2>4. Kept(row')
    <3>1. ReplayFires(zip) \subseteq ReplayFires(stored)
      BY <1>1, ReplayGrows DEF Handed, BarsInv
    <3> QED BY <1>6, <1>9, <2>1, <3>1 DEF Kept
  <2>5. Stands(engine', row')
    BY <1>6, <2>1, <2>3 DEF Stands
  <2>6. faults' \in 0..MaxFaults
    BY <1>1, <2>1, HandedTypes
  <2> QED BY <1>3, <1>4, <1>5, <1>6, <1>7, <2>1, <2>3, <2>4, <2>5, <2>6 DEF TickEffect
<1> QED BY <1>8, <1>9

LEMMA DeclinedEffect ==
    ASSUME TypeOK, BarsInv, EngineInv, TruthInv, Declined
    PROVE  TickEffect
<1>1. Handed /\ {unsent, marker, owes} \subseteq BOOLEAN
  BY DEF Handed, Declined, TypeOK
<1>2. Newer(BuildZip, BuildFresh)
  <2>1. /\ Newer(zip, zipFresh) /\ Newer(Exported(zip, zipFresh), TRUE)
        /\ zipFresh \in BOOLEAN
    BY <1>1, HandedTypes
  <2>2. CASE Standing
    <3>1. BuildZip = zip /\ BuildFresh = zipFresh
      BY <2>1, <2>2 DEF BuildZip, BuildFresh
    <3> QED BY <2>1, <3>1
  <2>3. CASE ~Standing
    <3>1. BuildZip = Exported(zip, zipFresh) /\ BuildFresh = TRUE
      BY <2>3 DEF BuildZip, BuildFresh
    <3> QED BY <2>1, <3>1
  <2> QED BY <2>2, <2>3
<1>3. /\ engine' = NoEngine /\ pc' = "publish" /\ TickFrame /\ marker' = marker /\ owes' = owes
      /\ ServeReplay(BuildZip, BuildFresh, 0)
  BY DEF Declined
<1> QED BY <1>1, <1>2, <1>3, ReplayServes DEF TickEffect

LEMMA EngineFailsEffect ==
    ASSUME TypeOK, BarsInv, EngineInv, TruthInv, EngineFails
    PROVE  TickEffect
<1>1. Handed /\ {unsent, marker, owes} \subseteq BOOLEAN
  BY DEF Handed, EngineFails, TypeOK
<1>2. /\ engine' = NoEngine /\ pc' = "publish" /\ TickFrame /\ marker' = marker
  BY DEF EngineFails
<1>3. PICK n \in {0, 1} :
        /\ n = 1 => faults < MaxFaults
        /\ \/ ServeReplay(stored, TRUE, n) /\ owes' = FALSE
           \/ ServeReplay(zip, zipFresh, n) /\ owes' = owes
  <2>1. PICK n \in {0, 1} :
          /\ IF n = 0 THEN Refused(Base, Push) ELSE faults < MaxFaults
          /\ IF Standing THEN ServeReplay(stored, TRUE, n) /\ owes' = FALSE
                         ELSE ServeReplay(zip, zipFresh, n) /\ UNCHANGED owes
    BY Zenon DEF EngineFails
  <2>2. \/ ServeReplay(stored, TRUE, n) /\ owes' = FALSE
        \/ ServeReplay(zip, zipFresh, n) /\ owes' = owes
    BY <2>1, Zenon
  <2>3. n = 1 => faults < MaxFaults
    BY <2>1
  <2> QED BY <2>2, <2>3
<1>4. Newer(zip, zipFresh) /\ Newer(stored, TRUE)
  BY <1>1, HandedTypes
<1>5. owes' \in BOOLEAN
  BY <1>1, <1>3
<1>6. /\ Newer(zip', zipFresh') /\ row' \in Payload /\ faults' \in 0..MaxFaults
      /\ row.truth <= row'.truth /\ row'.truth <= rows /\ Kept(row') /\ unsent' \in BOOLEAN
  <2>1. TRUE \in BOOLEAN /\ unsent \in BOOLEAN
    BY <1>1
  <2>2. CASE ServeReplay(stored, TRUE, n)
    BY <1>1, <1>3, <1>4, <2>1, <2>2, ReplayServes
  <2>3. CASE ServeReplay(zip, zipFresh, n)
    BY <1>1, <1>3, <1>4, <2>1, <2>3, ReplayServes
  <2> QED BY <1>3, <2>2, <2>3
<1> QED BY <1>1, <1>2, <1>5, <1>6 DEF TickEffect

-----------------------------------------------------------------------------
(* The steps.                                                              *)

\* What an engine is does not change when time passes or a bar of today is stored.
LEMMA SoundGrows ==
    ASSUME NEW e, NEW now \in Nat, NEW then \in Nat, now <= then, NEW old \in Bars,
           NEW new \in Bars, \A s \in Syms : old[s] \subseteq new[s],
           new = old \/ now < Morning, Sound(e, now, old)
    PROVE  Sound(e, then, new)
<1>1. \A s \in Syms : Pushed(old)[s] \subseteq Pushed(new)[s]
  BY PushedGrows
<1>2. \A s \in Syms : e.held[s] \subseteq Pushed(new)[s]
  BY <1>1 DEF Sound
<1>3. Morning \in Nat
  BY WarmAssumption DEF Morning
<1>4. e.day = 2 => then >= Morning /\ new = old
  BY <1>3 DEF Sound
<1>5. e.day = 2 =>
        /\ then >= Morning
        /\ \A f \in Fires : e.ran[f] \in {0, 1} /\ (f \in ReplayFires(new) => e.ran[f] = 1)
  BY <1>4 DEF Sound
<1> QED BY <1>2, <1>5 DEF Sound

\* An idle worker's next fire is one of the day's.
LEMMA NextFireIs == NextFire(engine) \in Fires \cup {NoFire}
<1>1. ASSUME NEW ahead, ahead \subseteq Fires, ahead # {} PROVE Min(ahead) \in Fires
  <2>1. ahead \subseteq Nat
    BY <1>1, WarmAssumption
  <2> QED BY <1>1, <2>1, MinIsLeast
<1> QED BY <1>1 DEF NextFire

LEMMA InitOK == Init => IInv
<1> SUFFICES ASSUME Init PROVE IInv
  OBVIOUS
<1>1. NoBars \in Bars /\ 0 \in 0..MaxRows /\ 0 \in 0..MaxFaults /\ 0 \in 0..Tomorrow
  BY WarmAssumption DEF NoBars, Bars, Tomorrow
<1>2. row \in Payload
  BY <1>1 DEF Init, Payload
<1>3. TypeOK
  BY <1>1, <1>2 DEF Init, TypeOK
<1>4. BarsInv
  BY DEF Init, BarsInv, NoBars
<1>5. EngineInv
  BY DEF Init, EngineInv, NoEngine
<1>6. row.truth = 0 /\ rows = 0 /\ seen = 0 /\ ~pending
  BY DEF Init
<1>7. TruthInv
  BY <1>6 DEF TruthInv
<1>8. SettleInv
  BY DEF Init, SettleInv
<1> QED BY <1>3, <1>4, <1>5, <1>7, <1>8 DEF IInv

LEMMA TickStep ==
    ASSUME IInv, Tick
    PROVE  IInv' /\ TickEffect
<1>1. TypeOK /\ BarsInv /\ EngineInv /\ TruthInv /\ SettleInv
  BY DEF IInv
<1>2. TickEffect
  BY <1>1, MarkerReplayEffect, PostRollEffect, LiveTickEffect, DeclinedEffect,
     EngineFailsEffect DEF Tick
<1>3. pc = "tick"
  BY DEF Tick, MarkerReplay, PostRoll, LiveTick, Declined, EngineFails
<1>4. /\ clock' = clock /\ stored' = stored /\ fresh' = fresh /\ taken' = taken
      /\ rows' = rows /\ pending' = pending /\ due' = due /\ target' = target
      /\ seen' = seen /\ done' = done /\ fired' = fired /\ pc' = "publish"
  BY <1>2 DEF TickEffect, TickFrame, busVars, truthVars, loopVars
<1>5. engine' \in Engine \cup {NoEngine}
  BY <1>2 DEF TickEffect, Stands, Sound
<1>6. TypeOK'
  BY <1>1, <1>2, <1>4, <1>5 DEF TickEffect, Newer, TypeOK
<1>7. BarsInv'
  BY <1>1, <1>2, <1>4 DEF TickEffect, Newer, BarsInv
<1>8. EngineInv'
  <2>1. CASE engine' = NoEngine
    BY <2>1 DEF EngineInv, NoEngine
  <2>2. CASE Stands(engine', row')
    BY <1>4, <2>2 DEF EngineInv, Stands
  <2> QED BY <1>2, <2>1, <2>2 DEF TickEffect
<1>9. TruthInv'
  BY <1>1, <1>2, <1>4 DEF TickEffect, TruthInv
<1>10. SettleInv'
  BY <1>1, <1>3, <1>4 DEF SettleInv
<1> QED BY <1>2, <1>6, <1>7, <1>8, <1>9, <1>10 DEF IInv

LEMMA StoreBarStep ==
    ASSUME IInv, NEW s \in Syms, NEW t \in Ends, StoreBar(s, t)
    PROVE  IInv' /\ row' = row
<1>1. TypeOK /\ BarsInv /\ EngineInv /\ TruthInv /\ SettleInv
  BY DEF IInv
<1>2. /\ clock' = clock /\ taken' = taken /\ zip' = zip /\ zipFresh' = zipFresh /\ owes' = owes
      /\ rows' = rows /\ pending' = pending /\ marker' = marker /\ engine' = engine
      /\ row' = row /\ unsent' = unsent /\ pc' = pc /\ due' = due /\ target' = target
      /\ seen' = seen /\ done' = done /\ fired' = fired /\ faults' = faults
      /\ fresh' = TRUE /\ stored' = [stored EXCEPT ![s] = @ \cup {t}]
      /\ t <= clock /\ clock <= Roll
  BY DEF StoreBar, zipVars, truthVars, loopVars
<1>3. stored \in Bars /\ clock \in Nat /\ Close \in Nat
  BY <1>1, WarmAssumption DEF TypeOK, Tomorrow
<1>4. stored' \in Bars
  BY <1>2, <1>3 DEF Bars
<1>5. \A x \in Syms : stored[x] \subseteq stored'[x]
  BY <1>2, <1>3 DEF Bars
<1>6. clock < Morning
  BY <1>2, <1>3 DEF Morning, Roll
<1>7. TypeOK'
  BY <1>1, <1>2, <1>4 DEF TypeOK
<1>8. BarsInv'
  <2>1. ASSUME NEW x \in Syms PROVE zip[x] \subseteq stored'[x] /\ \A y \in stored'[x] : y <= clock
    BY <1>1, <1>2, <1>3, <1>5 DEF BarsInv, Bars
  <2>2. ~(clock >= Morning)
    BY <1>3, <1>6 DEF Morning
  <2> QED BY <1>2, <2>1, <2>2 DEF BarsInv, Morning
<1>9. EngineInv'
  <2>1. Sound(engine, clock, stored) => Sound(engine, clock, stored')
    BY <1>3, <1>4, <1>5, <1>6, SoundGrows
  <2> QED BY <1>1, <1>2, <2>1 DEF EngineInv
<1>10. TruthInv' /\ SettleInv'
  BY <1>1, <1>2 DEF TruthInv, SettleInv
<1> QED BY <1>2, <1>7, <1>8, <1>9, <1>10 DEF IInv

LEMMA ClockStep ==
    ASSUME IInv, ClockTick
    PROVE  IInv' /\ row' = row
<1>1. TypeOK /\ BarsInv /\ EngineInv /\ TruthInv /\ SettleInv
  BY DEF IInv
<1>2. /\ stored' = stored /\ fresh' = fresh /\ taken' = taken /\ zip' = zip /\ owes' = owes
      /\ rows' = rows /\ pending' = pending /\ engine' = engine
      /\ row' = row /\ unsent' = unsent /\ pc' = pc /\ due' = due /\ target' = target
      /\ seen' = seen /\ fired' = fired /\ faults' = faults
      /\ clock < Tomorrow /\ clock' = clock + 1
  BY DEF ClockTick, busVars, truthVars
<1>3. /\ clock = Roll => pc = "idle" /\ marker' = FALSE /\ done' = {} /\ zipFresh' = FALSE
      /\ clock # Roll => marker' = marker /\ done' = done /\ zipFresh' = zipFresh
  <2>1. Roll \in Nat
    BY WarmAssumption DEF Roll
  <2> QED BY <2>1 DEF ClockTick, Quiet
<1>4. stored \in Bars /\ clock \in Nat /\ Close \in Nat /\ clock \in 0..Tomorrow
  BY <1>1, WarmAssumption DEF TypeOK, Tomorrow
<1>5. clock' \in 0..Tomorrow
  BY <1>2, <1>4 DEF Tomorrow
<1>6. TypeOK'
  <2>1. marker' \in BOOLEAN /\ done' \subseteq {"roll", "prewarm", "close"} /\ zipFresh' \in BOOLEAN
    BY <1>1, <1>3 DEF TypeOK
  <2> QED BY <1>1, <1>2, <1>5, <2>1 DEF TypeOK
<1>7. BarsInv'
  <2>1. \A x \in Syms : \A y \in stored[x] : y \in Nat /\ y <= clock
    BY <1>1, <1>4 DEF BarsInv, Bars, Ends
  <2>2. \A x \in Syms : \A y \in stored[x] : y <= clock'
    BY <1>2, <1>4, <2>1
  <2>3. clock' >= Morning => clock = Roll \/ clock >= Morning
    BY <1>2, <1>4 DEF Morning, Roll
  <2>4. clock' >= Morning /\ zipFresh' => zip = stored
    BY <1>1, <1>3, <2>3 DEF BarsInv
  <2> QED BY <1>1, <1>2, <2>2, <2>4 DEF BarsInv, Morning
<1>8. EngineInv'
  <2>1. clock' \in Nat /\ clock <= clock'
    BY <1>2, <1>4
  <2>2. Sound(engine, clock, stored) => Sound(engine, clock', stored)
    BY <1>4, <2>1, SoundGrows
  <2> QED BY <1>1, <1>2, <2>2 DEF EngineInv
<1>9. TruthInv'
  BY <1>1, <1>2 DEF TruthInv
<1>10. SettleInv'
  <2>1. "prewarm" \in due => clock' >= Morning
    BY <1>1, <1>2, <1>4 DEF SettleInv, Morning
  <2>2. "roll" \notin due \cup done'
    BY <1>1, <1>3 DEF SettleInv
  <2> QED BY <1>1, <1>2, <2>1, <2>2 DEF SettleInv, Morning
<1> QED BY <1>2, <1>6, <1>7, <1>8, <1>9, <1>10 DEF IInv

\* The steps that change neither bars, engine nor payload, but for what they say.
LEMMA SweepSteps ==
    ASSUME IInv, MorningEvent \/ Ingest \/ CommitRows \/ Rollback \/ DedupeEnds
    PROVE  IInv' /\ row' = row
<1>1. TypeOK /\ BarsInv /\ EngineInv /\ TruthInv /\ SettleInv
  BY DEF IInv
<1>2. /\ clock' = clock /\ stored' = stored /\ taken' = taken /\ zip' = zip /\ owes' = owes
      /\ engine' = engine /\ row' = row /\ unsent' = unsent /\ pc' = pc /\ due' = due
      /\ target' = target /\ seen' = seen /\ done' = done /\ fired' = fired
      /\ fresh' \in {fresh, TRUE} /\ zipFresh' \in {zipFresh, FALSE} /\ marker' \in {marker, TRUE}
  BY DEF MorningEvent, Ingest, CommitRows, Rollback, DedupeEnds, busVars, zipVars, truthVars,
         loopVars
<1>3. /\ rows' \in 0..MaxRows /\ rows <= rows' /\ faults' \in 0..MaxFaults
      /\ pending' \in BOOLEAN /\ (pending' => rows' < MaxRows)
  <2>1. /\ rows \in 0..MaxRows /\ MaxRows \in Nat /\ faults \in 0..MaxFaults /\ MaxFaults \in Nat
        /\ pending \in BOOLEAN /\ (pending => rows < MaxRows)
    BY <1>1, WarmAssumption DEF TypeOK, TruthInv
  <2>2. CASE MorningEvent \/ DedupeEnds
    <3>1. rows' = rows /\ faults' = faults /\ pending' = pending
      BY <2>2 DEF MorningEvent, DedupeEnds, truthVars
    <3> QED BY <2>1, <3>1
  <2>3. CASE Ingest
    <3>1. rows' = rows /\ pending' = TRUE /\ rows < MaxRows
          /\ (faults' = faults \/ (faults < MaxFaults /\ faults' = faults + 1))
      BY <2>3 DEF Ingest
    <3> QED BY <2>1, <3>1
  <2>4. CASE CommitRows
    <3>1. rows' = rows + 1 /\ pending /\ faults' = faults
      BY <2>4 DEF CommitRows
    <3>2. pending' = FALSE
      BY <2>4 DEF CommitRows
    <3>3. rows' \in 0..MaxRows /\ rows <= rows'
      BY <2>1, <3>1
    <3>4. pending' \in BOOLEAN /\ ~pending'
      BY <3>2, Zenon
    <3> QED BY <2>1, <3>1, <3>3, <3>4
  <2>5. CASE Rollback
    <3>1. rows' = rows /\ faults < MaxFaults /\ faults' = faults + 1
      BY <2>5 DEF Rollback
    <3>2. pending' = FALSE
      BY <2>5 DEF Rollback
    <3>3. rows' \in 0..MaxRows /\ rows <= rows' /\ faults' \in 0..MaxFaults
      BY <2>1, <3>1
    <3>4. pending' \in BOOLEAN /\ ~pending'
      BY <3>2, Zenon
    <3> QED BY <3>3, <3>4
  <2> QED BY <2>2, <2>3, <2>4, <2>5
<1>4. TypeOK'
  BY <1>1, <1>2, <1>3 DEF TypeOK
<1>5. BarsInv' /\ SettleInv'
  <2>1. zipFresh' => zipFresh
    BY <1>2, Zenon
  <2>2. BarsInv'
    BY <1>1, <1>2, <2>1 DEF BarsInv, Morning
  <2>3. SettleInv'
    BY <1>1, <1>2 DEF SettleInv, Roll, Morning
  <2> QED BY <2>2, <2>3
<1>6. row.truth \in Nat /\ seen \in Nat /\ rows \in Nat /\ rows' \in Nat
  BY <1>1, <1>3, WarmAssumption DEF TypeOK, Payload
<1>7. EngineInv'
  <2>1. engine.alive => engine.truth \in Nat
    BY <1>1, WarmAssumption DEF EngineInv, Sound, Engine
  <2> QED BY <1>1, <1>2, <1>3, <1>6, <2>1 DEF EngineInv
<1>8. TruthInv'
  BY <1>1, <1>2, <1>3, <1>6 DEF TruthInv
<1> QED BY <1>2, <1>4, <1>5, <1>7, <1>8 DEF IInv

LEMMA WakeStep ==
    ASSUME IInv, Wake \/ Restart
    PROVE  IInv' /\ row' = row
<1>1. TypeOK /\ BarsInv /\ EngineInv /\ TruthInv /\ SettleInv
  BY DEF IInv
<1>2. /\ clock' = clock /\ stored' = stored /\ zip' = zip /\ zipFresh' = zipFresh /\ owes' = owes
      /\ rows' = rows /\ pending' = pending /\ marker' = marker /\ engine' = engine
      /\ row' = row /\ unsent' = unsent /\ faults' = faults /\ seen' = rows /\ pc' = "tick"
  BY DEF Wake, Restart, busVars, zipVars, truthVars
<1>3. /\ due' \subseteq Causes
      /\ target' \in Fires \cup {NoFire}
      /\ done' \subseteq {"roll", "prewarm", "close"} /\ fired' \in Fires \cup {NoFire}
      /\ fresh' \in BOOLEAN /\ taken' \in BOOLEAN
      /\ "roll" \in due' => clock = Roll
      /\ "prewarm" \in due' => clock = Morning
      /\ "roll" \in done' => clock = Roll /\ due' # {}
  <2>1. CASE Wake
    <3>1. /\ due' = Owed /\ Owed # {} /\ target' = NextFire(engine) /\ done' = done
          /\ fired' = fired /\ taken' = (taken \/ fresh) /\ fresh' = FALSE
      BY <2>1 DEF Wake
    <3>2. taken' \in BOOLEAN /\ fresh' \in BOOLEAN
      BY <3>1, Zenon
    <3>3. /\ Owed \subseteq Causes /\ ("roll" \in Owed => clock = Roll)
          /\ "prewarm" \in Owed => clock = Morning
      BY DEF Owed
    <3>4. "roll" \in done => clock = Roll
      BY <1>1 DEF SettleInv
    <3>5. done \subseteq {"roll", "prewarm", "close"} /\ fired \in Fires \cup {NoFire}
      BY <1>1 DEF TypeOK
    <3> QED BY <3>1, <3>2, <3>3, <3>4, <3>5, NextFireIs
  <2>2. CASE Restart
    <3>1. /\ due' = {} /\ done' = {} /\ target' = NoFire /\ fired' = NoFire
          /\ fresh' = fresh /\ taken' = taken
      BY <2>2 DEF Restart, busVars
    <3> QED BY <1>1, <3>1 DEF TypeOK
  <2> QED BY <2>1, <2>2
<1>4. TypeOK'
  BY <1>1, <1>2, <1>3 DEF TypeOK
<1>5. BarsInv' /\ EngineInv'
  BY <1>1, <1>2 DEF BarsInv, EngineInv
<1>6. TruthInv'
  <2>1. rows <= rows
    BY <1>1 DEF TypeOK
  <2> QED BY <1>1, <1>2, <2>1 DEF TruthInv
<1>7. SettleInv'
  <2>1. clock = Morning => clock >= Morning
    BY WarmAssumption DEF Morning
  <2> QED BY <1>1, <1>2, <1>3, <2>1 DEF SettleInv, Roll, Morning
<1> QED BY <1>2, <1>4, <1>5, <1>6, <1>7 DEF IInv

LEMMA PublishStep ==
    ASSUME IInv, Publish
    PROVE  IInv' /\ row' = row
<1>1. TypeOK /\ BarsInv /\ EngineInv /\ TruthInv /\ SettleInv
  BY DEF IInv
<1>2. /\ clock' = clock /\ stored' = stored /\ zip' = zip /\ zipFresh' = zipFresh /\ owes' = owes
      /\ rows' = rows /\ pending' = pending /\ marker' = marker /\ engine' = engine
      /\ row' = row /\ faults' = faults /\ seen' = seen /\ fresh' = fresh /\ taken' = taken
      /\ due' = due /\ target' = target /\ pc = "publish" /\ pc' \in {"idle", "ack"}
      /\ pc' = "idle" => due = {}
      /\ done' = done \cup (due \cap {"roll", "prewarm", "close"})
      /\ fired' \in {NoFire, target, fired}
      /\ unsent' = (unsent /\ due \subseteq {"prewarm"})
  BY DEF Publish, busVars, zipVars, truthVars
<1>3. unsent' \in BOOLEAN
  BY <1>2, Zenon
<1>4. TypeOK'
  BY <1>1, <1>2, <1>3 DEF TypeOK
<1>5. BarsInv' /\ EngineInv' /\ TruthInv'
  BY <1>1, <1>2 DEF BarsInv, EngineInv, TruthInv
<1>6. SettleInv'
  <2>1. "roll" \in done' => "roll" \in done \cup due
    BY <1>2
  <2>2. ASSUME "roll" \in done' PROVE ~(due \subseteq {"prewarm"})
    <3>1. clock = Roll /\ ~(clock >= Morning)
      BY <1>1, <2>1, <2>2, WarmAssumption DEF SettleInv, Roll, Morning
    <3>2. "prewarm" \notin due /\ due # {}
      BY <1>1, <1>2, <2>1, <2>2, <3>1 DEF SettleInv
    <3> QED BY <3>2
  <2>3. "roll" \in done' => ~unsent'
    BY <1>2, <2>2, Zenon
  <2> QED BY <1>1, <1>2, <2>1, <2>3 DEF SettleInv, Roll, Morning
<1> QED BY <1>2, <1>4, <1>5, <1>6 DEF IInv

LEMMA AckStep ==
    ASSUME IInv, Ack
    PROVE  IInv' /\ row' = row
<1>1. TypeOK /\ BarsInv /\ EngineInv /\ TruthInv /\ SettleInv
  BY DEF IInv
<1>2. /\ clock' = clock /\ stored' = stored
      /\ rows' = rows /\ pending' = pending /\ marker' = marker /\ engine' = engine
      /\ row' = row /\ unsent' = unsent /\ faults' = faults /\ fresh' = fresh /\ done' = done
      /\ fired' = fired /\ taken' = FALSE /\ pc = "ack" /\ pc' = "idle" /\ due' = {}
      /\ target' = NoFire /\ seen' = 0
      /\ \/ zip' = stored /\ zipFresh' = TRUE /\ owes' = FALSE
         \/ zip' = zip /\ zipFresh' = zipFresh /\ owes' = owes
  BY DEF Ack, zipVars, truthVars
<1>3. TypeOK'
  <2>1. seen' \in 0..MaxRows
    BY <1>2, WarmAssumption
  <2>2. taken' \in BOOLEAN /\ zipFresh' \in BOOLEAN /\ owes' \in BOOLEAN /\ zip' \in Bars
    <3>1. taken' = FALSE
      BY <1>2
    <3>2. zipFresh \in BOOLEAN /\ owes \in BOOLEAN /\ zip \in Bars /\ stored \in Bars
      BY <1>1 DEF TypeOK
    <3>3. CASE zip' = stored /\ zipFresh' = TRUE /\ owes' = FALSE
      BY <3>1, <3>2, <3>3, Zenon
    <3>4. CASE zip' = zip /\ zipFresh' = zipFresh /\ owes' = owes
      BY <3>1, <3>2, <3>4, Zenon
    <3> QED BY <1>2, <3>3, <3>4
  <2> QED BY <1>1, <1>2, <2>1, <2>2 DEF TypeOK
<1>4. BarsInv' /\ EngineInv' /\ SettleInv'
  BY <1>1, <1>2 DEF BarsInv, EngineInv, SettleInv
<1>5. TruthInv'
  <2>1. 0 <= rows
    BY <1>1 DEF TypeOK
  <2> QED BY <1>1, <1>2, <2>1 DEF TruthInv
<1> QED BY <1>2, <1>3, <1>4, <1>5 DEF IInv

LEMMA CrashStep ==
    ASSUME IInv, Crash
    PROVE  IInv' /\ row' = row
<1>1. TypeOK /\ BarsInv /\ EngineInv /\ TruthInv /\ SettleInv
  BY DEF IInv
<1>2. /\ clock' = clock /\ stored' = stored /\ zip' = zip /\ zipFresh' = FALSE /\ owes' = FALSE
      /\ rows' = rows /\ pending' = pending /\ marker' = marker /\ engine' = NoEngine
      /\ row' = row /\ unsent' = unsent /\ fresh' = fresh /\ taken' = taken
      /\ done' = {} /\ due' = {} /\ fired' = NoFire /\ target' = NoFire /\ seen' = 0
      /\ pc' = "down" /\ faults < MaxFaults /\ faults' = faults + 1
  BY DEF Crash, busVars, truthVars
<1>3. faults' \in 0..MaxFaults /\ seen' \in 0..MaxRows
  BY <1>1, <1>2, WarmAssumption DEF TypeOK
<1>4. TypeOK'
  <2>1. zipFresh' = FALSE /\ owes' = FALSE
    BY <1>2
  <2>2. zipFresh' \in BOOLEAN /\ owes' \in BOOLEAN
    BY <2>1, Zenon
  <2> QED BY <1>1, <1>2, <1>3, <2>2 DEF TypeOK
<1>5. BarsInv' /\ EngineInv' /\ SettleInv'
  BY <1>1, <1>2 DEF BarsInv, EngineInv, SettleInv, NoEngine
<1>6. TruthInv'
  <2>1. 0 <= rows
    BY <1>1 DEF TypeOK
  <2> QED BY <1>1, <1>2, <2>1 DEF TruthInv
<1> QED BY <1>2, <1>4, <1>5, <1>6 DEF IInv

LEMMA Stutter ==
    ASSUME IInv, UNCHANGED vars
    PROVE  IInv'
  BY DEF IInv, vars, TypeOK, BarsInv, EngineInv, TruthInv, SettleInv

\* Only a tick touches the payload, and every step keeps the invariant.
LEMMA Step ==
    ASSUME IInv, [Next]_vars
    PROVE  IInv' /\ (row' = row \/ TickEffect)
<1>1. CASE \E s \in Syms, t \in Ends : StoreBar(s, t)
  BY <1>1, StoreBarStep
<1>2. CASE MorningEvent \/ Ingest \/ CommitRows \/ Rollback \/ DedupeEnds
  BY <1>2, SweepSteps
<1>3. CASE Worker
  BY <1>3, WakeStep, TickStep, PublishStep, AckStep DEF Worker
<1>4. CASE Crash
  BY <1>4, CrashStep
<1>5. CASE ClockTick
  BY <1>5, ClockStep
<1>6. CASE UNCHANGED vars
  BY <1>6, Stutter DEF vars
<1> QED BY <1>1, <1>2, <1>3, <1>4, <1>5, <1>6 DEF Next

LEMMA Inductive == Spec => []IInv
<1>1. IInv /\ [Next]_vars => IInv'
  BY Step
<1> QED BY InitOK, <1>1, PTL DEF Spec

-----------------------------------------------------------------------------
(* What the runs check, for every value of the constants.                  *)

\* Every variable has the shape the worker, the registry and the store give it; in
\* particular no event runs more often than the cursors allow.
THEOREM Types == Spec => []TypeOK
<1>1. IInv => TypeOK
  BY DEF IInv
<1> QED BY <1>1, Inductive, PTL

\* Each scheduled event has run exactly once when either cursor passed it, and a symbol
\* that may not be late got every bar the engine holds in its slice: what a batch walk
\* over the bars held would have done.
THEOREM Matches == Spec => []LiveMatchesReplay
<1>1. IInv => LiveMatchesReplay
  BY Zenon DEF IInv, EngineInv, Sound, LiveMatchesReplay, FiresOnce, SlicesMatch
<1> QED BY <1>1, Inductive, PTL

\* Whatever is late, lost or crashes: a payload with less broker truth, or without a
\* decision that the exported bars reproduce, never replaces one with it.
THEOREM Forward == Spec => NeverBackwards
<1>1. IInv /\ [Next]_vars => [row'.truth >= row.truth]_vars
  <2> SUFFICES ASSUME IInv, [Next]_vars PROVE row'.truth >= row.truth
    OBVIOUS
  <2>1. row.truth \in 0..MaxRows /\ MaxRows \in Nat
    BY WarmAssumption DEF IInv, TypeOK, Payload
  <2>2. CASE row' = row
    BY <2>1, <2>2
  <2>3. CASE TickEffect
    <3>1. row'.truth \in 0..MaxRows /\ row.truth <= row'.truth
      BY <2>3 DEF TickEffect, Payload
    <3> QED BY <2>1, <3>1
  <2> QED BY <2>2, <2>3, Step
<1>2. IInv /\ [Next]_vars =>
        [\/ row.fires \cap ReplayFires(zip) \subseteq row'.fires
         \/ engine'.alive /\ engine'.audit = "failed"]_vars
  BY Step DEF TickEffect, Kept
<1>3. Spec => TruthStays
  BY <1>1, Inductive, PTL DEF Spec, TruthStays
<1>4. Spec => PayloadStays
  BY <1>2, Inductive, PTL DEF Spec, PayloadStays
<1> QED BY <1>3, <1>4 DEF NeverBackwards

\* The worker does not go into the night with a payload the executor was not told of.
THEOREM Settled == Spec => SettledOvernight
<1>1. IInv /\ [Next]_vars => [clock = Roll /\ clock' = Morning => ~unsent]_vars
  <2> SUFFICES ASSUME IInv, [Next]_vars, clock = Roll, clock' = Morning PROVE ~unsent
    OBVIOUS
  <2>1. Roll # Morning
    BY WarmAssumption DEF Roll, Morning
  <2>2. ClockTick
    <3>1. clock' # clock
      BY <2>1
    <3>2. TickEffect => clock' = clock
      BY DEF TickEffect, TickFrame
    <3>3. Tick => clock' = clock
      BY <3>2, TickStep
    <3> QED BY <3>1, <3>3 DEF Next, StoreBar, MorningEvent, Ingest, CommitRows, Rollback,
              DedupeEnds, Worker, Restart, Wake, Publish, Ack, Crash, vars
  <2>3. Quiet
    BY <2>2, WarmAssumption DEF ClockTick, Roll
  <2>4. pc = "idle" /\ "roll" \in done
    BY <2>3 DEF Quiet, Owed, Causes
  <2> QED BY <2>4 DEF IInv, SettleInv
<1> QED BY <1>1, Inductive, PTL DEF Spec, SettledOvernight
=============================================================================
