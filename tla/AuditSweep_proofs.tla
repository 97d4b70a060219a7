-------------------------- MODULE AuditSweep_proofs --------------------------
(***************************************************************************)
(* Proofs about AuditSweep, for any symbols, payloads, venues, levels,     *)
(* rails and bounds.                                                       *)
(*                                                                         *)
(* DbInv says what the tables and the account are, SweepOK what a sweep    *)
(* carries from step to step, CutInv what has become of every order that   *)
(* was cancelled in order to be sent again.  The sums and folds over the   *)
(* day's orders are typed by an induction over finite sets of their own    *)
(* (FoldTyped, FoldExists).                                                *)
(***************************************************************************)
EXTENDS AuditSweep, FiniteSetTheorems, SequenceTheorems, WellFoundedInduction, TLAPS

Want == [sym : Symbols, fam : {"exit", "entry", "mkt", "moc"}, kind : Kinds, level : Nat,
         side : Int, qty : Int, short : BOOLEAN]
Order == [sym : Symbols, fam : {"exit", "entry", "mkt", "moc"}, kind : Kinds, level : Nat,
          side : Int, qty : Int, short : BOOLEAN, boid : BOOLEAN,
          at : {"resting", "filled", "gone"},
          row : {"none", "sending", "open", "filled", "folded", "shut"},
          stored : BOOLEAN, folded : BOOLEAN]
Account == [pos : Int, owner : Nat, kept : Nat, booked : Int]

\* What the sleeve folded was stored, and what is stored the venue filled.
Settled(o) == (o.folded => o.stored) /\ (o.stored => o.at = "filled")

\* The deployment's payload, the account, the orders with their rows.
DbInv ==
  /\ caps \in Venues
  /\ acct \in [Symbols -> Account]
  /\ plan \in [Symbols -> Payload]
  /\ orders \in Seq(Order) /\ Len(orders) <= MaxOrders
  /\ \A i \in Ids : Settled(orders[i])
  /\ left \in [sweeps : Int, decisions : Int, faults : 0 .. MaxFaults]

Fields ==
  {"pc", "paused", "deferred", "pollOk", "want", "phase", "books", "kept", "done", "known",
   "gates", "diff", "folded", "have", "keptNow", "keptShort", "seen", "mocNative", "budget",
   "tripped", "verdict", "todo", "later", "cut", "mocSent", "raised", "clean", "exhausted",
   "surprised", "turned"}
PlacingSteps == {"exits", "entries"}
Steps == {"polling", "gates", "positions", "orders", "closing", "releasing", "trading",
          "launching", "exits", "entries", "ending", "aborted"}

\* x is a sweep in progress with n orders sent so far.
SweepOK(x, n) ==
  /\ DOMAIN x = Fields /\ x.pc \in Steps
  /\ x.want \in [Symbols -> Payload] /\ x.books \in [Symbols -> Int]
  /\ x.kept \in [Symbols -> Nat] /\ x.have \in [Symbols -> Int]
  /\ x.mocNative \in [Symbols -> Int]
  /\ x.budget \in Nat /\ x.seen \subseteq 1 .. n
  /\ x.later \subseteq Want /\ x.cut \subseteq Want
  /\ x.pc = "closing" => x.todo \subseteq Symbols
  /\ x.pc = "releasing" => x.todo \subseteq x.seen
  /\ x.pc \in {"launching", "exits", "entries"} => x.todo \subseteq Want

SwInv == At("idle") \/ SweepOK(sw, Len(orders))

\* An order of this sweep rests for w, or the venue turned it down, or a fill of the
\* symbol came in between.
RestsFor(i, w) ==
  /\ orders[i].at = "resting" /\ orders[i].sym = w.sym /\ orders[i].fam = w.fam
  /\ orders[i].kind = w.kind /\ orders[i].side = w.side /\ orders[i].qty = w.qty
  /\ orders[i].level = w.level
Put(w) == \E i \in Ids \ sw.seen : RestsFor(i, w)
Restored(w) == w \in sw.turned \/ w.sym \in sw.surprised \/ Put(w)

\* The pair of w is half done: its second half is what the sweep does next, and nothing
\* has tripped the gateway.
Underway(w) == sw.pc \in PlacingSteps /\ w \in sw.todo /\ ~sw.tripped

\* A sweep cancels in order to resend only while it places, and either ends by an
\* exception or brings each pair to its end.
CutInv ==
  sw.pc # "idle" =>
    /\ sw.pc \notin PlacingSteps \cup {"ending", "aborted"} => sw.cut = {}
    /\ sw.pc = "aborted" => sw.raised \/ sw.cut = {}
    /\ sw.pc \in PlacingSteps \cup {"ending"} =>
         \A w \in sw.cut : sw.exhausted \/ Restored(w) \/ Underway(w)

IInv == DbInv /\ SwInv /\ CutInv

-----------------------------------------------------------------------------
(* Induction over a finite set, for the sums and folds over orders.        *)

One(s) == CHOOSE x \in s : TRUE
Rest(s) == s \ {One(s)}
IsFold(g, S, base, F) ==
  \A s \in SUBSET S : g[s] = IF s = {} THEN base ELSE F[<<s, g[Rest(s)]>>]

LEMMA MinIsLeast ==
    ASSUME NEW S, S \subseteq Nat, S # {}
    PROVE  Min(S) \in S /\ \A x \in S : Min(S) <= x
<1>1. OpToRel(<, Nat) = {p \in Nat \X Nat : p[1] < p[2]}
  BY Zenon DEF OpToRel
<1>2. \E x \in S : \A y \in S : ~(<<y, x>> \in OpToRel(<, Nat))
  BY NatLessThanWellFounded, WFMin
<1>3. PICK x \in S : \A y \in S : ~(<<y, x>> \in {p \in Nat \X Nat : p[1] < p[2]})
  BY <1>1, <1>2, Zenon
<1>4. ASSUME NEW y \in S, y < x PROVE FALSE
  <2>1. <<y, x>> \in Nat \X Nat /\ <<y, x>>[1] = y /\ <<y, x>>[2] = x
    OBVIOUS
  <2> QED BY <1>3, <1>4, <2>1, Zenon
<1>5. \A y \in S : x <= y
  BY <1>4
<1> QED BY <1>5 DEF Min

LEMMA RestIsLess ==
  ASSUME NEW S, IsFiniteSet(S), NEW s \in SUBSET S, s # {}
  PROVE  /\ One(s) \in s /\ Rest(s) \in SUBSET S /\ IsFiniteSet(s)
         /\ Cardinality(s) \in Nat \ {0} /\ Cardinality(Rest(s)) = Cardinality(s) - 1
<1>1. One(s) \in s
  BY DEF One
<1>2. IsFiniteSet(s)
  BY FS_Subset
<1>3. Cardinality(Rest(s)) = Cardinality(s) - 1
  BY <1>1, <1>2, FS_RemoveElement DEF Rest
<1>4. Cardinality(s) \in Nat /\ Cardinality(s) # 0
  BY <1>2, FS_CardinalityType, FS_EmptySet
<1> QED BY <1>1, <1>2, <1>3, <1>4 DEF Rest

LEMMA FoldTyped ==
  ASSUME NEW S, IsFiniteSet(S), NEW V, NEW g,
         \A s \in SUBSET S : IF s = {} THEN g[s] \in V ELSE g[Rest(s)] \in V => g[s] \in V
  PROVE  \A s \in SUBSET S : g[s] \in V
<1> DEFINE Bad == {n \in Nat : \E s \in SUBSET S : Cardinality(s) = n /\ g[s] \notin V}
<1>1. SUFFICES Bad = {}
  BY FS_Subset, FS_CardinalityType
<1>2. SUFFICES ASSUME Bad # {} PROVE FALSE
  OBVIOUS
<1>3. Min(Bad) \in Bad /\ \A n \in Bad : Min(Bad) <= n
  BY <1>2, MinIsLeast
<1>4. PICK s \in SUBSET S : Cardinality(s) = Min(Bad) /\ g[s] \notin V
  BY <1>3
<1>5. s # {} /\ g[Rest(s)] \notin V
  BY <1>4
<1>6. Cardinality(s) - 1 \in Bad
  BY <1>5, RestIsLess
<1>7. Cardinality(s) \in Nat
  BY <1>5, RestIsLess
<1> HIDE DEF Bad
<1> QED BY <1>3, <1>4, <1>6, <1>7

LEMMA FoldExists ==
  ASSUME NEW S, IsFiniteSet(S), NEW V, NEW base \in V,
         NEW F \in [(SUBSET S) \X V -> V]
  PROVE  \E g \in [SUBSET S -> V] : IsFold(g, S, base, F)
<1> DEFINE Body(g, s) == IF s = {} THEN base ELSE F[<<s, g[Rest(s)]>>]
           Upto(g, n) == \A s \in SUBSET S : Cardinality(s) <= n => g[s] = Body(g, s)
           Bad == {n \in Nat : ~ \E g \in [SUBSET S -> V] : Upto(g, n)}
<1>1. \A s \in SUBSET S : Cardinality(s) \in Nat /\ Cardinality(s) <= Cardinality(S)
  BY FS_Subset, FS_CardinalityType
<1>2. Cardinality(S) \in Nat
  BY FS_CardinalityType
<1>3. SUFFICES Bad = {}
  BY <1>1, <1>2 DEF IsFold
<1>4. SUFFICES ASSUME Bad # {} PROVE FALSE
  OBVIOUS
<1>5. Min(Bad) \in Bad /\ \A n \in Bad : Min(Bad) <= n
  BY <1>4, MinIsLeast
<1> DEFINE m == Min(Bad)
<1>6. m \in Nat
  BY <1>5
<1>7. m # 0
  <2> DEFINE z == [s \in SUBSET S |-> base]
  <2>1. z \in [SUBSET S -> V]
    OBVIOUS
  <2>2. ASSUME NEW s \in SUBSET S, Cardinality(s) <= 0 PROVE z[s] = Body(z, s)
    <3>1. s = {}
      BY <2>2, FS_EmptySet, FS_Subset, <1>1
    <3> QED BY <3>1
  <2>3. Upto(z, 0)
    BY <2>2
  <2>4. 0 \notin Bad
    <3> HIDE DEF Upto, z
    <3> QED BY <2>1, <2>3
  <2> HIDE DEF Bad
  <2> QED BY <1>5, <2>4
<1>8. PICK g \in [SUBSET S -> V] : Upto(g, m - 1)
  <2>1. m - 1 \in Nat /\ m - 1 \notin Bad
    <3> HIDE DEF Bad
    <3> QED BY <1>5, <1>6, <1>7
  <2> QED BY <2>1
<1> DEFINE h == [s \in SUBSET S |-> IF Cardinality(s) <= m - 1 THEN g[s] ELSE Body(g, s)]
<1>9. \A s \in SUBSET S : Body(g, s) \in V
  BY RestIsLess
<1>10. h \in [SUBSET S -> V]
  BY <1>9
<1>11. ASSUME NEW s \in SUBSET S, Cardinality(s) <= m PROVE h[s] = Body(h, s)
  <2>1. h[s] = Body(g, s)
    <3> HIDE DEF Body, Bad
    <3> QED BY <1>8
  <2>2. s # {} => h[Rest(s)] = g[Rest(s)]
    <3> HIDE DEF Bad, Body, m
    <3> QED BY <1>1, <1>6, <1>11, RestIsLess
  <2> QED BY <2>1, <2>2
<1>12. Upto(h, m)
  BY <1>11
<1> HIDE DEF h
<1>13. Upto(h, m) => m \notin Bad
  BY <1>10
<1> HIDE DEF Upto, Bad, Body
<1> QED BY <1>5, <1>12, <1>13

\* A total over known orders is a number.
LEMMA TotalIsInt ==
  ASSUME NEW S, IsFiniteSet(S), \A i \in S : Signed(orders[i]) \in Int
  PROVE  Total(S) \in Int
<1> DEFINE G(s, v) == IF s = {} THEN 0 ELSE Signed(orders[One(s)]) + v
           F == [p \in (SUBSET S) \X Int |-> G(p[1], p[2])]
           iter == CHOOSE g : g = [s \in SUBSET S |->
                                     IF s = {} THEN 0 ELSE Signed(orders[One(s)]) + g[Rest(s)]]
<1>1. Total(S) = iter[S]
  BY Zenon DEF Total, MapThenSumSet, MapThenFoldSet, One, Rest
<1>2. \A s \in SUBSET S : \A v \in Int : G(s, v) \in Int
  BY RestIsLess
<1>3. F \in [(SUBSET S) \X Int -> Int]
  <2> HIDE DEF G
  <2> QED BY <1>2
<1>4. PICK g \in [SUBSET S -> Int] : IsFold(g, S, 0, F)
  <2>1. 0 \in Int
    OBVIOUS
  <2> HIDE DEF F
  <2> QED BY <1>3, <2>1, FoldExists, Zenon
<1>5. ASSUME NEW s \in SUBSET S, s # {}
      PROVE  g[s] = Signed(orders[One(s)]) + g[Rest(s)]
  BY <1>4, <1>5, RestIsLess DEF IsFold
<1>6. g = [s \in SUBSET S |-> IF s = {} THEN 0 ELSE Signed(orders[One(s)]) + g[Rest(s)]]
  <2> HIDE DEF F, G
  <2> QED BY <1>4, <1>5 DEF IsFold
<1>7. iter = [s \in SUBSET S |-> IF s = {} THEN 0 ELSE Signed(orders[One(s)]) + iter[Rest(s)]]
  <2> HIDE DEF F, G
  <2> QED BY <1>6, Zenon
<1> HIDE DEF iter, F, G
<1>8. \A s \in SUBSET S : IF s = {} THEN iter[s] \in Int
                          ELSE iter[Rest(s)] \in Int => iter[s] \in Int
  BY <1>7, RestIsLess
<1>9. \A s \in SUBSET S : iter[s] \in Int
  BY <1>8, FoldTyped, Zenon
<1> QED BY <1>1, <1>9

\* Folding fills into a payload leaves a payload.
LEMMA FoldIntoIs ==
  ASSUME NEW p \in Payload, NEW o \in Order
  PROVE  FoldInto(p, o) \in Payload
<1> DEFINE X == [kind : {"limit", "stop"}, level : Nat]
           E == [kind : {"limit", "stop"}, level : Nat, qty : Nat]
           P == [qty : Int, exits : SUBSET X, entries : SUBSET E, ticket : Int, px : Nat]
<1>1. Payload = P
  BY DEF Payload
<1>2. PICK n \in Int : n = Signed(o)
  BY DEF Order, Signed
<1> HIDE DEF X, E
<1>3. p \in P
  BY <1>1
<1>4. p.qty \in Int /\ p.ticket \in Int /\ p.exits \in SUBSET X /\ p.entries \in SUBSET E
  BY <1>3
<1>5. ASSUME NEW q \in Int, NEW S \in SUBSET X, NEW T \in SUBSET E, NEW t \in Int
      PROVE  [qty |-> q, exits |-> S, entries |-> T, ticket |-> t, px |-> p.px] \in P
  BY <1>3
<1>6. PICK a \in Int : a = p.qty + n
  BY <1>4
<1>7. PICK b \in Int : b = p.qty + p.ticket
  BY <1>4
<1>8. PICK S \in SUBSET X : S = {e \in p.exits : e.kind # o.kind}
  BY <1>4
<1>9. PICK T \in SUBSET E : T = {e \in p.entries : e.kind # o.kind}
  BY <1>4
<1>10. ASSUME NEW r, r = [p EXCEPT !.qty = a, !.exits = S]
      PROVE  r \in P
  <2>1. /\ r.qty = a /\ r.exits = S /\ r.entries = p.entries
        /\ r.ticket = p.ticket /\ r.px = p.px
    BY <1>3, <1>10
  <2>2. r = [qty |-> r.qty, exits |-> r.exits, entries |-> r.entries, ticket |-> r.ticket,
             px |-> r.px]
    BY <1>3, <1>10
  <2>3. r.qty \in Int /\ r.exits \in SUBSET X /\ r.entries \in SUBSET E /\ r.ticket \in Int
    BY <1>4, <2>1
  <2> HIDE DEF P
  <2> QED BY <1>5, <2>1, <2>2, <2>3, Zenon
<1>11. ASSUME NEW r, r = [p EXCEPT !.qty = a, !.entries = T]
      PROVE  r \in P
  <2>1. /\ r.qty = a /\ r.exits = p.exits /\ r.entries = T
        /\ r.ticket = p.ticket /\ r.px = p.px
    BY <1>3, <1>11
  <2>2. r = [qty |-> r.qty, exits |-> r.exits, entries |-> r.entries, ticket |-> r.ticket,
             px |-> r.px]
    BY <1>3, <1>11
  <2>3. r.qty \in Int /\ r.exits \in SUBSET X /\ r.entries \in SUBSET E /\ r.ticket \in Int
    BY <1>4, <2>1
  <2> HIDE DEF P
  <2> QED BY <1>5, <2>1, <2>2, <2>3, Zenon
<1>12. ASSUME NEW r, r = [p EXCEPT !.qty = b, !.ticket = 0]
      PROVE  r \in P
  <2>1. /\ r.qty = b /\ r.exits = p.exits /\ r.entries = p.entries
        /\ r.ticket = 0 /\ r.px = p.px
    BY <1>3, <1>12
  <2>2. r = [qty |-> r.qty, exits |-> r.exits, entries |-> r.entries, ticket |-> r.ticket,
             px |-> r.px]
    BY <1>3, <1>12
  <2>3. r.qty \in Int /\ r.exits \in SUBSET X /\ r.entries \in SUBSET E /\ r.ticket \in Int
    BY <1>4, <2>1
  <2> HIDE DEF P
  <2> QED BY <1>5, <2>1, <2>2, <2>3, Zenon
<1> HIDE DEF P
<1> QED BY <1>1, <1>2, <1>3, <1>6, <1>7, <1>8, <1>9, <1>10, <1>11, <1>12, Zenon DEF FoldInto

LEMMA FoldAllIs ==
  ASSUME NEW p \in Payload, NEW S, IsFiniteSet(S), \A i \in S : orders[i] \in Order
  PROVE  FoldAll(p, S) \in Payload
<1> DEFINE G(s, v) == IF s = {} THEN p ELSE FoldInto(v, orders[One(s)])
           F == [q \in (SUBSET S) \X Payload |-> G(q[1], q[2])]
           iter == CHOOSE g : g = [s \in SUBSET S |->
                                     IF s = {} THEN p ELSE FoldInto(g[Rest(s)], orders[One(s)])]
<1>1. FoldAll(p, S) = iter[S]
  BY Zenon DEF FoldAll, FoldSet, MapThenFoldSet, One, Rest
<1>2. \A s \in SUBSET S : \A v \in Payload : G(s, v) \in Payload
  BY RestIsLess, FoldIntoIs
<1>3. F \in [(SUBSET S) \X Payload -> Payload]
  <2> HIDE DEF G
  <2> QED BY <1>2
<1>4. PICK g \in [SUBSET S -> Payload] : IsFold(g, S, p, F)
  <2> HIDE DEF F
  <2> QED BY <1>3, FoldExists, Zenon
<1>5. ASSUME NEW s \in SUBSET S, s # {}
      PROVE  g[s] = FoldInto(g[Rest(s)], orders[One(s)])
  BY <1>4, <1>5, RestIsLess DEF IsFold
<1>6. g = [s \in SUBSET S |-> IF s = {} THEN p ELSE FoldInto(g[Rest(s)], orders[One(s)])]
  <2> HIDE DEF F, G
  <2> QED BY <1>4, <1>5 DEF IsFold
<1>7. iter = [s \in SUBSET S |-> IF s = {} THEN p ELSE FoldInto(iter[Rest(s)], orders[One(s)])]
  <2> HIDE DEF F, G
  <2> QED BY <1>6, Zenon
<1> HIDE DEF iter, F, G
<1>8. \A s \in SUBSET S : IF s = {} THEN iter[s] \in Payload
                          ELSE iter[Rest(s)] \in Payload => iter[s] \in Payload
  BY <1>7, RestIsLess, FoldIntoIs
<1>9. \A s \in SUBSET S : iter[s] \in Payload
  BY <1>8, FoldTyped, Zenon
<1> QED BY <1>1, <1>9

-----------------------------------------------------------------------------
(* Numbers, and the orders a sweep may want to send.                       *)

LEMMA RoundStepIsInt ==
  ASSUME NEW q \in Int
  PROVE  RoundStep(q) \in Int /\ Abs(q) \in Nat /\ Abs(q) \in Int /\ Sign(q) \in Int
<1>1. Abs(q) \in Nat /\ Sign(q) \in {-1, 0, 1}
  BY DEF Abs, Sign
<1>2. Abs(q) \div QtyStep \in Int
  BY <1>1, SweepBounds
<1>3. (Abs(q) \div QtyStep) * QtyStep \in Int
  BY <1>2, SweepBounds
<1> QED BY <1>1, <1>3 DEF RoundStep

\* The first or last of two numbers is one of them.
LEMMA OfTwo ==
  ASSUME NEW a \in Int, NEW b \in Int
  PROVE  /\ Max({a, b}) \in {a, b}
         /\ Min({a, b}) \in {a, b} /\ Min({a, b}) <= a /\ Min({a, b}) <= b
<1>1. CASE a <= b
  <2>1. \E x \in {a, b} : \A y \in {a, b} : x >= y
    BY <1>1
  <2>2. \E x \in {a, b} : \A y \in {a, b} : x <= y
    BY <1>1
  <2> QED BY <2>1, <2>2 DEF Max, Min
<1>2. CASE b <= a
  <2>1. \E x \in {a, b} : \A y \in {a, b} : x >= y
    BY <1>2
  <2>2. \E x \in {a, b} : \A y \in {a, b} : x <= y
    BY <1>2
  <2> QED BY <2>1, <2>2 DEF Max, Min
<1> QED BY <1>1, <1>2

LEMMA OrdersAre ==
  ASSUME DbInv
  PROVE  /\ Ids = 1 .. Len(orders) /\ Len(orders) \in Nat /\ IsFiniteSet(Ids)
         /\ \A i \in Ids : orders[i] \in Order /\ Signed(orders[i]) \in Int
         /\ \A S \in SUBSET Ids : IsFiniteSet(S) /\ Total(S) \in Int
<1>1. Ids = 1 .. Len(orders) /\ Len(orders) \in Nat
  BY DEF DbInv, Ids
<1>2. IsFiniteSet(Ids)
  BY <1>1, FS_Interval
<1>3. \A i \in Ids : orders[i] \in Order
  BY <1>1 DEF DbInv
<1>4. ASSUME NEW o \in Order PROVE Signed(o) \in Int
  BY DEF Order, Signed
<1>5. ASSUME NEW S \in SUBSET Ids PROVE IsFiniteSet(S) /\ Total(S) \in Int
  <2>1. IsFiniteSet(S)
    BY <1>2, FS_Subset
  <2>2. \A i \in S : Signed(orders[i]) \in Int
    BY <1>3, <1>4
  <2> QED BY <2>1, <2>2, TotalIsInt
<1> QED BY <1>1, <1>2, <1>3, <1>4, <1>5

\* What a payload wants are orders.
LEMMA WantsAre ==
  ASSUME NEW s \in Symbols, NEW p \in Payload
  PROVE  ExitWants(s, p) \cup EntryWants(s, p) \subseteq Want
<1>1. ASSUME NEW e \in p.exits
      PROVE  [sym |-> s, fam |-> "exit", kind |-> e.kind, level |-> e.level,
              side |-> -Sign(p.qty), qty |-> RoundStep(Abs(p.qty)), short |-> FALSE] \in Want
  <2>1. e.kind \in Kinds /\ e.level \in Nat /\ p.qty \in Int
    BY DEF Payload, Kinds
  <2>2. -Sign(p.qty) \in Int /\ RoundStep(Abs(p.qty)) \in Int
    BY <2>1, RoundStepIsInt
  <2> QED BY <2>1, <2>2 DEF Want
<1>2. ASSUME NEW e \in p.entries
      PROVE  [sym |-> s, fam |-> "entry", kind |-> e.kind, level |-> e.level, side |-> 1,
              qty |-> RoundStep(e.qty), short |-> FALSE] \in Want
  <2>1. e.kind \in Kinds /\ e.level \in Nat /\ e.qty \in Int
    BY DEF Payload, Kinds
  <2>2. RoundStep(e.qty) \in Int
    BY <2>1, RoundStepIsInt
  <2> QED BY <2>1, <2>2 DEF Want
<1> QED BY <1>1, <1>2 DEF ExitWants, EntryWants

\* So are those a section still has to place.
LEMMA ToPlaceAre ==
  ASSUME NEW n, SweepOK(sw, n), NEW fam
  PROVE  ToPlace(fam) \subseteq Want
<1>1. \A s \in Symbols : sw.want[s] \in Payload
  BY DEF SweepOK
<1>2. \A s \in Symbols : Wants(s) \subseteq Want
  BY <1>1, WantsAre DEF Wants, NativeExits
<1> QED BY <1>2 DEF ToPlace

LEMMA DeltaIs ==
  ASSUME DbInv, NEW n, n = Len(orders), SweepOK(sw, n), NEW s \in Symbols
  PROVE  Effective(s) \in Int /\ Delta(s) \in Int /\ Part(s) \in Int
<1>1. sw.have[s] \in Int /\ sw.mocNative[s] \in Int /\ sw.want[s] \in Payload
  BY DEF SweepOK
<1>2. sw.want[s].qty \in Int
  BY <1>1 DEF Payload
<1>3. Pending(s) \in Int
  <2>1. sw.seen \subseteq Ids
    BY OrdersAre DEF SweepOK
  <2>2. Seen(s) \subseteq Ids
    BY <2>1 DEF Seen
  <2> QED BY <2>2, OrdersAre DEF Pending
<1>4. Effective(s) \in Int
  BY <1>1, <1>3 DEF Effective
<1>5. Delta(s) \in Int
  <2>1. sw.want[s].qty - Effective(s) \in Int
    BY <1>2, <1>4
  <2> QED BY <2>1, RoundStepIsInt, Zenon DEF Delta
<1>6. RoundStep(-Effective(s)) \in Int
  BY <1>4, RoundStepIsInt
<1> QED BY <1>4, <1>5, <1>6 DEF Part

\* The market order of a delta, and the on-close order of a ticket.
LEMMA MarketOrderIs ==
  ASSUME DbInv, SweepOK(sw, Len(orders)), NEW s \in Symbols
  PROVE  MarketOrder(s) \in Want
<1>1. Part(s) \in Int
  BY DeltaIs
<1>2. Sign(Part(s)) \in Int /\ Abs(Part(s)) \in Int
  BY <1>1, RoundStepIsInt, Zenon
<1>3. OpensShort(s) \in BOOLEAN
  BY DEF OpensShort
<1> QED BY <1>2, <1>3 DEF MarketOrder, Want, Kinds

LEMMA MocOrderIs ==
  ASSUME DbInv, SweepOK(sw, Len(orders)), NEW s \in Symbols
  PROVE  MocOrder(s) \in Want /\ Moc(s) \in Int
<1>1. sw.have[s] \in Int /\ sw.mocNative[s] \in Int /\ sw.want[s] \in Payload
  BY DEF SweepOK
<1>2. Moc(s) \in Int /\ MocHave(s) \in Int
  BY <1>1 DEF Moc, MocHave, Payload
<1>3. RoundStep(Moc(s)) \in Int /\ RoundStep(MocHave(s)) \in Int /\ Sign(Moc(s)) \in Int
  BY <1>2, RoundStepIsInt, Zenon
<1>4. Abs(RoundStep(Moc(s))) \in Int /\ Abs(RoundStep(MocHave(s))) \in Int
  BY <1>3, RoundStepIsInt
<1>5. MocQty(s) \in Int
  BY <1>4 DEF MocQty
<1>6. (Moc(s) < 0 /\ RoundStep(MocHave(s)) <= 0) \in BOOLEAN
  OBVIOUS
<1> QED BY <1>2, <1>3, <1>5, <1>6 DEF MocOrder, Want, Kinds

-----------------------------------------------------------------------------
(* One order's record changed, and the orders as a whole.                  *)

Rows == {"none", "sending", "open", "filled", "folded", "shut"}
SameOrder(o, r) ==
  /\ r.sym = o.sym /\ r.fam = o.fam /\ r.kind = o.kind /\ r.side = o.side /\ r.qty = o.qty
  /\ r.level = o.level /\ r.at = o.at

LEMMA RowSet ==
  ASSUME NEW o \in Order, Settled(o), NEW row \in Rows, NEW r, r = [o EXCEPT !.row = row]
  PROVE  r \in Order /\ Settled(r) /\ SameOrder(o, r)
  BY DEF Order, Rows, Settled, SameOrder

LEMMA StoredSet ==
  ASSUME NEW o \in Order, o.at = "filled", NEW row \in Rows,
         NEW r, r = [o EXCEPT !.stored = TRUE, !.row = row]
  PROVE  r \in Order /\ Settled(r) /\ SameOrder(o, r)
  BY DEF Order, Rows, Settled, SameOrder

LEMMA FoldedSet ==
  ASSUME NEW o \in Order, Settled(o), NEW r, r = [o EXCEPT !.folded = o.stored]
  PROVE  r \in Order /\ Settled(r) /\ SameOrder(o, r)
  BY DEF Order, Settled, SameOrder

LEMMA OpenSet ==
  ASSUME NEW o \in Order, Settled(o), NEW r, r = [o EXCEPT !.row = "open", !.boid = TRUE]
  PROVE  r \in Order /\ Settled(r) /\ SameOrder(o, r)
  BY DEF Order, Settled, SameOrder

LEMMA AtSet ==
  ASSUME NEW o \in Order, Settled(o), NEW row \in Rows, NEW at \in {"resting", "filled", "gone"},
         at = o.at \/ o.at = "resting", NEW r, r = [o EXCEPT !.at = at, !.row = row]
  PROVE  r \in Order /\ Settled(r)
  BY DEF Order, Rows, Settled

LEMMA LevelSet ==
  ASSUME NEW o \in Order, Settled(o), NEW q \in Int, NEW l \in Nat,
         NEW r, r = [o EXCEPT !.qty = q, !.level = l]
  PROVE  r \in Order /\ Settled(r)
  BY DEF Order, Settled

LEMMA FilledSet ==
  ASSUME NEW o \in Order, Settled(o), o.at = "resting", NEW r, r = [o EXCEPT !.at = "filled"]
  PROVE  r \in Order /\ Settled(r)
  BY DEF Order, Settled

\* The orders with each record changed are orders still.
LEMMA Relabelled ==
  ASSUME DbInv, NEW os, os = [i \in Ids |-> os[i]],
         \A i \in Ids : os[i] \in Order
  PROVE  os \in Seq(Order) /\ Len(os) = Len(orders) /\ DOMAIN os = Ids
<1>1. Ids = 1 .. Len(orders) /\ Len(orders) \in Nat
  BY OrdersAre
<1>2. os \in [1 .. Len(orders) -> Order]
  BY <1>1
<1>3. os \in Seq(Order)
  BY <1>1, <1>2, SeqDef
<1>4. DOMAIN os = 1 .. Len(os) /\ Len(os) \in Nat
  BY <1>3, LenProperties
<1>5. 1 .. Len(os) = 1 .. Len(orders)
  BY <1>2, <1>4
<1> QED BY <1>1, <1>3, <1>4, <1>5

-----------------------------------------------------------------------------
(* The steps up to the first decision.                                     *)

\* A step leaves the orders this sweep did not find resting as they are, but for
\* their rows.
Stand == \A i \in Ids : i \in Ids' /\ (i \in sw.seen \/ SameOrder(orders[i], orders'[i]))

\* A sweep that ends was at its end.
Onward == At("idle") \/ sw.pc \in {"ending", "aborted"} \/ sw'.pc # "idle"

Relabels ==
  /\ orders' = [i \in Ids |-> orders'[i]]
  /\ \A i \in Ids : /\ orders'[i] \in Order /\ Settled(orders'[i])
                    /\ SameOrder(orders[i], orders'[i])

LEMMA RelabelsDb ==
  ASSUME DbInv, Relabels, caps' = caps, acct' \in [Symbols -> Account],
         plan' \in [Symbols -> Payload], left' \in [sweeps : Int, decisions : Int, faults : 0 .. MaxFaults]
  PROVE  DbInv' /\ Stand /\ Len(orders') = Len(orders)
<1>1. orders' \in Seq(Order) /\ Len(orders') = Len(orders) /\ Ids' = Ids
  BY Relabelled DEF Relabels, Ids
<1> QED BY <1>1 DEF DbInv, Relabels, Stand

LEMMA SameDb ==
  ASSUME DbInv, orders' = orders, caps' = caps, acct' = acct, plan' = plan, 
         left' \in [sweeps : Int, decisions : Int, faults : 0 .. MaxFaults]
  PROVE  DbInv' /\ Stand /\ Len(orders') = Len(orders)
<1>1. Ids' = Ids
  BY DEF Ids
<1>2. \A i \in Ids : SameOrder(orders[i], orders'[i])
  BY DEF SameOrder
<1>3. Stand
  BY <1>1, <1>2 DEF Stand
<1>4. DbInv'
  BY <1>1 DEF DbInv
<1> QED BY <1>3, <1>4

\* Without a pair in hand there is nothing to bring to its end.
LEMMA NoPair ==
  ASSUME sw'.cut = {}
  PROVE  CutInv'
  BY DEF CutInv

LEMMA SpentIs ==
  ASSUME DbInv, NEW f, f => left.faults > 0
  PROVE  /\ Spent(f) \in [sweeps : Int, decisions : Int, faults : 0 .. MaxFaults]
<1>1. left.faults \in 0 .. MaxFaults /\ MaxFaults \in Nat
  BY SweepBounds DEF DbInv
<1>2. PICK n \in 0 .. MaxFaults : n = left.faults - (IF f THEN 1 ELSE 0)
  BY <1>1
<1>3. Spent(f) = [left EXCEPT !.faults = n]
  BY <1>2 DEF Spent
<1> QED BY <1>3 DEF DbInv

LEMMA LiftsRelabel ==
  ASSUME DbInv, NEW L, orders' = LiftRows(L)
  PROVE  Relabels
<1>1. ASSUME NEW i \in Ids
      PROVE  orders'[i] \in Order /\ Settled(orders'[i]) /\ SameOrder(orders[i], orders'[i])
  <2>1. orders[i] \in Order /\ Settled(orders[i])
    BY OrdersAre DEF DbInv
  <2>2. CASE i \in L
    <3>1. orders'[i] = [orders[i] EXCEPT !.row = "folded"]
      BY <2>2 DEF LiftRows
    <3> QED BY <2>1, <3>1, RowSet DEF Rows
  <2>3. CASE i \notin L
    <3>1. orders'[i] = orders[i]
      BY <2>3 DEF LiftRows
    <3> QED BY <2>1, <3>1 DEF SameOrder
  <2> QED BY <2>2, <2>3
<1> QED BY <1>1 DEF Relabels, LiftRows

LEMMA PollRelabels ==
  ASSUME DbInv, orders' = Polled
  PROVE  Relabels
<1>1. ASSUME NEW i \in Ids
      PROVE  orders'[i] \in Order /\ Settled(orders'[i]) /\ SameOrder(orders[i], orders'[i])
  <2>1. orders[i] \in Order /\ Settled(orders[i])
    BY OrdersAre DEF DbInv
  <2>2. CASE orders[i].at # "filled" \/ orders[i].stored
    <3>1. orders'[i] = orders[i]
      BY <2>2 DEF Polled
    <3> QED BY <2>1, <3>1 DEF SameOrder
  <2>3. CASE ~(orders[i].at # "filled" \/ orders[i].stored)
    <3>1. PICK row \in Rows : row = IF orders[i].row # "none" /\ FillFound(i) THEN "filled"
                                    ELSE orders[i].row
      BY <2>1 DEF Order, Rows
    <3>2. orders'[i] = [orders[i] EXCEPT !.stored = TRUE, !.row = row]
      BY <2>3, <3>1 DEF Polled
    <3>3. orders[i].at = "filled"
      BY <2>3
    <3> QED BY <2>1, <3>2, <3>3, StoredSet
  <2> QED BY <2>2, <2>3
<1> QED BY <1>1 DEF Relabels, Polled

LEMMA GatherStep ==
  ASSUME IInv, NEW d, NEW g, Gather(d, g)
  PROVE  IInv' /\ Onward
<1>1. DbInv
  BY DEF IInv
<1>2. Relabels
  BY <1>1, LiftsRelabel DEF Gather
<1>3. left' \in [sweeps : Int, decisions : Int, faults : 0 .. MaxFaults]
  BY <1>1 DEF Gather, DbInv
<1>4. DbInv' /\ Len(orders') = Len(orders)
  BY <1>1, <1>2, <1>3, RelabelsDb DEF Gather, DbInv
<1>5. \A s \in Symbols : Published(plan[s], day.phase) \in Payload
  <2>1. ASSUME NEW p \in Payload PROVE Published(p, day.phase) \in Payload
    <3>1. PICK q \in Int : q = p.qty + (IF InTarget(day.phase) THEN p.ticket ELSE 0)
      BY DEF Payload
    <3>2. Published(p, day.phase) = [p EXCEPT !.qty = q]
      BY <3>1 DEF Published
    <3> QED BY <3>2 DEF Payload
  <2> QED BY <1>1, <2>1 DEF DbInv
<1>6. \A s \in Symbols : acct[s].booked \in Int /\ acct[s].kept \in Nat
  BY <1>1 DEF DbInv, Account
<1>7. DOMAIN NewSweep(d, g) = Fields
  BY DEF NewSweep, Fields
<1>8. LET x == NewSweep(d, g) IN
      /\ x.pc = "polling" /\ x.want = [s \in Symbols |-> Published(plan[s], day.phase)]
      /\ x.books = [s \in Symbols |-> acct[s].booked] /\ x.kept = [s \in Symbols |-> acct[s].kept]
      /\ x.have = [s \in Symbols |-> 0] /\ x.mocNative = [s \in Symbols |-> 0]
      /\ x.budget = Budget /\ x.seen = {} /\ x.later = {} /\ x.cut = {}
  BY DEF NewSweep
<1>9. SweepOK(NewSweep(d, g), Len(orders'))
  BY <1>5, <1>6, <1>7, <1>8, SweepBounds DEF SweepOK, Steps
<1>10. sw' = NewSweep(d, g) /\ sw'.cut = {} /\ At("idle")
  BY <1>8 DEF Gather
<1> QED BY <1>4, <1>9, <1>10, NoPair DEF IInv, SwInv, Onward

\* What IInv says of a sweep in progress.
LEMMA InSweep ==
  ASSUME IInv, NEW p \in Steps, At(p)
  PROVE  DbInv /\ SweepOK(sw, Len(orders)) /\ ~At("idle") /\ sw.pc = p
BY DEF IInv, SwInv, At, Steps

\* A step of a sweep that hands on to the next without a pair in hand.
LEMMA EarlyStep ==
  ASSUME DbInv', SweepOK(sw', Len(orders')), sw'.cut = {}
  PROVE  IInv' /\ Onward
<1>1. sw'.pc # "idle"
  BY DEF SweepOK, Steps
<1> QED BY <1>1, NoPair DEF IInv, SwInv, Onward

LEMMA EnvDb ==
  ASSUME DbInv, UNCHANGED Env, orders' = orders
  PROVE  DbInv' /\ Stand /\ Len(orders') = Len(orders)
<1>1. caps' = caps /\ acct' = acct /\ plan' = plan /\ left' = left
  BY DEF Env
<1> QED BY <1>1, SameDb DEF DbInv

LEMMA PollStep ==
  ASSUME IInv, Poll
  PROVE  IInv' /\ Onward
<1>1. DbInv /\ SweepOK(sw, Len(orders)) /\ sw.pc = "polling" /\ sw.cut = {}
  BY InSweep DEF Poll, Steps, IInv, CutInv, PlacingSteps, At
<1>2. DbInv' /\ Len(orders') = Len(orders)
  <2>1. caps' = caps /\ acct' = acct /\ plan' = plan
    BY DEF Poll
  <2>2. CASE orders' = Polled /\ left' = left
    <3>1. left' \in [sweeps : Int, decisions : Int, faults : 0 .. MaxFaults]
      BY <1>1, <2>2 DEF DbInv
    <3> QED BY <1>1, <2>1, <2>2, <3>1, PollRelabels, RelabelsDb DEF DbInv
  <2>3. CASE Faulty /\ left' = Spent(TRUE) /\ orders' = orders
    <3>1. left' \in [sweeps : Int, decisions : Int, faults : 0 .. MaxFaults]
      BY <1>1, <2>3, SpentIs DEF Faulty
    <3> QED BY <1>1, <2>1, <2>3, <3>1, SameDb
  <2> QED BY <2>2, <2>3 DEF Poll
<1>3. sw' = [sw EXCEPT !.pc = "gates"] \/ sw' = [sw EXCEPT !.pc = "gates", !.pollOk = FALSE]
  BY DEF Poll, Goto
<1>4. SweepOK(sw', Len(orders)) /\ sw'.cut = {}
  <2>1. CASE sw' = [sw EXCEPT !.pc = "gates"]
    BY <1>1, <2>1 DEF SweepOK, Steps, Fields
  <2>2. CASE sw' = [sw EXCEPT !.pc = "gates", !.pollOk = FALSE]
    BY <1>1, <2>2 DEF SweepOK, Steps, Fields
  <2> QED BY <1>3, <2>1, <2>2
<1> QED BY <1>2, <1>4, EarlyStep

LEMMA RefreshStep ==
  ASSUME IInv, NEW g, Refresh(g)
  PROVE  IInv' /\ Onward
<1>1. DbInv /\ SweepOK(sw, Len(orders)) /\ sw.pc = "gates" /\ sw.cut = {}
  BY InSweep DEF Refresh, Steps, IInv, CutInv, PlacingSteps, At
<1>2. Relabels
  BY <1>1, LiftsRelabel DEF Refresh
<1>3. DbInv' /\ Len(orders') = Len(orders)
  BY <1>1, <1>2, RelabelsDb DEF Refresh, Env, DbInv
<1>4. SweepOK(sw', Len(orders)) /\ sw'.cut = {}
  BY <1>1 DEF SweepOK, Steps, Fields, Refresh
<1> QED BY <1>3, <1>4, EarlyStep

LEMMA HandOnStep ==
  ASSUME IInv, PollLater \/ Paused \/ ReleaseDone
  PROVE  IInv' /\ Onward
<1>1. /\ DbInv /\ SweepOK(sw, Len(orders)) /\ sw.cut = {}
      /\ orders' = orders /\ UNCHANGED Env
      /\ \E p \in {"positions", "ending", "trading"} : sw' = [sw EXCEPT !.pc = p]
  BY InSweep DEF PollLater, Paused, ReleaseDone, Steps, IInv, CutInv, PlacingSteps, At, Goto
<1>2. SweepOK(sw', Len(orders)) /\ sw'.cut = {}
  BY <1>1 DEF SweepOK, Steps, Fields
<1> QED BY <1>1, <1>2, EarlyStep, EnvDb

LEMMA PositionsStep ==
  ASSUME IInv, Positions
  PROVE  IInv' /\ Onward
<1>1. DbInv /\ SweepOK(sw, Len(orders)) /\ sw.pc = "positions" /\ sw.cut = {}
  BY InSweep DEF Positions, Steps, IInv, CutInv, PlacingSteps, At
<1> DEFINE kn == [s \in Symbols |-> KeptNow(acct[s].pos, sw.kept[s], sw.books[s])]
           have == [s \in Symbols |-> acct[s].pos - kn[s]]
<1>2. ASSUME NEW pos \in Int, NEW kept \in Int, NEW booked \in Int
      PROVE  KeptNow(pos, kept, booked) \in Int
  <2>1. PICK m \in Int : m = pos - booked
    OBVIOUS
  <2>2. PICK top \in Int : top = Max({m, 0})
    BY OfTwo
  <2>3. Min({kept, top}) \in Int
    BY OfTwo
  <2> QED BY <2>1, <2>2, <2>3 DEF KeptNow
<1>3. \A s \in Symbols : acct[s].pos \in Int /\ sw.kept[s] \in Int /\ sw.books[s] \in Int
  BY <1>1 DEF DbInv, Account, SweepOK
<1>4. have \in [Symbols -> Int]
  <2>1. \A s \in Symbols : kn[s] \in Int
    BY <1>2, <1>3
  <2> HIDE DEF kn
  <2> QED BY <1>3, <2>1
<1>5. sw'.have = have /\ sw'.pc = "orders" /\ DOMAIN sw' = Fields
      /\ \A f \in {"want", "books", "kept", "mocNative", "budget", "seen", "later", "cut"} :
           sw'[f] = sw[f]
  BY <1>1 DEF Positions, SweepOK, Fields
<1>6. SweepOK(sw', Len(orders)) /\ sw'.cut = {}
  <2> HIDE DEF have
  <2> QED BY <1>1, <1>4, <1>5 DEF SweepOK, Steps
<1>7. orders' = orders /\ UNCHANGED Env
  BY DEF Positions
<1> QED BY <1>1, <1>6, <1>7, EarlyStep, EnvDb

LEMMA OrdersStep ==
  ASSUME IInv, Orders
  PROVE  IInv' /\ Onward
<1>1. DbInv /\ SweepOK(sw, Len(orders)) /\ sw.pc = "orders" /\ sw.cut = {}
  BY InSweep DEF Orders, Steps, IInv, CutInv, PlacingSteps, At
<1>2. orders' = orders /\ UNCHANGED Env
  BY DEF Orders
<1> DEFINE seen == {i \in Ids : Resting(i)}
           todo == {s \in Symbols : Moc(s) # 0 /\ "moc" \in caps.native}
<1>3. seen \subseteq 1 .. Len(orders) /\ todo \subseteq Symbols
  BY <1>1, OrdersAre
<1>4. sw' = [sw EXCEPT !.pc = "aborted"] \/ sw' = [sw EXCEPT !.pc = "closing", !.seen = seen, !.todo = todo]
  BY DEF Orders
<1> HIDE DEF seen, todo
<1>5. SweepOK(sw', Len(orders)) /\ sw'.cut = {}
  <2>1. CASE sw' = [sw EXCEPT !.pc = "aborted"]
    BY <1>1, <2>1 DEF SweepOK, Steps, Fields
  <2>2. CASE sw' = [sw EXCEPT !.pc = "closing", !.seen = seen, !.todo = todo]
    BY <1>1, <1>3, <2>2 DEF SweepOK, Steps, Fields
  <2> QED BY <1>4, <2>1, <2>2
<1> QED BY <1>1, <1>2, <1>5, EarlyStep, EnvDb

-----------------------------------------------------------------------------
(* What a submission and a cancel do to the orders.                        *)

LEMMA AnswersAre ==
  ASSUME NEW w, NEW a \in Answers(w)
  PROVE  /\ a \in {"notready", "refused", "placed", "limited", "lost", "lostPlaced"}
         /\ IsFault(w, a) => left.faults > 0
  BY DEF Answers, IsFault, Faulty

LEMMA SentIs ==
  ASSUME NEW w \in Want, NEW a \in {"placed", "lost", "lostPlaced"}, caps.ackIds \in BOOLEAN
  PROVE  /\ Sent(w, a) \in Order /\ Settled(Sent(w, a))
         /\ a = "placed" => Sent(w, a).at = "resting"
         /\ Sent(w, a).sym = w.sym /\ Sent(w, a).fam = w.fam /\ Sent(w, a).kind = w.kind
         /\ Sent(w, a).side = w.side /\ Sent(w, a).qty = w.qty /\ Sent(w, a).level = w.level
<1> DEFINE r == Sent(w, a)
<1>1. (a = "placed" /\ caps.ackIds) \in BOOLEAN
  OBVIOUS
<1>2. PICK b \in BOOLEAN : b = (a = "placed" /\ caps.ackIds)
  BY <1>1, Zenon
<1>3. r = [sym |-> w.sym, fam |-> w.fam, kind |-> w.kind, level |-> w.level, side |-> w.side,
           qty |-> w.qty, short |-> w.short, boid |-> b,
           at |-> IF a \in {"placed", "lostPlaced"} THEN "resting" ELSE "gone",
           row |-> IF a = "placed" THEN "open" ELSE IF a \in {"lost", "lostPlaced"} THEN "sending" ELSE "shut",
           stored |-> FALSE, folded |-> FALSE]
  BY <1>2, Zenon DEF Sent
<1> HIDE DEF r
<1>4. r \in Order /\ Settled(r)
  BY <1>3 DEF Want, Order, Settled
<1>5. /\ a = "placed" => r.at = "resting"
      /\ r.sym = w.sym /\ r.fam = w.fam /\ r.kind = w.kind
      /\ r.side = w.side /\ r.qty = w.qty /\ r.level = w.level
  BY <1>3
<1> QED BY <1>4, <1>5 DEF r

LEMMA SubmittedDb ==
  ASSUME DbInv, SweepOK(sw, Len(orders)), NEW w \in Want, NEW a \in Answers(w), Submitted(w, a)
  PROVE  /\ DbInv' /\ Stand /\ Len(orders) <= Len(orders')
         /\ a = "placed" => \E i \in Ids' \ sw.seen : RestsFor(i, w)'
<1>1. a \in {"notready", "refused", "placed", "limited", "lost", "lostPlaced"}
  BY AnswersAre
<1>2. left' \in [sweeps : Int, decisions : Int, faults : 0 .. MaxFaults]
  BY AnswersAre, SpentIs DEF Submitted
<1>3. /\ Ids = 1 .. Len(orders) /\ Len(orders) \in Nat /\ MaxOrders \in Nat
      /\ Len(orders) < MaxOrders /\ orders \in Seq(Order)
  BY OrdersAre, SweepBounds DEF Submitted, DbInv
<1>4. caps' = caps /\ acct' = acct /\ plan' = plan
  BY DEF Submitted
<1>5. CASE a \notin {"placed", "lost", "lostPlaced"}
  <2>1. orders' = orders
    BY <1>5 DEF Submitted
  <2>2. a # "placed"
    BY <1>5
  <2>3. DbInv' /\ Stand /\ Len(orders') = Len(orders)
    BY <1>2, <1>4, <2>1, SameDb
  <2> QED BY <1>3, <2>2, <2>3
<1>6. CASE a \in {"placed", "lost", "lostPlaced"}
  <2>1. caps.ackIds \in BOOLEAN
    BY SweepBounds DEF DbInv
  <2>2. PICK r \in Order : /\ r = Sent(w, a) /\ Settled(r)
                           /\ a = "placed" => r.at = "resting"
                           /\ r.sym = w.sym /\ r.fam = w.fam /\ r.kind = w.kind
                           /\ r.side = w.side /\ r.qty = w.qty /\ r.level = w.level
    BY <1>6, <2>1, SentIs
  <2>3. orders' = Append(orders, r)
    BY <1>6, <2>2 DEF Submitted
  <2>4. /\ orders' \in Seq(Order) /\ Len(orders') = Len(orders) + 1
        /\ Ids' = 1 .. Len(orders) + 1
        /\ \A i \in Ids : orders'[i] = orders[i]
        /\ orders'[Len(orders) + 1] = r
    BY <1>3, <2>3 DEF Ids
  <2>5. \A i \in Ids' : Settled(orders'[i])
    BY <1>3, <2>2, <2>4 DEF DbInv
  <2>6. DbInv'
    BY <1>2, <1>3, <1>4, <2>4, <2>5 DEF DbInv
  <2>7. Stand
    BY <1>3, <2>4 DEF Stand, SameOrder
  <2>8. PICK n : n = Len(orders) + 1
    OBVIOUS
  <2>9. n \in Ids' \ sw.seen /\ orders'[n] = r
    BY <1>3, <2>4, <2>8 DEF SweepOK
  <2>10. a = "placed" => RestsFor(n, w)'
    BY <2>2, <2>9 DEF RestsFor
  <2>11. Len(orders) <= Len(orders')
    BY <1>3, <2>4
  <2> QED BY <2>6, <2>7, <2>9, <2>10, <2>11
<1> QED BY <1>5, <1>6

LEMMA CancelledDb ==
  ASSUME DbInv, NEW i \in Ids \cap sw.seen, NEW named, NEW a \in CancelAnswers(i),
         Cancelled(i, named, a)
  PROVE  DbInv' /\ Stand /\ Len(orders') = Len(orders)
<1>1. caps' = caps /\ acct' = acct /\ plan' = plan /\ left' = Spent(a # "ok")
  BY DEF Cancelled
<1>2. a # "ok" => left.faults > 0
  BY DEF CancelAnswers, Faulty
<1>3. left' \in [sweeps : Int, decisions : Int, faults : 0 .. MaxFaults]
  BY <1>1, <1>2, SpentIs
<1>4. orders[i] \in Order /\ Settled(orders[i])
  BY OrdersAre DEF DbInv
<1>5. PICK at \in {"resting", "filled", "gone"} :
         at = IF a = "ok" /\ Resting(i) THEN "gone" ELSE orders[i].at
  BY <1>4 DEF Order
<1>6. PICK row \in Rows :
         row = IF a # "lost" /\ OpenRow(orders[i]) /\ (named \/ orders[i].boid) THEN "shut"
               ELSE orders[i].row
  BY <1>4 DEF Order, Rows
<1>7. PICK r : r = [orders[i] EXCEPT !.at = at, !.row = row]
  OBVIOUS
<1>8. r \in Order /\ Settled(r)
  BY <1>4, <1>5, <1>7, AtSet DEF Resting
<1>9. orders' = [orders EXCEPT ![i].at = at, ![i].row = row]
  BY <1>5, <1>6, Zenon DEF Cancelled
<1>10. orders' = [orders EXCEPT ![i] = r]
  BY <1>7, <1>9
<1>11. orders' \in Seq(Order) /\ Len(orders') = Len(orders) /\ Ids' = Ids
       /\ \A j \in Ids : orders'[j] = IF j = i THEN r ELSE orders[j]
  BY <1>8, <1>10 DEF DbInv, Ids
<1>12. \A j \in Ids : orders'[j] \in Order /\ Settled(orders'[j])
  BY <1>8, <1>11, OrdersAre DEF DbInv
<1>13. DbInv'
  BY <1>1, <1>3, <1>11, <1>12 DEF DbInv
<1>14. Stand
  BY <1>11 DEF Stand, SameOrder
<1> QED BY <1>11, <1>13, <1>14

-----------------------------------------------------------------------------
(* On-close tickets, cancels and market deltas.                            *)

LEMMA NetIs ==
  ASSUME NEW n, NEW x, SweepOK(x, n), NEW s \in Symbols, Moc(s) \in Int
  PROVE  SweepOK(Net(x, s), n) /\ Net(x, s).cut = x.cut /\ Net(x, s).pc = x.pc
<1>1. PICK m \in Int : m = x.mocNative[s] + Moc(s)
  BY DEF SweepOK
<1>2. PICK y : y = Net(x, s)
  OBVIOUS
<1>3. y = [x EXCEPT !.mocNative[s] = m]
  BY <1>1, <1>2 DEF Net
<1>4. /\ y.mocNative = [x.mocNative EXCEPT ![s] = m]
      /\ \A f \in Fields \ {"mocNative"} : y[f] = x[f]
      /\ DOMAIN y = Fields
  BY <1>3 DEF SweepOK, Fields
<1>5. y.mocNative \in [Symbols -> Int]
  BY <1>4 DEF SweepOK
<1>6. \A f \in {"pc", "want", "books", "kept", "have", "budget", "seen", "todo", "later", "cut"} : y[f] = x[f]
  BY <1>4 DEF Fields
<1> QED BY <1>2, <1>4, <1>5, <1>6 DEF SweepOK

LEMMA CloseSkipsStep ==
  ASSUME IInv, NEW s \in Symbols, CloseSkips(s)
  PROVE  IInv' /\ Onward
<1>1. DbInv /\ SweepOK(sw, Len(orders)) /\ sw.pc = "closing" /\ sw.cut = {}
  BY InSweep DEF CloseSkips, Steps, IInv, CutInv, PlacingSteps, At
<1>2. orders' = orders /\ UNCHANGED Env
  BY DEF CloseSkips
<1>3. PICK x : x = Drop(sw, s)
  OBVIOUS
<1>4. SweepOK(x, Len(orders)) /\ x.cut = {}
  BY <1>1, <1>3 DEF Drop, SweepOK, Fields, Steps
<1>5. SweepOK(Blocked(x), Len(orders)) /\ Blocked(x).cut = {}
  BY <1>4 DEF Blocked, SweepOK, Fields, Steps
<1>6. SweepOK(Net(x, s), Len(orders)) /\ Net(x, s).cut = {}
  BY <1>1, <1>4, NetIs, MocOrderIs
<1>7. sw' = x \/ sw' = Blocked(x) \/ sw' = Net(x, s)
  BY <1>3, Zenon DEF CloseSkips
<1>8. SweepOK(sw', Len(orders)) /\ sw'.cut = {}
  BY <1>4, <1>5, <1>6, <1>7
<1> QED BY <1>1, <1>2, <1>8, EarlyStep, EnvDb

\* More orders do not hurt a sweep.
LEMMA MoreOrders ==
  ASSUME NEW m \in Nat, NEW n \in Nat, m <= n, NEW x, SweepOK(x, m)
  PROVE  SweepOK(x, n)
BY DEF SweepOK

\* What noting an answer, stopping at one that raised, dropping work and blocking it do.
LEMMA NotedIs ==
  ASSUME NEW n, NEW x, SweepOK(x, n), NEW w, NEW a, NEW y, y = Noted(x, w, a)
  PROVE  /\ SweepOK(y, n) /\ y.pc = x.pc /\ y.todo = x.todo /\ y.cut = x.cut /\ y.seen = x.seen
         /\ y.surprised = x.surprised /\ y.exhausted = x.exhausted
         /\ y.turned = x.turned \cup (IF a = "placed" THEN {} ELSE {w})
<1>1. /\ DOMAIN y = Fields
      /\ y.pc = x.pc /\ y.todo = x.todo /\ y.cut = x.cut /\ y.seen = x.seen
      /\ y.surprised = x.surprised /\ y.exhausted = x.exhausted
      /\ y.turned = x.turned \cup (IF a = "placed" THEN {} ELSE {w})
      /\ y.want = x.want /\ y.books = x.books /\ y.kept = x.kept /\ y.have = x.have
      /\ y.mocNative = x.mocNative /\ y.budget = x.budget /\ y.later = x.later
  BY DEF Noted, SweepOK, Fields
<1>2. SweepOK(y, n)
  BY <1>1 DEF SweepOK
<1> QED BY <1>1, <1>2

LEMMA OrIs ==
  ASSUME NEW n, NEW x, SweepOK(x, n), NEW z, z = Or(x)
  PROVE  /\ SweepOK(z, n) /\ z.cut = x.cut /\ z.todo = x.todo /\ z.seen = x.seen
         /\ z.turned = x.turned /\ z.surprised = x.surprised
         /\ z.exhausted = x.exhausted /\ z.tripped = x.tripped /\ z.raised = x.raised
         /\ z.pc = IF x.raised THEN "aborted" ELSE x.pc
<1>1. SweepOK(z, n)
  BY DEF Or, SweepOK, Fields, Steps
<1>2. /\ z.cut = x.cut /\ z.todo = x.todo /\ z.seen = x.seen
      /\ z.turned = x.turned /\ z.surprised = x.surprised
      /\ z.exhausted = x.exhausted /\ z.tripped = x.tripped /\ z.raised = x.raised
      /\ z.pc = IF x.raised THEN "aborted" ELSE x.pc
  BY DEF Or, SweepOK, Fields
<1> QED BY <1>1, <1>2

LEMMA DropIs ==
  ASSUME NEW n, NEW x, SweepOK(x, n), NEW w, NEW y, y = Drop(x, w)
  PROVE  /\ SweepOK(y, n) /\ y.pc = x.pc /\ y.cut = x.cut /\ y.seen = x.seen
         /\ y.turned = x.turned /\ y.surprised = x.surprised /\ y.exhausted = x.exhausted
<1>1. /\ DOMAIN y = Fields /\ y.todo = x.todo \ {w}
      /\ y.pc = x.pc /\ y.want = x.want /\ y.books = x.books /\ y.kept = x.kept
      /\ y.have = x.have /\ y.mocNative = x.mocNative /\ y.budget = x.budget
      /\ y.seen = x.seen /\ y.later = x.later /\ y.cut = x.cut /\ y.turned = x.turned
      /\ y.surprised = x.surprised /\ y.exhausted = x.exhausted
  BY DEF Drop, SweepOK, Fields
<1>2. SweepOK(y, n)
  BY <1>1 DEF SweepOK
<1> QED BY <1>1, <1>2

LEMMA BlockedIs ==
  ASSUME NEW n, NEW x, SweepOK(x, n), NEW z, z = Blocked(x)
  PROVE  /\ SweepOK(z, n) /\ z.pc = x.pc /\ z.cut = x.cut /\ z.seen = x.seen
         /\ z.turned = x.turned /\ z.surprised = x.surprised
         /\ z.exhausted = (x.exhausted \/ (~sw.tripped /\ sw.budget = 0))
<1>1. /\ DOMAIN z = Fields
      /\ z.pc = x.pc /\ z.want = x.want /\ z.books = x.books /\ z.kept = x.kept
      /\ z.have = x.have /\ z.mocNative = x.mocNative /\ z.budget = x.budget
      /\ z.seen = x.seen /\ z.later = x.later /\ z.cut = x.cut /\ z.turned = x.turned
      /\ z.surprised = x.surprised /\ z.todo = x.todo
      /\ z.exhausted = (x.exhausted \/ (~sw.tripped /\ sw.budget = 0))
  BY DEF Blocked, SweepOK, Fields
<1>2. SweepOK(z, n)
  BY <1>1 DEF SweepOK
<1> QED BY <1>1, <1>2

\* None of this takes up a pair.
LEMMA Keeps ==
  ASSUME NEW n, NEW x, SweepOK(x, n), x.cut = {}, NEW w, NEW a
  PROVE  /\ SweepOK(Drop(x, w), n) /\ Drop(x, w).cut = {}
         /\ SweepOK(Blocked(x), n) /\ Blocked(x).cut = {}
         /\ SweepOK(Noted(x, w, a), n) /\ Noted(x, w, a).cut = {}
         /\ SweepOK(Or(x), n) /\ Or(x).cut = {}
<1>1. PICK y : y = Noted(x, w, a)
  OBVIOUS
<1>2. PICK z : z = Or(x)
  OBVIOUS
<1>3. PICK d : d = Drop(x, w)
  OBVIOUS
<1>4. PICK b : b = Blocked(x)
  OBVIOUS
<1>5. SweepOK(y, n) /\ y.cut = {}
  BY <1>1, NotedIs
<1>6. SweepOK(z, n) /\ z.cut = {}
  BY <1>2, OrIs
<1>7. SweepOK(d, n) /\ d.cut = {}
  BY <1>3, DropIs
<1>8. SweepOK(b, n) /\ b.cut = {}
  BY <1>4, BlockedIs
<1> QED BY <1>1, <1>2, <1>3, <1>4, <1>5, <1>6, <1>7, <1>8

LEMMA CloseSendsStep ==
  ASSUME IInv, NEW s \in Symbols, CloseSends(s)
  PROVE  IInv' /\ Onward
<1>1. DbInv /\ SweepOK(sw, Len(orders)) /\ sw.pc = "closing" /\ sw.cut = {}
  BY InSweep DEF CloseSends, Steps, IInv, CutInv, PlacingSteps, At
<1>2. PICK w \in Want : w = MocOrder(s)
  BY <1>1, MocOrderIs
<1>3. PICK x : x = [Drop(sw, s) EXCEPT !.budget = @ - 1]
  OBVIOUS
<1>4. PICK a \in Answers(w) :
         /\ Submitted(w, a)
         /\ sw' = Or(IF a = "placed" THEN Net(Noted(x, w, a), s) ELSE Noted(x, w, a))
  BY <1>2, <1>3, Zenon DEF CloseSends
<1>5. SweepOK(x, Len(orders)) /\ x.cut = {}
  <2>1. sw.budget - 1 \in Nat
    BY <1>1 DEF CloseSends, MaySubmit, SweepOK
  <2> QED BY <1>1, <1>3, <2>1 DEF Drop, SweepOK, Fields, Steps
<1>6. PICK y : y = Noted(x, w, a)
  OBVIOUS
<1>7. SweepOK(y, Len(orders)) /\ y.cut = {}
  BY <1>5, <1>6, Keeps, Zenon
<1>8. PICK z : z = Net(y, s)
  OBVIOUS
<1>9. SweepOK(z, Len(orders)) /\ z.cut = {}
  BY <1>1, <1>7, <1>8, NetIs, MocOrderIs
<1>10. SweepOK(sw', Len(orders)) /\ sw'.cut = {}
  <2>1. sw' = Or(z) \/ sw' = Or(y)
    BY <1>4, <1>6, <1>8, Zenon
  <2>2. SweepOK(Or(z), Len(orders)) /\ Or(z).cut = {}
    BY <1>9, Keeps, Zenon
  <2>3. SweepOK(Or(y), Len(orders)) /\ Or(y).cut = {}
    BY <1>7, Keeps, Zenon
  <2> QED BY <2>1, <2>2, <2>3
<1>11. DbInv' /\ Len(orders) <= Len(orders')
  BY <1>1, <1>4, SubmittedDb
<1>12. Len(orders) \in Nat /\ Len(orders') \in Nat
  BY <1>1, <1>11 DEF DbInv
<1>13. SweepOK(sw', Len(orders'))
  BY <1>10, <1>11, <1>12, MoreOrders, Zenon
<1> QED BY <1>10, <1>11, <1>13, EarlyStep

LEMMA CloseDoneStep ==
  ASSUME IInv, CloseDone
  PROVE  IInv' /\ Onward
<1>1. DbInv /\ SweepOK(sw, Len(orders)) /\ sw.pc = "closing" /\ sw.cut = {}
  BY InSweep DEF CloseDone, Steps, IInv, CutInv, PlacingSteps, At
<1>2. orders' = orders /\ UNCHANGED Env
  BY DEF CloseDone
<1>3. SweepOK(sw', Len(orders)) /\ sw'.cut = {}
  BY <1>1 DEF CloseDone, SweepOK, Fields, Steps
<1> QED BY <1>1, <1>2, <1>3, EarlyStep, EnvDb

\* A cancel noted, the same.
LEMMA CancelNotedIs ==
  ASSUME NEW n, NEW x, SweepOK(x, n), x.budget # 0, NEW a
  PROVE  /\ SweepOK(CancelNoted(x, a), n)
         /\ CancelNoted(x, a).pc = x.pc /\ CancelNoted(x, a).todo = x.todo
         /\ CancelNoted(x, a).cut = x.cut /\ CancelNoted(x, a).seen = x.seen
         /\ CancelNoted(x, a).surprised = x.surprised /\ CancelNoted(x, a).turned = x.turned
         /\ CancelNoted(x, a).exhausted = x.exhausted /\ CancelNoted(x, a).tripped = x.tripped
<1>1. PICK b \in Nat : b = x.budget - 1
  BY DEF SweepOK
<1>2. PICK y : y = CancelNoted(x, a)
  OBVIOUS
<1>3. /\ DOMAIN y = Fields
      /\ y.pc = x.pc /\ y.todo = x.todo /\ y.cut = x.cut /\ y.seen = x.seen
      /\ y.surprised = x.surprised /\ y.exhausted = x.exhausted /\ y.turned = x.turned
      /\ y.tripped = x.tripped /\ y.budget = b
      /\ y.want = x.want /\ y.books = x.books /\ y.kept = x.kept /\ y.have = x.have
      /\ y.mocNative = x.mocNative /\ y.later = x.later
  BY <1>1, <1>2 DEF CancelNoted, SweepOK, Fields
<1>4. SweepOK(y, n)
  BY <1>1, <1>3 DEF SweepOK
<1> QED BY <1>2, <1>3, <1>4, Zenon

LEMMA ReleasesStep ==
  ASSUME IInv, NEW i \in Ids, Releases(i)
  PROVE  IInv' /\ Onward
<1>1. DbInv /\ SweepOK(sw, Len(orders)) /\ sw.pc = "releasing" /\ sw.cut = {}
  BY InSweep DEF Releases, Steps, IInv, CutInv, PlacingSteps, At
<1>2. PICK x : x = Drop(sw, i)
  OBVIOUS
<1>3. SweepOK(x, Len(orders)) /\ x.cut = {} /\ x.budget = sw.budget
  BY <1>1, <1>2 DEF Drop, SweepOK, Fields, Steps
<1>4. CASE sw.budget = 0
  <2>1. sw' = Blocked(x) /\ orders' = orders /\ UNCHANGED Env
    BY <1>2, <1>4 DEF Releases
  <2>2. SweepOK(Blocked(x), Len(orders)) /\ Blocked(x).cut = {}
    BY <1>3 DEF Blocked, SweepOK, Fields, Steps
  <2>3. SweepOK(sw', Len(orders)) /\ sw'.cut = {}
    BY <2>1, <2>2
  <2> QED BY <1>1, <2>1, <2>3, EarlyStep, EnvDb
<1>5. CASE sw.budget # 0
  <2>1. PICK a \in CancelAnswers(i) : Cancelled(i, caps.cids, a) /\ sw' = Or(CancelNoted(x, a))
    BY <1>2, <1>5 DEF Releases
  <2>2. i \in Ids \cap sw.seen
    BY <1>1 DEF Releases, SweepOK
  <2>3. DbInv' /\ Len(orders') = Len(orders)
    BY <1>1, <2>1, <2>2, CancelledDb
  <2>4. PICK y : y = CancelNoted(x, a) /\ SweepOK(y, Len(orders)) /\ y.cut = {}
    BY <1>3, <1>5, CancelNotedIs
  <2>5. SweepOK(sw', Len(orders)) /\ sw'.cut = {}
    BY <2>1, <2>4, OrIs
  <2> QED BY <2>3, <2>5, EarlyStep
<1> QED BY <1>4, <1>5

LEMMA TradeStep ==
  ASSUME IInv, Trade
  PROVE  IInv' /\ Onward
<1>1. DbInv /\ SweepOK(sw, Len(orders)) /\ sw.pc = "trading" /\ sw.cut = {}
  BY InSweep DEF Trade, Steps, IInv, CutInv, PlacingSteps, At
<1>2. orders' = orders /\ UNCHANGED Env
  BY DEF Trade
<1> DEFINE hit == {t \in Symbols : Tradable(t)}
           all == {MarketOrder(s) : s \in hit}
<1>3. all \subseteq Want /\ IsFiniteSet(all)
  <2>1. all \subseteq Want
    BY <1>1, MarketOrderIs
  <2>2. IsFiniteSet(hit)
    BY SweepBounds, FS_Subset
  <2> HIDE DEF hit
  <2>3. IsFiniteSet(all)
    <3>1. PICK f : f = [t \in hit |-> MarketOrder(t)]
      OBVIOUS
    <3>2. f \in Surjection(hit, all)
      BY <3>1 DEF Surjection
    <3> QED BY <2>2, <3>2, FS_Surjection
  <2> QED BY <2>1, <2>3
<1> DEFINE sells(go) == {w \in go : w.side < 0}
           buys(go) == go \ sells(go)
           two(go) == sells(go) # {} /\ buys(go) # {} /\ ~Proven(buys(go))
           wave(go) == [sw EXCEPT !.pc = "launching", !.budget = @ - Cardinality(go),
                                  !.todo = IF two(go) THEN sells(go) ELSE go,
                                  !.later = IF two(go) THEN buys(go) ELSE {}]
<1>4. PICK go \in SUBSET all :
         /\ Cardinality(go) = IF sw.tripped THEN 0 ELSE Min({Cardinality(all), sw.budget})
         /\ sw' = IF go = all THEN wave(go) ELSE Blocked(wave(go))
  BY Zenon DEF Trade
<1> HIDE DEF all
<1>5. PICK todo \in SUBSET go : todo = IF two(go) THEN sells(go) ELSE go
  <2> HIDE DEF two
  <2> QED OBVIOUS
<1>6. PICK later \in SUBSET go : later = IF two(go) THEN buys(go) ELSE {}
  <2> HIDE DEF two
  <2> QED OBVIOUS
<1>7. PICK x : x = wave(go)
  OBVIOUS
<1>8. x = [sw EXCEPT !.pc = "launching", !.budget = sw.budget - Cardinality(go),
                      !.todo = todo, !.later = later]
  <2> HIDE DEF two, sells, buys
  <2> QED BY <1>5, <1>6, <1>7, Zenon
<1> HIDE DEF wave, two, sells, buys
<1>9. sw.budget \in Nat
  BY <1>1 DEF SweepOK
<1>10. sw.budget - Cardinality(go) \in Nat
  <2>1. Cardinality(all) \in Nat
    BY <1>3, FS_CardinalityType
  <2>2. PICK c \in Nat, d \in Nat : c = Cardinality(all) /\ d = sw.budget
    BY <1>9, <2>1
  <2>3. Min({c, d}) \in {c, d} /\ Min({c, d}) <= d
    BY OfTwo
  <2> QED BY <1>4, <1>9, <2>2, <2>3
<1>11. SweepOK(x, Len(orders)) /\ x.cut = {}
  <2>1. todo \subseteq Want /\ later \subseteq Want
    BY <1>3
  <2>2. PICK b \in Nat : b = sw.budget - Cardinality(go)
    BY <1>10
  <2>3. x = [sw EXCEPT !.pc = "launching", !.budget = b, !.todo = todo, !.later = later]
    BY <1>8, <2>2
  <2> QED BY <1>1, <2>1, <2>3 DEF SweepOK, Fields, Steps
<1>12. SweepOK(Blocked(x), Len(orders)) /\ Blocked(x).cut = {}
  BY <1>11, Keeps, Zenon
<1>13. SweepOK(sw', Len(orders)) /\ sw'.cut = {}
  BY <1>4, <1>7, <1>11, <1>12, Zenon
<1> QED BY <1>1, <1>2, <1>13, EarlyStep, EnvDb

LEMMA LaunchesStep ==
  ASSUME IInv, NEW w \in sw.todo, At("launching"), Launches(w)
  PROVE  IInv' /\ Onward
<1>1. DbInv /\ SweepOK(sw, Len(orders)) /\ sw.pc = "launching" /\ sw.cut = {}
  BY InSweep DEF Steps, IInv, CutInv, PlacingSteps, At
<1>2. w \in Want
  BY <1>1 DEF SweepOK
<1>3. PICK x : x = Drop(sw, w)
  OBVIOUS
<1>4. SweepOK(x, Len(orders)) /\ x.cut = {}
  BY <1>1, <1>3, Keeps, Zenon
<1>5. CASE sw.tripped
  <2>1. sw' = Blocked(x) /\ orders' = orders /\ UNCHANGED Env
    BY <1>3, <1>5 DEF Launches
  <2>2. SweepOK(sw', Len(orders)) /\ sw'.cut = {}
    BY <1>4, <2>1, Keeps, Zenon
  <2> QED BY <1>1, <2>1, <2>2, EarlyStep, EnvDb
<1>6. CASE ~sw.tripped
  <2>1. PICK a \in Answers(w) : Submitted(w, a) /\ sw' = Noted(x, w, a)
    BY <1>3, <1>6 DEF Launches
  <2>2. SweepOK(sw', Len(orders)) /\ sw'.cut = {}
    BY <1>4, <2>1, Keeps, Zenon
  <2>3. DbInv' /\ Len(orders) <= Len(orders')
    BY <1>1, <1>2, <2>1, SubmittedDb
  <2>4. Len(orders) \in Nat /\ Len(orders') \in Nat
    BY <1>1, <2>3 DEF DbInv
  <2>5. SweepOK(sw', Len(orders'))
    BY <2>2, <2>3, <2>4, MoreOrders, Zenon
  <2> QED BY <2>2, <2>3, <2>5, EarlyStep
<1> QED BY <1>5, <1>6

LEMMA WaveDoneStep ==
  ASSUME IInv, WaveDone
  PROVE  IInv' /\ Onward
<1>1. DbInv /\ SweepOK(sw, Len(orders)) /\ sw.pc = "launching" /\ sw.cut = {}
  BY InSweep DEF WaveDone, Steps, IInv, CutInv, PlacingSteps, At
<1>2. orders' = orders /\ UNCHANGED Env
  BY DEF WaveDone
<1>3. PICK todo \in SUBSET Want : todo = ToPlace("exit")
  BY <1>1, ToPlaceAre
<1>4. SweepOK(sw', Len(orders)) /\ sw'.cut = {}
  <2>1. CASE sw' = Or(sw)
    BY <1>1, <2>1, OrIs
  <2>2. CASE sw' = [sw EXCEPT !.todo = sw.later, !.later = {}]
    BY <1>1, <2>2 DEF SweepOK, Fields, Steps
  <2>3. CASE sw' = [sw EXCEPT !.pc = "exits", !.later = {}, !.todo = todo]
    BY <1>1, <2>3 DEF SweepOK, Fields, Steps
  <2> QED BY <1>3, <2>1, <2>2, <2>3 DEF WaveDone
<1> QED BY <1>1, <1>2, <1>4, EarlyStep, EnvDb

-----------------------------------------------------------------------------
(* Exits and entries: the pairs.                                           *)

LEMMA PutStays ==
  ASSUME Stand, sw'.seen = sw.seen, NEW w, Put(w)
  PROVE  Put(w)'
<1>1. PICK i \in Ids \ sw.seen : RestsFor(i, w)
  BY DEF Put
<1>2. i \in Ids' \ sw'.seen /\ SameOrder(orders[i], orders'[i])
  BY <1>1 DEF Stand
<1>3. RestsFor(i, w)'
  BY <1>1, <1>2 DEF RestsFor, SameOrder
<1> QED BY <1>2, <1>3 DEF Put

\* A step of the placing sections or of the tail is right about its pairs when it brings
\* the one in hand on, or to its end.
LEMMA PairsGoOn ==
  ASSUME CutInv, DbInv', Stand, SweepOK(sw', Len(orders')),
         sw.pc \in PlacingSteps \cup {"ending"}, sw'.seen = sw.seen,
         sw.turned \subseteq sw'.turned, sw.surprised \subseteq sw'.surprised,
         sw.exhausted => sw'.exhausted,
         sw'.pc \in PlacingSteps \cup {"ending", "aborted"}, sw'.pc = "aborted" => sw'.raised,
         \A w \in sw'.cut : \/ w \in sw.cut /\ ~Underway(w)
                            \/ sw'.pc = "aborted" \/ sw'.exhausted
                            \/ Restored(w)' \/ Underway(w)'
  PROVE  IInv' /\ Onward
<1>1. ASSUME NEW w \in sw'.cut, sw'.pc # "aborted"
      PROVE  sw'.exhausted \/ Restored(w)' \/ Underway(w)'
  <2>1. CASE w \in sw.cut /\ ~Underway(w)
    <3>1. sw.exhausted \/ Restored(w)
      BY <2>1 DEF CutInv, PlacingSteps
    <3>2. Put(w) => Put(w)'
      BY PutStays
    <3> QED BY <3>1, <3>2 DEF Restored
  <2> QED BY <1>1, <2>1
<1>2. sw'.pc \notin {"idle"}
  BY DEF PlacingSteps
<1>3. CutInv'
  BY <1>1 DEF CutInv, PlacingSteps
<1> QED BY <1>2, <1>3 DEF IInv, SwInv, Onward

\* A step that leaves the sweep alone leaves its pairs as they were.
LEMMA SwStays ==
  ASSUME IInv, sw' = sw, DbInv', Stand, Len(orders') = Len(orders)
  PROVE  IInv' /\ Onward
<1>1. SwInv' /\ Onward
  BY DEF IInv, SwInv, At, Onward
<1>2. ASSUME NEW w, Restored(w) PROVE Restored(w)'
  BY <1>2, PutStays DEF Restored
<1>3. ASSUME NEW w, Underway(w) PROVE Underway(w)'
  BY <1>3 DEF Underway
<1>4. CutInv'
  BY <1>2, <1>3 DEF CutInv, IInv
<1> QED BY <1>1, <1>4 DEF IInv

\* What holds when the sweep places an order of a section.
LEMMA InSection ==
  ASSUME IInv, sw.pc \in PlacingSteps \cup {"ending", "aborted"}
  PROVE  DbInv /\ CutInv /\ SweepOK(sw, Len(orders))
BY DEF IInv, SwInv, At, PlacingSteps

LEMMA PlaceBlockedStep ==
  ASSUME IInv, NEW w, PlaceBlocked(w)
  PROVE  IInv' /\ Onward
<1>1. sw.pc \in PlacingSteps /\ w \in sw.todo /\ sw.todo \cap sw.cut \subseteq {w}
  BY DEF PlaceBlocked, Placing, PlacingSteps
<1>2. DbInv /\ CutInv /\ SweepOK(sw, Len(orders))
  BY <1>1, InSection
<1>3. orders' = orders /\ UNCHANGED Env
  BY DEF PlaceBlocked
<1>4. DbInv' /\ Stand /\ Len(orders') = Len(orders)
  BY <1>2, <1>3, EnvDb
<1>5. PICK x : x = Drop(sw, w)
  OBVIOUS
<1>6. /\ SweepOK(x, Len(orders)) /\ x.pc = sw.pc /\ x.cut = sw.cut /\ x.seen = sw.seen
      /\ x.turned = sw.turned /\ x.surprised = sw.surprised /\ x.exhausted = sw.exhausted
  BY <1>2, <1>5, DropIs
<1>7. /\ SweepOK(sw', Len(orders)) /\ sw'.pc = sw.pc /\ sw'.cut = sw.cut /\ sw'.seen = sw.seen
      /\ sw'.turned = sw.turned /\ sw'.surprised = sw.surprised
      /\ sw'.exhausted = (sw.exhausted \/ (~sw.tripped /\ sw.budget = 0))
  <2>1. sw' = Blocked(x)
    BY <1>5 DEF PlaceBlocked
  <2> QED BY <1>6, <2>1, BlockedIs
<1>8. ASSUME NEW v \in sw.cut, Underway(v) PROVE sw'.exhausted
  <2>1. v = w /\ ~sw.tripped
    BY <1>1, <1>8 DEF Underway
  <2>2. ~Pairs(w)
    BY <1>8, <2>1 DEF Pairs, Fresh
  <2>3. ~MaySubmit
    BY <2>2 DEF PlaceBlocked, LeftResting
  <2>4. sw.budget = 0
    BY <1>2, <2>1, <2>3 DEF MaySubmit, SweepOK
  <2> QED BY <1>7, <2>1, <2>4
<1> QED BY <1>1, <1>2, <1>4, <1>7, <1>8, PairsGoOn DEF PlacingSteps

LEMMA PlaceSendsStep ==
  ASSUME IInv, NEW w, PlaceSends(w)
  PROVE  IInv' /\ Onward
<1>1. sw.pc \in PlacingSteps /\ w \in sw.todo /\ sw.todo \cap sw.cut \subseteq {w}
  BY DEF PlaceSends, Placing, PlacingSteps
<1>2. DbInv /\ CutInv /\ SweepOK(sw, Len(orders))
  BY <1>1, InSection
<1>3. w \in Want
  BY <1>1, <1>2 DEF SweepOK, PlacingSteps
<1>4. PICK x : x = [Drop(sw, w) EXCEPT !.budget = @ - 1]
  OBVIOUS
<1>5. PICK a \in Answers(w) : Submitted(w, a) /\ sw' = Or(Noted(x, w, a))
  BY <1>4 DEF PlaceSends
<1>6. /\ SweepOK(x, Len(orders)) /\ x.pc = sw.pc /\ x.cut = sw.cut /\ x.seen = sw.seen
      /\ x.turned = sw.turned /\ x.surprised = sw.surprised /\ x.exhausted = sw.exhausted
  <2>1. PICK b \in Nat : b = sw.budget - 1
    BY <1>2 DEF PlaceSends, MaySubmit, SweepOK
  <2>2. x = [sw EXCEPT !.todo = sw.todo \ {w}, !.budget = b]
    BY <1>2, <1>4, <2>1 DEF Drop, SweepOK, Fields
  <2> QED BY <1>2, <2>1, <2>2 DEF SweepOK, Fields, Steps
<1>7. PICK y : y = Noted(x, w, a)
  OBVIOUS
<1>8. /\ SweepOK(y, Len(orders)) /\ y.pc = sw.pc /\ y.cut = sw.cut /\ y.seen = sw.seen
      /\ y.turned = sw.turned \cup (IF a = "placed" THEN {} ELSE {w})
      /\ y.surprised = sw.surprised /\ y.exhausted = sw.exhausted
  BY <1>6, <1>7, NotedIs
<1>9. /\ SweepOK(sw', Len(orders)) /\ sw'.cut = sw.cut /\ sw'.seen = sw.seen
      /\ sw'.turned = sw.turned \cup (IF a = "placed" THEN {} ELSE {w})
      /\ sw'.surprised = sw.surprised /\ sw'.exhausted = sw.exhausted
      /\ sw'.pc = (IF sw'.raised THEN "aborted" ELSE sw.pc)
  <2>1. sw' = Or(y)
    BY <1>5, <1>7
  <2> QED BY <1>8, <2>1, OrIs
<1>10. /\ DbInv' /\ Stand /\ Len(orders) <= Len(orders')
       /\ a = "placed" => \E i \in Ids' \ sw.seen : RestsFor(i, w)'
  BY <1>2, <1>3, <1>5, SubmittedDb
<1>11. SweepOK(sw', Len(orders'))
  <2>1. Len(orders) \in Nat /\ Len(orders') \in Nat
    BY <1>2, <1>10 DEF DbInv
  <2> QED BY <1>9, <1>10, <2>1, MoreOrders, Zenon
<1>12. Restored(w)'
  <2>1. CASE a = "placed"
    <3>1. Put(w)'
      BY <1>9, <1>10, <2>1 DEF Put
    <3> QED BY <3>1 DEF Restored
  <2>2. CASE a # "placed"
    BY <1>9, <2>2 DEF Restored
  <2> QED BY <2>1, <2>2
<1>13. ASSUME NEW v \in sw.cut, Underway(v) PROVE v = w
  BY <1>1, <1>13 DEF Underway
<1> QED BY <1>1, <1>2, <1>9, <1>10, <1>11, <1>12, <1>13, PairsGoOn DEF PlacingSteps

\* The order that a pair or a replacement takes hold of is one the sweep found resting.
LEMMA OldIsSeen ==
  ASSUME IInv, NEW w, sw.pc \in PlacingSteps, ~Fresh(w)
  PROVE  Old(w) \in Ids \cap sw.seen
<1>1. sw.seen \subseteq Ids /\ Ids \subseteq Nat
  BY InSection, OrdersAre DEF SweepOK
<1>2. Existing(w) \subseteq sw.seen
  BY DEF Existing, SeenOf, Seen
<1>3. Existing(w) # {}
  BY DEF Fresh
<1>4. Existing(w) \subseteq Nat
  BY <1>1, <1>2
<1> QED BY <1>1, <1>2, <1>3, <1>4, MinIsLeast DEF Old

LEMMA PairCancelsStep ==
  ASSUME IInv, NEW w, PairCancels(w)
  PROVE  IInv' /\ Onward
<1>1. sw.pc \in PlacingSteps /\ w \in sw.todo /\ sw.todo \cap sw.cut \subseteq {w} /\ ~Fresh(w)
      /\ ~sw.tripped /\ sw.budget > 0
  BY DEF PairCancels, Placing, PlacingSteps, Pairs, LeftResting
<1>2. DbInv /\ CutInv /\ SweepOK(sw, Len(orders))
  BY <1>1, InSection
<1>3. w \in Want
  BY <1>1, <1>2 DEF SweepOK, PlacingSteps
<1>4. PICK i : i = Old(w)
  OBVIOUS
<1>5. i \in Ids \cap sw.seen
  BY <1>1, <1>4, OldIsSeen
<1>6. PICK x : x = [sw EXCEPT !.cut = @ \cup {w}]
  OBVIOUS
<1>7. PICK a \in CancelAnswers(i) : Cancelled(i, FALSE, a) /\ sw' = Or(CancelNoted(x, a))
  BY <1>4, <1>6 DEF PairCancels
<1>8. DbInv' /\ Stand /\ Len(orders') = Len(orders)
  BY <1>2, <1>5, <1>7, CancelledDb
<1>9. /\ SweepOK(x, Len(orders)) /\ x.pc = sw.pc /\ x.todo = sw.todo /\ x.cut = sw.cut \cup {w}
      /\ x.seen = sw.seen /\ x.turned = sw.turned /\ x.surprised = sw.surprised
      /\ x.exhausted = sw.exhausted /\ x.tripped = sw.tripped /\ x.budget = sw.budget
  BY <1>2, <1>3, <1>6 DEF SweepOK, Fields
<1>10. PICK y : y = CancelNoted(x, a)
  OBVIOUS
<1>11. /\ SweepOK(y, Len(orders)) /\ y.pc = sw.pc /\ y.todo = sw.todo /\ y.cut = sw.cut \cup {w}
       /\ y.seen = sw.seen /\ y.turned = sw.turned /\ y.surprised = sw.surprised
       /\ y.exhausted = sw.exhausted /\ y.tripped = sw.tripped
  <2>1. x.budget # 0
    BY <1>1, <1>9
  <2> QED BY <1>9, <1>10, <2>1, CancelNotedIs
<1>12. /\ SweepOK(sw', Len(orders)) /\ sw'.todo = sw.todo /\ sw'.cut = sw.cut \cup {w}
       /\ sw'.seen = sw.seen /\ sw'.turned = sw.turned /\ sw'.surprised = sw.surprised
       /\ sw'.exhausted = sw.exhausted /\ sw'.tripped = sw.tripped
       /\ sw'.pc = (IF sw'.raised THEN "aborted" ELSE sw.pc)
  <2>1. sw' = Or(y)
    BY <1>7, <1>10
  <2> QED BY <1>11, <2>1, OrIs
<1>13. sw'.pc # "aborted" => Underway(w)'
  BY <1>1, <1>12 DEF Underway
<1>14. ASSUME NEW v \in sw.cut, Underway(v) PROVE v = w
  BY <1>1, <1>14 DEF Underway
<1> QED BY <1>1, <1>2, <1>8, <1>12, <1>13, <1>14, PairsGoOn DEF PlacingSteps

LEMMA PlaceReplacesStep ==
  ASSUME IInv, NEW w, PlaceReplaces(w)
  PROVE  IInv' /\ Onward
<1>1. sw.pc \in PlacingSteps /\ w \in sw.todo /\ sw.todo \cap sw.cut \subseteq {w} /\ ~Fresh(w)
  BY DEF PlaceReplaces, Placing, PlacingSteps, Replaces
<1>2. DbInv /\ CutInv /\ SweepOK(sw, Len(orders))
  BY <1>1, InSection
<1>3. w \in Want
  BY <1>1, <1>2 DEF SweepOK, PlacingSteps
<1>4. PICK i : i = Old(w)
  OBVIOUS
<1>5. i \in Ids \cap sw.seen
  BY <1>1, <1>4, OldIsSeen
<1>6. PICK x : x = [Drop(sw, w) EXCEPT !.budget = @ - 1]
  OBVIOUS
<1>7. PICK a \in ReplaceAnswers(i) :
         /\ orders' = IF a \in {"ok", "lostDone"}
                      THEN [orders EXCEPT ![i].qty = w.qty, ![i].level = w.level] ELSE orders
         /\ left' = Spent(a # "ok" /\ ~day.shut /\ Resting(i))
         /\ sw' = Or([Noted(x, w, a) EXCEPT !.clean = sw.clean /\ a = "ok",
                                            !.raised = a \in {"lost", "lostDone"}])
         /\ UNCHANGED <<caps, acct, plan, day>>
  BY <1>4, <1>6, Zenon DEF PlaceReplaces
<1>8. /\ SweepOK(x, Len(orders)) /\ x.pc = sw.pc /\ x.cut = sw.cut /\ x.seen = sw.seen
      /\ x.turned = sw.turned /\ x.surprised = sw.surprised /\ x.exhausted = sw.exhausted
  <2>1. PICK b \in Nat : b = sw.budget - 1
    BY <1>2 DEF PlaceReplaces, MaySubmit, SweepOK
  <2>2. x = [sw EXCEPT !.todo = sw.todo \ {w}, !.budget = b]
    BY <1>2, <1>6, <2>1 DEF Drop, SweepOK, Fields
  <2> QED BY <1>2, <2>1, <2>2 DEF SweepOK, Fields, Steps
<1>9. PICK y : y = Noted(x, w, a)
  OBVIOUS
<1>10. /\ SweepOK(y, Len(orders)) /\ y.pc = sw.pc /\ y.cut = sw.cut /\ y.seen = sw.seen
       /\ sw.turned \subseteq y.turned /\ y.surprised = sw.surprised
       /\ y.exhausted = sw.exhausted
  BY <1>8, <1>9, NotedIs
<1>11. PICK z : z = [y EXCEPT !.clean = sw.clean /\ a = "ok", !.raised = a \in {"lost", "lostDone"}]
  OBVIOUS
<1>12. /\ SweepOK(z, Len(orders)) /\ z.pc = sw.pc /\ z.cut = sw.cut /\ z.seen = sw.seen
       /\ sw.turned \subseteq z.turned /\ z.surprised = sw.surprised
       /\ z.exhausted = sw.exhausted
  BY <1>10, <1>11 DEF SweepOK, Fields
<1>13. /\ SweepOK(sw', Len(orders)) /\ sw'.cut = sw.cut /\ sw'.seen = sw.seen
       /\ sw.turned \subseteq sw'.turned /\ sw'.surprised = sw.surprised
       /\ sw'.exhausted = sw.exhausted
       /\ sw'.pc = (IF sw'.raised THEN "aborted" ELSE sw.pc)
  <2>1. sw' = Or(z)
    BY <1>7, <1>9, <1>11, Zenon
  <2> QED BY <1>12, <2>1, OrIs
<1>14. left' \in [sweeps : Int, decisions : Int, faults : 0 .. MaxFaults]
  <2>1. a # "ok" /\ ~day.shut /\ Resting(i) => left.faults > 0
    BY DEF ReplaceAnswers, Faulty
  <2>2. PICK f : f = (a # "ok" /\ ~day.shut /\ Resting(i))
    OBVIOUS
  <2>3. f => left.faults > 0
    BY <2>1, <2>2, Zenon
  <2>4. left' = Spent(f)
    BY <1>7, <2>2, Zenon
  <2> QED BY <1>2, <2>3, <2>4, SpentIs
<1>15. DbInv' /\ Stand /\ Len(orders') = Len(orders)
  <2>1. CASE a \notin {"ok", "lostDone"}
    <3>1. orders' = orders
      BY <1>7, <2>1
    <3> QED BY <1>2, <1>7, <1>14, <3>1, SameDb
  <2>2. CASE a \in {"ok", "lostDone"}
    <3>1. orders[i] \in Order /\ Settled(orders[i])
      BY <1>2, <1>5, OrdersAre DEF DbInv
    <3>2. PICK q \in Int, l \in Nat : q = w.qty /\ l = w.level
      BY <1>3 DEF Want
    <3>3. PICK r : r = [orders[i] EXCEPT !.qty = q, !.level = l]
      OBVIOUS
    <3>4. r \in Order /\ Settled(r)
      BY <3>1, <3>2, <3>3, LevelSet
    <3>5. orders' = [orders EXCEPT ![i] = r]
      <4>1. orders' = [orders EXCEPT ![i].qty = q, ![i].level = l]
        BY <1>7, <2>2, <3>2
      <4> QED BY <3>3, <4>1
    <3>6. orders' \in Seq(Order) /\ Len(orders') = Len(orders) /\ Ids' = Ids
          /\ \A j \in Ids : orders'[j] = IF j = i THEN r ELSE orders[j]
      BY <1>2, <1>5, <3>4, <3>5 DEF DbInv, Ids
    <3>7. \A j \in Ids : orders'[j] \in Order /\ Settled(orders'[j])
      BY <1>2, <3>4, <3>6, OrdersAre DEF DbInv
    <3>8. DbInv'
      BY <1>2, <1>7, <1>14, <3>6, <3>7 DEF DbInv
    <3>9. Stand
      BY <1>5, <3>6 DEF Stand, SameOrder
    <3> QED BY <3>6, <3>8, <3>9
  <2> QED BY <2>1, <2>2
<1>16. ASSUME NEW v \in sw.cut PROVE ~Underway(v)
  <2>1. v \in sw.todo => v = w
    BY <1>1
  <2> QED BY <1>1, <2>1 DEF Underway, Fresh
<1> QED BY <1>1, <1>2, <1>13, <1>15, <1>16, PairsGoOn DEF PlacingSteps

LEMMA SectionDoneStep ==
  ASSUME IInv, SectionDone
  PROVE  IInv' /\ Onward
<1>1. sw.pc \in PlacingSteps /\ sw.todo = {} /\ orders' = orders /\ UNCHANGED Env
  BY DEF SectionDone, PlacingSteps
<1>2. DbInv /\ CutInv /\ SweepOK(sw, Len(orders))
  BY <1>1, InSection
<1>3. DbInv' /\ Stand /\ Len(orders') = Len(orders)
  BY <1>1, <1>2, EnvDb
<1>4. PICK todo \in SUBSET Want : todo = ToPlace("entry")
  BY <1>2, ToPlaceAre
<1>5. /\ SweepOK(sw', Len(orders)) /\ sw'.pc \in {"entries", "ending"} /\ sw'.cut = sw.cut
      /\ sw'.seen = sw.seen /\ sw'.turned = sw.turned /\ sw'.surprised = sw.surprised
      /\ sw'.exhausted = sw.exhausted
  <2>1. CASE sw' = [sw EXCEPT !.pc = "entries", !.todo = todo]
    BY <1>2, <2>1 DEF SweepOK, Fields, Steps
  <2>2. CASE sw' = [sw EXCEPT !.pc = "ending"]
    BY <1>2, <2>2 DEF SweepOK, Fields, Steps
  <2> QED BY <1>4, <2>1, <2>2 DEF SectionDone
<1>6. ASSUME NEW v \in sw.cut PROVE ~Underway(v)
  BY <1>1 DEF Underway
<1> QED BY <1>1, <1>2, <1>3, <1>5, <1>6, PairsGoOn DEF PlacingSteps

-----------------------------------------------------------------------------
(* The end of the sweep.                                                   *)

LEMMA LatePollStep ==
  ASSUME IInv, LatePoll
  PROVE  IInv' /\ Onward
<1>1. sw.pc = "ending" /\ DbInv /\ CutInv /\ SweepOK(sw, Len(orders))
  BY InSection DEF LatePoll, At
<1>2. caps' = caps /\ acct' = acct /\ plan' = plan
  BY DEF LatePoll
<1>3. DbInv' /\ Stand /\ Len(orders') = Len(orders)
  <2>1. CASE orders' = Polled /\ left' = left
    <3>1. left' \in [sweeps : Int, decisions : Int, faults : 0 .. MaxFaults]
      BY <1>1, <2>1 DEF DbInv
    <3> QED BY <1>1, <1>2, <2>1, <3>1, PollRelabels, RelabelsDb DEF DbInv
  <2>2. CASE Faulty /\ left' = Spent(TRUE) /\ orders' = orders
    <3>1. left' \in [sweeps : Int, decisions : Int, faults : 0 .. MaxFaults]
      BY <1>1, <2>2, SpentIs DEF Faulty
    <3> QED BY <1>1, <1>2, <2>2, <3>1, SameDb
  <2> QED BY <2>1, <2>2 DEF LatePoll
<1>4. /\ SweepOK(sw', Len(orders)) /\ sw'.pc = "ending" /\ sw'.cut = sw.cut
      /\ sw'.seen = sw.seen /\ sw'.turned = sw.turned /\ sw'.surprised = sw.surprised
      /\ sw'.exhausted = sw.exhausted
  <2>1. CASE sw' = [sw EXCEPT !.deferred = FALSE]
    BY <1>1, <2>1 DEF SweepOK, Fields, Steps
  <2>2. CASE sw' = [sw EXCEPT !.deferred = FALSE, !.pollOk = FALSE]
    BY <1>1, <2>2 DEF SweepOK, Fields, Steps
  <2> QED BY <2>1, <2>2 DEF LatePoll
<1>5. ASSUME NEW v \in sw.cut PROVE ~Underway(v)
  BY <1>1 DEF Underway, PlacingSteps
<1> QED BY <1>1, <1>3, <1>4, <1>5, PairsGoOn DEF PlacingSteps

\* A sweep that is over leaves nothing in hand.
LEMMA Over ==
  ASSUME DbInv', sw' = Idle, sw.pc \in {"ending", "aborted"}
  PROVE  IInv' /\ Onward
<1>1. sw'.pc = "idle"
  BY DEF Idle
<1> QED BY <1>1 DEF IInv, SwInv, CutInv, At, Onward

LEMMA FinishStep ==
  ASSUME IInv, NEW age, Finish(age)
  PROVE  IInv' /\ Onward
<1>1. sw.pc = "ending" /\ DbInv
  BY InSection DEF Finish, At
<1>2. ASSUME NEW i \in Ids
      PROVE  orders'[i] \in Order /\ Settled(orders'[i]) /\ SameOrder(orders[i], orders'[i])
  <2>1. orders[i] \in Order /\ Settled(orders[i])
    BY <1>1, OrdersAre DEF DbInv
  <2>2. PICK r : r = [orders[i] EXCEPT !.row = "open", !.boid = TRUE]
    OBVIOUS
  <2>3. PICK t : t = [orders[i] EXCEPT !.row = "shut"]
    OBVIOUS
  <2>4. orders'[i] = r \/ orders'[i] = t \/ orders'[i] = orders[i]
    BY <2>2, <2>3 DEF Finish, Resolved
  <2>5. CASE orders'[i] = r
    BY <2>1, <2>2, <2>5, OpenSet
  <2>6. CASE orders'[i] = t
    BY <2>1, <2>3, <2>6, RowSet DEF Rows
  <2>7. CASE orders'[i] = orders[i]
    BY <2>1, <2>7 DEF SameOrder
  <2> QED BY <2>4, <2>5, <2>6, <2>7
<1>3. Relabels
  BY <1>2 DEF Relabels, Finish
<1>4. DbInv'
  BY <1>1, <1>3, RelabelsDb DEF Finish, DbInv
<1> QED BY <1>1, <1>4, Over DEF Finish

LEMMA AbortStep ==
  ASSUME IInv, Abort
  PROVE  IInv' /\ Onward
<1>1. sw.pc = "aborted" /\ DbInv
  BY InSection DEF Abort, At
<1>2. DbInv'
  BY <1>1, SameDb DEF Abort, DbInv
<1> QED BY <1>1, <1>2, Over DEF Abort

-----------------------------------------------------------------------------
(* Around the sweep.                                                       *)

LEMMA FillStep ==
  ASSUME IInv, NEW i \in Ids, Fill(i)
  PROVE  IInv' /\ Onward
<1>1. DbInv /\ CutInv /\ SweepOK(sw, Len(orders)) /\ sw.pc # "idle"
  BY DEF IInv, SwInv, Fill, Asking, At
<1>2. orders[i] \in Order /\ Settled(orders[i]) /\ orders[i].at = "resting"
      /\ Signed(orders[i]) \in Int
  BY <1>1, OrdersAre DEF DbInv, Fill, Resting
<1>3. PICK s \in Symbols : s = orders[i].sym
  BY <1>2 DEF Order
<1>4. PICK r : r = [orders[i] EXCEPT !.at = "filled"]
  OBVIOUS
<1>5. r \in Order /\ Settled(r)
  BY <1>2, <1>4, FilledSet
<1>6. orders' \in Seq(Order) /\ Len(orders') = Len(orders) /\ Ids' = Ids
      /\ \A j \in Ids : orders'[j] = IF j = i THEN r ELSE orders[j]
  <2>1. orders' = [orders EXCEPT ![i] = r]
    BY <1>4 DEF Fill
  <2> QED BY <1>1, <1>5, <2>1 DEF DbInv, Ids
<1>7. \A j \in Ids : orders'[j] \in Order /\ Settled(orders'[j])
  BY <1>1, <1>5, <1>6, OrdersAre DEF DbInv
<1>8. acct' \in [Symbols -> Account]
  <2>1. acct[s] \in Account
    BY <1>1 DEF DbInv
  <2>2. PICK n \in Int : n = acct[s].pos + Signed(orders[i])
    BY <1>2, <2>1 DEF Account
  <2>3. PICK c : c = [acct[s] EXCEPT !.pos = n]
    OBVIOUS
  <2>4. c \in Account
    BY <2>1, <2>3 DEF Account
  <2>5. acct' = [acct EXCEPT ![s] = c]
    BY <1>3, <2>2, <2>3 DEF Fill
  <2> QED BY <1>1, <2>4, <2>5 DEF DbInv
<1>9. DbInv'
  BY <1>1, <1>6, <1>7, <1>8 DEF DbInv, Fill
<1>10. \/ sw.pc \in Reading /\ sw' = sw
       \/ sw' = [sw EXCEPT !.surprised = @ \cup {s}]
  BY <1>3 DEF Fill, Surprise
<1>11. /\ SweepOK(sw', Len(orders)) /\ sw'.pc = sw.pc /\ sw'.cut = sw.cut /\ sw'.seen = sw.seen
       /\ sw'.turned = sw.turned /\ sw.surprised \subseteq sw'.surprised
       /\ sw'.exhausted = sw.exhausted /\ sw'.raised = sw.raised /\ sw'.todo = sw.todo
       /\ sw'.tripped = sw.tripped
       /\ sw.pc \notin Reading => s \in sw'.surprised
  <2>1. CASE sw.pc \in Reading /\ sw' = sw
    BY <1>1, <2>1
  <2>2. CASE sw' = [sw EXCEPT !.surprised = @ \cup {s}]
    BY <1>1, <2>2 DEF SweepOK, Fields
  <2> QED BY <1>10, <2>1, <2>2
<1>12. CASE sw.pc \in PlacingSteps \cup {"ending"}
  <2>1. s \in sw'.surprised
    BY <1>11, <1>12 DEF Reading, PlacingSteps
  <2>2. ASSUME NEW w, Restored(w) PROVE Restored(w)'
    <3>1. CASE Put(w)
      <4>1. PICK j \in Ids \ sw.seen : RestsFor(j, w)
        BY <3>1 DEF Put
      <4>2. CASE j = i
        BY <1>3, <2>1, <4>1, <4>2 DEF Restored, RestsFor
      <4>3. CASE j # i
        <5>1. orders'[j] = orders[j] /\ j \in Ids' \ sw'.seen
          BY <1>6, <1>11, <4>1, <4>3
        <5>2. RestsFor(j, w)'
          BY <4>1, <5>1 DEF RestsFor
        <5> QED BY <5>1, <5>2 DEF Restored, Put
      <4> QED BY <4>2, <4>3
    <3> QED BY <1>11, <2>2, <3>1 DEF Restored
  <2>3. ASSUME NEW w, Underway(w) PROVE Underway(w)'
    BY <1>11, <2>3 DEF Underway
  <2>4. CutInv'
    BY <1>1, <1>11, <1>12, <2>2, <2>3 DEF CutInv, PlacingSteps
  <2> QED BY <1>1, <1>6, <1>9, <1>11, <2>4 DEF IInv, SwInv, Onward
<1>13. CASE sw.pc \notin PlacingSteps \cup {"ending"}
  <2>1. CutInv'
    BY <1>1, <1>11, <1>13 DEF CutInv, PlacingSteps
  <2> QED BY <1>1, <1>6, <1>9, <1>11, <2>1 DEF IInv, SwInv, Onward
<1> QED BY <1>12, <1>13

LEMMA TickStep ==
  ASSUME IInv, Tick
  PROVE  IInv' /\ Onward
<1>1. DbInv
  BY DEF IInv
<1>2. ASSUME NEW i \in Ids
      PROVE  orders'[i] \in Order /\ Settled(orders'[i]) /\ SameOrder(orders[i], orders'[i])
  <2>1. orders[i] \in Order /\ Settled(orders[i])
    BY <1>1, OrdersAre DEF DbInv
  <2>2. PICK r : r = [orders[i] EXCEPT !.folded = orders[i].stored]
    OBVIOUS
  <2>3. orders'[i] = r
    BY <2>2 DEF Tick
  <2> QED BY <2>1, <2>2, <2>3, FoldedSet
<1>3. Relabels
  BY <1>2 DEF Relabels, Tick
<1>4. \A s \in Symbols : IsFiniteSet(ToFold(s)) /\ Total(ToFold(s)) \in Int
  <2>1. \A s \in Symbols : ToFold(s) \in SUBSET Ids
    BY DEF ToFold
  <2> QED BY <1>1, <2>1, OrdersAre
<1>5. plan' \in [Symbols -> Payload]
  <2>1. ASSUME NEW s \in Symbols PROVE FoldAll(plan[s], ToFold(s)) \in Payload
    <3>1. plan[s] \in Payload
      BY <1>1 DEF DbInv
    <3>2. \A i \in ToFold(s) : orders[i] \in Order
      BY <1>1, OrdersAre DEF ToFold
    <3> QED BY <1>4, <3>1, <3>2, FoldAllIs
  <2> QED BY <2>1 DEF Tick
<1>6. acct' \in [Symbols -> Account]
  <2>1. ASSUME NEW c \in Account, NEW n \in Int, NEW d, d = [c EXCEPT !.booked = @ + n]
        PROVE  d \in Account
    BY <2>1 DEF Account
  <2>2. ASSUME NEW s \in Symbols PROVE acct'[s] \in Account
    <3>1. PICK n \in Int : n = Total(ToFold(s))
      BY <1>4
    <3>2. acct[s] \in Account
      BY <1>1 DEF DbInv
    <3>3. PICK d : d = [acct[s] EXCEPT !.booked = @ + n]
      OBVIOUS
    <3>4. acct'[s] = d
      BY <3>1, <3>3 DEF Tick
    <3> QED BY <2>1, <3>2, <3>3, <3>4
  <2> QED BY <2>2 DEF Tick
<1>7. DbInv' /\ Stand /\ Len(orders') = Len(orders)
  BY <1>1, <1>3, <1>5, <1>6, RelabelsDb DEF Tick, DbInv
<1> QED BY <1>7, SwStays DEF Tick

LEMMA DecideStep ==
  ASSUME IInv, NEW s \in Symbols, NEW p \in Payloads, Decide(s, p)
  PROVE  IInv' /\ Onward
<1>1. DbInv /\ p \in Payload
  BY SweepBounds DEF IInv
<1>2. plan' \in [Symbols -> Payload]
  <2>1. plan' = [plan EXCEPT ![s] = p]
    BY DEF Decide
  <2> QED BY <1>1, <2>1 DEF DbInv
<1>3. left' \in [sweeps : Int, decisions : Int, faults : 0 .. MaxFaults]
  BY <1>1 DEF DbInv, Decide
<1>4. orders' = orders /\ acct' = acct /\ caps' = caps /\ Ids' = Ids
  BY DEF Decide, Ids
<1>5. DbInv'
  BY <1>1, <1>2, <1>3, <1>4 DEF DbInv
<1>6. Stand
  BY <1>4 DEF Stand, SameOrder
<1> QED BY <1>4, <1>5, <1>6, SwStays DEF Decide

\* The gateway, the pause and the clock: nothing DbInv or the sweep speaks of, but for
\* the faults spent.
LEMMA DayStep ==
  ASSUME IInv, Shut \/ Reopen \/ Elapse \/ Pause \/ Resume \/ ClockTurns
  PROVE  IInv' /\ Onward
<1>1. DbInv
  BY DEF IInv
<1>2. /\ orders' = orders /\ caps' = caps /\ acct' = acct /\ plan' = plan /\ sw' = sw
      /\ left' = left \/ (Faulty /\ left' = Spent(TRUE))
  BY DEF Shut, Reopen, Elapse, Pause, Resume, ClockTurns
<1>3. left' \in [sweeps : Int, decisions : Int, faults : 0 .. MaxFaults]
  <2>1. CASE left' = left
    BY <1>1, <2>1 DEF DbInv
  <2>2. CASE Faulty /\ left' = Spent(TRUE)
    BY <1>1, <2>2, SpentIs DEF Faulty
  <2> QED BY <1>2, <2>1, <2>2
<1> QED BY <1>1, <1>2, <1>3, SameDb, SwStays

-----------------------------------------------------------------------------
(* The invariant, and what follows from it.                                *)

LEMMA InitEstablishes == Init => IInv
<1> SUFFICES ASSUME Init PROVE IInv
  OBVIOUS
<1>1. sw.pc = "idle"
  BY DEF Init, Idle
<1>2. caps \in Venues /\ acct \in [Symbols -> Account]
  BY SweepBounds DEF Init, Account
<1>3. plan \in [Symbols -> Payload]
  BY DEF Init, NoPayload, Payload
<1>4. orders \in Seq(Order) /\ Len(orders) <= MaxOrders /\ Ids = {}
  BY SweepBounds DEF Init, Ids
<1>5. left \in [sweeps : Int, decisions : Int, faults : 0 .. MaxFaults]
  BY SweepBounds DEF Init
<1>6. DbInv
  BY <1>2, <1>3, <1>4, <1>5 DEF DbInv
<1> QED BY <1>1, <1>6 DEF IInv, SwInv, CutInv, At

LEMMA SweepSteps ==
  ASSUME IInv, SweepStep
  PROVE  IInv' /\ Onward
<1>1. CASE \E d, g \in BOOLEAN : Gather(d, g)
  BY <1>1, GatherStep
<1>2. CASE Poll \/ (\E g \in BOOLEAN : Refresh(g)) \/ PollLater \/ Paused \/ Positions \/ Orders
  BY <1>2, PollStep, RefreshStep, HandOnStep, PositionsStep, OrdersStep
<1>3. CASE (\E s \in Symbols : CloseSkips(s) \/ CloseSends(s)) \/ CloseDone
  BY <1>3, CloseSkipsStep, CloseSendsStep, CloseDoneStep
<1>4. CASE (\E i \in Ids : Releases(i)) \/ ReleaseDone
  BY <1>4, ReleasesStep, HandOnStep
<1>5. CASE Trade \/ (At("launching") /\ \E w \in sw.todo : Launches(w)) \/ WaveDone
  BY <1>5, TradeStep, LaunchesStep, WaveDoneStep
<1>6. CASE sw.pc \in {"exits", "entries"} /\ \E w \in sw.todo :
             PlaceBlocked(w) \/ PlaceSends(w) \/ PairCancels(w) \/ PlaceReplaces(w)
  BY <1>6, PlaceBlockedStep, PlaceSendsStep, PairCancelsStep, PlaceReplacesStep
<1>7. CASE SectionDone \/ LatePoll \/ Abort
  BY <1>7, SectionDoneStep, LatePollStep, AbortStep
<1>8. CASE \E age \in {"young", "late", "dead"} : Finish(age)
  BY <1>8, FinishStep
<1> QED BY <1>1, <1>2, <1>3, <1>4, <1>5, <1>6, <1>7, <1>8 DEF SweepStep

LEMMA NextStep ==
  ASSUME IInv, [Next]_vars
  PROVE  IInv' /\ Onward
<1>1. CASE SweepStep
  BY <1>1, SweepSteps
<1>2. CASE \E i \in Ids : Fill(i)
  BY <1>2, FillStep
<1>3. CASE Tick
  BY <1>3, TickStep
<1>4. CASE \E s \in Symbols, p \in Payloads : Decide(s, p)
  BY <1>4, DecideStep
<1>5. CASE Shut \/ Reopen \/ Elapse \/ Pause \/ Resume \/ ClockTurns
  BY <1>5, DayStep
<1>6. CASE UNCHANGED vars
  <2>1. /\ orders' = orders /\ caps' = caps /\ acct' = acct /\ plan' = plan /\ sw' = sw
        /\ left' = left
    BY <1>6 DEF vars
  <2>2. left' \in [sweeps : Int, decisions : Int, faults : 0 .. MaxFaults]
    BY <2>1 DEF IInv, DbInv
  <2> QED BY <2>1, <2>2, SameDb, SwStays DEF IInv
<1> QED BY <1>1, <1>2, <1>3, <1>4, <1>5, <1>6 DEF Next

THEOREM Inductive == Spec => []IInv
<1>1. IInv /\ [Next]_vars => IInv'
  BY NextStep
<1> QED BY InitEstablishes, <1>1, PTL DEF Spec

\* The account, the orders and the rows are what their columns may hold; what the sleeve
\* folded was stored, and what is stored the venue filled.
THEOREM Types == Spec => []TypeOK
<1>1. IInv => TypeOK
  <2> SUFFICES ASSUME DbInv PROVE TypeOK
    BY DEF IInv
  <2>1. \A s \in Symbols : acct[s] \in Account
    BY DEF DbInv
  <2>2. \A s \in Symbols : /\ acct[s].pos \in Int /\ acct[s].booked \in Int
                           /\ acct[s].owner \in Nat /\ acct[s].kept \in Nat
    BY <2>1 DEF Account
  <2>3. ASSUME NEW i \in Ids
        PROVE  /\ orders[i].at \in {"resting", "filled", "gone"}
               /\ orders[i].row \in {"none", "sending", "open", "filled", "folded", "shut"}
               /\ orders[i].folded => orders[i].stored
               /\ orders[i].stored => orders[i].at = "filled"
    <3>1. orders[i] \in Order /\ Settled(orders[i])
      BY OrdersAre DEF DbInv
    <3> QED BY <3>1 DEF Order, Settled
  <2>4. left.faults \in 0 .. MaxFaults /\ Len(orders) <= MaxOrders /\ caps \in Venues
    BY DEF DbInv
  <2> QED BY <2>2, <2>3, <2>4 DEF TypeOK
<1> QED BY <1>1, Inductive, PTL

\* Whatever fills, trips or fails between the two halves of a pair, a sweep that got every
\* answer and kept within its budget does not end with an order cancelled and neither put
\* back, turned down by the venue, nor overtaken by a fill.
THEOREM PutBack == Spec => NeverStripped
<1>1. ASSUME NEW w, IInv, Restored(w), sw.pc # "idle" PROVE ~Stripped(w)
  <2>1. CASE Put(w)
    <3>1. PICK i \in Ids : RestsFor(i, w)
      BY <2>1 DEF Put
    <3>2. orders[i].level \in Nat
      BY <1>1, OrdersAre DEF IInv, Order
    <3>3. Abs(orders[i].level - w.level) < 10
      BY <3>1, <3>2 DEF RestsFor, Abs
    <3>4. i \in OnBook(w.sym)
      BY <3>1 DEF OnBook, Resting, RestsFor
    <3> QED BY <3>1, <3>3, <3>4 DEF Rests, RestsFor, Stripped
  <2>2. CASE w \in sw.turned \/ w.sym \in sw.surprised
    BY <2>2 DEF Stripped
  <2> QED BY <1>1, <2>1, <2>2 DEF Restored
<1>2. IInv /\ [Next]_vars =>
        [(Ends /\ ~sw.raised /\ ~sw.exhausted) => \A w \in sw.cut : ~Stripped(w)]_vars
  <2> SUFFICES ASSUME IInv, [Next]_vars, Ends, ~sw.raised, ~sw.exhausted, NEW w \in sw.cut
               PROVE  ~Stripped(w)
    OBVIOUS
  <2>1. sw.pc \in {"ending", "aborted"}
    BY NextStep DEF Ends, Onward, At
  <2>2. sw.pc = "ending"
    BY <2>1 DEF IInv, CutInv
  <2>3. Restored(w)
    BY <2>2 DEF IInv, CutInv, Underway, PlacingSteps
  <2> QED BY <1>1, <2>2, <2>3
<1> QED BY <1>2, Inductive, PTL DEF Spec, NeverStripped
=============================================================================
