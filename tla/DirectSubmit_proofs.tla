------------------------ MODULE DirectSubmit_proofs ------------------------
(***************************************************************************)
(* Proofs about DirectSubmit, for any wants, order sizes, threads and      *)
(* regimes: the types and the lock; what the journal promises under both   *)
(* kinds of pass; that they never mis-order between them; and that the     *)
(* book a fast pass trades from is true.                                   *)
(*                                                                         *)
(* IInv, below, says what the records of one order say of one another, and *)
(* holds whatever fails.  PlainInv, further down, says what the book, the  *)
(* gates and the fetches in progress know of the account, on an ordinary   *)
(* stretch of the day.  Quantities add up because Net, a fold over client  *)
(* ids, is shown to be a sum, whatever order it folds them in.             *)
(***************************************************************************)
EXTENDS DirectSubmit, FiniteSetTheorems, WellFoundedInduction, TLAPS

-----------------------------------------------------------------------------
(* The inductive invariant.                                                *)

Steps == {"idle", "fallback", "waiting", "polling", "positions", "orders", "sending",
          "acking", "applying", "latepoll", "resolving"}
(* The steps of a pass between taking the connection lock and leaving it.  *)
UnderLock == Steps \ {"idle", "fallback", "waiting"}

Quantities == [Cid -> Nat]
PassState ==
  [pc: Steps, fast: BOOLEAN, owner: BOOLEAN, late: BOOLEAN, want: Wants,
   model: Quantities, gates: J!Gates, exe: Int, pos: Quantities, listed: SUBSET Cid,
   drift: BOOLEAN, cid: Cid \cup {<<>>}, pollOk: BOOLEAN]
Cached == [at: {"held"}, gates: J!Gates, exe: Int]

Typed ==
  /\ regime \in Regimes
  /\ want \in Wants
  /\ sleeve \in Quantities /\ stored \in Quantities
  /\ rows \in [Cid -> J!Row]
  /\ venue \in [Cid -> J!VenueOrder]
  /\ book \in Book
  /\ cache \in Cached \cup {NoCache}
  /\ pass \in [Sweeps -> PassState]
  /\ faults \in Nat /\ restarts \in Nat

Locks ==
  /\ holder \subseteq Sweeps
  /\ \A p, q \in holder : p = q
  /\ \A p \in Sweeps : (p \in holder) <=> (pass[p].pc \in UnderLock)
  /\ \A p \in Sweeps : pass[p].pc \in {"sending", "acking"} => pass[p].cid \in Cid
  /\ \A p \in Sweeps : pass[p].pollOk => p \in holder

(* What an order's records say of one another: an order trades whole; the  *)
(* journal has the fills the executions table has, and calls filled what   *)
(* has any; no order works without an open row, and no old row's order     *)
(* works at all.                                                           *)
Order(v, row, n, c) ==
  /\ v.at \in {"unsent", "working", "filled"}
  /\ v.done = IF v.at = "filled" THEN Qty(c) ELSE 0
  /\ row.state = "absent" => v.at = "unsent"
  /\ n \in {0, v.done} /\ row.filled = n
  /\ n > 0 => row.state = "filled"
  /\ v.at = "working" => row.state \in J!Open
  /\ row.state = "abandoned" => v.done = 0
  /\ (row.state = "sending" /\ row.age = "old") => v.at # "working"

Orders == \A c \in Cid : Order(venue[c], rows[c], stored[c], c)

(* The order a pass has on the wire is unacknowledged, and a row too old to *)
(* wait for has no fill once this pass's poll was answered.                 *)
InHand ==
  \A p \in holder :
    /\ pass[p].pc = "acking" => rows[pass[p].cid].state = "sending"
    /\ pass[p].pollOk =>
         \A c \in Cid : rows[c].state = "sending" /\ rows[c].age = "old" => venue[c].done = 0

IInv == Typed /\ Locks /\ Orders /\ InHand

-----------------------------------------------------------------------------
(* Sums over finite sets, by taking one element at a time.                 *)
\* A set of numbers that is not empty has a least element.
LEMMA MinIsLeast ==
  ASSUME NEW S, S \subseteq Nat, S # {}
  PROVE  Min(S) \in S /\ \A x \in S : Min(S) <= x
<1>1. OpToRel(<, Nat) = {p \in Nat \X Nat : p[1] < p[2]}
  BY Zenon DEF OpToRel
<1>2. \E x \in S : \A y \in S : ~(<<y, x>> \in OpToRel(<, Nat))
  BY NatLessThanWellFounded, WFMin
<1>3. PICK x \in S : \A y \in S : ~(<<y, x>> \in {p \in Nat \X Nat : p[1] < p[2]})
  BY <1>1, <1>2, Zenon
<1>4. ASSUME NEW y \in S, y < x PROVE FALSE
  <2>1. <<y, x>> \in Nat \X Nat /\ <<y, x>>[1] = y /\ <<y, x>>[2] = x
    OBVIOUS
  <2> QED BY <1>3, <1>4, <2>1, Zenon
<1>5. \A y \in S : x <= y
  BY <1>4
<1> QED BY <1>5 DEF Min

One(s) == CHOOSE x \in s : TRUE
Rest(s) == s \ {One(s)}

\* g[s] is the sum of f over s, for every subset s of S.
IsSum(g, S, f) ==
  \A s \in SUBSET S : g[s] = IF s = {} THEN 0 ELSE f[One(s)] + g[Rest(s)]

Total(f, S) == (CHOOSE g : IsSum(g, S, f))[S]

\* What holds of a set when it holds of its smaller subsets holds of every set.
LEMMA SubsetInduction ==
  ASSUME NEW S, IsFiniteSet(S), NEW V,
         \A s \in SUBSET S : (\A t \in SUBSET s : t # s => t \in V) => s \in V
  PROVE  \A s \in SUBSET S : s \in V
<1> DEFINE Bad == {n \in Nat : \E s \in SUBSET S : Cardinality(s) = n /\ s \notin V}
<1>1. SUFFICES Bad = {}
  BY FS_Subset, FS_CardinalityType
<1>2. SUFFICES ASSUME Bad # {} PROVE FALSE
  OBVIOUS
<1>3. Min(Bad) \in Bad /\ \A n \in Bad : Min(Bad) <= n
  BY <1>2, MinIsLeast
<1>4. PICK s \in SUBSET S : Cardinality(s) = Min(Bad) /\ s \notin V
  BY <1>3
<1>5. PICK t \in SUBSET s : t # s /\ t \notin V
  BY <1>4
<1>6. IsFiniteSet(s) /\ t \in SUBSET S
  BY FS_Subset
<1>7. /\ Cardinality(s) \in Nat /\ Cardinality(t) \in Nat
      /\ Cardinality(t) < Cardinality(s)
  BY <1>5, <1>6, FS_Subset, FS_CardinalityType
<1>8. Cardinality(t) \in Bad
  BY <1>5, <1>6, <1>7
<1> HIDE DEF Bad
<1> QED BY <1>3, <1>4, <1>7, <1>8

LEMMA RestIsLess ==
  ASSUME NEW s, s # {}
  PROVE  One(s) \in s /\ Rest(s) \in SUBSET s /\ Rest(s) # s
  BY DEF One, Rest

\* Two sums of functions that agree on a set agree on it.
LEMMA SumUnique ==
  ASSUME NEW S, NEW g, NEW f, IsSum(g, S, f), NEW T, NEW h, NEW e, IsSum(h, T, e),
         NEW U, IsFiniteSet(U), U \subseteq S, U \subseteq T, \A x \in U : f[x] = e[x]
  PROVE  g[U] = h[U]
<1> DEFINE V == {s \in SUBSET U : g[s] = h[s]}
<1>1. ASSUME NEW s \in SUBSET U, \A t \in SUBSET s : t # s => t \in V
      PROVE  g[s] = h[s]
  <2>1. CASE s = {}
    BY <2>1 DEF IsSum
  <2>2. CASE s # {}
    <3>1. One(s) \in s /\ Rest(s) \in V
      BY <1>1, <2>2, RestIsLess
    <3>2. f[One(s)] = e[One(s)] /\ g[Rest(s)] = h[Rest(s)]
      BY <3>1
    <3>3. g[s] = f[One(s)] + g[Rest(s)] /\ h[s] = e[One(s)] + h[Rest(s)]
      BY <2>2 DEF IsSum
    <3> QED BY <3>2, <3>3
  <2> QED BY <2>1, <2>2
<1>2. \A s \in SUBSET U : (\A t \in SUBSET s : t # s => t \in V) => s \in V
  BY <1>1
<1> HIDE DEF V
<1>3. \A s \in SUBSET U : s \in V
  BY <1>2, SubsetInduction, Zenon
<1>4. U \in V
  BY <1>3
<1> QED BY <1>4 DEF V

LEMMA SumExists ==
  ASSUME NEW S, IsFiniteSet(S), NEW f, \A x \in S : f[x] \in Int
  PROVE  \E g \in [SUBSET S -> Int] : IsSum(g, S, f)
<1> DEFINE Body(g, s) == IF s = {} THEN 0 ELSE f[One(s)] + g[Rest(s)]
           V == {s \in SUBSET S : \E g \in [SUBSET s -> Int] : IsSum(g, s, f)}
<1>1. ASSUME NEW s \in SUBSET S, \A t \in SUBSET s : t # s => t \in V
      PROVE  \E g \in [SUBSET s -> Int] : IsSum(g, s, f)
  <2> DEFINE Part(t) == CHOOSE g \in [SUBSET t -> Int] : IsSum(g, t, f)
             h == [t \in SUBSET s |-> IF t = {} THEN 0 ELSE f[One(t)] + Part(Rest(t))[Rest(t)]]
  <2>1. ASSUME NEW t \in SUBSET s, t # {}
        PROVE  /\ One(t) \in S /\ Rest(t) \in SUBSET t /\ Rest(t) # t /\ Rest(t) # s
               /\ Part(Rest(t)) \in [SUBSET Rest(t) -> Int]
               /\ IsSum(Part(Rest(t)), Rest(t), f)
    <3>1. One(t) \in t /\ Rest(t) \in SUBSET t /\ Rest(t) # t
      BY <2>1, RestIsLess
    <3>2. Rest(t) \in V
      BY <1>1, <3>1
    <3>3. \E g \in [SUBSET Rest(t) -> Int] : IsSum(g, Rest(t), f)
      BY <3>2
    <3> QED BY <3>1, <3>3
  <2>2. ASSUME NEW t \in SUBSET s
        PROVE  h[t] \in Int
    <3>1. CASE t = {}
      BY <3>1
    <3>2. CASE t # {}
      <4>1. PICK r, p : r = Rest(t) /\ p = Part(r)
        OBVIOUS
      <4>2. p \in [SUBSET r -> Int] /\ One(t) \in S
        BY <2>1, <3>2, <4>1
      <4>3. h[t] = f[One(t)] + p[r]
        <5> HIDE DEF Part
        <5> QED BY <3>2, <4>1
      <4>4. r \in SUBSET r
        OBVIOUS
      <4> HIDE DEF h, Part, V
      <4> QED BY <4>2, <4>3, <4>4
    <3> QED BY <3>1, <3>2
  <2>3. h \in [SUBSET s -> Int]
    <3> HIDE DEF Part
    <3> QED BY <2>2
  <2>4. ASSUME NEW t \in SUBSET s, t # {}
        PROVE  h[Rest(t)] = Part(Rest(t))[Rest(t)]
    <3>1. PICK u \in SUBSET s : u = Rest(t)
      BY <2>1, <2>4
    <3>2. PICK p : p = Part(u) /\ IsSum(p, u, f)
      BY <2>1, <2>4, <3>1
    <3>3. CASE u = {}
      BY <3>1, <3>2, <3>3 DEF IsSum
    <3>4. CASE u # {}
      <4>1. PICK v, q : v = Rest(u) /\ q = Part(v) /\ IsSum(q, v, f)
        BY <2>1, <3>4
      <4>2. v \subseteq u /\ IsFiniteSet(v)
        BY <3>4, <4>1, RestIsLess, FS_Subset
      <4>3. p[v] = q[v]
        <5> HIDE DEF Part, h, V
        <5> QED BY <3>2, <4>1, <4>2, SumUnique
      <4>4. p[u] = f[One(u)] + p[v]
        BY <3>2, <3>4, <4>1 DEF IsSum
      <4>5. h[u] = f[One(u)] + q[v]
        <5> HIDE DEF Part
        <5> QED BY <3>4, <4>1
      <4> QED BY <3>1, <3>2, <4>3, <4>4, <4>5
    <3> QED BY <3>3, <3>4
  <2>5. IsSum(h, s, f)
    <3>1. ASSUME NEW t \in SUBSET s, t # {} PROVE h[t] = f[One(t)] + Part(Rest(t))[Rest(t)]
      <4> HIDE DEF Part
      <4> QED BY <3>1
    <3>2. h[{}] = 0
      OBVIOUS
    <3> HIDE DEF h, Part
    <3> QED BY <2>4, <3>1, <3>2 DEF IsSum
  <2> HIDE DEF h
  <2> QED BY <2>3, <2>5
<1>2. \A s \in SUBSET S : (\A t \in SUBSET s : t # s => t \in V) => s \in V
  BY <1>1
<1> HIDE DEF V
<1>3. \A s \in SUBSET S : s \in V
  BY <1>2, SubsetInduction, Zenon
<1>4. S \in V
  BY <1>3
<1> QED BY <1>4 DEF V

\* g sums integers, and finitely many.
SumsUp(g, S, f) ==
  /\ g \in [SUBSET S -> Int] /\ IsSum(g, S, f)
  /\ IsFiniteSet(S) /\ \A y \in S : f[y] \in Int

\* A sum may be taken apart at any of its terms.
LEMMA SumAny ==
  ASSUME NEW S, NEW g, NEW f, SumsUp(g, S, f), NEW x \in S
  PROVE  g[S] = f[x] + g[S \ {x}]
<1> SUFFICES ASSUME g \in [SUBSET S -> Int], IsSum(g, S, f),
                    IsFiniteSet(S), \A y \in S : f[y] \in Int
             PROVE  g[S] = f[x] + g[S \ {x}]
  BY DEF SumsUp
<1> DEFINE V == {s \in SUBSET S : \A y \in s : g[s] = f[y] + g[s \ {y}]}
<1>1. ASSUME NEW s \in SUBSET S, \A t \in SUBSET s : t # s => t \in V, NEW y \in s
      PROVE  g[s] = f[y] + g[s \ {y}]
  <2>1. PICK z \in s : z = One(s) /\ g[s] = f[z] + g[s \ {z}]
    BY RestIsLess DEF IsSum, Rest
  <2>2. CASE z # y
    <3>1. s \ {z} \in V /\ s \ {y} \in V /\ y \in s \ {z} /\ z \in s \ {y}
      BY <1>1, <2>2
    <3>2. (s \ {z}) \ {y} = (s \ {y}) \ {z}
      OBVIOUS
    <3>3. PICK r \in SUBSET S : r = (s \ {z}) \ {y}
      OBVIOUS
    <3>4. g[s \ {z}] = f[y] + g[r] /\ g[s \ {y}] = f[z] + g[r]
      BY <3>1, <3>2, <3>3
    <3>5. f[y] \in Int /\ f[z] \in Int /\ g[r] \in Int
      BY <3>3
    <3> QED BY <2>1, <3>4, <3>5
  <2> QED BY <2>1, <2>2
<1>2. \A s \in SUBSET S : (\A t \in SUBSET s : t # s => t \in V) => s \in V
  BY <1>1
<1> HIDE DEF V
<1>3. \A s \in SUBSET S : s \in V
  BY <1>2, SubsetInduction, Zenon
<1>4. S \in V
  BY <1>3
<1> QED BY <1>4 DEF V

LEMMA TotalIs ==
  ASSUME NEW S, IsFiniteSet(S), NEW f, \A x \in S : f[x] \in Int
  PROVE  \E g \in [SUBSET S -> Int] : IsSum(g, S, f) /\ Total(f, S) = g[S]
<1>1. PICK g \in [SUBSET S -> Int] : IsSum(g, S, f)
  BY SumExists
<1>2. PICK h : h = (CHOOSE k : IsSum(k, S, f)) /\ IsSum(h, S, f)
  BY <1>1
<1>3. h[S] = g[S]
  BY <1>1, <1>2, SumUnique
<1> QED BY <1>1, <1>2, <1>3 DEF Total

LEMMA TotalType ==
  ASSUME NEW S, IsFiniteSet(S), NEW f, \A x \in S : f[x] \in Int
  PROVE  Total(f, S) \in Int
<1>1. PICK g \in [SUBSET S -> Int] : Total(f, S) = g[S]
  BY TotalIs
<1> QED BY <1>1

LEMMA TotalEmpty ==
  ASSUME NEW f
  PROVE  Total(f, {}) = 0
<1>1. IsFiniteSet({}) /\ \A x \in {} : f[x] \in Int
  BY FS_EmptySet
<1>2. PICK g : IsSum(g, {}, f) /\ Total(f, {}) = g[{}]
  BY <1>1, TotalIs
<1> QED BY <1>2 DEF IsSum

LEMMA TotalSame ==
  ASSUME NEW S, IsFiniteSet(S), NEW f, \A x \in S : f[x] \in Int,
         NEW e, \A x \in S : e[x] = f[x]
  PROVE  Total(e, S) = Total(f, S)
<1>1. PICK g : IsSum(g, S, f) /\ Total(f, S) = g[S]
  BY TotalIs
<1>2. PICK h : IsSum(h, S, e) /\ Total(e, S) = h[S]
  BY TotalIs
<1> QED BY <1>1, <1>2, SumUnique

LEMMA TotalMore ==
  ASSUME NEW S, IsFiniteSet(S), NEW f, NEW x, x \notin S,
         \A y \in S \cup {x} : f[y] \in Int
  PROVE  Total(f, S \cup {x}) = f[x] + Total(f, S)
<1>1. PICK T : T = S \cup {x}
  OBVIOUS
<1>2. IsFiniteSet(T) /\ x \in T /\ T \ {x} = S /\ \A y \in T : f[y] \in Int
  BY <1>1, FS_AddElement
<1>3. PICK g \in [SUBSET T -> Int] : IsSum(g, T, f) /\ Total(f, T) = g[T]
  BY <1>2, TotalIs
<1>4. PICK h \in [SUBSET S -> Int] : IsSum(h, S, f) /\ Total(f, S) = h[S]
  BY TotalIs
<1>5. g[S] = h[S]
  BY <1>1, <1>3, <1>4, SumUnique
<1>6. g[T] = f[x] + g[T \ {x}]
  <2>1. SumsUp(g, T, f)
    BY <1>2, <1>3 DEF SumsUp
  <2>2. x \in T
    BY <1>1
  <2> QED BY <2>1, <2>2, SumAny
<1> QED BY <1>1, <1>2, <1>3, <1>4, <1>5, <1>6

LEMMA OneLess ==
  ASSUME NEW s, s # {}
  PROVE  \E x \in s, r \in SUBSET s : r = s \ {x} /\ r # s
<1>1. One(s) \in s /\ Rest(s) \in SUBSET s /\ Rest(s) # s /\ Rest(s) = s \ {One(s)}
  BY RestIsLess DEF Rest
<1> QED BY <1>1, Zenon

LEMMA TotalAt ==
  ASSUME NEW S, IsFiniteSet(S), NEW f, \A y \in S : f[y] \in Int, NEW x \in S
  PROVE  Total(f, S) = f[x] + Total(f, S \ {x})
<1>1. PICK R : R = S \ {x}
  OBVIOUS
<1>2. IsFiniteSet(R) /\ x \notin R /\ R \cup {x} = S /\ \A y \in R \cup {x} : f[y] \in Int
  BY <1>1, FS_Subset
<1>3. Total(f, R \cup {x}) = f[x] + Total(f, R)
  BY <1>2, TotalMore
<1> QED BY <1>1, <1>2, <1>3

\* The sum of a sum, term by term.
LEMMA TotalAdd ==
  ASSUME NEW S, IsFiniteSet(S), NEW f, NEW g, NEW h,
         \A x \in S : f[x] \in Int /\ g[x] \in Int /\ h[x] = f[x] + g[x]
  PROVE  Total(h, S) = Total(f, S) + Total(g, S)
<1> DEFINE V == {s \in SUBSET S : Total(h, s) = Total(f, s) + Total(g, s)}
<1>1. ASSUME NEW s \in SUBSET S, \A t \in SUBSET s : t # s => t \in V
      PROVE  Total(h, s) = Total(f, s) + Total(g, s)
  <2>1. CASE s = {}
    BY <2>1, TotalEmpty
  <2>2. CASE s # {}
    <3>1. PICK x \in s, r \in SUBSET s : r = s \ {x} /\ r # s
      <4>1. One(s) \in s /\ Rest(s) \in SUBSET s /\ Rest(s) # s
        BY <2>2, RestIsLess
      <4>2. Rest(s) = s \ {One(s)}
        BY DEF Rest
      <4> QED BY <4>1, <4>2, Zenon
    <3>2. Total(h, r) = Total(f, r) + Total(g, r)
      BY <1>1, <3>1
    <3>3. IsFiniteSet(s) /\ IsFiniteSet(r)
      BY FS_Subset
    <3>4. PICK a \in Int, b \in Int : a = f[x] /\ b = g[x] /\ h[x] = a + b
      OBVIOUS
    <3>5. \A y \in s : f[y] \in Int /\ g[y] \in Int /\ h[y] \in Int
      OBVIOUS
    <3>6. Total(f, r) \in Int /\ Total(g, r) \in Int
      BY <3>3, <3>5, TotalType
    <3>7. Total(f, s) = a + Total(f, r)
      BY <3>1, <3>3, <3>4, <3>5, TotalAt
    <3>8. Total(g, s) = b + Total(g, r)
      BY <3>1, <3>3, <3>4, <3>5, TotalAt
    <3>9. Total(h, s) = (a + b) + Total(h, r)
      BY <3>1, <3>3, <3>4, <3>5, TotalAt
    <3> QED BY <3>2, <3>6, <3>7, <3>8, <3>9
  <2> QED BY <2>1, <2>2
<1>2. \A s \in SUBSET S : (\A t \in SUBSET s : t # s => t \in V) => s \in V
  BY <1>1
<1> HIDE DEF V
<1>3. \A s \in SUBSET S : s \in V
  BY <1>2, SubsetInduction, Zenon
<1>9. S \in V
  BY <1>3
<1> QED BY <1>9 DEF V

\* Terms that are zero need not be summed.
LEMMA TotalPart ==
  ASSUME NEW S, IsFiniteSet(S), NEW f, \A x \in S : f[x] \in Int,
         NEW R \in SUBSET S, \A x \in S \ R : f[x] = 0
  PROVE  Total(f, S) = Total(f, R)
<1> DEFINE V == {s \in SUBSET S : Total(f, s) = Total(f, s \cap R)}
<1>1. ASSUME NEW s \in SUBSET S, \A t \in SUBSET s : t # s => t \in V
      PROVE  Total(f, s) = Total(f, s \cap R)
  <2>1. CASE s = {}
    BY <2>1
  <2>2. CASE s # {}
    <3>1. PICK x \in s, r \in SUBSET s : r = s \ {x} /\ r # s
      <4>1. One(s) \in s /\ Rest(s) \in SUBSET s /\ Rest(s) # s
        BY <2>2, RestIsLess
      <4>2. Rest(s) = s \ {One(s)}
        BY DEF Rest
      <4> QED BY <4>1, <4>2, Zenon
    <3>2. Total(f, r) = Total(f, r \cap R)
      BY <1>1, <3>1
    <3>3. IsFiniteSet(s) /\ IsFiniteSet(s \cap R) /\ IsFiniteSet(r)
      BY FS_Subset
    <3>4. \A y \in s : f[y] \in Int
      OBVIOUS
    <3>5. Total(f, s) = f[x] + Total(f, r) /\ Total(f, r) \in Int
      BY <3>1, <3>3, <3>4, TotalAt, TotalType
    <3>6. CASE x \in R
      <4>1. (s \cap R) \ {x} = r \cap R /\ x \in s \cap R /\ \A y \in s \cap R : f[y] \in Int
        BY <3>1, <3>4, <3>6
      <4>2. Total(f, s \cap R) = f[x] + Total(f, (s \cap R) \ {x})
        BY <3>3, <4>1, TotalAt
      <4> QED BY <3>2, <3>5, <4>1, <4>2
    <3>7. CASE x \notin R
      <4>1. s \cap R = r \cap R
        BY <3>1, <3>7
      <4>2. f[x] = 0
        BY <3>7
      <4>3. Total(f, s \cap R) = Total(f, r \cap R)
        BY <4>1, Zenon
      <4> QED BY <3>2, <3>5, <4>2, <4>3
    <3> QED BY <3>6, <3>7
  <2> QED BY <2>1, <2>2
<1>2. \A s \in SUBSET S : (\A t \in SUBSET s : t # s => t \in V) => s \in V
  BY <1>1
<1> HIDE DEF V
<1>3. \A s \in SUBSET S : s \in V
  BY <1>2, SubsetInduction, Zenon
<1>9. S \in V
  BY <1>3
<1>4. S \cap R = R
  OBVIOUS
<1> QED BY <1>4, <1>9 DEF V

\* Smaller terms, smaller sum; one term smaller, a smaller sum.
LEMMA TotalAtMost ==
  ASSUME NEW S, IsFiniteSet(S), NEW f, NEW g,
         \A x \in S : f[x] \in Int /\ g[x] \in Int /\ f[x] <= g[x]
  PROVE  Total(f, S) <= Total(g, S)
<1> DEFINE V == {s \in SUBSET S : Total(f, s) <= Total(g, s)}
<1>1. ASSUME NEW s \in SUBSET S, \A t \in SUBSET s : t # s => t \in V
      PROVE  Total(f, s) <= Total(g, s)
  <2>1. CASE s = {}
    BY <2>1, TotalEmpty
  <2>2. CASE s # {}
    <3>1. PICK x \in s, r \in SUBSET s : r = s \ {x} /\ r # s
      <4>1. One(s) \in s /\ Rest(s) \in SUBSET s /\ Rest(s) # s
        BY <2>2, RestIsLess
      <4>2. Rest(s) = s \ {One(s)}
        BY DEF Rest
      <4> QED BY <4>1, <4>2, Zenon
    <3>2. Total(f, r) <= Total(g, r)
      BY <1>1, <3>1
    <3>3. IsFiniteSet(s) /\ IsFiniteSet(r)
      BY FS_Subset
    <3>4. PICK a \in Int, b \in Int : a = f[x] /\ b = g[x] /\ a <= b
      OBVIOUS
    <3>5. \A y \in s : f[y] \in Int /\ g[y] \in Int
      OBVIOUS
    <3>6. Total(f, r) \in Int /\ Total(g, r) \in Int
      BY <3>3, <3>5, TotalType
    <3>7. Total(f, s) = a + Total(f, r)
      BY <3>1, <3>3, <3>4, <3>5, TotalAt
    <3>8. Total(g, s) = b + Total(g, r)
      BY <3>1, <3>3, <3>4, <3>5, TotalAt
    <3> QED BY <3>2, <3>4, <3>6, <3>7, <3>8
  <2> QED BY <2>1, <2>2
<1>2. \A s \in SUBSET S : (\A t \in SUBSET s : t # s => t \in V) => s \in V
  BY <1>1
<1> HIDE DEF V
<1>3. \A s \in SUBSET S : s \in V
  BY <1>2, SubsetInduction, Zenon
<1>9. S \in V
  BY <1>3
<1> QED BY <1>9 DEF V

LEMMA TotalLess ==
  ASSUME NEW S, IsFiniteSet(S), NEW f, NEW g,
         \A x \in S : f[x] \in Int /\ g[x] \in Int /\ f[x] <= g[x],
         NEW x \in S, f[x] < g[x]
  PROVE  Total(f, S) < Total(g, S)
<1>1. PICK r \in SUBSET S : r = S \ {x}
  OBVIOUS
<1>2. IsFiniteSet(r)
  BY FS_Subset
<1>3. Total(f, r) <= Total(g, r) /\ Total(f, r) \in Int /\ Total(g, r) \in Int
  BY <1>2, TotalAtMost, TotalType
<1>4. PICK a \in Int, b \in Int : a = f[x] /\ b = g[x] /\ a < b
  OBVIOUS
<1>5. Total(f, S) = a + Total(f, r)
  BY <1>1, <1>4, TotalAt
<1>6. Total(g, S) = b + Total(g, r)
  BY <1>1, <1>4, TotalAt
<1> QED BY <1>3, <1>4, <1>5, <1>6

\* A finite set of numbers that is not empty has a greatest element.
LEMMA MaxIsGreatest ==
  ASSUME NEW S, IsFiniteSet(S), S \subseteq Nat, S # {}
  PROVE  Max(S) \in S /\ \A x \in S : x <= Max(S)
<1> DEFINE V == {s \in SUBSET S : s # {} => \E m \in s : \A x \in s : x <= m}
<1>1. ASSUME NEW s \in SUBSET S, \A t \in SUBSET s : t # s => t \in V, s # {}
      PROVE  \E m \in s : \A x \in s : x <= m
  <2>1. PICK x \in s, r \in SUBSET s : r = s \ {x} /\ r # s
    BY <1>1, OneLess, Zenon
  <2>2. r \in V
    BY <1>1, <2>1
  <2>3. CASE r = {}
    <3>1. \A y \in s : y = x
      BY <2>1, <2>3
    <3> QED BY <3>1
  <2>4. CASE r # {}
    <3>1. PICK m \in r : \A y \in r : y <= m
      BY <2>2, <2>4
    <3>2. CASE x <= m
      BY <2>1, <3>1, <3>2
    <3>3. CASE ~(x <= m)
      <4>1. \A y \in r : y <= x
        BY <3>1, <3>3
      <4> QED BY <2>1, <4>1
    <3> QED BY <3>2, <3>3
  <2> QED BY <2>3, <2>4
<1>2. \A s \in SUBSET S : (\A t \in SUBSET s : t # s => t \in V) => s \in V
  BY <1>1
<1> HIDE DEF V
<1>3. \A s \in SUBSET S : s \in V
  BY <1>2, SubsetInduction, Zenon
<1>9. S \in V
  BY <1>3
<1>4. \E m \in S : \A x \in S : x <= m
  BY <1>9 DEF V
<1>5. \E m \in S : \A x \in S : m >= x
  BY <1>4
<1> QED BY <1>5 DEF Max

-----------------------------------------------------------------------------
(* Client ids are finitely many, and sums over orders are sums.            *)

LEMMA CidFinite == IsFiniteSet(Cid)
<1>1. IsFiniteSet(1 .. MaxQty) /\ IsFiniteSet(0 .. MaxEpoch)
  BY LimitsAssumption, FS_Interval
<1>2. IsFiniteSet({"buy", "sell"})
  <2>1. IsFiniteSet({"buy"}) /\ {"buy"} \cup {"sell"} = {"buy", "sell"}
    BY FS_Singleton
  <2> QED BY <2>1, FS_AddElement
<1>3. IsFiniteSet(Intents)
  BY <1>1, <1>2, FS_Product DEF Intents
<1> QED BY <1>1, <1>3, FS_Product DEF Cid

LEMMA JournalCid == J!Cid = Cid
  BY DEF J!Cid, Cid

LEMMA OrderIs ==
  ASSUME NEW c \in Cid
  PROVE  /\ Side(c) \in {"buy", "sell"} /\ Qty(c) \in Nat /\ Qty(c) > 0 /\ Qty(c) <= MaxQty
         /\ J!Side(c) = Side(c) /\ J!Qty(c) = Qty(c)
<1>1. PICK s \in {"buy", "sell"}, n \in 1 .. MaxQty, e \in 0 .. MaxEpoch : c = <<<<s, n>>, e>>
  BY DEF Cid, Intents
<1>2. c[1] \in Intents /\ c[1][1] = s /\ c[1][2] = n
  BY <1>1 DEF Intents
<1>3. J!Side(c) = s /\ J!Qty(c) = n
  BY <1>2 DEF J!Side, J!Qty, SideOf, QtyOf
<1> QED BY <1>1, <1>2, <1>3, LimitsAssumption DEF Side, Qty

LEMMA SignedIs ==
  ASSUME NEW c \in Cid, NEW n \in Int
  PROVE  Signed(c, n) \in Int /\ Signed(c, 0) = 0
  BY DEF Signed

\* Net is the sum of the signed quantities.
Shares(q) == [c \in Cid |-> Signed(c, q[c])]

LEMMA NetOver ==
  ASSUME NEW q \in Quantities, NEW S, S = {c \in Cid : q[c] # 0}
  PROVE  Net(q) = Total(Shares(q), S)
<1> DEFINE iter == CHOOSE g : g = [s \in SUBSET S |->
                     IF s = {} THEN 0 ELSE Signed(One(s), q[One(s)]) + g[Rest(s)]]
<1>1. Net(q) = iter[S]
  BY Zenon DEF Net, MapThenSumSet, MapThenFoldSet, One, Rest
<1>0. S \subseteq Cid /\ IsFiniteSet(S) /\ \A c \in S : Shares(q)[c] \in Int
  BY CidFinite, FS_Subset, SignedIs DEF Quantities, Shares
<1>2. PICK g \in [SUBSET S -> Int] : IsSum(g, S, Shares(q)) /\ Total(Shares(q), S) = g[S]
  BY <1>0, TotalIs
<1>3. \A s \in SUBSET S : s # {} => Shares(q)[One(s)] = Signed(One(s), q[One(s)])
  BY <1>0, RestIsLess DEF Shares
<1>4. g = [s \in SUBSET S |-> IF s = {} THEN 0 ELSE Signed(One(s), q[One(s)]) + g[Rest(s)]]
  BY <1>2, <1>3 DEF IsSum
<1>5. iter = [s \in SUBSET S |-> IF s = {} THEN 0 ELSE Signed(One(s), q[One(s)]) + iter[Rest(s)]]
  BY <1>4, Zenon
<1> HIDE DEF iter
<1>6. IsSum(iter, S, Shares(q))
  BY <1>3, <1>5 DEF IsSum
<1>7. iter[S] = g[S]
  BY <1>0, <1>2, <1>6, SumUnique
<1> QED BY <1>1, <1>2, <1>7

LEMMA SharesIs ==
  ASSUME NEW q \in Quantities
  PROVE  /\ \A c \in Cid : Shares(q)[c] = Signed(c, q[c]) /\ Shares(q)[c] \in Int
         /\ \A c \in Cid : q[c] = 0 => Shares(q)[c] = 0
  BY SignedIs DEF Shares, Quantities

LEMMA NetIs ==
  ASSUME NEW q \in Quantities
  PROVE  Net(q) = Total(Shares(q), Cid) /\ Net(q) \in Int
<1>1. PICK S \in SUBSET Cid : S = {c \in Cid : q[c] # 0}
  OBVIOUS
<1>2. Net(q) = Total(Shares(q), S)
  BY <1>1, NetOver
<1>3. \A c \in Cid \ S : Shares(q)[c] = 0
  BY <1>1, SharesIs
<1>4. \A c \in Cid : Shares(q)[c] \in Int
  BY SharesIs
<1>5. Total(Shares(q), Cid) = Total(Shares(q), S)
  BY <1>3, <1>4, CidFinite, TotalPart
<1> QED BY <1>2, <1>4, <1>5, CidFinite, TotalType

-----------------------------------------------------------------------------
(* Types, and what the journal's operators make of one row.                *)

LEMMA FreshTypes ==
  /\ NoQty \in Quantities /\ J!NoRow \in J!Row /\ J!NoGates \in J!Gates
  /\ IdlePass \in PassState /\ [IdlePass EXCEPT !.pc = "fallback"] \in PassState
<1>1. NoQty \in Quantities
  BY DEF NoQty, Quantities
<1>2. J!NoRow \in J!Row
  BY DEF J!NoRow, J!Row, J!RowStates
<1>3. J!NoGates \in J!Gates
  BY DEF J!NoGates, J!Gates
<1>4. IdlePass \in PassState
  BY <1>1, <1>3, WantsAssumption DEF IdlePass, PassState, Steps
<1> QED BY <1>1, <1>2, <1>3, <1>4 DEF PassState, Steps

LEMMA JournalCardinality ==
  ASSUME NEW S PROVE J!Cardinality(S) = Cardinality(S)
  BY Zenon DEF J!Cardinality, Cardinality

LEMMA GatesType ==
  ASSUME NEW rs \in [Cid -> J!Row], NEW model
  PROVE  J!GatesOf(rs, model) \in J!Gates
<1>1. PICK S \in SUBSET Cid : S = J!Present(rs)
  BY JournalCid DEF J!Present
<1>2. J!Epoch(rs) \in Nat
  <2>1. Cardinality(S) \in Nat
    BY CidFinite, FS_Subset, FS_CardinalityType
  <2>2. J!Epoch(rs) = Cardinality(S)
    BY <1>1, JournalCardinality, Zenon DEF J!Epoch
  <2> QED BY <2>1, <2>2
<1>3. J!OpenRows(rs) \in SUBSET J!Cid
  BY DEF J!OpenRows
<1>4. J!UnfoldedFreeze(rs, model) \in BOOLEAN
  BY DEF J!UnfoldedFreeze
<1> QED BY <1>2, <1>3, <1>4 DEF J!GatesOf, J!Gates

\* The fold lift writes notes only.
LEMMA LiftedRow ==
  ASSUME NEW rs \in [Cid -> J!Row], NEW model
  PROVE  /\ J!Lifted(rs, model) \in [Cid -> J!Row]
         /\ \A c \in Cid : /\ J!Lifted(rs, model)[c].state = rs[c].state
                           /\ J!Lifted(rs, model)[c].filled = rs[c].filled
                           /\ J!Lifted(rs, model)[c].age = rs[c].age
                           /\ J!Lifted(rs, model)[c].boid = rs[c].boid
  BY JournalCid DEF J!Lifted, J!MarkFolded, J!Row

\* An order's records keep their relation when only the note changes.
LEMMA OrderKept ==
  ASSUME NEW v, NEW row, NEW n, NEW c, Order(v, row, n, c),
         NEW row2, row2.state = row.state, row2.filled = row.filled, row2.age = row.age
  PROVE  Order(v, row2, n, c)
  BY DEF Order

\* The poll stores what the venue traded, in the journal too.
Accounted(v, row, n, c, row2) ==
  /\ Order(v, row2, v.done, c) /\ row2 \in J!Row
  /\ row2.age = row.age /\ row2.boid = row.boid /\ row2.note = row.note
  /\ row2.state = IF v.done # n THEN "filled" ELSE row.state
  /\ row2.state = "sending" => v.done = 0

LEMMA PolledRow ==
  ASSUME NEW v, NEW row \in J!Row, NEW n \in Nat, NEW c \in Cid, Order(v, row, n, c),
         NEW row2, row2 = J!FoldExecution(c, row, v.done - n)
  PROVE  Accounted(v, row, n, c, row2)
<1>1. Qty(c) \in Nat /\ Qty(c) > 0 /\ J!Qty(c) = Qty(c)
  BY OrderIs
<1>2. CASE v.done = n
  <2>1. row2 = row
    BY <1>1, <1>2 DEF J!FoldExecution, Order
  <2> QED BY <1>1, <1>2, <2>1 DEF Order, Accounted
<1>3. CASE v.done # n
  <2>1. n = 0 /\ v.done = Qty(c) /\ v.at = "filled" /\ row.state # "absent" /\ row.filled = 0
    BY <1>1, <1>3 DEF Order
  <2>4. PICK q \in Nat : q = Qty(c) /\ q > 0
    BY <1>1
  <2>5. PICK d, w : d = v.done - n /\ w = row.filled + d
    OBVIOUS
  <2>6. row2 = IF d = 0 \/ row.state = "absent" THEN row
               ELSE [row EXCEPT !.filled = w, !.state = IF w >= q THEN "filled" ELSE row.state]
    BY <1>1, <2>4, <2>5, Zenon DEF J!FoldExecution
  <2>7. d = q /\ w = q
    BY <2>1, <2>4, <2>5
  <2>8. ~(d = 0 \/ row.state = "absent") /\ w >= q
    BY <2>1, <2>4, <2>7
  <2>2. row2 = [row EXCEPT !.filled = Qty(c), !.state = "filled"]
    BY <2>4, <2>6, <2>7, <2>8
  <2>3. row2 \in J!Row /\ row2.state = "filled" /\ row2.filled = Qty(c) /\ row2.age = row.age
        /\ row2.boid = row.boid /\ row2.note = row.note
    BY <1>1, <2>2 DEF J!Row, J!RowStates
  <2> QED BY <1>1, <1>3, <2>1, <2>3 DEF Order, Accounted
<1> QED BY <1>2, <1>3

\* The recovery step opens a listed row and abandons an old one.
LEMMA ResolvedRow ==
  ASSUME NEW row \in J!Row, NEW v, NEW n, NEW c \in Cid, Order(v, row, n, c),
         NEW r, NEW row2,
         row2 = J!Resolved(r, c), rows[c] = row,
         pass[r].pollOk /\ row.state = "sending" /\ row.age = "old" => v.done = 0
  PROVE  /\ row2 \in J!Row /\ Order(v, row2, n, c)
         /\ row.state = "filled" => row2.state = "filled"
<1>1. Qty(c) \in Nat /\ Qty(c) > 0
  BY OrderIs
<1>2. CASE ~J!Stale(c)
  BY <1>2 DEF J!Resolved
<1>3. CASE J!Stale(c) /\ c \in pass[r].listed
  <2>1. row2 = [row EXCEPT !.state = "open", !.boid = TRUE]
    BY <1>3 DEF J!Resolved, J!Absent
  <2>2. row2 \in J!Row /\ row2.state = "open" /\ row2.filled = row.filled /\ row2.age = row.age
    BY <2>1 DEF J!Row, J!RowStates, J!Open
  <2> QED BY <1>1, <1>3, <2>2 DEF Order, J!Open, J!Stale
<1>4. CASE J!Stale(c) /\ c \notin pass[r].listed /\ ~J!Absent(r, c)
  BY <1>4 DEF J!Resolved
<1>5. CASE J!Stale(c) /\ c \notin pass[r].listed /\ J!Absent(r, c)
  <2>1. row2 = J!AbandonedRow(c)
    BY <1>5 DEF J!Resolved
  <2>2. row2 = [row EXCEPT !.state = "abandoned", !.note = "text"]
    BY <2>1 DEF J!AbandonedRow
  <2>3. row2 \in J!Row /\ row2.state = "abandoned" /\ row2.filled = row.filled
    BY <2>2 DEF J!Row, J!RowStates
  <2>4. row.state = "sending" /\ row.age = "old" /\ v.done = 0
    BY <1>5 DEF J!Stale, J!Absent
  <2> QED BY <1>1, <2>3, <2>4 DEF Order
<1> QED BY <1>2, <1>3, <1>4, <1>5

\* A pass that changes, and the lock it takes, keeps or leaves.
LEMMA PassTo ==
  ASSUME Typed, NEW p \in Sweeps, NEW r, Becomes(p, r)
  PROVE  /\ pass'[p] = r /\ \A q \in Sweeps : q # p => pass'[q] = pass[q]
         /\ r \in PassState => pass' \in [Sweeps -> PassState]
  BY DEF Typed, Becomes

LEMMA LockStep ==
  ASSUME Typed, Locks, NEW p \in Sweeps, NEW r \in PassState, Becomes(p, r),
         r.pc \in UnderLock => holder \subseteq {p} /\ holder' = {p},
         r.pc \notin UnderLock => holder' = holder \ {p},
         r.pc \in {"sending", "acking"} => r.cid \in Cid,
         r.pollOk => r.pc \in UnderLock
  PROVE  Locks'
<1>1. pass'[p] = r /\ \A q \in Sweeps : q # p => pass'[q] = pass[q]
  BY PassTo
<1>2. (holder \subseteq Sweeps /\ \A q, s \in holder : q = s)'
  BY DEF Locks
<1>3. \A q \in Sweeps : (q \in holder') <=> (pass'[q].pc \in UnderLock)
  BY <1>1 DEF Locks
<1>4. \A q \in Sweeps : pass'[q].pc \in {"sending", "acking"} => pass'[q].cid \in Cid
  BY <1>1 DEF Locks
<1>5. \A q \in Sweeps : pass'[q].pollOk => q \in holder'
  BY <1>1, <1>3 DEF Locks
<1> QED BY <1>2, <1>3, <1>4, <1>5 DEF Locks

-----------------------------------------------------------------------------
(* What each step of a pass makes of the pass.                             *)

\* The record of a pass after its late poll, and once it has read its inputs.
LEMMA LatePollPass ==
  ASSUME NEW z \in PassState, NEW r, r = [z EXCEPT !.pc = "resolving", !.pollOk = TRUE]
  PROVE  r \in PassState /\ r.pc = "resolving" /\ r.pollOk = TRUE
<1>1. "resolving" \in Steps
  BY DEF Steps
<1> QED BY <1>1 DEF PassState

LEMMA InputsPass ==
  ASSUME NEW z \in PassState, NEW o \in BOOLEAN, NEW f \in BOOLEAN, NEW w \in Wants,
         NEW q \in Quantities,
         NEW r, r = [z EXCEPT !.pc = "waiting", !.owner = o, !.fast = f, !.want = w, !.model = q]
  PROVE  r \in PassState
<1>1. "waiting" \in Steps
  BY DEF Steps
<1> QED BY <1>1 DEF PassState

LEMMA GatherIs ==
  ASSUME Typed, NEW p \in Sweeps, NEW fast \in BOOLEAN, Gather(p, fast)
  PROVE  \E r \in PassState, got \in Cached :
           /\ Becomes(p, r) /\ cache' = got
           /\ r.pc = "waiting" /\ r.cid = <<>> /\ ~r.pollOk /\ r.fast = fast
           /\ r.model = sleeve /\ r.want = want
           /\ fast => r.gates = got.gates /\ r.exe = got.exe /\ book.clean
           /\ r.late => ~fast /\ regime.close
           /\ \/ cache # NoCache /\ got = cache /\ rows' = rows
              \/ /\ got.gates = J!GatesOf(rows, sleeve) /\ got.exe = Net(stored)
                 /\ rows' = J!Lifted(rows, sleeve)
<1>1. PICK g \in J!Gates, n \in Int : g = J!GatesOf(rows, sleeve) /\ n = Net(stored)
  BY GatesType, NetIs DEF Typed
<1>10. PICK hit \in {FALSE, fast /\ cache # NoCache} :
        LET got == IF hit THEN cache ELSE [at |-> "held", gates |-> g, exe |-> n]
            inputs == [IdlePass EXCEPT !.pc = "waiting", !.owner = ~fast /\ book.clean,
                         !.fast = fast, !.want = want, !.model = sleeve]
        IN /\ rows' = IF hit THEN rows ELSE J!Lifted(rows, sleeve)
           /\ cache' = got
           /\ \/ /\ fast \/ regime.close
                 /\ Becomes(p, [inputs EXCEPT !.late = ~fast, !.gates = got.gates,
                                              !.exe = got.exe])
              \/ ~fast /\ Becomes(p, inputs)
  BY <1>1, Zenon DEF Gather
<1>11. PICK got : got = IF hit THEN cache ELSE [at |-> "held", gates |-> g, exe |-> n]
  OBVIOUS
<1>12. PICK inputs :
        inputs = [IdlePass EXCEPT !.pc = "waiting", !.owner = ~fast /\ book.clean,
                    !.fast = fast, !.want = want, !.model = sleeve]
  OBVIOUS
<1>13. PICK r : /\ Becomes(p, r)
                /\ \/ /\ fast \/ regime.close
                      /\ r = [inputs EXCEPT !.late = ~fast, !.gates = got.gates, !.exe = got.exe]
                   \/ ~fast /\ r = inputs
  BY <1>10, <1>11, <1>12, Zenon
<1>2. /\ hit \in BOOLEAN /\ (hit => fast /\ cache # NoCache)
      /\ got = IF hit THEN cache ELSE [at |-> "held", gates |-> g, exe |-> n]
      /\ rows' = IF hit THEN rows ELSE J!Lifted(rows, sleeve)
      /\ cache' = got /\ Becomes(p, r)
      /\ inputs = [IdlePass EXCEPT !.pc = "waiting", !.owner = ~fast /\ book.clean,
                     !.fast = fast, !.want = want, !.model = sleeve]
      /\ \/ /\ fast \/ regime.close
            /\ r = [inputs EXCEPT !.late = ~fast, !.gates = got.gates, !.exe = got.exe]
         \/ ~fast /\ r = inputs
  <2>1. hit \in BOOLEAN /\ (hit => fast /\ cache # NoCache)
    BY <1>10
  <2>2. rows' = (IF hit THEN rows ELSE J!Lifted(rows, sleeve)) /\ cache' = got
    BY <1>10, <1>11, Zenon
  <2> QED BY <2>1, <2>2, <1>11, <1>12, <1>13, Zenon
<1>3. got \in Cached
  BY <1>1, <1>2 DEF Typed, Cached
<1>4. PICK o \in BOOLEAN : o = (~fast /\ book.clean)
  OBVIOUS
<1>5. inputs \in PassState
  <2>1. inputs = [IdlePass EXCEPT !.pc = "waiting", !.owner = o, !.fast = fast,
                                  !.want = want, !.model = sleeve]
    BY <1>2, <1>4, Zenon
  <2>2. want \in Wants /\ sleeve \in Quantities
    BY DEF Typed
  <2>3. IdlePass \in PassState
    BY FreshTypes
  <2> HIDE DEF IdlePass
  <2> QED BY <2>1, <2>2, <2>3, InputsPass
<1>6. /\ inputs.pc = "waiting" /\ inputs.cid = <<>> /\ inputs.pollOk = FALSE /\ inputs.fast = fast
      /\ inputs.model = sleeve /\ inputs.want = want /\ inputs.late = FALSE
  BY <1>2 DEF IdlePass
<1>7. fast => book.clean
  BY Zenon DEF Gather, At
<1>8. CASE r = inputs /\ ~fast
  BY <1>1, <1>2, <1>3, <1>5, <1>6, <1>8
<1>9. CASE /\ fast \/ regime.close
           /\ r = [inputs EXCEPT !.late = ~fast, !.gates = got.gates, !.exe = got.exe]
  <2>1. r \in PassState
    BY <1>3, <1>5, <1>9 DEF PassState, Cached
  <2>2. /\ r.pc = "waiting" /\ r.cid = <<>> /\ ~r.pollOk /\ r.fast = fast
        /\ r.model = sleeve /\ r.want = want /\ r.late = ~fast
        /\ r.gates = got.gates /\ r.exe = got.exe
    BY <1>5, <1>6, <1>9 DEF PassState
  <2> QED BY <1>1, <1>2, <1>3, <1>7, <1>9, <2>1, <2>2
<1> QED BY <1>2, <1>8, <1>9

LEMMA WantsType == Wants \subseteq Nat /\ \A w \in Wants : w \in Int
<1>1. Wants \subseteq Nat
  BY WantsAssumption
<1> QED BY <1>1

LEMMA DeltaType ==
  ASSUME Typed, NEW p \in Sweeps, NEW pos \in Quantities, NEW orders \in Quantities
  PROVE  Delta(p, pos, orders) \in Int
<1>1. pass[p].want \in Int
  <2>1. pass[p].want \in Wants
    BY DEF Typed, PassState
  <2> QED BY <2>1, WantsType, Zenon
<1>2. Net(pos) \in Int /\ Net(orders) \in Int
  BY NetIs
<1> QED BY <1>1, <1>2 DEF Delta

LEMMA DecidedIs ==
  ASSUME NEW r \in PassState, NEW t, t = Decided(r)
  PROVE  /\ t \in PassState /\ t.pc = "applying" /\ t.model = NoQty /\ t.pollOk = r.pollOk
         /\ t.fast = r.fast /\ t.late = r.late /\ t.pos = r.pos /\ t.listed = r.listed
<1>1. PICK w \in Wants, z \in Quantities, g \in J!Gates : w = 0 /\ z = NoQty /\ g = J!NoGates
  BY FreshTypes, WantsAssumption
<1>2. t = [r EXCEPT !.pc = "applying", !.want = w, !.model = z, !.gates = g, !.exe = 0]
  BY <1>1, Zenon DEF Decided
<1>3. "applying" \in Steps /\ 0 \in Int
  BY DEF Steps
<1> QED BY <1>1, <1>2, <1>3 DEF PassState

LEMMA SendingIs ==
  ASSUME Typed, NEW r \in PassState, NEW delta \in Int, delta # 0,
         r.gates.epoch <= regime.epoch, Magnitude(delta) <= MaxQty,
         NEW s, s = Sending(r, delta)
  PROVE  /\ s \in PassState /\ s.pc = "sending" /\ s.cid \in Cid
         /\ Signed(s.cid, Qty(s.cid)) = delta /\ s.cid[2] = r.gates.epoch
         /\ s.pollOk = r.pollOk /\ s.fast = r.fast /\ s.late = r.late
         /\ s.model = NoQty /\ s.pos = r.pos /\ s.listed = r.listed
<1>1. PICK m \in 1 .. MaxQty : m = Magnitude(delta)
  BY LimitsAssumption DEF Magnitude
<1>2. PICK e \in 0 .. MaxEpoch : e = r.gates.epoch
  <2>1. r.gates.epoch \in Nat /\ regime.epoch \in 0 .. MaxEpoch
    BY RegimesAssumption DEF PassState, J!Gates, Typed, Regime
  <2> QED BY <2>1, LimitsAssumption
<1>3. PICK d \in {"buy", "sell"} : d = IF delta > 0 THEN "buy" ELSE "sell"
  OBVIOUS
<1>4. PICK c : c = <<<<d, m>>, e>>
  OBVIOUS
<1>5. c \in Cid /\ Side(c) = d /\ Qty(c) = m /\ c[2] = e
  BY <1>4 DEF Cid, Intents, Side, Qty
<1>6. s = [Decided(r) EXCEPT !.pc = "sending", !.cid = c]
  BY <1>1, <1>2, <1>3, <1>4, Zenon DEF Sending
<1>7. Signed(c, m) = delta
  BY <1>1, <1>3, <1>5 DEF Signed, Magnitude
<1>8. PICK t : t = Decided(r)
  OBVIOUS
<1>9. /\ t \in PassState /\ t.pollOk = r.pollOk /\ t.fast = r.fast /\ t.late = r.late
      /\ t.model = NoQty /\ t.pos = r.pos /\ t.listed = r.listed
  BY <1>8, DecidedIs
<1>10. /\ s \in PassState /\ s.pc = "sending" /\ s.cid = c
       /\ s.pollOk = r.pollOk /\ s.fast = r.fast /\ s.late = r.late
       /\ s.model = NoQty /\ s.pos = r.pos /\ s.listed = r.listed
  BY <1>5, <1>6, <1>8, <1>9 DEF PassState, Steps
<1> QED BY <1>2, <1>5, <1>7, <1>10

\* A fast pass under the lock gives up, stops, or sends the book's delta.
LEMMA AcquireFastIs ==
  ASSUME Typed, Locks, NEW p \in Sweeps, AcquireFast(p)
  PROVE  \E r \in PassState :
           /\ Becomes(p, r) /\ ~r.pollOk /\ holder = {}
           /\ \/ /\ r.pc \in {"idle", "fallback"} /\ holder' = holder \ {p}
                 /\ r.model = NoQty /\ ~r.late /\ r.gates = J!NoGates
              \/ /\ r.pc = "sending" /\ holder' = {p} /\ r.cid \in Cid
                 /\ book.clean /\ r.fast /\ r.model = NoQty /\ r.late = pass[p].late
                 /\ Delta(p, book.pos, book.orders) # 0
                 /\ Signed(r.cid, Qty(r.cid)) = Delta(p, book.pos, book.orders)
                 /\ r.cid[2] = pass[p].gates.epoch
<1>1. PICK delta \in Int : delta = Delta(p, book.pos, book.orders)
  BY DeltaType DEF Typed, Book, Quantities
<1>2. holder = {} /\ pass[p].fast /\ pass[p].pc = "waiting"
  BY DEF AcquireFast, At
<1>3. pass[p] \in PassState /\ pass[p].pollOk = FALSE
  BY <1>2 DEF Typed, Locks, PassState
<1>4. CASE ~book.clean
  <2>1. GiveUp(p)
    BY <1>4 DEF AcquireFast
  <2>2. PICK r : r = [IdlePass EXCEPT !.pc = "fallback"] /\ Becomes(p, r) /\ holder' = holder \ {p}
    BY <1>2, <2>1 DEF GiveUp
  <2>3. r \in PassState /\ ~r.pollOk /\ r.pc = "fallback" /\ r.model = NoQty /\ ~r.late
        /\ r.gates = J!NoGates
    BY <2>2, FreshTypes DEF IdlePass
  <2> QED BY <1>2, <2>2, <2>3
<1>5. CASE book.clean /\ delta = 0
  <2>1. End(p)
    BY <1>1, <1>5, Zenon DEF AcquireFast
  <2>2. ~IdlePass.pollOk /\ IdlePass.pc = "idle" /\ IdlePass.model = NoQty /\ ~IdlePass.late
        /\ IdlePass.gates = J!NoGates
    BY DEF IdlePass
  <2> QED BY <1>2, <2>1, <2>2, FreshTypes DEF End
<1>6. CASE book.clean /\ delta # 0
  <2>1. Bounded(p, delta) /\ Becomes(p, Sending(pass[p], delta)) /\ holder' = {p}
    BY <1>1, <1>6, Zenon DEF AcquireFast
  <2>2. PICK r : r = Sending(pass[p], delta)
    OBVIOUS
  <2>3. pass[p].gates.epoch <= regime.epoch /\ Magnitude(delta) <= MaxQty
    BY <2>1 DEF Bounded
  <2>4. /\ r \in PassState /\ r.pc = "sending" /\ r.cid \in Cid
        /\ Signed(r.cid, Qty(r.cid)) = delta /\ r.cid[2] = pass[p].gates.epoch
        /\ r.pollOk = pass[p].pollOk /\ r.fast = pass[p].fast /\ r.late = pass[p].late
        /\ r.model = NoQty
    BY <1>3, <1>6, <2>2, <2>3, SendingIs
  <2> QED BY <1>1, <1>2, <1>3, <1>6, <2>1, <2>2, <2>4
<1> QED BY <1>4, <1>5, <1>6

LEMMA WorkingType == Listed(Working) \in Quantities /\ Working \in SUBSET Cid
  BY OrderIs DEF Listed, Working, Quantities

\* An audit that has the open orders sends a delta or goes on without one.
LEMMA FetchOrdersIs ==
  ASSUME Typed, NEW p \in Sweeps, FetchOrders(p)
  PROVE  \E r \in PassState :
           /\ Becomes(p, r) /\ r.pollOk = pass[p].pollOk /\ r.model = NoQty
           /\ r.fast = pass[p].fast /\ r.late = pass[p].late
           /\ r.pos = pass[p].pos /\ r.listed = Working
           /\ \/ r.pc = "applying"
              \/ /\ r.pc = "sending" /\ r.cid \in Cid
                 /\ Delta(p, pass[p].pos, Listed(Working)) # 0
                 /\ Signed(r.cid, Qty(r.cid)) = Delta(p, pass[p].pos, Listed(Working))
                 /\ r.cid[2] = pass[p].gates.epoch
<1>1. PICK delta \in Int : delta = Delta(p, pass[p].pos, Listed(Working))
  BY DeltaType, WorkingType DEF Typed, PassState
<1>2. PICK got : got = [pass[p] EXCEPT !.listed = Working]
  OBVIOUS
<1>3. /\ got \in PassState /\ got.listed = Working /\ got.pos = pass[p].pos
      /\ got.pollOk = pass[p].pollOk /\ got.fast = pass[p].fast /\ got.late = pass[p].late
      /\ got.gates = pass[p].gates
  BY <1>2, WorkingType DEF Typed, PassState
<1>4. CASE delta = 0 \/ pass[p].owner
  <2>1. PICK d \in BOOLEAN : d = (delta # 0 /\ ~book.recent)
    OBVIOUS
  <2>2. Becomes(p, [Decided(got) EXCEPT !.drift = delta # 0 /\ ~book.recent])
    BY <1>1, <1>2, <1>4, Zenon DEF FetchOrders
  <2>3. PICK t, r : t = Decided(got) /\ r = [t EXCEPT !.drift = d] /\ Becomes(p, r)
    BY <2>1, <2>2, Zenon
  <2>5. /\ t \in PassState /\ t.pc = "applying" /\ t.model = NoQty
        /\ t.pollOk = got.pollOk /\ t.fast = got.fast /\ t.late = got.late
        /\ t.pos = got.pos /\ t.listed = got.listed
    BY <1>3, <2>3, DecidedIs
  <2>6. /\ r \in PassState /\ r.pc = "applying" /\ r.model = NoQty
        /\ r.pollOk = got.pollOk /\ r.fast = got.fast /\ r.late = got.late
        /\ r.pos = got.pos /\ r.listed = got.listed
    BY <2>3, <2>5 DEF PassState
  <2> QED BY <1>3, <2>3, <2>6
<1>5. CASE ~(delta = 0 \/ pass[p].owner)
  <2>1. Bounded(p, delta) /\ Becomes(p, Sending(got, delta))
    BY <1>1, <1>2, <1>5, Zenon DEF FetchOrders
  <2>2. PICK r : r = Sending(got, delta)
    OBVIOUS
  <2>3. got.gates.epoch <= regime.epoch /\ Magnitude(delta) <= MaxQty
    BY <1>3, <2>1 DEF Bounded
  <2>4. /\ r \in PassState /\ r.pc = "sending" /\ r.cid \in Cid
        /\ Signed(r.cid, Qty(r.cid)) = delta /\ r.cid[2] = got.gates.epoch
        /\ r.pollOk = got.pollOk /\ r.fast = got.fast /\ r.late = got.late
        /\ r.model = NoQty /\ r.pos = got.pos /\ r.listed = got.listed
    BY <1>3, <1>5, <2>2, <2>3, SendingIs
  <2> QED BY <1>1, <1>3, <1>5, <2>1, <2>2, <2>4
<1> QED BY <1>4, <1>5

Final == \A c \in Cid : rows[c].state = "filled" => rows'[c].state = "filled"

\* The row of each order after a poll.
LEMMA PolledIs ==
  ASSUME Typed, Orders
  PROVE  /\ J!Polled \in [Cid -> J!Row]
         /\ \A c \in Cid :
              /\ Order(venue[c], J!Polled[c], venue[c].done, c)
              /\ J!Polled[c].state = IF venue[c].done # stored[c] THEN "filled" ELSE rows[c].state
              /\ J!Polled[c].age = rows[c].age /\ J!Polled[c].boid = rows[c].boid
              /\ J!Polled[c].note = rows[c].note
              /\ J!Polled[c].state = "sending" => venue[c].done = 0
<1>1. J!Polled = [c \in Cid |-> J!FoldExecution(c, rows[c], venue[c].done - stored[c])]
  BY JournalCid, Zenon DEF J!Polled
<1>2. ASSUME NEW c \in Cid
      PROVE  /\ J!Polled[c] \in J!Row
             /\ Order(venue[c], J!Polled[c], venue[c].done, c)
             /\ J!Polled[c].state = IF venue[c].done # stored[c] THEN "filled" ELSE rows[c].state
             /\ J!Polled[c].age = rows[c].age /\ J!Polled[c].boid = rows[c].boid
             /\ J!Polled[c].note = rows[c].note
             /\ J!Polled[c].state = "sending" => venue[c].done = 0
  <2>0. PICK v, row2 : v = venue[c] /\ row2 = J!Polled[c]
    OBVIOUS
  <2>1. PICK row \in J!Row, n \in Nat :
          /\ row = rows[c] /\ n = stored[c]
          /\ row2 = J!FoldExecution(c, row, v.done - n) /\ Order(v, row, n, c)
    <3>1. rows[c] \in J!Row /\ stored[c] \in Nat /\ Order(venue[c], rows[c], stored[c], c)
      BY DEF Typed, Quantities, Orders
    <3>2. J!Polled[c] = J!FoldExecution(c, rows[c], venue[c].done - stored[c])
      BY <1>1, Zenon
    <3> QED BY <2>0, <3>1, <3>2, Zenon
  <2>2. Accounted(v, row, n, c, row2)
    BY <2>1, PolledRow, Zenon
  <2> QED BY <2>0, <2>1, <2>2, Zenon DEF Accounted
<1>3. J!Polled \in [Cid -> J!Row]
  BY <1>1, <1>2
<1> QED BY <1>2, <1>3

LEMMA RegateIs ==
  ASSUME Typed, NEW p \in Sweeps, NEW rs \in [Cid -> J!Row], NEW fills \in Quantities,
         NEW answered \in BOOLEAN, Regate(p, rs, fills, answered)
  PROVE  \E r \in PassState :
           /\ Becomes(p, r) /\ r.pc = "positions" /\ r.pollOk = answered
           /\ r.gates = J!GatesOf(rs, pass[p].model) /\ r.exe = Net(fills)
           /\ r.model = pass[p].model /\ r.want = pass[p].want
           /\ r.fast = pass[p].fast /\ r.late = pass[p].late
           /\ rows' = J!Lifted(rs, pass[p].model)
           /\ cache' \in Cached \cup {NoCache}
           /\ cache' # NoCache => cache # NoCache /\ cache'.gates = J!GatesOf(rs, pass[p].model)
                                  /\ cache'.exe = Net(fills)
<1>1. PICK g \in J!Gates, n \in Int : g = J!GatesOf(rs, pass[p].model) /\ n = Net(fills)
  BY GatesType, NetIs
<1>2. PICK r : /\ r = [pass[p] EXCEPT !.pc = "positions", !.pollOk = answered, !.gates = g, !.exe = n]
               /\ Becomes(p, r)
  BY <1>1, Zenon DEF Regate
<1>3. /\ r \in PassState /\ r.pc = "positions" /\ r.pollOk = answered /\ r.gates = g /\ r.exe = n
      /\ r.model = pass[p].model /\ r.want = pass[p].want
      /\ r.fast = pass[p].fast /\ r.late = pass[p].late
  <2>1. PICK z \in PassState : z = pass[p]
    BY DEF Typed
  <2>2. r = [z EXCEPT !.pc = "positions", !.pollOk = answered, !.gates = g, !.exe = n]
    BY <1>2, <2>1
  <2>3. "positions" \in Steps
    BY DEF Steps
  <2> QED BY <2>1, <2>2, <2>3 DEF PassState
<1>4. cache' = IF cache = NoCache THEN cache ELSE [cache EXCEPT !.gates = g, !.exe = n]
  BY <1>1, Zenon DEF Regate
<1>5. cache \in Cached => [cache EXCEPT !.gates = g, !.exe = n] \in Cached
                          /\ [cache EXCEPT !.gates = g, !.exe = n].gates = g
                          /\ [cache EXCEPT !.gates = g, !.exe = n].exe = n
  BY DEF Cached
<1>6. rows' = J!Lifted(rs, pass[p].model)
  BY DEF Regate
<1> QED BY <1>1, <1>2, <1>3, <1>4, <1>5, <1>6 DEF Typed

\* What the poll adds to the book.
New == [c \in Cid |-> venue[c].done - stored[c]]

LEMMA NoteFillsIs ==
  ASSUME Typed, Orders, NEW b, b = NoteFills
  PROVE  /\ b \in Book /\ b.recent = book.recent /\ b.clean = book.clean
         /\ \A c \in Cid :
              /\ New[c] \in Nat /\ New[c] = venue[c].done - stored[c]
              /\ b.pos[c] = book.pos[c] + New[c]
              /\ b.orders[c] = IF book.orders[c] > New[c] THEN book.orders[c] - New[c] ELSE 0
<1>1. ASSUME NEW c \in Cid
      PROVE  New[c] \in Nat /\ New[c] = venue[c].done - stored[c]
  <2>1. Order(venue[c], rows[c], stored[c], c) /\ Qty(c) \in Nat
    BY OrderIs DEF Orders
  <2> QED BY <2>1 DEF Order, New
<1>2. PICK new \in [Cid -> Nat], pos \in [Cid -> Nat], ords \in [Cid -> Nat] :
        /\ new = New /\ pos = book.pos /\ ords = book.orders
  <2>1. New \in [Cid -> Nat]
    BY <1>1 DEF New
  <2> QED BY <2>1 DEF Typed, Book
<1>3. b = [book EXCEPT !.pos = [c \in Cid |-> pos[c] + new[c]],
                       !.orders = [c \in Cid |-> IF ords[c] > new[c] THEN ords[c] - new[c] ELSE 0]]
  BY <1>2, Zenon DEF NoteFills, New
<1>4. PICK P \in [Cid -> Nat], O \in [Cid -> Nat] :
        /\ P = [c \in Cid |-> pos[c] + new[c]]
        /\ O = [c \in Cid |-> IF ords[c] > new[c] THEN ords[c] - new[c] ELSE 0]
  <2>1. \A c \in Cid : /\ pos[c] + new[c] \in Nat
                       /\ (IF ords[c] > new[c] THEN ords[c] - new[c] ELSE 0) \in Nat
    OBVIOUS
  <2>2. [c \in Cid |-> pos[c] + new[c]] \in [Cid -> Nat]
    BY <2>1
  <2>3. [c \in Cid |-> IF ords[c] > new[c] THEN ords[c] - new[c] ELSE 0] \in [Cid -> Nat]
    BY <2>1
  <2> QED BY <2>2, <2>3
<1>5. b \in Book /\ b.pos = P /\ b.orders = O /\ b.recent = book.recent /\ b.clean = book.clean
  BY <1>3, <1>4 DEF Typed, Book
<1> QED BY <1>1, <1>2, <1>4, <1>5

-----------------------------------------------------------------------------
(* Every action keeps the invariant, and reopens no filled row.            *)

LEMMA HandStep ==
  ASSUME Typed, NEW p \in Sweeps, NEW r, Becomes(p, r), holder' \subseteq {p},
         p \in holder' =>
           /\ r.pc = "acking" => rows'[r.cid].state = "sending"
           /\ r.pollOk =>
                \A c \in Cid : rows'[c].state = "sending" /\ rows'[c].age = "old"
                                 => venue'[c].done = 0
  PROVE  InHand'
  BY PassTo DEF InHand

LEMMA RecordsKept ==
  ASSUME Orders, UNCHANGED <<rows, venue, stored>>
  PROVE  Orders' /\ Final
  BY DEF Orders, Final

LEMMA GatherKeeps ==
  ASSUME IInv, UNCHANGED regime, NEW p \in Sweeps, NEW fast \in BOOLEAN, Gather(p, fast)
  PROVE  IInv' /\ Final
<1>1. PICK r \in PassState, got \in Cached :
        /\ Becomes(p, r) /\ cache' = got
        /\ r.pc = "waiting" /\ ~r.pollOk
        /\ rows' = rows \/ rows' = J!Lifted(rows, sleeve)
  BY GatherIs DEF IInv
<1>2. UNCHANGED <<want, sleeve, stored, venue, book, holder, faults, restarts>>
  BY DEF Gather
<1>3. pass[p].pc \in {"idle", "fallback"} /\ p \notin holder
  BY DEF Gather, At, IInv, Locks, UnderLock, Steps
<1>4. /\ rows' \in [Cid -> J!Row]
      /\ \A c \in Cid : /\ rows'[c].state = rows[c].state /\ rows'[c].filled = rows[c].filled
                        /\ rows'[c].age = rows[c].age
  BY <1>1, LiftedRow DEF IInv, Typed
<1>5. Typed'
  BY <1>1, <1>2, <1>4, PassTo DEF IInv, Typed
<1>6. Locks'
  BY <1>1, <1>2, <1>3, LockStep DEF IInv, UnderLock
<1>7. Orders' /\ Final
  BY <1>2, <1>4, OrderKept DEF IInv, Orders, Final
<1>8. InHand'
  BY <1>1, <1>2, <1>3, <1>4, PassTo DEF IInv, InHand, Locks
<1> QED BY <1>5, <1>6, <1>7, <1>8 DEF IInv

LEMMA AcquireFastKeeps ==
  ASSUME IInv, UNCHANGED regime, NEW p \in Sweeps, AcquireFast(p)
  PROVE  IInv' /\ Final
<1>1. PICK r \in PassState :
        /\ Becomes(p, r) /\ ~r.pollOk /\ holder = {}
        /\ \/ r.pc \in {"idle", "fallback"} /\ holder' = holder \ {p}
           \/ r.pc = "sending" /\ holder' = {p} /\ r.cid \in Cid
  BY AcquireFastIs DEF IInv
<1>2. UNCHANGED <<want, sleeve, rows, stored, venue, book, cache, faults, restarts>>
  BY DEF AcquireFast
<1>3. Typed'
  BY <1>1, <1>2, PassTo DEF IInv, Typed
<1>4. Locks'
  BY <1>1, LockStep DEF IInv, UnderLock, Steps
<1>5. Orders' /\ Final
  BY <1>2, RecordsKept DEF IInv
<1>6. InHand'
  BY <1>1, HandStep DEF IInv
<1> QED BY <1>3, <1>4, <1>5, <1>6 DEF IInv

\* A pass that moves on, and nothing else but the lock.
LEMMA StepKeeps ==
  ASSUME IInv, UNCHANGED <<regime, want, sleeve, rows, stored, venue, book, cache, faults, restarts>>,
         NEW p \in Sweeps, NEW r \in PassState, Becomes(p, r), ~r.pollOk \/ pass[p].pollOk,
         r.pc # "acking", r.pc = "sending" => r.cid \in Cid,
         r.pc \in UnderLock => holder \subseteq {p} /\ holder' = {p},
         r.pc \notin UnderLock => holder' = holder \ {p} /\ holder \subseteq {p} /\ ~r.pollOk
  PROVE  IInv' /\ Final
<1>1. Typed'
  BY PassTo DEF IInv, Typed
<1>2. Locks'
  BY LockStep DEF IInv
<1>3. Orders' /\ Final
  BY RecordsKept DEF IInv
<1>4. holder' \subseteq {p}
  OBVIOUS
<1>5. r.pollOk => p \in holder /\ pass[p].pollOk
  BY DEF IInv, Locks
<1>6. InHand'
  BY <1>4, <1>5, HandStep DEF IInv, InHand
<1> QED BY <1>1, <1>2, <1>3, <1>6 DEF IInv

LEMMA AloneInLock ==
  ASSUME IInv, NEW p \in Sweeps, pass[p].pc \in UnderLock
  PROVE  holder = {p}
  BY DEF IInv, Locks

LEMMA IdleIs ==
  /\ IdlePass.pc = "idle" /\ IdlePass.model = NoQty /\ ~IdlePass.late /\ ~IdlePass.pollOk
  /\ IdlePass.gates = J!NoGates /\ IdlePass.fast = FALSE /\ IdlePass.cid = <<>>
  BY DEF IdlePass

LEMMA EndKeeps ==
  ASSUME IInv, UNCHANGED <<regime, want, sleeve, rows, stored, venue, book, cache, faults, restarts>>,
         NEW p \in Sweeps, pass[p].pc \in UnderLock, End(p)
  PROVE  IInv' /\ Final
<1>1. Becomes(p, IdlePass) /\ holder' = holder \ {p}
  BY DEF End
<1>2. "idle" \notin UnderLock
  BY DEF UnderLock
<1> QED BY <1>1, <1>2, FreshTypes, IdleIs, AloneInLock, StepKeeps

\* A pass that goes on to another step.
LEMMA GotoIs ==
  ASSUME Typed, NEW p \in Sweeps, NEW step \in Steps, NEW r, r = [pass[p] EXCEPT !.pc = step]
  PROVE  /\ r \in PassState /\ r.pc = step /\ r.pollOk = pass[p].pollOk /\ r.cid = pass[p].cid
         /\ r.fast = pass[p].fast /\ r.late = pass[p].late /\ r.model = pass[p].model
         /\ r.gates = pass[p].gates /\ r.pos = pass[p].pos /\ r.listed = pass[p].listed
         /\ r.exe = pass[p].exe /\ r.want = pass[p].want /\ r.drift = pass[p].drift
  BY DEF Typed, PassState

LEMMA AcquireAuditKeeps ==
  ASSUME IInv, UNCHANGED regime, NEW p \in Sweeps, AcquireAudit(p)
  PROVE  IInv' /\ Final
<1>1. PICK step, r :
        /\ step \in {"positions", "polling"}
        /\ r = [pass[p] EXCEPT !.pc = step] /\ Becomes(p, r) /\ holder = {} /\ holder' = {p}
  BY DEF AcquireAudit, Goto
<1>2. step \in Steps /\ step \in UnderLock
  BY <1>1 DEF Steps, UnderLock
<1>3. r \in PassState /\ r.pc = step /\ r.pollOk = pass[p].pollOk
  BY <1>1, <1>2, GotoIs DEF IInv
<1>4. ~r.pollOk
  BY <1>1, <1>3 DEF IInv, Locks
<1>5. UNCHANGED <<want, sleeve, rows, stored, venue, book, cache, faults, restarts>>
  BY DEF AcquireAudit
<1> QED BY <1>1, <1>2, <1>3, <1>4, <1>5, StepKeeps

LEMMA FetchPositionsKeeps ==
  ASSUME IInv, UNCHANGED regime, NEW p \in Sweeps, FetchPositions(p)
  PROVE  IInv' /\ Final
<1>1. Held \in Quantities
  BY DEF IInv, Typed, Held, Quantities, J!VenueOrder
<1>2. PICK r : r = [pass[p] EXCEPT !.pc = "orders", !.pos = Held] /\ Becomes(p, r)
  BY DEF FetchPositions
<1>3. r \in PassState /\ r.pc = "orders" /\ r.pollOk = pass[p].pollOk
  <2>1. PICK z \in PassState, q \in Quantities : z = pass[p] /\ q = Held
    BY <1>1 DEF IInv, Typed
  <2>2. r = [z EXCEPT !.pc = "orders", !.pos = q]
    BY <1>2, <2>1
  <2>3. "orders" \in Steps
    BY DEF Steps
  <2> QED BY <2>1, <2>2, <2>3 DEF PassState
<1>4. holder = {p} /\ holder' = holder /\ "orders" \in UnderLock
  BY AloneInLock DEF FetchPositions, At, UnderLock, Steps
<1>5. UNCHANGED <<want, sleeve, rows, stored, venue, book, cache, faults, restarts>>
  BY DEF FetchPositions
<1> QED BY <1>2, <1>3, <1>4, <1>5, StepKeeps

LEMMA FetchOrdersKeeps ==
  ASSUME IInv, UNCHANGED regime, NEW p \in Sweeps, FetchOrders(p)
  PROVE  IInv' /\ Final
<1>1. PICK r \in PassState :
        /\ Becomes(p, r) /\ r.pollOk = pass[p].pollOk
        /\ \/ r.pc = "applying"
           \/ r.pc = "sending" /\ r.cid \in Cid
  BY FetchOrdersIs DEF IInv
<1>2. holder = {p} /\ holder' = holder /\ {"applying", "sending"} \subseteq UnderLock
  BY AloneInLock DEF FetchOrders, At, UnderLock, Steps
<1>3. UNCHANGED <<want, sleeve, rows, stored, venue, book, cache, faults, restarts>>
  BY DEF FetchOrders
<1> QED BY <1>1, <1>2, <1>3, StepKeeps

LEMMA FetchUnansweredKeeps ==
  ASSUME IInv, UNCHANGED regime, NEW p \in Sweeps, FetchUnanswered(p)
  PROVE  IInv' /\ Final
<1>1. pass[p].pc \in UnderLock
  BY DEF FetchUnanswered, At, UnderLock, Steps
<1> QED BY <1>1, EndKeeps DEF FetchUnanswered

LEMMA PollAnsweredKeeps ==
  ASSUME IInv, UNCHANGED regime, NEW p \in Sweeps, PollAnswered(p)
  PROVE  IInv' /\ Final
<1>1. PICK rs \in [Cid -> J!Row], fills \in Quantities :
        rs = J!Polled /\ fills = stored' /\ fills = [c \in Cid |-> venue[c].done]
  <2>1. stored' = [c \in Cid |-> venue[c].done]
    BY JournalCid DEF PollAnswered, J!StoreAll
  <2>2. [c \in Cid |-> venue[c].done] \in Quantities
    BY DEF IInv, Typed, Quantities, J!VenueOrder
  <2> QED BY <2>1, <2>2, PolledIs DEF IInv
<1>2. PICK r \in PassState :
        /\ Becomes(p, r) /\ r.pc = "positions" /\ r.pollOk = TRUE
        /\ rows' = J!Lifted(rs, pass[p].model) /\ cache' \in Cached \cup {NoCache}
  <2>1. Regate(p, rs, fills, TRUE)
    BY <1>1 DEF PollAnswered
  <2>2. Typed
    BY DEF IInv
  <2> QED BY <2>1, <2>2, RegateIs
<1>3. book' = NoteFills /\ UNCHANGED <<want, sleeve, venue, holder, faults, restarts>>
  BY DEF PollAnswered
<1>4. holder = {p} /\ "positions" \in UnderLock
  BY AloneInLock DEF PollAnswered, At, UnderLock, Steps
<1>5. /\ rows' \in [Cid -> J!Row]
      /\ \A c \in Cid : /\ rows'[c].state = rs[c].state /\ rows'[c].filled = rs[c].filled
                        /\ rows'[c].age = rs[c].age
  BY <1>2, LiftedRow
<1>6. \A c \in Cid : Order(venue[c], rs[c], fills[c], c)
  BY <1>1, PolledIs DEF IInv
<1>7. Orders'
  BY <1>1, <1>3, <1>5, <1>6, OrderKept DEF Orders
<1>8. Final
  BY <1>1, <1>5, PolledIs DEF IInv, Final
<1>9. Typed'
  BY <1>1, <1>2, <1>3, <1>5, PassTo, NoteFillsIs DEF IInv, Typed
<1>10. Locks'
  BY <1>2, <1>3, <1>4, LockStep DEF IInv
<1>11. InHand'
  <2>1. \A c \in Cid : rows'[c].state = "sending" => venue'[c].done = 0
    BY <1>1, <1>3, <1>5, PolledIs DEF IInv
  <2> QED BY <1>2, <1>3, <1>4, <2>1, HandStep DEF IInv
<1> QED BY <1>7, <1>8, <1>9, <1>10, <1>11 DEF IInv

LEMMA PollUnansweredKeeps ==
  ASSUME IInv, UNCHANGED regime, NEW p \in Sweeps, PollUnanswered(p)
  PROVE  IInv' /\ Final
<1>1. PICK r \in PassState :
        /\ Becomes(p, r) /\ r.pc = "positions" /\ r.pollOk = FALSE
        /\ rows' = J!Lifted(rows, pass[p].model) /\ cache' \in Cached \cup {NoCache}
  BY RegateIs DEF IInv, PollUnanswered, Typed
<1>2. UNCHANGED <<want, sleeve, stored, venue, book, holder, faults, restarts>>
  BY DEF PollUnanswered
<1>3. holder = {p} /\ "positions" \in UnderLock
  BY AloneInLock DEF PollUnanswered, At, UnderLock, Steps
<1>4. /\ rows' \in [Cid -> J!Row]
      /\ \A c \in Cid : /\ rows'[c].state = rows[c].state /\ rows'[c].filled = rows[c].filled
                        /\ rows'[c].age = rows[c].age
  BY <1>1, LiftedRow DEF IInv, Typed
<1>5. Orders' /\ Final
  BY <1>2, <1>4, OrderKept DEF IInv, Orders, Final
<1>6. Typed'
  BY <1>1, <1>2, <1>4, PassTo DEF IInv, Typed
<1>7. Locks'
  BY <1>1, <1>2, <1>3, LockStep DEF IInv
<1>8. InHand'
  BY <1>1, <1>2, <1>3, HandStep DEF IInv
<1> QED BY <1>5, <1>6, <1>7, <1>8 DEF IInv

\* What a submission makes of the pass and of the lock.
LEMMA SentIs ==
  ASSUME Typed, NEW p \in Sweeps, Sent(p)
  PROVE  \E r \in PassState :
           /\ Becomes(p, r)
           /\ \/ r = IdlePass /\ holder' = holder \ {p} /\ pass[p].fast
              \/ /\ r = [pass[p] EXCEPT !.pc = "applying"] /\ holder' = holder
                 /\ r.pc = "applying" /\ r.pollOk = pass[p].pollOk /\ ~pass[p].fast
<1>1. CASE pass[p].fast
  BY <1>1, FreshTypes DEF Sent, End
<1>2. CASE ~pass[p].fast
  <2>1. PICK r : r = [pass[p] EXCEPT !.pc = "applying"] /\ Becomes(p, r) /\ holder' = holder
    BY <1>2 DEF Sent, Goto
  <2>2. "applying" \in Steps
    BY DEF Steps
  <2>3. r \in PassState /\ r.pc = "applying" /\ r.pollOk = pass[p].pollOk
    BY <2>1, <2>2, GotoIs
  <2> QED BY <1>2, <2>1, <2>3
<1> QED BY <1>1, <1>2

\* The row written ahead of the wire call.
Ahead(c) == [rows EXCEPT ![c] = [J!NoRow EXCEPT !.state = "sending"]]
Refused(c) == [Ahead(c) EXCEPT ![c] = [@ EXCEPT !.state = "rejected", !.note = "text"]]

LEMMA AheadIs ==
  ASSUME Typed, NEW c \in Cid
  PROVE  /\ Ahead(c) \in [Cid -> J!Row] /\ Refused(c) \in [Cid -> J!Row]
         /\ \A d \in Cid : d # c => Ahead(c)[d] = rows[d] /\ Refused(c)[d] = rows[d]
         /\ Ahead(c)[c].state = "sending" /\ Ahead(c)[c].filled = 0 /\ Ahead(c)[c].age = "fresh"
         /\ Ahead(c)[c].note = "none"
         /\ Refused(c)[c].state = "rejected" /\ Refused(c)[c].filled = 0
<1>1. PICK row : row = [J!NoRow EXCEPT !.state = "sending"]
  OBVIOUS
<1>2. row \in J!Row /\ row.state = "sending" /\ row.filled = 0 /\ row.age = "fresh" /\ row.note = "none"
  BY <1>1 DEF J!NoRow, J!Row, J!RowStates, J!Open
<1>3. PICK row2 : row2 = [row EXCEPT !.state = "rejected", !.note = "text"]
  OBVIOUS
<1>4. row2 \in J!Row /\ row2.state = "rejected" /\ row2.filled = 0
  BY <1>2, <1>3 DEF J!Row, J!RowStates
<1>5. Ahead(c) = [rows EXCEPT ![c] = row]
  BY <1>1 DEF Ahead
<1>6. PICK A : A = Ahead(c)
  OBVIOUS
<1>7. A \in [Cid -> J!Row] /\ A[c] = row /\ \A d \in Cid : d # c => A[d] = rows[d]
  BY <1>2, <1>5, <1>6 DEF Typed
<1>8. Refused(c) = [A EXCEPT ![c] = row2]
  BY <1>3, <1>6, <1>7 DEF Refused
<1> QED BY <1>2, <1>4, <1>6, <1>7, <1>8

\* The four ways a submission ends.
LEMMA SubmitIs ==
  ASSUME IInv, NEW p \in Sweeps, Submit(p), NEW c, c = pass[p].cid
  PROVE  /\ c \in Cid /\ UNCHANGED <<want, sleeve, stored, cache, restarts>>
         /\ \/ /\ rows[c].state # "absent" /\ Sent(p)
               /\ UNCHANGED <<rows, venue, book, faults>>
            \/ /\ rows[c].state = "absent"
               /\ rows' = Ahead(c) /\ venue' = [venue EXCEPT ![c].at = "working"]
               /\ book' = [book EXCEPT !.recent = TRUE]
               /\ Goto(p, "acking") /\ UNCHANGED <<holder, faults>>
            \/ /\ rows[c].state = "absent" /\ Fault /\ book' = [book EXCEPT !.recent = TRUE]
               /\ rows' = Refused(c) /\ UNCHANGED venue /\ Sent(p)
            \/ /\ rows[c].state = "absent" /\ Fault /\ book' = [book EXCEPT !.recent = TRUE]
               /\ rows' = Ahead(c) /\ GiveUp(p)
               /\ \E at \in {"working", "unsent"} : venue' = [venue EXCEPT ![c].at = at]
<1>1. c \in Cid
  BY DEF Submit, At, IInv, Locks
<1>2. UNCHANGED <<want, sleeve, stored, cache, restarts>>
  BY DEF Submit
<1>3. CASE ~J!MayInsert(c) /\ Sent(p) /\ UNCHANGED <<rows, venue, book, faults>>
  BY <1>1, <1>2, <1>3 DEF J!MayInsert
<1>4. CASE /\ J!MayInsert(c)
           /\ rows' = [rows EXCEPT ![c] = [J!NoRow EXCEPT !.state = "sending"]]
           /\ venue' = [venue EXCEPT ![c].at = "working"]
           /\ book' = [book EXCEPT !.recent = TRUE]
           /\ Goto(p, "acking") /\ UNCHANGED <<holder, faults>>
  BY <1>1, <1>2, <1>4, Zenon DEF J!MayInsert, Ahead
<1>5. CASE /\ J!MayInsert(c) /\ Fault /\ book' = [book EXCEPT !.recent = TRUE]
           /\ rows' = Refused(c) /\ UNCHANGED venue /\ Sent(p)
  BY <1>1, <1>2, <1>5, Zenon DEF J!MayInsert
<1>6. CASE /\ J!MayInsert(c) /\ Fault /\ book' = [book EXCEPT !.recent = TRUE]
           /\ rows' = Ahead(c) /\ GiveUp(p)
           /\ \E at \in {"working", "unsent"} : venue' = [venue EXCEPT ![c].at = at]
  BY <1>1, <1>2, <1>6, Zenon DEF J!MayInsert
<1> QED BY <1>3, <1>4, <1>5, <1>6, Zenon DEF Submit, Ahead, Refused

\* An order that had no record has a row and may be at the venue.
LEMMA OrdersWritten ==
  ASSUME IInv, NEW c \in Cid, rows[c].state = "absent", UNCHANGED stored,
         NEW at \in {"working", "unsent"},
         \/ rows' = Ahead(c) /\ venue' = [venue EXCEPT ![c].at = at]
         \/ rows' = Refused(c) /\ UNCHANGED venue
  PROVE  /\ Orders' /\ Final /\ venue' \in [Cid -> J!VenueOrder] /\ rows' \in [Cid -> J!Row]
         /\ \A d \in Cid : /\ venue'[d].done = venue[d].done
                           /\ d # c => rows'[d] = rows[d] /\ venue'[d] = venue[d]
<1>0. venue \in [Cid -> J!VenueOrder]
  BY DEF IInv, Typed
<1>1. [venue EXCEPT ![c].at = at] \in [Cid -> J!VenueOrder]
  BY <1>0 DEF J!VenueOrder
<1>2. venue' \in [Cid -> J!VenueOrder] /\ rows' \in [Cid -> J!Row]
  BY <1>0, <1>1, AheadIs DEF IInv
<1>3. \A d \in Cid : /\ venue'[d].done = venue[d].done
                     /\ d # c => rows'[d] = rows[d] /\ venue'[d] = venue[d]
  BY <1>0, AheadIs DEF IInv, J!VenueOrder
<1>4. venue[c].at = "unsent" /\ venue[c].done = 0 /\ stored[c] = 0
  BY OrderIs DEF IInv, Orders, Order
<1>5. venue'[c].at \in {"working", "unsent"} /\ (rows' = Refused(c) => venue'[c].at = "unsent" \/ rows' = Ahead(c))
  BY <1>0, <1>4 DEF J!VenueOrder
<1>6. Order(venue'[c], rows'[c], stored'[c], c)
  <2>1. CASE rows' = Ahead(c) /\ venue' = [venue EXCEPT ![c].at = at]
    BY <1>3, <1>4, <1>5, <2>1, AheadIs DEF IInv, Order, J!Open
  <2>2. CASE rows' = Refused(c) /\ UNCHANGED venue
    BY <1>3, <1>4, <2>2, AheadIs DEF IInv, Order, J!Open
  <2> QED BY <2>1, <2>2
<1>7. \A d \in Cid : d # c => Order(venue'[d], rows'[d], stored'[d], d)
  BY <1>3 DEF IInv, Orders
<1>8. Final
  BY <1>3 DEF Final
<1> QED BY <1>2, <1>3, <1>6, <1>7, <1>8 DEF Orders

LEMMA SubmitKeeps ==
  ASSUME IInv, UNCHANGED regime, NEW p \in Sweeps, Submit(p)
  PROVE  IInv' /\ Final
<1>1. PICK c \in Cid : c = pass[p].cid
  BY DEF Submit, At, IInv, Locks
<1>2. UNCHANGED <<want, sleeve, stored, cache, restarts>>
  BY DEF Submit
<1>3. holder = {p} /\ {"acking", "applying"} \subseteq UnderLock /\ {"idle", "fallback"} \cap UnderLock = {}
  BY AloneInLock DEF Submit, At, UnderLock, Steps
<1>4. [book EXCEPT !.recent = TRUE] \in Book
  BY DEF IInv, Typed, Book
<1>5. Fault => faults' \in Nat
  BY DEF IInv, Typed, Fault
<1>6. Sent(p) => \E r \in PassState :
        /\ Becomes(p, r) /\ r.pc \in {"idle", "applying"} /\ (r.pollOk => pass[p].pollOk)
        /\ r.pc = "idle" => holder' = holder \ {p} /\ ~r.pollOk
        /\ r.pc = "applying" => holder' = holder
  BY SentIs, IdleIs DEF IInv
<1>7. CASE rows[c].state # "absent" /\ Sent(p) /\ UNCHANGED <<rows, venue, book, faults>>
  BY <1>2, <1>3, <1>6, <1>7, StepKeeps
<1>8. CASE /\ rows[c].state = "absent"
           /\ rows' = Ahead(c) /\ venue' = [venue EXCEPT ![c].at = "working"]
           /\ book' = [book EXCEPT !.recent = TRUE]
           /\ Goto(p, "acking") /\ UNCHANGED <<holder, faults>>
  <2>1. /\ Orders' /\ Final /\ venue' \in [Cid -> J!VenueOrder] /\ rows' \in [Cid -> J!Row]
        /\ \A d \in Cid : /\ venue'[d].done = venue[d].done
                          /\ d # c => rows'[d] = rows[d] /\ venue'[d] = venue[d]
    BY <1>2, <1>8, OrdersWritten
  <2>2. PICK r : r = [pass[p] EXCEPT !.pc = "acking"] /\ Becomes(p, r)
    BY <1>8 DEF Goto
  <2>3. r \in PassState /\ r.pc = "acking" /\ r.pollOk = pass[p].pollOk /\ r.cid = c
    <3>1. "acking" \in Steps
      BY DEF Steps
    <3> QED BY <1>1, <2>2, <3>1, GotoIs DEF IInv
  <2>4. Typed'
    BY <1>2, <1>4, <1>8, <2>1, <2>2, <2>3, PassTo DEF IInv, Typed
  <2>5. Locks'
    BY <1>3, <1>8, <2>2, <2>3, LockStep DEF IInv
  <2>6. InHand'
    <3>1. rows'[c].state = "sending" /\ rows'[c].age = "fresh"
      BY <1>8, AheadIs DEF IInv
    <3>2. pass[p].pollOk => \A d \in Cid : rows[d].state = "sending" /\ rows[d].age = "old" => venue[d].done = 0
      BY <1>3 DEF IInv, InHand
    <3>3. r.pollOk => \A d \in Cid : rows'[d].state = "sending" /\ rows'[d].age = "old" => venue'[d].done = 0
      BY <2>1, <2>3, <3>1, <3>2
    <3>4. holder' \subseteq {p} /\ rows'[r.cid].state = "sending"
      BY <1>3, <1>8, <2>3, <3>1
    <3> QED BY <2>2, <3>3, <3>4, HandStep DEF IInv
  <2> QED BY <2>1, <2>4, <2>5, <2>6 DEF IInv
<1>9. CASE /\ rows[c].state = "absent" /\ Fault /\ book' = [book EXCEPT !.recent = TRUE]
           /\ rows' = Refused(c) /\ UNCHANGED venue /\ Sent(p)
  <2>1. /\ Orders' /\ Final /\ venue' \in [Cid -> J!VenueOrder] /\ rows' \in [Cid -> J!Row]
        /\ \A d \in Cid : /\ venue'[d].done = venue[d].done
                          /\ d # c => rows'[d] = rows[d] /\ venue'[d] = venue[d]
    BY <1>2, <1>9, OrdersWritten
  <2>2. PICK r \in PassState :
        /\ Becomes(p, r) /\ r.pc \in {"idle", "applying"} /\ (r.pollOk => pass[p].pollOk)
        /\ r.pc = "idle" => holder' = holder \ {p} /\ ~r.pollOk
        /\ r.pc = "applying" => holder' = holder
    BY <1>6, <1>9
  <2>4. Typed'
    BY <1>2, <1>4, <1>5, <1>9, <2>1, <2>2, PassTo DEF IInv, Typed
  <2>5. Locks'
    BY <1>3, <1>9, <2>2, LockStep DEF IInv
  <2>6. InHand'
    <3>1. rows'[c].state = "rejected"
      BY <1>9, AheadIs DEF IInv
    <3>2. pass[p].pollOk => \A d \in Cid : rows[d].state = "sending" /\ rows[d].age = "old" => venue[d].done = 0
      BY <1>3 DEF IInv, InHand
    <3>3. r.pollOk => \A d \in Cid : rows'[d].state = "sending" /\ rows'[d].age = "old" => venue'[d].done = 0
      BY <2>1, <2>2, <3>1, <3>2
    <3>4. holder' \subseteq {p}
      BY <1>3, <2>2
    <3> QED BY <2>2, <3>3, <3>4, HandStep DEF IInv
  <2> QED BY <2>1, <2>4, <2>5, <2>6 DEF IInv
<1>10. CASE /\ rows[c].state = "absent" /\ Fault /\ book' = [book EXCEPT !.recent = TRUE]
            /\ rows' = Ahead(c) /\ GiveUp(p)
            /\ \E at \in {"working", "unsent"} : venue' = [venue EXCEPT ![c].at = at]
  <2>1. /\ Orders' /\ Final /\ venue' \in [Cid -> J!VenueOrder] /\ rows' \in [Cid -> J!Row]
    BY <1>2, <1>10, OrdersWritten
  <2>2. PICK r \in PassState : Becomes(p, r) /\ r.pc \in {"idle", "fallback"} /\ ~r.pollOk
                               /\ holder' = holder \ {p}
    <3>1. PICK r : /\ r = IF pass[p].fast THEN [IdlePass EXCEPT !.pc = "fallback"] ELSE IdlePass
                   /\ Becomes(p, r) /\ holder' = holder \ {p}
      BY <1>10 DEF GiveUp
    <3>2. r \in PassState /\ r.pc \in {"idle", "fallback"} /\ ~r.pollOk
      BY <3>1, FreshTypes DEF IdlePass
    <3> QED BY <3>1, <3>2
  <2>4. Typed'
    BY <1>2, <1>4, <1>5, <1>10, <2>1, <2>2, PassTo DEF IInv, Typed
  <2>5. Locks'
    BY <1>3, <1>10, <2>2, LockStep DEF IInv
  <2>6. InHand'
    BY <1>3, <2>2 DEF InHand
  <2> QED BY <2>1, <2>4, <2>5, <2>6 DEF IInv
<1> QED BY <1>1, <1>7, <1>8, <1>9, <1>10, SubmitIs

LEMMA AckIs ==
  ASSUME IInv, NEW p \in Sweeps, Ack(p), NEW c, c = pass[p].cid
  PROVE  /\ c \in Cid /\ rows[c].state = "sending" /\ Sent(p)
         /\ UNCHANGED <<want, sleeve, stored, venue, cache, faults, restarts>>
         /\ \E st \in {"submitted", "filled"} :
              /\ rows' \in [Cid -> J!Row] /\ \A d \in Cid : d # c => rows'[d] = rows[d]
              /\ rows'[c].state = st /\ rows'[c].filled = rows[c].filled
              /\ rows'[c].age = "fresh" /\ rows'[c].note = rows[c].note
              /\ st = "filled" => venue[c].at = "filled"
              /\ book' = [book EXCEPT !.orders[c] = Qty(c)]
<1>1. c \in Cid /\ rows[c].state = "sending"
  <2>1. pass[p].pc = "acking"
    BY DEF Ack, At
  <2>2. holder = {p}
    BY <2>1, AloneInLock DEF UnderLock, Steps
  <2> QED BY <2>1, <2>2 DEF IInv, Locks, InHand
<1>2. Sent(p) /\ UNCHANGED <<want, sleeve, stored, venue, cache, faults, restarts>>
  BY DEF Ack
<1>3. PICK st \in J!AckStates(c) :
        /\ rows' = [rows EXCEPT ![c] = [@ EXCEPT !.state = st, !.boid = TRUE, !.age = "fresh"]]
        /\ book' = NoteAck(c, st)
  BY Zenon DEF Ack
<1>4. venue[c].at \in {"unsent", "working", "filled"}
  BY <1>1 DEF IInv, Orders, Order
<1>5. st \in {"submitted", "filled"} /\ (st = "filled" => venue[c].at = "filled")
  BY <1>4 DEF J!AckStates
<1>6. PICK row \in J!Row : row = rows[c]
  BY <1>1 DEF IInv, Typed
<1>7. PICK row2 : row2 = [row EXCEPT !.state = st, !.boid = TRUE, !.age = "fresh"]
  OBVIOUS
<1>8. /\ row2 \in J!Row /\ row2.state = st /\ row2.filled = row.filled /\ row2.age = "fresh"
      /\ row2.note = row.note
  BY <1>5, <1>7 DEF J!Row, J!RowStates, J!Open
<1>9. rows' = [rows EXCEPT ![c] = row2]
  BY <1>3, <1>6, <1>7
<1>10. rows' \in [Cid -> J!Row] /\ rows'[c] = row2 /\ \A d \in Cid : d # c => rows'[d] = rows[d]
  BY <1>1, <1>8, <1>9 DEF IInv, Typed
<1>11. book' = [book EXCEPT !.orders[c] = Qty(c)]
  BY <1>3, <1>5 DEF NoteAck
<1> QED BY <1>1, <1>2, <1>5, <1>6, <1>8, <1>10, <1>11

LEMMA AckedBook ==
  ASSUME Typed, NEW c \in Cid, NEW b, b = [book EXCEPT !.orders[c] = Qty(c)]
  PROVE  /\ b \in Book /\ b.orders[c] = Qty(c) /\ \A d \in Cid : d # c => b.orders[d] = book.orders[d]
         /\ b.pos = book.pos /\ b.recent = book.recent /\ b.clean = book.clean
<1>1. PICK o \in [Cid -> Nat], q \in Nat : o = book.orders /\ q = Qty(c)
  BY OrderIs DEF Typed, Book
<1>2. PICK o2 : o2 = [o EXCEPT ![c] = q]
  OBVIOUS
<1>3. b = [book EXCEPT !.orders = o2]
  BY <1>1, <1>2 DEF Typed, Book
<1>4. o2 \in [Cid -> Nat] /\ o2[c] = q /\ \A d \in Cid : d # c => o2[d] = o[d]
  BY <1>2
<1> QED BY <1>1, <1>3, <1>4 DEF Typed, Book

LEMMA AckKeeps ==
  ASSUME IInv, UNCHANGED regime, NEW p \in Sweeps, Ack(p)
  PROVE  IInv' /\ Final
<1>1. PICK c \in Cid, st \in {"submitted", "filled"} :
        /\ c = pass[p].cid /\ rows[c].state = "sending" /\ Sent(p)
        /\ UNCHANGED <<want, sleeve, stored, venue, cache, faults, restarts>>
        /\ rows' \in [Cid -> J!Row] /\ \A d \in Cid : d # c => rows'[d] = rows[d]
        /\ rows'[c].state = st /\ rows'[c].filled = rows[c].filled
        /\ rows'[c].age = "fresh"
        /\ st = "filled" => venue[c].at = "filled"
        /\ book' = [book EXCEPT !.orders[c] = Qty(c)]
  BY AckIs
<1>2. PICK r \in PassState :
        /\ Becomes(p, r) /\ r.pc \in {"idle", "applying"} /\ (r.pollOk => pass[p].pollOk)
        /\ r.pc = "idle" => holder' = holder \ {p} /\ ~r.pollOk
        /\ r.pc = "applying" => holder' = holder
  BY <1>1, SentIs, IdleIs DEF IInv
<1>3. holder = {p} /\ "applying" \in UnderLock /\ "idle" \notin UnderLock
  BY AloneInLock DEF Ack, At, UnderLock, Steps
<1>4. Typed'
  BY <1>1, <1>2, AckedBook, PassTo DEF IInv, Typed
<1>5. Locks'
  BY <1>2, <1>3, LockStep DEF IInv
<1>6. Order(venue'[c], rows'[c], stored'[c], c)
  <2>1. Order(venue[c], rows[c], stored[c], c)
    BY DEF IInv, Orders
  <2>2. stored[c] \in Nat
    BY DEF IInv, Typed, Quantities
  <2> QED BY <1>1, <2>1, <2>2 DEF Order, J!Open
<1>7. Orders'
  BY <1>1, <1>6 DEF IInv, Orders
<1>8. Final
  BY <1>1 DEF Final
<1>9. InHand'
  <2>1. r.pollOk => \A d \in Cid : rows'[d].state = "sending" /\ rows'[d].age = "old" => venue'[d].done = 0
    BY <1>1, <1>2, <1>3 DEF IInv, InHand
  <2>2. holder' \subseteq {p}
    BY <1>2, <1>3
  <2> QED BY <1>2, <2>1, <2>2, HandStep DEF IInv
<1> QED BY <1>4, <1>5, <1>7, <1>8, <1>9 DEF IInv

\* The book after an audit.
Rebuilt(b, pos, listed, clean) ==
  /\ b \in Book /\ b.recent = book.recent /\ b.clean = clean
  /\ \A c \in Cid :
       /\ b.pos[c] = IF book.recent THEN book.pos[c] ELSE pos[c]
       /\ b.orders[c] = IF c \notin listed /\ book.recent THEN book.orders[c]
                        ELSE IF c \in listed THEN Qty(c) ELSE 0

LEMMA AuditedIs ==
  ASSUME Typed, NEW pos \in Quantities, NEW listed \in SUBSET Cid, NEW clean \in BOOLEAN,
         NEW a, a = Audited(pos, listed), NEW b, b = [a EXCEPT !.clean = clean]
  PROVE  Rebuilt(b, pos, listed, clean)
<1>1. PICK P \in [Cid -> Nat] : P = IF book.recent THEN book.pos ELSE pos
  BY DEF Typed, Book, Quantities
<1>2. PICK O : O = [c \in Cid |-> IF c \notin listed /\ book.recent THEN book.orders[c]
                                  ELSE Listed(listed)[c]]
  OBVIOUS
<1>3. \A c \in Cid : /\ O[c] = IF c \notin listed /\ book.recent THEN book.orders[c]
                               ELSE IF c \in listed THEN Qty(c) ELSE 0
                     /\ O[c] \in Nat
  BY <1>2, OrderIs DEF Listed, Typed, Book
<1>4. O \in [Cid -> Nat]
  BY <1>2, <1>3
<1>7. PICK B \in BOOLEAN : B = (book.based \/ ~book.recent)
  BY DEF Typed, Book
<1>5. Audited(pos, listed) = [book EXCEPT !.pos = P, !.orders = O, !.clean = TRUE, !.based = B]
  BY <1>1, <1>2, <1>7, Zenon DEF Audited
<1>6. b \in Book /\ b.pos = P /\ b.orders = O /\ b.recent = book.recent /\ b.clean = clean
  BY <1>1, <1>4, <1>5 DEF Typed, Book
<1> QED BY <1>1, <1>3, <1>6 DEF Rebuilt

LEMMA ResolvedIs ==
  ASSUME IInv, NEW p \in holder, NEW rs, rs = [c \in Cid |-> J!Resolved(p, c)]
  PROVE  /\ rs \in [Cid -> J!Row] /\ \A c \in Cid : Order(venue[c], rs[c], stored[c], c)
         /\ \A c \in Cid : rows[c].state = "filled" => rs[c].state = "filled"
         /\ \A c \in Cid : rows[c].state # "sending" => rs[c] = rows[c]
<1>1. ASSUME NEW c \in Cid
      PROVE  /\ rs[c] \in J!Row /\ Order(venue[c], rs[c], stored[c], c)
             /\ rows[c].state = "filled" => rs[c].state = "filled"
  <2>1. PICK row, row2 : row \in J!Row /\ row = rows[c] /\ row2 = rs[c] /\ row2 = J!Resolved(p, c)
    BY DEF IInv, Typed
  <2>2. PICK v, n : v = venue[c] /\ n = stored[c]
    OBVIOUS
  <2>3. Order(v, row, n, c)
    BY <2>1, <2>2 DEF IInv, Orders
  <2>4. pass[p].pollOk /\ row.state = "sending" /\ row.age = "old" => v.done = 0
    BY <2>1, <2>2 DEF IInv, InHand
  <2>5. /\ row2 \in J!Row /\ Order(v, row2, n, c)
        /\ row.state = "filled" => row2.state = "filled"
    BY <2>1, <2>3, <2>4, ResolvedRow
  <2> QED BY <2>1, <2>2, <2>5
<1>2. rs \in [Cid -> J!Row]
  BY <1>1
<1>3. \A c \in Cid : rows[c].state # "sending" => rs[c] = rows[c]
  BY DEF J!Resolved, J!Stale
<1> QED BY <1>1, <1>2, <1>3

LEMMA ApplyKeeps ==
  ASSUME IInv, UNCHANGED regime, NEW p \in Sweeps, Apply(p)
  PROVE  IInv' /\ Final
<1>1. holder = {p} /\ "latepoll" \in UnderLock /\ "idle" \notin UnderLock /\ "latepoll" \in Steps
  BY AloneInLock DEF Apply, At, UnderLock, Steps
<1>2. UNCHANGED <<want, sleeve, stored, venue, cache, faults, restarts>>
  BY DEF Apply
<1>3. book' \in Book
  <2>1. pass[p].pos \in Quantities /\ pass[p].listed \in SUBSET Cid
    BY DEF IInv, Typed, PassState
  <2>2. PICK d \in BOOLEAN : d = ~pass[p].drift
    OBVIOUS
  <2>3. PICK a : a = Audited(pass[p].pos, pass[p].listed) /\ book' = [a EXCEPT !.clean = d]
    BY <2>2, Zenon DEF Apply
  <2>4. Rebuilt(book', pass[p].pos, pass[p].listed, d)
    BY <2>1, <2>3, AuditedIs DEF IInv
  <2> QED BY <2>4 DEF Rebuilt
<1>4. CASE pass[p].late /\ Goto(p, "latepoll") /\ UNCHANGED <<rows, holder>>
  <2>1. PICK r : r = [pass[p] EXCEPT !.pc = "latepoll"] /\ Becomes(p, r)
    BY <1>4 DEF Goto
  <2>2. r \in PassState /\ r.pc = "latepoll" /\ r.pollOk = pass[p].pollOk
    BY <1>1, <2>1, GotoIs DEF IInv
  <2>3. Typed'
    BY <1>2, <1>3, <1>4, <2>1, <2>2, PassTo DEF IInv, Typed
  <2>4. Locks'
    BY <1>1, <1>4, <2>1, <2>2, LockStep DEF IInv
  <2>5. Orders' /\ Final
    BY <1>2, <1>4, RecordsKept DEF IInv
  <2>6. InHand'
    <3>1. pass[p].pollOk => \A c \in Cid : rows'[c].state = "sending" /\ rows'[c].age = "old" => venue'[c].done = 0
      BY <1>1, <1>2, <1>4 DEF IInv, InHand
    <3>2. holder' \subseteq {p}
      BY <1>1, <1>4
    <3> QED BY <2>1, <2>2, <3>1, <3>2, HandStep DEF IInv
  <2> QED BY <2>3, <2>4, <2>5, <2>6 DEF IInv
<1>5. CASE rows' = [c \in Cid |-> J!Resolved(p, c)] /\ End(p)
  <2>1. /\ rows' \in [Cid -> J!Row] /\ \A c \in Cid : Order(venue[c], rows'[c], stored[c], c)
        /\ Final
    BY <1>1, <1>5, ResolvedIs DEF Final
  <2>2. Becomes(p, IdlePass) /\ holder' = {}
    BY <1>1, <1>5 DEF End
  <2>3. Typed'
    BY <1>2, <1>3, <2>1, <2>2, PassTo, FreshTypes DEF IInv, Typed
  <2>4. Locks'
    BY <1>1, <2>2, LockStep, FreshTypes, IdleIs DEF IInv
  <2> QED BY <1>2, <2>1, <2>2, <2>3, <2>4 DEF IInv, Orders, InHand
<1> QED BY <1>4, <1>5 DEF Apply

LEMMA LatePollKeeps ==
  ASSUME IInv, UNCHANGED regime, NEW p \in Sweeps, LatePoll(p)
  PROVE  IInv' /\ Final
<1>1. holder = {p} /\ "resolving" \in UnderLock
  BY AloneInLock DEF LatePoll, At, UnderLock, Steps
<1>2. stored' = [c \in Cid |-> venue[c].done] /\ stored' \in Quantities
  BY JournalCid DEF LatePoll, J!StoreAll, IInv, Typed, Quantities, J!VenueOrder
<1>3. /\ rows' \in [Cid -> J!Row] /\ Final
      /\ \A c \in Cid : Order(venue[c], rows'[c], stored'[c], c)
      /\ \A c \in Cid : rows'[c].state = "sending" => venue[c].done = 0
  BY <1>2, PolledIs DEF LatePoll, IInv, Final
<1>4. book' \in Book /\ UNCHANGED <<want, sleeve, venue, cache, holder, faults, restarts>>
  BY NoteFillsIs DEF LatePoll, IInv
<1>5. PICK r : r = [pass[p] EXCEPT !.pc = "resolving", !.pollOk = TRUE] /\ Becomes(p, r)
  BY DEF LatePoll
<1>6. r \in PassState /\ r.pc = "resolving" /\ r.pollOk = TRUE
  BY <1>5, LatePollPass DEF IInv, Typed
<1>7. Typed'
  BY <1>2, <1>3, <1>4, <1>5, <1>6, PassTo DEF IInv, Typed
<1>8. Locks'
  BY <1>1, <1>4, <1>5, <1>6, LockStep DEF IInv
<1>9. Orders'
  BY <1>3, <1>4 DEF Orders
<1>10. InHand'
  BY <1>1, <1>3, <1>4, <1>5, <1>6, HandStep DEF IInv
<1> QED BY <1>3, <1>7, <1>8, <1>9, <1>10 DEF IInv

LEMMA ResolveStaleKeeps ==
  ASSUME IInv, UNCHANGED regime, NEW p \in Sweeps, ResolveStale(p)
  PROVE  IInv' /\ Final
<1>1. holder = {p} /\ "idle" \notin UnderLock
  BY AloneInLock DEF ResolveStale, At, UnderLock, Steps
<1>2. UNCHANGED <<want, sleeve, stored, venue, book, cache, faults, restarts>>
  BY DEF ResolveStale
<1>3. /\ rows' \in [Cid -> J!Row] /\ \A c \in Cid : Order(venue[c], rows'[c], stored[c], c)
      /\ Final
  BY <1>1, ResolvedIs DEF Final, ResolveStale
<1>4. Becomes(p, IdlePass) /\ holder' = {}
  BY <1>1 DEF End, ResolveStale
<1>5. Typed'
  BY <1>2, <1>3, <1>4, PassTo, FreshTypes DEF IInv, Typed
<1>6. Locks'
  BY <1>1, <1>4, LockStep, FreshTypes, IdleIs DEF IInv
<1> QED BY <1>2, <1>3, <1>4, <1>5, <1>6 DEF IInv, Orders, InHand

LEMMA ClockKeeps ==
  ASSUME IInv, UNCHANGED regime, SettleEnds \/ BookStale
  PROVE  IInv' /\ Final
<1>1. UNCHANGED <<want, sleeve, stored, rows, venue, pass, holder, faults>>
  BY DEF SettleEnds, BookStale
<1>2. book' \in Book /\ cache' \in Cached \cup {NoCache} /\ restarts' \in Nat
  <2>1. CASE SettleEnds
    BY <2>1 DEF SettleEnds, IInv, Typed, Book
  <2>2. CASE BookStale
    <3>1. restarts' = restarts + 1 /\ book' = [book EXCEPT !.clean = FALSE] /\ cache' = cache
      BY <2>2 DEF BookStale
    <3>2. book \in Book /\ restarts \in Nat /\ cache \in Cached \cup {NoCache}
      BY DEF IInv, Typed
    <3>3. [book EXCEPT !.clean = FALSE] \in Book
      BY <3>2 DEF Book
    <3> QED BY <3>1, <3>2, <3>3
  <2> QED BY <2>1, <2>2
<1>3. Typed'
  BY <1>1, <1>2 DEF IInv, Typed
<1> QED BY <1>1, <1>3, RecordsKept DEF IInv, Locks, InHand

LEMMA AgeIs ==
  ASSUME IInv, NEW c \in Cid, Age(c)
  PROVE  /\ rows' \in [Cid -> J!Row] /\ rows[c].state = "sending"
         /\ \A d \in Cid : d # c => rows'[d] = rows[d]
         /\ rows'[c].state = rows[c].state /\ rows'[c].filled = rows[c].filled
         /\ rows'[c].note = rows[c].note
         /\ rows'[c].age = "old" => holder = {} /\ venue[c].at # "working"
<1>1. PICK a \in {"suspect", "old"} :
        /\ rows' = [rows EXCEPT ![c].age = a] /\ rows[c].state = "sending"
        /\ a = "old" => holder = {} /\ venue[c].at # "working"
  BY DEF Age
<1>2. PICK row, row2 : row \in J!Row /\ row = rows[c] /\ row2 = [row EXCEPT !.age = a]
  BY DEF IInv, Typed
<1>3. /\ row2 \in J!Row /\ row2.state = row.state /\ row2.filled = row.filled
      /\ row2.note = row.note /\ row2.age = a
  BY <1>2 DEF J!Row
<1>4. rows' = [rows EXCEPT ![c] = row2]
  BY <1>1, <1>2
<1>5. rows' \in [Cid -> J!Row] /\ rows'[c] = row2 /\ \A d \in Cid : d # c => rows'[d] = rows[d]
  BY <1>3, <1>4 DEF IInv, Typed
<1> QED BY <1>1, <1>2, <1>3, <1>5

LEMMA AgeKeeps ==
  ASSUME IInv, UNCHANGED regime, NEW c \in Cid, Age(c)
  PROVE  IInv' /\ Final
<1>1. UNCHANGED <<want, sleeve, stored, venue, book, cache, pass, holder, faults, restarts>>
  BY DEF Age
<1>2. Typed'
  BY <1>1, AgeIs DEF IInv, Typed
<1>3. Order(venue'[c], rows'[c], stored'[c], c)
  BY <1>1, AgeIs DEF IInv, Orders, Order
<1>4. Orders'
  BY <1>1, <1>3, AgeIs DEF IInv, Orders
<1>5. Final
  BY AgeIs DEF Final
<1>6. InHand'
  <2>1. ASSUME NEW p \in holder
        PROVE  rows'[c].age # "old"
    BY <2>1, AgeIs
  <2>2. \A d \in Cid : rows'[d].state = rows[d].state
    BY AgeIs
  <2>3. \A p \in holder : pass[p].pc = "acking" => pass[p].cid \in Cid
    BY DEF IInv, Locks
  <2> QED BY <1>1, <2>1, <2>2, <2>3, AgeIs DEF IInv, InHand
<1>7. Locks'
  BY <1>1 DEF IInv, Locks
<1> QED BY <1>2, <1>4, <1>5, <1>6, <1>7 DEF IInv

LEMMA TickKeeps ==
  ASSUME IInv, UNCHANGED regime, Tick
  PROVE  IInv' /\ Final
<1>1. UNCHANGED <<rows, stored, venue, book, cache, pass, holder, faults, restarts>>
  BY DEF Tick
<1>2. sleeve' \in Quantities /\ want' \in Wants
  BY DEF Tick, IInv, Typed
<1>3. Typed'
  BY <1>1, <1>2 DEF IInv, Typed
<1> QED BY <1>1, <1>3, RecordsKept DEF IInv, Locks, InHand

LEMMA RestartKeeps ==
  ASSUME IInv, UNCHANGED regime, Restart
  PROVE  IInv' /\ Final
<1>1. UNCHANGED <<want, sleeve, rows, stored, venue, signals, faults>> /\ restarts' \in Nat
  BY DEF Restart, IInv, Typed
<1>2. /\ book' = EmptyBook /\ cache' = NoCache /\ pass' = [p \in Sweeps |-> IdlePass] /\ holder' = {}
  BY DEF Restart
<1>3. EmptyBook \in Book
  BY FreshTypes DEF EmptyBook, Book, Quantities
<1>4. Typed'
  BY <1>1, <1>2, <1>3, FreshTypes DEF IInv, Typed
<1>5. Locks'
  BY <1>2, IdleIs DEF Locks, UnderLock
<1> QED BY <1>1, <1>2, <1>4, <1>5, RecordsKept DEF IInv, InHand

LEMMA FillIs ==
  ASSUME Typed, NEW c \in Cid, Fill(c)
  PROVE  /\ venue' \in [Cid -> J!VenueOrder] /\ venue[c].at = "working"
         /\ venue'[c].at = "filled" /\ venue'[c].done = Qty(c)
         /\ \A d \in Cid : d # c => venue'[d] = venue[d]
         /\ UNCHANGED <<want, sleeve, rows, stored, book, cache, pass, holder, faults, restarts>>
<1>1. [at |-> "filled", done |-> Qty(c)] \in J!VenueOrder
  BY OrderIs DEF J!VenueOrder
<1> QED BY <1>1 DEF Fill, Typed

LEMMA FillKeeps ==
  ASSUME IInv, UNCHANGED regime, NEW c \in Cid, Fill(c)
  PROVE  IInv' /\ Final
<1>1. UNCHANGED <<want, sleeve, rows, stored, book, cache, pass, holder, faults, restarts>>
  BY DEF Fill
<1>2. Typed'
  BY <1>1, FillIs DEF IInv, Typed
<1>3. /\ venue'[c].at = "filled" /\ venue'[c].done = Qty(c) /\ venue[c].at = "working"
      /\ \A d \in Cid : d # c => venue'[d] = venue[d]
  BY FillIs DEF IInv
<1>4. Order(venue[c], rows[c], stored[c], c) /\ Qty(c) \in Nat /\ Qty(c) > 0
  BY OrderIs DEF IInv, Orders
<1>5. Order(venue'[c], rows'[c], stored'[c], c)
  BY <1>1, <1>3, <1>4 DEF Order, J!Open
<1>6. Orders'
  BY <1>1, <1>3, <1>5 DEF IInv, Orders
<1>7. ~(rows[c].state = "sending" /\ rows[c].age = "old")
  BY <1>3, <1>4 DEF Order
<1>8. InHand'
  BY <1>1, <1>3, <1>7 DEF IInv, InHand
<1>9. Locks' /\ Final
  BY <1>1 DEF IInv, Locks, Final
<1> QED BY <1>2, <1>6, <1>8, <1>9 DEF IInv

LEMMA InitHolds == Init => IInv
<1> SUFFICES ASSUME Init PROVE IInv
  OBVIOUS
<1>1. /\ sleeve = NoQty /\ stored = NoQty /\ rows = [c \in Cid |-> J!NoRow] /\ want = 0
      /\ venue = [c \in Cid |-> [at |-> "unsent", done |-> 0]] /\ regime \in Regimes
      /\ book = [EmptyBook EXCEPT !.based = TRUE]
      /\ cache = NoCache /\ pass = [p \in Sweeps |-> IdlePass] /\ holder = {}
      /\ faults = 0 /\ restarts = 0
  BY DEF Init
<1>2. book \in Book
  BY <1>1, FreshTypes DEF EmptyBook, Book, Quantities
<1>3. [at |-> "unsent", done |-> 0] \in J!VenueOrder
  BY DEF J!VenueOrder
<1>4. Typed
  BY <1>1, <1>2, <1>3, FreshTypes, WantsAssumption DEF Typed
<1>5. Locks
  BY <1>1, IdleIs DEF Locks, UnderLock
<1>6. \A c \in Cid : Order([at |-> "unsent", done |-> 0], J!NoRow, 0, c)
  BY DEF Order, J!NoRow
<1>7. Orders
  BY <1>1, <1>6 DEF Orders, NoQty
<1> QED BY <1>1, <1>4, <1>5, <1>7 DEF IInv, InHand

LEMMA StepHolds == IInv /\ [Next /\ UNCHANGED regime]_vars => IInv' /\ Final
<1> SUFFICES ASSUME IInv, [Next /\ UNCHANGED regime]_vars PROVE IInv' /\ Final
  OBVIOUS
<1>1. CASE UNCHANGED vars
  <2>1. UNCHANGED <<regime, want, sleeve, rows, stored, venue, book, cache, pass, holder, faults, restarts>>
    BY <1>1 DEF vars
  <2> QED BY <2>1, RecordsKept DEF IInv, Typed, Locks, InHand
<1>2. ASSUME UNCHANGED regime, NEW p \in Sweeps, SweepStep(p)
      PROVE  IInv' /\ Final
  BY <1>2, GatherKeeps, AcquireFastKeeps, AcquireAuditKeeps, PollAnsweredKeeps,
     PollUnansweredKeeps, FetchPositionsKeeps, FetchOrdersKeeps, FetchUnansweredKeeps,
     SubmitKeeps, AckKeeps, ApplyKeeps, LatePollKeeps, ResolveStaleKeeps, Zenon DEF SweepStep
<1>3. regime.threads \subseteq Sweeps
  BY RegimesAssumption DEF IInv, Typed, Regime
<1>4. CASE Next /\ UNCHANGED regime
  BY <1>2, <1>3, <1>4, FillKeeps, AgeKeeps, ClockKeeps, TickKeeps, RestartKeeps DEF Next
<1> QED BY <1>1, <1>4

\* Every variable has its type, and one pass holds the connection lock.
THEOREM Types == Spec => []TypeOK
<1>1. IInv => TypeOK
  <2> SUFFICES ASSUME IInv PROVE TypeOK
    OBVIOUS
  <2>1. Cardinality(holder) <= 1
    <3>1. CASE holder = {}
      BY <3>1, FS_EmptySet
    <3>2. ASSUME NEW p \in holder PROVE holder = {p}
      BY DEF IInv, Locks
    <3>3. ASSUME NEW p, holder = {p} PROVE Cardinality(holder) = 1
      BY <3>3, FS_Singleton
    <3> QED BY <3>1, <3>2, <3>3
  <2>2. cache = NoCache \/ cache.gates \in J!Gates
    BY DEF IInv, Typed, Cached
  <2>3. \A p \in Sweeps : pass[p].gates \in J!Gates /\ pass[p].cid \in Cid \cup {<<>>}
    BY DEF IInv, Typed, PassState
  <2> QED BY <2>1, <2>2, <2>3 DEF TypeOK, IInv, Typed, Quantities
<1> QED BY <1>1, InitHolds, StepHolds, PTL DEF Spec

\* The journal keeps its promises under the fast pass and the audit
\* together, whatever is lost, refused, unanswered or restarted: an order
\* that works at the venue has an open row, a row is abandoned only when its
\* order never traded, and the journal and the executions table never count
\* more than the venue traded. (Market orders have traded by the time
\* their row is old enough to abandon.)
JournalKept ==
  J!OutstandingCovered /\ J!AbandonedNeverTraded /\ J!NeverOvercounted

THEOREM Journaled == Spec => []JournalKept
<1>1. IInv => JournalKept
  <2> SUFFICES ASSUME IInv PROVE JournalKept
    OBVIOUS
  <2>1. ASSUME NEW c \in Cid
        PROVE  /\ venue[c].at \in {"flight", "working"} => c \in J!OpenRows(rows)
               /\ rows[c].state = "abandoned" => venue[c].done = 0
               /\ rows[c].filled <= stored[c] /\ stored[c] <= venue[c].done
    <3>1. Order(venue[c], rows[c], stored[c], c) /\ stored[c] \in Nat /\ venue[c].done \in Nat
      BY DEF IInv, Orders, Typed, Quantities, J!VenueOrder
    <3>2. J!Qty(c) = Qty(c) /\ Qty(c) \in Nat /\ Qty(c) > 0
      BY OrderIs
    <3> QED BY <3>1, <3>2, JournalCid DEF Order, J!OpenRows
  <2> QED BY <2>1, JournalCid DEF JournalKept, J!OutstandingCovered, J!AbandonedNeverTraded,
             J!NeverOvercounted
<1> QED BY <1>1, InitHolds, StepHolds, PTL DEF Spec

\* No ack, recovery or poll of either kind of pass reopens a filled row.
THEOREM FilledStays ==
  Spec => [][\A c \in Cid : rows[c].state = "filled" => rows'[c].state = "filled"]_vars
<1>1. IInv /\ [Next /\ UNCHANGED regime]_vars =>
        [\A c \in Cid : rows[c].state = "filled" => rows'[c].state = "filled"]_vars
  BY StepHolds DEF Final
<1> QED BY <1>1, InitHolds, StepHolds, PTL DEF Spec

-----------------------------------------------------------------------------
(* On an ordinary stretch of the day: no close window, every read and      *)
(* every order answered, the book never lost.                              *)

Plain == ~regime.close /\ ~regime.silent /\ regime.faults = 0 /\ regime.restarts = 0

(* What the book and the other records may say of an order: nothing yet;   *)
(* it is on the wire; it is pending in the book; it is in the position; it *)
(* filled between the audit's reads, and the book has no pending entry for *)
(* it; its fill was then counted once more by the poll of an audit that    *)
(* will replace the book.                                                  *)
Unknown(c) == rows[c].state = "absent" /\ book.pos[c] = 0 /\ book.orders[c] = 0
OnWire(c) ==
  /\ rows[c].state = "sending" /\ book.pos[c] = 0 /\ book.orders[c] = 0 /\ book.recent
  /\ \E p \in holder : pass[p].pc = "acking" /\ pass[p].cid = c
Pending(c) ==
  /\ rows[c].state \in {"submitted", "filled"} /\ stored[c] = 0
  /\ book.pos[c] = 0 /\ book.orders[c] = Qty(c)
Counted(c) == stored[c] = Qty(c) /\ book.pos[c] = Qty(c) /\ book.orders[c] = 0
Early(c) ==
  /\ rows[c].state = "submitted" /\ stored[c] = 0 /\ venue[c].at = "filled" /\ ~book.recent
  /\ book.pos[c] \in {0, Qty(c)} /\ book.orders[c] = 0
Twice(c) ==
  /\ stored[c] = Qty(c) /\ ~book.recent /\ book.pos[c] = Qty(c) + Qty(c) /\ book.orders[c] = 0
  /\ \E p \in holder : /\ pass[p].pc \in {"positions", "orders", "applying"}
                       /\ pass[p].pc # "applying" => pass[p].gates.unfolded
Settled(c) == Unknown(c) \/ Pending(c) \/ Counted(c)
BookKnows == \A c \in Cid : Settled(c) \/ OnWire(c) \/ Early(c) \/ Twice(c)

(* A row is written for an order that goes out, and says filled, or        *)
(* folded, only of one that is.                                            *)
RowsTrue ==
  \A c \in Cid : /\ rows[c].state # "absent" => venue[c].at # "unsent"
                 /\ rows[c].state = "filled" => venue[c].at = "filled"
                 /\ rows[c].note = "folded" => rows[c].state = "filled"

(* Gates a fast pass may trade by name every open row, unless an order has *)
(* gone out since they were read and is in its settle window.              *)
Current(gates) ==
  /\ gates.epoch <= J!Epoch(rows)
  /\ (book.recent /\ gates.epoch # J!Epoch(rows)) \/ J!OpenRows(rows) \subseteq gates.open
GatesCurrent ==
  /\ cache # NoCache => Current(cache.gates)
  /\ \A p \in Sweeps : pass[p].fast /\ pass[p].pc = "waiting" => Current(pass[p].gates)

(* What an audit has read, against the records it reads.                   *)
Settling(p) ==
  \/ pass[p].pc \in {"positions", "orders", "sending"}
  \/ pass[p].pc = "applying" /\ (pass[p].cid = <<>> \/ ~book.recent)
Fetched(p) ==
  /\ pass[p].pc \in {"positions", "orders"} => J!OpenRows(rows) \subseteq pass[p].gates.open
  /\ Settling(p) => \A c \in Cid : rows[c].state = "filled" => stored[c] = Qty(c)
  /\ pass[p].pc \in {"orders", "sending", "acking", "applying"} =>
       \A c \in Cid : pass[p].pos[c] \in {0, venue[c].done} /\ stored[c] \in {0, pass[p].pos[c]}
  /\ pass[p].pc \in {"sending", "acking", "applying"} =>
       \A c \in pass[p].listed : pass[p].pos[c] = 0 /\ venue[c].at # "unsent"
  /\ pass[p].pc \in {"sending", "applying"} /\ Settling(p) =>
       \A c \in Cid \ pass[p].listed : venue[c].at \in {"unsent", "filled"}

(* An order about to go out brings the account to a position the strategy  *)
(* wanted, and the book then knows of every other.                         *)
Sends(p) ==
  pass[p].pc = "sending" =>
    /\ Exposure + Signed(pass[p].cid, Qty(pass[p].cid)) \in Wants
    /\ \A c \in Cid : Settled(c)

Behind ==
  \A c \in Cid : sleeve[c] <= stored[c] /\ \A p \in Sweeps : pass[p].model[c] <= stored[c]

PassesPlain ==
  \A p \in Sweeps :
    /\ ~pass[p].late /\ pass[p].pc \notin {"latepoll", "resolving"}
    /\ pass[p].pc \in {"polling", "positions", "orders", "applying"} => ~pass[p].fast

PlainInv ==
  /\ BookKnows /\ RowsTrue /\ GatesCurrent /\ Behind /\ PassesPlain
  /\ Exposure \in Wants
  /\ \A p \in holder : Sends(p) /\ (~pass[p].fast => Fetched(p))

-----------------------------------------------------------------------------
(* Quantities that add up.                                                 *)

LEMMA NetSum ==
  ASSUME NEW f \in Quantities, NEW g \in Quantities, NEW h \in Quantities,
         \A c \in Cid : h[c] = f[c] + g[c]
  PROVE  Net(h) = Net(f) + Net(g)
<1>1. ASSUME NEW c \in Cid
      PROVE  /\ Shares(f)[c] \in Int /\ Shares(g)[c] \in Int
             /\ Shares(h)[c] = Shares(f)[c] + Shares(g)[c]
  <2>1. PICK a \in Nat, b \in Nat : a = f[c] /\ b = g[c] /\ h[c] = a + b
    BY DEF Quantities
  <2>2. Shares(f)[c] = Signed(c, a) /\ Shares(g)[c] = Signed(c, b) /\ Shares(h)[c] = Signed(c, a + b)
    BY <2>1, SharesIs
  <2>3. Signed(c, a + b) = Signed(c, a) + Signed(c, b)
    BY DEF Signed
  <2> QED BY <2>2, <2>3, SharesIs
<1>2. Total(Shares(h), Cid) = Total(Shares(f), Cid) + Total(Shares(g), Cid)
  BY <1>1, CidFinite, TotalAdd
<1> QED BY <1>2, NetIs

LEMMA NetSame ==
  ASSUME NEW f \in Quantities, NEW g \in Quantities, \A c \in Cid : g[c] = f[c]
  PROVE  Net(g) = Net(f)
<1>1. f = g
  BY DEF Quantities
<1> QED BY <1>1

\* What of each order the account holds or has working.
Owned(v) == [c \in Cid |-> IF v[c].at = "unsent" THEN 0 ELSE Qty(c)]

LEMMA OwnedType ==
  ASSUME NEW v PROVE Owned(v) \in Quantities /\ \A c \in Cid : Owned(v)[c] = IF v[c].at = "unsent" THEN 0 ELSE Qty(c)
  BY OrderIs DEF Owned, Quantities

LEMMA OwnedNet ==
  ASSUME NEW v \in [Cid -> J!VenueOrder], NEW rs, NEW st,
         \A c \in Cid : Order(v[c], rs[c], st[c], c)
  PROVE  Net([c \in Cid |-> v[c].done]) + Net(Listed({c \in Cid : v[c].at = "working"})) = Net(Owned(v))
<1>1. PICK held \in Quantities : held = [c \in Cid |-> v[c].done]
  BY DEF Quantities, J!VenueOrder
<1>2. PICK working : working = {c \in Cid : v[c].at = "working"}
  OBVIOUS
<1>3. PICK listed \in Quantities : listed = Listed(working)
  BY OrderIs DEF Listed, Quantities
<1>4. ASSUME NEW c \in Cid
      PROVE  Owned(v)[c] = held[c] + listed[c]
  <2>1. PICK q \in Nat : q = Qty(c)
    BY OrderIs
  <2>2. held[c] = v[c].done /\ listed[c] = IF v[c].at = "working" THEN q ELSE 0
    BY <1>1, <1>2, <1>3, <2>1 DEF Listed
  <2>3. v[c].at \in {"unsent", "working", "filled"} /\ v[c].done = IF v[c].at = "filled" THEN q ELSE 0
    BY <2>1 DEF Order
  <2> QED BY <2>1, <2>2, <2>3, OwnedType
<1>5. Net(Owned(v)) = Net(held) + Net(listed)
  BY <1>4, OwnedType, NetSum
<1> QED BY <1>1, <1>2, <1>3, <1>5

LEMMA ExposureIs ==
  ASSUME IInv PROVE Exposure = Net(Owned(venue)) /\ Exposure \in Int
<1>1. \A c \in Cid : Order(venue[c], rows[c], stored[c], c)
  BY DEF IInv, Orders
<1>2. venue \in [Cid -> J!VenueOrder]
  BY DEF IInv, Typed
<1>3. Exposure = Net(Owned(venue))
  BY <1>1, <1>2, OwnedNet DEF Exposure, Held, Working
<1> QED BY <1>3, OwnedType, NetIs

LEMMA ExposureNext ==
  ASSUME IInv' PROVE Exposure' = Net(Owned(venue'))
<1>1. PICK v, rs, st : v = venue' /\ rs = rows' /\ st = stored'
  OBVIOUS
<1>2. v \in [Cid -> J!VenueOrder] /\ \A c \in Cid : Order(v[c], rs[c], st[c], c)
  BY <1>1 DEF IInv, Orders, Typed
<1>3. Net([c \in Cid |-> v[c].done]) + Net(Listed({c \in Cid : v[c].at = "working"})) = Net(Owned(v))
  BY <1>2, OwnedNet
<1> QED BY <1>1, <1>3 DEF Exposure, Held, Working

\* Exposure moves only when an order goes out.
LEMMA ExposureSame ==
  ASSUME IInv, IInv', \A c \in Cid : venue'[c].at = "unsent" <=> venue[c].at = "unsent"
  PROVE  Exposure' = Exposure
<1>1. \A c \in Cid : Owned(venue')[c] = Owned(venue)[c]
  BY OwnedType
<1>2. Net(Owned(venue')) = Net(Owned(venue))
  BY <1>1, OwnedType, NetSame
<1> QED BY <1>2, ExposureIs, ExposureNext

LEMMA ExposureMore ==
  ASSUME IInv, IInv', NEW c \in Cid, venue[c].at = "unsent", venue'[c].at # "unsent",
         \A d \in Cid : d # c => venue'[d] = venue[d]
  PROVE  Exposure' = Exposure + Signed(c, Qty(c))
<1>1. PICK f \in Quantities, g \in Quantities : f = Owned(venue) /\ g = Owned(venue')
  BY OwnedType
<1>2. PICK q \in Nat : q = Qty(c)
  BY OrderIs
<1>3. f[c] = 0 /\ g[c] = q /\ \A d \in Cid : d # c => g[d] = f[d]
  BY <1>1, <1>2, OwnedType
<1>4. PICK R \in SUBSET Cid : R = Cid \ {c}
  OBVIOUS
<1>5. \A d \in Cid : Shares(f)[d] \in Int /\ Shares(g)[d] \in Int
  BY SharesIs
<1>6. Total(Shares(f), Cid) = Shares(f)[c] + Total(Shares(f), R)
  BY <1>4, <1>5, CidFinite, TotalAt
<1>7. Total(Shares(g), Cid) = Shares(g)[c] + Total(Shares(g), R)
  BY <1>4, <1>5, CidFinite, TotalAt
<1>8. IsFiniteSet(R)
  BY CidFinite, FS_Subset
<1>9. Total(Shares(g), R) = Total(Shares(f), R)
  <2>1. \A d \in R : Shares(g)[d] = Shares(f)[d]
    BY <1>3, <1>4, SharesIs
  <2> QED BY <1>5, <1>8, <2>1, TotalSame
<1>10. Shares(f)[c] = 0 /\ Shares(g)[c] = Signed(c, q) /\ Signed(c, q) \in Int
  BY <1>2, <1>3, SharesIs, SignedIs
<1>11. Total(Shares(f), R) \in Int
  BY <1>5, <1>8, TotalType
<1>12. Net(g) = Net(f) + Signed(c, q)
  BY <1>6, <1>7, <1>9, <1>10, <1>11, NetIs
<1> QED BY <1>1, <1>2, <1>12, ExposureIs, ExposureNext

\* A book that knows of every order adds up to the exposure; so does a fetch.
LEMMA BookAddsUp ==
  ASSUME IInv, RowsTrue, \A c \in Cid : Settled(c)
  PROVE  Net(book.pos) + Net(book.orders) = Exposure
<1>1. PICK pos \in Quantities, ords \in Quantities : pos = book.pos /\ ords = book.orders
  BY DEF IInv, Typed, Book, Quantities
<1>2. ASSUME NEW c \in Cid
      PROVE  Owned(venue)[c] = pos[c] + ords[c]
  <2>1. PICK q \in Nat : q = Qty(c) /\ q > 0
    BY OrderIs
  <2>2. Order(venue[c], rows[c], stored[c], c)
    BY DEF IInv, Orders
  <2>3. Owned(venue)[c] = IF venue[c].at = "unsent" THEN 0 ELSE q
    BY <2>1, OwnedType
  <2>4. CASE Unknown(c)
    BY <1>1, <2>2, <2>3, <2>4 DEF Unknown, Order
  <2>5. CASE Pending(c)
    BY <1>1, <2>1, <2>3, <2>5 DEF Pending, RowsTrue
  <2>6. CASE Counted(c)
    BY <1>1, <2>1, <2>2, <2>3, <2>6 DEF Counted, Order
  <2> QED BY <2>4, <2>5, <2>6 DEF Settled
<1>3. Net(Owned(venue)) = Net(pos) + Net(ords)
  BY <1>2, OwnedType, NetSum
<1> QED BY <1>1, <1>3, ExposureIs

LEMMA FetchAddsUp ==
  ASSUME IInv, NEW pos \in Quantities,
         \A c \in Cid : \/ venue[c].at = "working" /\ pos[c] = 0
                        \/ venue[c].at = "unsent" /\ pos[c] = 0
                        \/ venue[c].at = "filled" /\ pos[c] = Qty(c)
  PROVE  Net(pos) + Net(Listed(Working)) = Exposure
<1>1. PICK ords \in Quantities : ords = Listed(Working)
  BY WorkingType
<1>2. ASSUME NEW c \in Cid
      PROVE  Owned(venue)[c] = pos[c] + ords[c]
  <2>1. PICK q \in Nat : q = Qty(c) /\ q > 0
    BY OrderIs
  <2>2. ords[c] = IF venue[c].at = "working" THEN q ELSE 0
    BY <1>1, <2>1 DEF Listed, Working
  <2>3. Owned(venue)[c] = IF venue[c].at = "unsent" THEN 0 ELSE q
    BY <2>1, OwnedType
  <2> QED BY <2>1, <2>2, <2>3
<1>3. Net(Owned(venue)) = Net(pos) + Net(ords)
  BY <1>2, OwnedType, NetSum
<1> QED BY <1>1, <1>3, ExposureIs

LEMMA EpochSame ==
  ASSUME NEW rs, NEW qs, \A c \in Cid : (rs[c].state = "absent") <=> (qs[c].state = "absent")
  PROVE  J!Epoch(rs) = J!Epoch(qs)
<1>1. J!Present(rs) = J!Present(qs)
  BY JournalCid DEF J!Present
<1> QED BY <1>1 DEF J!Epoch

LEMMA EpochMore ==
  ASSUME NEW rs, NEW qs, NEW c \in Cid, rs[c].state = "absent", qs[c].state # "absent",
         \A d \in Cid : d # c => qs[d] = rs[d]
  PROVE  J!Epoch(rs) \in Nat /\ J!Epoch(qs) = J!Epoch(rs) + 1
<1>1. PICK S \in SUBSET Cid, T \in SUBSET Cid : S = J!Present(rs) /\ T = J!Present(qs)
  BY JournalCid DEF J!Present
<1>2. T = S \cup {c} /\ c \notin S
  BY <1>1, JournalCid DEF J!Present
<1>3. IsFiniteSet(S) /\ Cardinality(S) \in Nat
  BY CidFinite, FS_Subset, FS_CardinalityType
<1>4. Cardinality(T) = Cardinality(S) + 1
  BY <1>2, <1>3, FS_AddElement
<1>5. J!Epoch(rs) = Cardinality(S) /\ J!Epoch(qs) = Cardinality(T)
  BY <1>1, JournalCardinality, Zenon DEF J!Epoch
<1> QED BY <1>3, <1>4, <1>5

LEMMA EpochType ==
  ASSUME NEW rs PROVE J!Epoch(rs) \in Nat
<1>1. PICK S \in SUBSET Cid : S = J!Present(rs)
  BY JournalCid DEF J!Present
<1>2. Cardinality(S) \in Nat
  BY CidFinite, FS_Subset, FS_CardinalityType
<1>3. J!Epoch(rs) = Cardinality(S)
  BY <1>1, JournalCardinality, Zenon DEF J!Epoch
<1> QED BY <1>2, <1>3

\* The totals of a side are sums too.
LEMMA SideTotalIs ==
  ASSUME NEW q, NEW cs \in SUBSET Cid, NEW side, NEW S, S = {c \in cs : J!Side(c) = side},
         \A c \in S : q[c] \in Int
  PROVE  J!SideTotal(q, cs, side) = Total(q, S)
<1> DEFINE iter == CHOOSE g : g = [s \in SUBSET S |-> IF s = {} THEN 0 ELSE q[One(s)] + g[Rest(s)]]
<1>1. J!SideTotal(q, cs, side) = iter[S]
  BY Zenon DEF J!SideTotal, J!MapThenSumSet, J!MapThenFoldSet, One, Rest
<1>0. S \subseteq Cid /\ IsFiniteSet(S)
  BY CidFinite, FS_Subset
<1>2. PICK g \in [SUBSET S -> Int] : IsSum(g, S, q) /\ Total(q, S) = g[S]
  BY <1>0, TotalIs
<1>4. g = [s \in SUBSET S |-> IF s = {} THEN 0 ELSE q[One(s)] + g[Rest(s)]]
  BY <1>2 DEF IsSum
<1>5. iter = [s \in SUBSET S |-> IF s = {} THEN 0 ELSE q[One(s)] + iter[Rest(s)]]
  BY <1>4, Zenon
<1> HIDE DEF iter
<1>6. IsSum(iter, S, q)
  BY <1>5 DEF IsSum
<1>7. iter[S] = g[S]
  BY <1>0, <1>2, <1>6, SumUnique
<1> QED BY <1>1, <1>2, <1>7

\* A fill the payload has not folded freezes the symbol, however much else
\* it has folded.
LEMMA FreshFillFreezes ==
  ASSUME NEW rs \in [Cid -> J!Row], NEW model \in Quantities, NEW c \in Cid,
         \A d \in Cid : model[d] <= IF rs[d].state = "filled" THEN rs[d].filled ELSE 0,
         rs[c].state = "filled", rs[c].note # "folded", model[c] < rs[c].filled
  PROVE  J!UnfoldedFreeze(rs, model)
<1>1. PICK g : g = [d \in Cid |-> IF rs[d].state = "filled" THEN rs[d].filled ELSE 0]
  OBVIOUS
<1>2. \A d \in Cid : g[d] \in Nat /\ model[d] \in Nat /\ model[d] <= g[d]
  BY <1>1 DEF J!Row, Quantities
<1>3. model[c] < g[c]
  BY <1>1
<1>4. PICK s \in {"buy", "sell"} : s = J!Side(c)
  BY OrderIs
<1>5. PICK A \in SUBSET Cid : A = {d \in Cid : J!Side(d) = s}
  OBVIOUS
<1>6. PICK B \in SUBSET Cid : B = {d \in Cid : rs[d].state = "filled"}
  OBVIOUS
<1>7. PICK C \in SUBSET A : C = {d \in B : J!Side(d) = s}
  BY <1>5, <1>6
<1>8. PICK f : f = [d \in Cid |-> rs[d].filled]
  OBVIOUS
<1>9. IsFiniteSet(A) /\ IsFiniteSet(C) /\ c \in A
  BY <1>4, <1>5, CidFinite, FS_Subset
<1>10. J!SideTotal(model, Cid, s) = Total(model, A)
  BY <1>2, <1>5, SideTotalIs
<1>11. J!SideTotal(f, B, s) = Total(f, C)
  <2>1. \A d \in C : f[d] \in Int
    BY <1>7, <1>8 DEF J!Row
  <2> QED BY <1>7, <2>1, SideTotalIs
<1>12. Total(f, C) = Total(g, C)
  <2>1. \A d \in C : f[d] = g[d] /\ g[d] \in Int
    BY <1>1, <1>2, <1>6, <1>7, <1>8
  <2> QED BY <1>9, <2>1, TotalSame
<1>13. Total(g, A) = Total(g, C)
  <2>1. \A d \in A : g[d] \in Int
    BY <1>2
  <2>2. \A d \in A \ C : g[d] = 0
    BY <1>1, <1>5, <1>6, <1>7
  <2> QED BY <1>9, <2>1, <2>2, TotalPart
<1>14. Total(model, A) < Total(g, A)
  <2>1. \A d \in A : model[d] \in Int /\ g[d] \in Int /\ model[d] <= g[d]
    BY <1>2
  <2> QED BY <1>3, <1>9, <2>1, TotalLess
<1>15. J!FilledSide(rs, s) = J!SideTotal(f, B, s)
  BY <1>6, <1>8, JournalCid DEF J!FilledSide
<1>16. Total(model, A) \in Int /\ Total(g, A) \in Int
  <2>1. \A d \in A : model[d] \in Int /\ g[d] \in Int
    BY <1>2
  <2> QED BY <1>9, <2>1, TotalType
<1>17. J!FilledSide(rs, s) # J!SideTotal(model, J!Cid, s)
  BY <1>10, <1>11, <1>12, <1>13, <1>14, <1>15, <1>16, JournalCid
<1>18. ~J!Matches(rs, model)
  BY <1>17, Zenon DEF J!Matches
<1>19. rs[c].filled > 0
  BY <1>1, <1>2, <1>3
<1>20. c \in J!Unfolded(rs)
  BY <1>19, JournalCid DEF J!Unfolded
<1> QED BY <1>18, <1>20 DEF J!UnfoldedFreeze

\* Gates stay current when the rows only settle, and when an order goes out.
LEMMA CurrentSettles ==
  ASSUME NEW g, Current(g), book'.recent = book.recent, J!Epoch(rows') = J!Epoch(rows),
         J!OpenRows(rows') \subseteq J!OpenRows(rows)
  PROVE  Current(g)'
  BY DEF Current

LEMMA OpenRowsIs ==
  ASSUME NEW rs
  PROVE  J!OpenRows(rs) = {c \in Cid : rs[c].state \in {"sending", "submitted", "open"} /\ rs[c].filled < Qty(c)}
<1>1. \A c \in Cid : J!Qty(c) = Qty(c)
  BY OrderIs
<1> QED BY <1>1, JournalCid DEF J!OpenRows, J!Open

LEMMA GatesKept ==
  ASSUME GatesCurrent, book'.recent = book.recent, J!Epoch(rows') = J!Epoch(rows),
         J!OpenRows(rows') \subseteq J!OpenRows(rows),
         cache' = cache \/ (cache # NoCache => Current(cache.gates))',
         \A p \in Sweeps : pass'[p].fast /\ pass'[p].pc = "waiting" =>
                             pass'[p] = pass[p] \/ Current(pass[p].gates)'
  PROVE  GatesCurrent'
<1>1. ASSUME cache' # NoCache PROVE Current(cache.gates)'
  <2>1. CASE cache' = cache
    <3>1. PICK g : g = cache.gates /\ Current(g)
      BY <1>1, <2>1 DEF GatesCurrent
    <3>2. Current(g)'
      BY <3>1, CurrentSettles
    <3> QED BY <2>1, <3>1, <3>2
  <2> QED BY <1>1, <2>1
<1>2. ASSUME NEW p \in Sweeps, pass'[p].fast /\ pass'[p].pc = "waiting"
      PROVE  Current(pass[p].gates)'
  <2>1. CASE pass'[p] = pass[p]
    <3>1. PICK g : g = pass[p].gates /\ Current(g)
      BY <1>2, <2>1 DEF GatesCurrent
    <3>2. Current(g)'
      BY <3>1, CurrentSettles
    <3> QED BY <2>1, <3>1, <3>2
  <2> QED BY <1>2, <2>1
<1> QED BY <1>1, <1>2 DEF GatesCurrent

LEMMA SettledKept ==
  ASSUME UNCHANGED <<book, stored>>, \A c \in Cid : rows'[c].state = rows[c].state
  PROVE  \A c \in Cid : Settled(c) => Settled(c)'
  BY DEF Settled, Unknown, Pending, Counted

LEMMA KnowsKept ==
  ASSUME BookKnows, UNCHANGED <<book, stored>>, \A c \in Cid : rows'[c].state = rows[c].state,
         \A c \in Cid : venue[c].at = "filled" => venue'[c].at = "filled",
         \A c \in Cid : OnWire(c) =>
           \E p \in holder' : pass'[p].pc = "acking" /\ pass'[p].cid = c,
         \A c \in Cid : Twice(c) =>
           \E p \in holder' : /\ pass'[p].pc \in {"positions", "orders", "applying"}
                              /\ pass'[p].pc # "applying" => pass'[p].gates.unfolded
  PROVE  BookKnows'
<1>1. ASSUME NEW c \in Cid
      PROVE  (Settled(c) \/ OnWire(c) \/ Early(c) \/ Twice(c))'
  <2>1. CASE Settled(c)
    BY <2>1, SettledKept
  <2>2. CASE OnWire(c)
    BY <2>2 DEF OnWire
  <2>3. CASE Early(c)
    BY <2>3 DEF Early
  <2>4. CASE Twice(c)
    BY <2>4 DEF Twice
  <2> QED BY <2>1, <2>2, <2>3, <2>4 DEF BookKnows
<1> QED BY <1>1 DEF BookKnows

LEMMA FetchedKept ==
  ASSUME NEW p \in Sweeps, Fetched(p), pass'[p] = pass[p], UNCHANGED stored,
         pass[p].listed \in SUBSET Cid,
         book'.recent = book.recent, J!OpenRows(rows') \subseteq J!OpenRows(rows),
         \A c \in Cid : rows'[c].state = "filled" => rows[c].state = "filled",
         \A c \in Cid : \/ venue'[c] = venue[c]
                        \/ venue[c].at = "working" /\ venue[c].done = 0 /\ venue'[c].at = "filled"
  PROVE  Fetched(p)'
<1>1. (Settling(p))' <=> Settling(p)
  BY DEF Settling
<1>2. (pass[p].pc \in {"positions", "orders"} => J!OpenRows(rows) \subseteq pass[p].gates.open)'
  BY DEF Fetched
<1>3. (Settling(p) => \A c \in Cid : rows[c].state = "filled" => stored[c] = Qty(c))'
  BY <1>1 DEF Fetched
<1>4. ASSUME pass'[p].pc \in {"orders", "sending", "acking", "applying"}, NEW c \in Cid
      PROVE  pass'[p].pos[c] \in {0, venue'[c].done} /\ stored'[c] \in {0, pass'[p].pos[c]}
  BY <1>4 DEF Fetched
<1>5. ASSUME pass'[p].pc \in {"sending", "acking", "applying"}, NEW c \in pass'[p].listed
      PROVE  pass'[p].pos[c] = 0 /\ venue'[c].at # "unsent"
  BY <1>5 DEF Fetched
<1>6. ASSUME pass'[p].pc \in {"sending", "applying"}, Settling(p), NEW c \in Cid \ pass'[p].listed
      PROVE  venue'[c].at \in {"unsent", "filled"}
  BY <1>6 DEF Fetched
<1> QED BY <1>1, <1>2, <1>3, <1>4, <1>5, <1>6 DEF Fetched

\* Steps that leave the holder, the book and the executions table alone.
LEMMA QuietKeeps ==
  ASSUME IInv, IInv', PlainInv, UNCHANGED <<book, stored, holder>>,
         \A c \in Cid : /\ rows'[c].state = rows[c].state /\ rows'[c].filled = rows[c].filled
                        /\ rows'[c].note = rows[c].note \/ rows[c].state = "filled",
         \A c \in Cid : venue'[c] = venue[c] \/ (venue[c].at = "working" /\ venue'[c].at = "filled"),
         cache' = cache \/ (cache # NoCache => Current(cache.gates))',
         \A c \in Cid : sleeve'[c] <= stored[c],
         \A p \in Sweeps : pass'[p] # pass[p] =>
           /\ p \notin holder /\ ~pass'[p].late /\ pass'[p].pc = "waiting"
           /\ \A c \in Cid : pass'[p].model[c] <= stored[c]
           /\ pass'[p].fast => Current(pass[p].gates)'
  PROVE  PlainInv'
<1>0. /\ BookKnows /\ RowsTrue /\ GatesCurrent /\ Behind /\ PassesPlain /\ Exposure \in Wants
      /\ \A p \in holder : Sends(p) /\ (~pass[p].fast => Fetched(p))
  BY DEF PlainInv
<1>1. \A p \in holder : p \in Sweeps /\ pass'[p] = pass[p] /\ pass[p].listed \in SUBSET Cid
  BY DEF IInv, Locks, Typed, PassState
<1>2. J!OpenRows(rows') = J!OpenRows(rows)
  <2>1. J!OpenRows(rows) = {c \in Cid : rows[c].state \in {"sending", "submitted", "open"} /\ rows[c].filled < Qty(c)}
    BY OpenRowsIs
  <2>2. J!OpenRows(rows') = {c \in Cid : rows'[c].state \in {"sending", "submitted", "open"} /\ rows'[c].filled < Qty(c)}
    BY OpenRowsIs
  <2> QED BY <2>1, <2>2
<1>3. J!Epoch(rows') = J!Epoch(rows)
  BY EpochSame
<1>4. \A c \in Cid : venue[c].at = "working" => venue[c].done = 0
  BY DEF IInv, Orders, Order
<1>5. Exposure' = Exposure
  <2>1. \A c \in Cid : venue'[c].at = "unsent" <=> venue[c].at = "unsent"
    OBVIOUS
  <2> QED BY <2>1, ExposureSame
<1>6. BookKnows'
  <2>1. \A c \in Cid : OnWire(c) => \E p \in holder' : pass'[p].pc = "acking" /\ pass'[p].cid = c
    BY <1>1 DEF OnWire
  <2>2. \A c \in Cid : Twice(c) =>
           \E p \in holder' : /\ pass'[p].pc \in {"positions", "orders", "applying"}
                              /\ pass'[p].pc # "applying" => pass'[p].gates.unfolded
    BY <1>1 DEF Twice
  <2>3. \A c \in Cid : venue[c].at = "filled" => venue'[c].at = "filled"
    OBVIOUS
  <2> QED BY <1>0, <2>1, <2>2, <2>3, KnowsKept
<1>7. RowsTrue'
  <2>1. \A c \in Cid : /\ venue[c].at # "unsent" => venue'[c].at # "unsent"
                       /\ venue[c].at = "filled" => venue'[c].at = "filled"
    OBVIOUS
  <2> QED BY <1>0, <2>1 DEF RowsTrue
<1>8. GatesCurrent'
  <2>1. \A p \in Sweeps : pass'[p].fast /\ pass'[p].pc = "waiting" =>
                             pass'[p] = pass[p] \/ Current(pass[p].gates)'
    OBVIOUS
  <2> QED BY <1>0, <1>2, <1>3, <2>1, GatesKept
<1>9. Behind'
  <2>1. \A p \in Sweeps, c \in Cid : pass'[p].model[c] <= stored[c]
    BY <1>0 DEF Behind
  <2> QED BY <2>1 DEF Behind
<1>10. PassesPlain'
  BY <1>0 DEF PassesPlain
<1>11. (Exposure \in Wants)'
  <2>1. want' \in Wants
    BY DEF IInv, Typed
  <2> QED BY <1>0, <1>5
<1>12. ASSUME NEW p \in holder'
       PROVE  Sends(p)' /\ (pass'[p].fast \/ Fetched(p)')
  <2>1. p \in holder /\ p \in Sweeps /\ pass'[p] = pass[p] /\ pass[p].listed \in SUBSET Cid
    BY <1>1
  <2>2. Sends(p)'
    BY <1>0, <1>5, <2>1, SettledKept DEF Sends
  <2>3. ASSUME ~pass[p].fast PROVE Fetched(p)'
    <3>1. Fetched(p)
      BY <1>0, <2>1, <2>3
    <3>2. \A c \in Cid : \/ venue'[c] = venue[c]
                         \/ venue[c].at = "working" /\ venue[c].done = 0 /\ venue'[c].at = "filled"
      BY <1>4
    <3>3. \A c \in Cid : rows'[c].state = "filled" => rows[c].state = "filled"
      OBVIOUS
    <3> QED BY <1>2, <2>1, <3>1, <3>2, <3>3, FetchedKept
  <2> QED BY <2>1, <2>2, <2>3
<1> QED BY <1>6, <1>7, <1>8, <1>9, <1>10, <1>11, <1>12 DEF PlainInv

LEMMA GatesOfCurrent ==
  ASSUME NEW rs, NEW model, NEW g, g = J!GatesOf(rs, model),
         J!Epoch(rows') = J!Epoch(rs), J!OpenRows(rows') \subseteq J!OpenRows(rs)
  PROVE  Current(g)'
<1>1. g.epoch = J!Epoch(rs) /\ g.open = J!OpenRows(rs)
  BY DEF J!GatesOf
<1>2. J!Epoch(rs) \in Nat
  BY EpochType
<1> QED BY <1>1, <1>2 DEF Current

LEMMA OpenSame ==
  ASSUME NEW rs, NEW qs, \A c \in Cid : qs[c].state = rs[c].state /\ qs[c].filled = rs[c].filled
  PROVE  J!OpenRows(qs) = J!OpenRows(rs) /\ J!Epoch(qs) = J!Epoch(rs)
<1>1. J!OpenRows(rs) = {c \in Cid : rs[c].state \in {"sending", "submitted", "open"} /\ rs[c].filled < Qty(c)}
  BY OpenRowsIs
<1>2. J!OpenRows(qs) = {c \in Cid : qs[c].state \in {"sending", "submitted", "open"} /\ qs[c].filled < Qty(c)}
  BY OpenRowsIs
<1> QED BY <1>1, <1>2, EpochSame

\* The fold lift marks filled rows only.
LEMMA LiftedNote ==
  ASSUME NEW rs \in [Cid -> J!Row], NEW model, NEW c \in Cid
  PROVE  J!Lifted(rs, model)[c].note = rs[c].note \/ rs[c].state = "filled"
  BY JournalCid DEF J!Lifted, J!MarkFolded, J!Row

LEMMA GatherPlain ==
  ASSUME IInv, IInv', Plain, PlainInv, NEW p \in Sweeps, NEW fast \in BOOLEAN, Gather(p, fast)
  PROVE  PlainInv'
<1>1. PICK r \in PassState, got \in Cached :
        /\ Becomes(p, r) /\ cache' = got
        /\ r.pc = "waiting" /\ r.model = sleeve /\ r.fast = fast
        /\ fast => r.gates = got.gates
        /\ r.late => regime.close
        /\ \/ cache # NoCache /\ got = cache /\ rows' = rows
           \/ got.gates = J!GatesOf(rows, sleeve) /\ rows' = J!Lifted(rows, sleeve)
  BY GatherIs DEF IInv
<1>2. UNCHANGED <<want, sleeve, stored, venue, book, holder>>
  BY DEF Gather
<1>3. p \notin holder
  BY DEF Gather, At, IInv, Locks, UnderLock
<1>4. \A c \in Cid : /\ rows'[c].state = rows[c].state /\ rows'[c].filled = rows[c].filled
                     /\ rows'[c].note = rows[c].note \/ rows[c].state = "filled"
  BY <1>1, LiftedRow, LiftedNote DEF IInv, Typed
<1>5. J!OpenRows(rows') = J!OpenRows(rows) /\ J!Epoch(rows') = J!Epoch(rows)
  BY <1>4, OpenSame
<1>6. Current(cache.gates)'
  <2>1. PICK g : g = got.gates
    OBVIOUS
  <2>2. CASE cache # NoCache /\ got = cache
    <3>1. Current(g)
      BY <2>1, <2>2 DEF PlainInv, GatesCurrent
    <3>2. Current(g)'
      BY <1>2, <1>5, <3>1, CurrentSettles
    <3> QED BY <1>1, <2>1, <3>2
  <2>3. CASE got.gates = J!GatesOf(rows, sleeve)
    <3>1. Current(g)'
      BY <1>5, <2>1, <2>3, GatesOfCurrent
    <3> QED BY <1>1, <2>1, <3>1
  <2> QED BY <1>1, <2>2, <2>3
<1>7. \A c \in Cid : sleeve[c] <= stored[c]
  BY DEF PlainInv, Behind
<1>8. ASSUME NEW q \in Sweeps, pass'[q] # pass[q]
      PROVE  /\ q \notin holder /\ ~pass'[q].late /\ pass'[q].pc = "waiting"
             /\ \A c \in Cid : pass'[q].model[c] <= stored[c]
             /\ pass'[q].fast => Current(pass[q].gates)'
  <2>1. q = p /\ pass'[q] = r
    BY <1>1, <1>8, PassTo DEF IInv
  <2>2. ~r.late
    BY <1>1 DEF Plain
  <2>3. r.fast => Current(pass[q].gates)'
    <3>1. ASSUME r.fast PROVE pass'[q].gates = cache'.gates
      BY <1>1, <2>1, <3>1
    <3> QED BY <1>6, <3>1
  <2> QED BY <1>1, <1>3, <1>7, <2>1, <2>2, <2>3
<1> QED BY <1>2, <1>4, <1>6, <1>7, <1>8, QuietKeeps

LEMMA QuietPlain ==
  ASSUME IInv, IInv', PlainInv, Tick \/ (\E c \in Cid : Age(c) \/ Fill(c))
  PROVE  PlainInv'
<1>1. UNCHANGED <<stored, book, cache, pass, holder>>
  BY DEF Tick, Age, Fill
<1>2. \A c \in Cid : sleeve'[c] <= stored[c]
  <2>1. \A c \in Cid : sleeve[c] <= stored[c] /\ stored[c] <= stored[c]
    BY DEF PlainInv, Behind, IInv, Typed, Quantities
  <2> QED BY <2>1 DEF Tick, Age, Fill
<1>3. \A c \in Cid : /\ rows'[c].state = rows[c].state /\ rows'[c].filled = rows[c].filled
                     /\ rows'[c].note = rows[c].note \/ rows[c].state = "filled"
  <2>1. ASSUME NEW d \in Cid, Age(d)
        PROVE  \A c \in Cid : /\ rows'[c].state = rows[c].state /\ rows'[c].filled = rows[c].filled
                              /\ rows'[c].note = rows[c].note
    BY <2>1, AgeIs
  <2>2. CASE Tick \/ \E c \in Cid : Fill(c)
    BY <2>2 DEF Tick, Fill
  <2> QED BY <2>1, <2>2
<1>4. \A c \in Cid : venue'[c] = venue[c] \/ (venue[c].at = "working" /\ venue'[c].at = "filled")
  <2>1. ASSUME NEW d \in Cid, Fill(d)
        PROVE  \A c \in Cid : venue'[c] = venue[c] \/ (venue[c].at = "working" /\ venue'[c].at = "filled")
    BY <2>1, FillIs DEF IInv
  <2>2. CASE Tick \/ \E c \in Cid : Age(c)
    BY <2>2 DEF Tick, Age
  <2> QED BY <2>1, <2>2
<1> QED BY <1>1, <1>2, <1>3, <1>4, QuietKeeps

\* Steps that move one pass and the lock.
LEMMA PassKeeps ==
  ASSUME IInv, IInv', PlainInv, UNCHANGED <<sleeve, rows, stored, venue, book, cache>>,
         NEW p \in Sweeps, NEW r \in PassState, Becomes(p, r), holder' \subseteq {p},
         ~r.late, r.pc \notin {"waiting", "acking", "latepoll", "resolving"},
         r.pc \in {"polling", "positions", "orders", "applying"} => ~r.fast,
         \A c \in Cid : r.model[c] <= stored[c],
         \A c \in Cid : ~OnWire(c),
         \A c \in Cid : Twice(c) => /\ p \in holder' /\ r.pc \in {"positions", "orders", "applying"}
                                    /\ r.pc # "applying" => r.gates.unfolded,
         p \in holder' =>
           /\ r.pc = "sending" => /\ Exposure + Signed(r.cid, Qty(r.cid)) \in Wants
                                  /\ \A c \in Cid : Settled(c)
           /\ ~r.fast => Fetched(p)'
  PROVE  PlainInv'
<1>0. /\ BookKnows /\ RowsTrue /\ GatesCurrent /\ Behind /\ PassesPlain /\ Exposure \in Wants
  BY DEF PlainInv
<1>1. pass'[p] = r /\ \A q \in Sweeps : q # p => pass'[q] = pass[q]
  BY PassTo DEF IInv
<1>2. Exposure' = Exposure
  BY ExposureSame
<1>3. BookKnows'
  <2>1. \A c \in Cid : Twice(c) =>
           \E q \in holder' : /\ pass'[q].pc \in {"positions", "orders", "applying"}
                              /\ pass'[q].pc # "applying" => pass'[q].gates.unfolded
    BY <1>1
  <2> QED BY <1>0, <2>1, KnowsKept
<1>4. RowsTrue'
  BY <1>0 DEF RowsTrue
<1>5. GatesCurrent'
  BY <1>0, <1>1, GatesKept
<1>6. Behind'
  BY <1>0, <1>1 DEF Behind
<1>7. PassesPlain'
  BY <1>0, <1>1 DEF PassesPlain
<1>8. (Exposure \in Wants)'
  BY <1>0, <1>2
<1>9. ASSUME p \in holder' PROVE Sends(p)' /\ (pass'[p].fast \/ Fetched(p)')
  BY <1>1, <1>2, <1>9, SettledKept DEF Sends
<1>10. \A q \in holder' : q = p
  OBVIOUS
<1> QED BY <1>3, <1>4, <1>5, <1>6, <1>7, <1>8, <1>9, <1>10 DEF PlainInv

LEMMA DeltaIs ==
  ASSUME NEW p, NEW pos, NEW orders, Delta(p, pos, orders) # 0
  PROVE  /\ ~Frozen(pass[p].gates, orders)
         /\ Delta(p, pos, orders) = pass[p].want - Net(pos) - Net(orders)
  BY DEF Delta

\* A row that has said nothing of a fill is open.
LEMMA UnfilledIsOpen ==
  ASSUME IInv, NEW c \in Cid, rows[c].state \in {"sending", "submitted"}
  PROVE  c \in J!OpenRows(rows)
<1>1. Qty(c) \in Nat /\ Qty(c) > 0 /\ Order(venue[c], rows[c], stored[c], c) /\ stored[c] \in Nat
  BY OrderIs DEF IInv, Orders, Typed, Quantities
<1>2. rows[c].filled = 0
  BY <1>1 DEF Order
<1>3. J!OpenRows(rows) = {d \in Cid : rows[d].state \in {"sending", "submitted", "open"} /\ rows[d].filled < Qty(d)}
  BY OpenRowsIs
<1> QED BY <1>1, <1>2, <1>3

LEMMA NothingOnWire ==
  ASSUME NEW p, holder \subseteq {p}, pass[p].pc # "acking"
  PROVE  \A c \in Cid : ~OnWire(c)
  BY DEF OnWire

\* A want the book's or a fetch's sum is taken from is what the account
\* comes to.
LEMMA DeltaFits ==
  ASSUME IInv, NEW p \in Sweeps, NEW pos, NEW orders, Net(pos) + Net(orders) = Exposure,
         Net(pos) \in Int, Net(orders) \in Int, Delta(p, pos, orders) # 0,
         NEW n, n = Delta(p, pos, orders)
  PROVE  Exposure + n \in Wants
<1>1. PICK w \in Wants : w = pass[p].want
  BY DEF IInv, Typed, PassState
<1>2. w \in Int
  BY WantsType
<1>3. n = w - Net(pos) - Net(orders)
  BY <1>1, DeltaIs
<1>4. Exposure + n = w
  BY <1>2, <1>3
<1> QED BY <1>4

LEMMA AcquireFastPlain ==
  ASSUME IInv, IInv', PlainInv, NEW p \in Sweeps, AcquireFast(p)
  PROVE  PlainInv'
<1>0. pass[p].pc = "waiting" /\ pass[p].fast
  BY DEF AcquireFast, At
<1>1. PICK r \in PassState :
        /\ Becomes(p, r) /\ holder = {}
        /\ \/ /\ r.pc \in {"idle", "fallback"} /\ holder' = holder \ {p}
              /\ r.model = NoQty /\ ~r.late
           \/ /\ r.pc = "sending" /\ holder' = {p} /\ r.cid \in Cid
              /\ r.fast /\ r.model = NoQty /\ r.late = pass[p].late
              /\ Delta(p, book.pos, book.orders) # 0
              /\ Signed(r.cid, Qty(r.cid)) = Delta(p, book.pos, book.orders)
  BY AcquireFastIs DEF IInv
<1>2. UNCHANGED <<sleeve, rows, stored, venue, book, cache>>
  BY DEF AcquireFast
<1>3. \A c \in Cid : ~OnWire(c) /\ ~Twice(c)
  BY <1>1 DEF OnWire, Twice
<1>4. \A c \in Cid : r.model[c] <= stored[c]
  BY <1>1 DEF NoQty, IInv, Typed, Quantities
<1>5. ~pass[p].late
  BY DEF PlainInv, PassesPlain
<1>6. ASSUME r.pc = "sending"
      PROVE  /\ Exposure + Signed(r.cid, Qty(r.cid)) \in Wants
             /\ \A c \in Cid : Settled(c)
  <2>1. Delta(p, book.pos, book.orders) # 0
    BY <1>1, <1>6
  <2>2. ASSUME NEW c \in Cid, Early(c) PROVE FALSE
    <3>1. c \in J!OpenRows(rows) /\ ~book.recent /\ book.orders[c] = 0
      BY <2>2, UnfilledIsOpen DEF Early
    <3>2. Current(pass[p].gates)
      BY <1>0 DEF PlainInv, GatesCurrent
    <3>3. c \in pass[p].gates.open
      BY <3>1, <3>2 DEF Current
    <3> QED BY <2>1, <3>1, <3>3, DeltaIs DEF Frozen
  <2>3. \A c \in Cid : Settled(c)
    BY <1>3, <2>2 DEF PlainInv, BookKnows
  <2>4. Net(book.pos) + Net(book.orders) = Exposure
    BY <2>3, BookAddsUp DEF PlainInv
  <2>5. Net(book.pos) \in Int /\ Net(book.orders) \in Int
    <3>1. book.pos \in Quantities /\ book.orders \in Quantities
      BY DEF IInv, Typed, Book, Quantities
    <3> QED BY <3>1, NetIs
  <2>6. Exposure + Delta(p, book.pos, book.orders) \in Wants
    BY <2>1, <2>4, <2>5, DeltaFits
  <2> QED BY <1>1, <1>6, <2>3, <2>6
<1>7. holder' \subseteq {p} /\ ~r.late /\ r.pc \in {"idle", "fallback", "sending"}
      /\ (p \in holder' => r.fast)
  BY <1>1, <1>5
<1> QED BY <1>1, <1>2, <1>3, <1>4, <1>6, <1>7, PassKeeps

LEMMA AcquireAuditPlain ==
  ASSUME IInv, IInv', PlainInv, NEW p \in Sweeps, AcquireAudit(p)
  PROVE  PlainInv'
<1>1. ~pass[p].late /\ ~pass[p].fast /\ holder = {} /\ holder' = {p}
  BY DEF AcquireAudit, PlainInv, PassesPlain
<1>2. PICK r : r = [pass[p] EXCEPT !.pc = "polling"] /\ Becomes(p, r)
  BY <1>1 DEF AcquireAudit, Goto
<1>3. /\ r \in PassState /\ r.pc = "polling" /\ ~r.late /\ ~r.fast /\ r.model = pass[p].model
  <2>1. "polling" \in Steps
    BY DEF Steps
  <2> QED BY <1>1, <1>2, <2>1, GotoIs DEF IInv
<1>4. \A c \in Cid : ~OnWire(c) /\ ~Twice(c)
  BY <1>1 DEF OnWire, Twice
<1>5. \A c \in Cid : r.model[c] <= stored[c]
  BY <1>3 DEF PlainInv, Behind
<1>6. Fetched(p)'
  <2>1. pass'[p].pc = "polling"
    BY <1>2, <1>3, PassTo DEF IInv
  <2> QED BY <2>1 DEF Fetched, Settling
<1>7. UNCHANGED <<sleeve, rows, stored, venue, book, cache>>
  BY DEF AcquireAudit
<1> QED BY <1>1, <1>2, <1>3, <1>4, <1>5, <1>6, <1>7, PassKeeps

LEMMA FetchPositionsPlain ==
  ASSUME IInv, IInv', PlainInv, NEW p \in Sweeps, FetchPositions(p)
  PROVE  PlainInv'
<1>0. pass[p].pc = "positions" /\ holder' = holder
  BY DEF FetchPositions, At
<1>1. Held \in Quantities
  BY DEF IInv, Typed, Held, Quantities, J!VenueOrder
<1>2. PICK r : r = [pass[p] EXCEPT !.pc = "orders", !.pos = Held] /\ Becomes(p, r)
  BY DEF FetchPositions
<1>3. /\ r \in PassState /\ r.pc = "orders" /\ r.late = pass[p].late /\ r.fast = pass[p].fast
      /\ r.model = pass[p].model /\ r.gates = pass[p].gates /\ r.pos = Held
  <2>1. PICK z \in PassState, q \in Quantities : z = pass[p] /\ q = Held
    BY <1>1 DEF IInv, Typed
  <2>2. r = [z EXCEPT !.pc = "orders", !.pos = q]
    BY <1>2, <2>1
  <2>3. "orders" \in Steps
    BY DEF Steps
  <2> QED BY <2>1, <2>2, <2>3 DEF PassState
<1>4. holder = {p}
  BY <1>0, AloneInLock DEF UnderLock, Steps
<1>5. ~r.late /\ ~r.fast /\ Fetched(p)
  BY <1>0, <1>3, <1>4 DEF PlainInv, PassesPlain
<1>6. \A c \in Cid : ~OnWire(c)
  BY <1>0, <1>4, NothingOnWire
<1>7. \A c \in Cid : Twice(c) => r.gates.unfolded
  BY <1>0, <1>3, <1>4 DEF Twice
<1>8. \A c \in Cid : r.model[c] <= stored[c]
  BY <1>3 DEF PlainInv, Behind
<1>9. UNCHANGED <<sleeve, rows, stored, venue, book, cache>>
  BY DEF FetchPositions
<1>10. Fetched(p)'
  <2>1. pass'[p] = r
    BY <1>2, PassTo DEF IInv
  <2>2. ASSUME NEW c \in Cid
        PROVE  r.pos[c] = venue[c].done /\ stored[c] \in {0, r.pos[c]}
    <3>1. Order(venue[c], rows[c], stored[c], c)
      BY DEF IInv, Orders
    <3> QED BY <1>3, <3>1 DEF Held, Order
  <2>3. Settling(p)
    BY <1>0 DEF Settling
  <2> QED BY <1>0, <1>3, <1>5, <1>9, <2>1, <2>2, <2>3 DEF Fetched
<1> QED BY <1>0, <1>2, <1>3, <1>4, <1>5, <1>6, <1>7, <1>8, <1>9, <1>10, PassKeeps

\* A row of an order that went out is open, or says filled.
LEMMA RowsKnown ==
  ASSUME IInv, NEW c \in Cid, Settled(c)
  PROVE  \/ rows[c].state = "absent" /\ venue[c].at = "unsent"
         \/ rows[c].state = "submitted" /\ c \in J!OpenRows(rows)
         \/ rows[c].state = "filled"
<1>1. Order(venue[c], rows[c], stored[c], c) /\ Qty(c) > 0
  BY OrderIs DEF IInv, Orders
<1>2. CASE Unknown(c)
  BY <1>1, <1>2 DEF Unknown, Order
<1>3. CASE Pending(c)
  BY <1>3, UnfilledIsOpen DEF Pending
<1>4. CASE Counted(c)
  BY <1>1, <1>4 DEF Counted, Order
<1> QED BY <1>2, <1>3, <1>4 DEF Settled

\* An audit that is not frozen by what it fetched has seen every order.
LEMMA FetchedIsAll ==
  ASSUME IInv, PlainInv, NEW p \in Sweeps, pass[p].pc = "orders", holder = {p}, Fetched(p),
         Delta(p, pass[p].pos, Listed(Working)) # 0
  PROVE  /\ \A c \in Cid : Settled(c)
         /\ Net(pass[p].pos) + Net(Listed(Working)) = Exposure
<1>1. ~Frozen(pass[p].gates, Listed(Working))
  BY DeltaIs
<1>2. ASSUME NEW c \in J!OpenRows(rows) PROVE c \in Working
  <2>1. c \in Cid /\ c \in pass[p].gates.open
    BY OpenRowsIs DEF Fetched
  <2> QED BY <1>1, <2>1 DEF Frozen, Listed
<1>3. ASSUME NEW c \in Cid PROVE Settled(c)
  <2>1. ~OnWire(c)
    BY NothingOnWire
  <2>2. ~Early(c)
    <3>1. Early(c) => c \in J!OpenRows(rows)
      BY UnfilledIsOpen DEF Early
    <3> QED BY <1>2, <3>1 DEF Early, Working
  <2>3. ~Twice(c)
    BY <1>1 DEF Twice, Frozen
  <2> QED BY <2>1, <2>2, <2>3 DEF PlainInv, BookKnows
<1>4. ASSUME NEW c \in Cid
      PROVE  \/ venue[c].at = "working" /\ pass[p].pos[c] = 0
             \/ venue[c].at = "unsent" /\ pass[p].pos[c] = 0
             \/ venue[c].at = "filled" /\ pass[p].pos[c] = Qty(c)
  <2>0. PICK n : n = pass[p].pos[c]
    OBVIOUS
  <2>1. n \in {0, venue[c].done} /\ stored[c] \in {0, n}
    BY <2>0 DEF Fetched
  <2>2. Order(venue[c], rows[c], stored[c], c) /\ Qty(c) > 0 /\ Qty(c) \in Nat
    BY OrderIs DEF IInv, Orders
  <2>3. CASE rows[c].state = "absent" /\ venue[c].at = "unsent"
    BY <2>0, <2>1, <2>2, <2>3 DEF Order
  <2>4. CASE rows[c].state = "submitted" /\ c \in J!OpenRows(rows)
    <3>1. venue[c].at = "working"
      BY <1>2, <2>4 DEF Working
    <3> QED BY <2>0, <2>1, <2>2, <3>1 DEF Order
  <2>5. CASE rows[c].state = "filled"
    <3>1. venue[c].at = "filled"
      BY <2>5 DEF PlainInv, RowsTrue
    <3>2. stored[c] = Qty(c)
      BY <2>5 DEF Fetched, Settling
    <3> QED BY <2>0, <2>1, <2>2, <3>1, <3>2
  <2> QED BY <1>3, <2>3, <2>4, <2>5, RowsKnown
<1>5. pass[p].pos \in Quantities
  BY DEF IInv, Typed, PassState
<1> QED BY <1>3, <1>4, <1>5, FetchAddsUp

LEMMA FetchOrdersPlain ==
  ASSUME IInv, IInv', PlainInv, NEW p \in Sweeps, FetchOrders(p)
  PROVE  PlainInv'
<1>0. pass[p].pc = "orders" /\ holder' = holder
  BY DEF FetchOrders, At
<1>1. PICK r \in PassState :
        /\ Becomes(p, r) /\ r.model = NoQty
        /\ r.fast = pass[p].fast /\ r.late = pass[p].late
        /\ r.pos = pass[p].pos /\ r.listed = Working
        /\ \/ r.pc = "applying"
           \/ /\ r.pc = "sending"
              /\ Delta(p, pass[p].pos, Listed(Working)) # 0
              /\ Signed(r.cid, Qty(r.cid)) = Delta(p, pass[p].pos, Listed(Working))
  BY FetchOrdersIs DEF IInv
<1>2. holder = {p}
  BY <1>0, AloneInLock DEF UnderLock, Steps
<1>3. ~r.late /\ ~r.fast /\ Fetched(p)
  BY <1>0, <1>1, <1>2 DEF PlainInv, PassesPlain
<1>4. \A c \in Cid : ~OnWire(c)
  BY <1>0, <1>2, NothingOnWire
<1>5. \A c \in Cid : r.model[c] <= stored[c]
  BY <1>1 DEF NoQty, IInv, Typed, Quantities
<1>6. UNCHANGED <<sleeve, rows, stored, venue, book, cache>>
  BY DEF FetchOrders
<1>7. ASSUME r.pc = "sending"
      PROVE  /\ Exposure + Signed(r.cid, Qty(r.cid)) \in Wants
             /\ \A c \in Cid : Settled(c)
  <2>1. Delta(p, pass[p].pos, Listed(Working)) # 0
    BY <1>1, <1>7
  <2>2. /\ \A c \in Cid : Settled(c)
        /\ Net(pass[p].pos) + Net(Listed(Working)) = Exposure
    BY <1>0, <1>2, <1>3, <2>1, FetchedIsAll
  <2>3. Net(pass[p].pos) \in Int /\ Net(Listed(Working)) \in Int
    <3>1. pass[p].pos \in Quantities /\ Listed(Working) \in Quantities
      BY WorkingType DEF IInv, Typed, PassState
    <3> QED BY <3>1, NetIs
  <2>4. Exposure + Delta(p, pass[p].pos, Listed(Working)) \in Wants
    BY <2>1, <2>2, <2>3, DeltaFits
  <2> QED BY <1>1, <1>7, <2>2, <2>4
<1>8. \A c \in Cid : Twice(c) => r.pc = "applying"
  <2>1. r.pc = "sending" => \A c \in Cid : ~Twice(c)
    <3>1. ASSUME r.pc = "sending" PROVE ~Frozen(pass[p].gates, Listed(Working))
      BY <1>1, <3>1, DeltaIs
    <3> QED BY <1>0, <1>2, <3>1 DEF Twice, Frozen
  <2> QED BY <1>1, <2>1
<1>9. Fetched(p)'
  <2>1. pass'[p] = r
    BY <1>1, PassTo DEF IInv
  <2>2. \A c \in Cid : pass[p].pos[c] \in {0, venue[c].done} /\ stored[c] \in {0, pass[p].pos[c]}
    BY <1>0, <1>3 DEF Fetched
  <2>3. \A c \in Working : pass[p].pos[c] = 0 /\ venue[c].at # "unsent"
    <3>1. \A c \in Working : venue[c].done = 0 /\ venue[c].at = "working"
      BY DEF IInv, Orders, Order, Working
    <3> QED BY <2>2, <3>1 DEF Working
  <2>4. \A c \in Cid \ Working : venue[c].at \in {"unsent", "filled"}
    BY DEF Working, IInv, Orders, Order
  <2>5. \A c \in Cid : rows[c].state = "filled" => stored[c] = Qty(c)
    BY <1>0, <1>3 DEF Fetched, Settling
  <2>6. pass'[p].pos = pass[p].pos /\ pass'[p].listed = Working /\ pass'[p].pc \in {"sending", "applying"}
    BY <1>1, <2>1
  <2> QED BY <1>6, <2>2, <2>3, <2>4, <2>5, <2>6 DEF Fetched
<1>10. r.pc \in {"sending", "applying"}
  BY <1>1
<1> QED BY <1>0, <1>1, <1>2, <1>3, <1>4, <1>5, <1>6, <1>7, <1>8, <1>9, <1>10, PassKeeps

\* The pass after its submission is over.
LEMMA SentPass ==
  ASSUME Typed, NEW p \in Sweeps, Sent(p), holder = {p}
  PROVE  \E r \in PassState :
           /\ Becomes(p, r) /\ holder' \subseteq {p}
           /\ r.late => pass[p].late
           /\ \A c \in Cid : r.model[c] \in {0, pass[p].model[c]}
           /\ r.pc \in {"idle", "applying"}
           /\ r.pc = "idle" => holder' = {}
           /\ r.pc = "applying" =>
                /\ holder' = {p} /\ ~r.fast /\ ~pass[p].fast
                /\ r.cid = pass[p].cid /\ r.pos = pass[p].pos /\ r.listed = pass[p].listed
<1>1. PICK r \in PassState :
        /\ Becomes(p, r)
        /\ \/ r = IdlePass /\ holder' = holder \ {p} /\ pass[p].fast
           \/ /\ r = [pass[p] EXCEPT !.pc = "applying"] /\ holder' = holder
              /\ r.pc = "applying" /\ ~pass[p].fast
  BY SentIs
<1>2. CASE r = IdlePass /\ holder' = holder \ {p}
  <2>1. \A c \in Cid : r.model[c] = 0
    BY <1>2, IdleIs DEF NoQty
  <2>2. r.pc = "idle" /\ ~r.late /\ holder' = {}
    BY <1>2, IdleIs
  <2> QED BY <1>1, <2>1, <2>2
<1>3. CASE r = [pass[p] EXCEPT !.pc = "applying"] /\ holder' = holder /\ r.pc = "applying" /\ ~pass[p].fast
  <2>1. "applying" \in Steps
    BY DEF Steps
  <2>2. /\ r.cid = pass[p].cid /\ r.fast = pass[p].fast /\ r.late = pass[p].late
        /\ r.model = pass[p].model /\ r.pos = pass[p].pos /\ r.listed = pass[p].listed
    BY <1>3, <2>1, GotoIs
  <2> QED BY <1>1, <1>3, <2>2
<1> QED BY <1>1, <1>2, <1>3

LEMMA SettledOnce ==
  ASSUME IInv, NEW c \in Cid, Settled(c)
  PROVE  ~Twice(c) /\ (rows[c].state = "absent" => Unknown(c)) /\ rows[c].state # "sending"
<1>1. PICK q \in Nat : q = Qty(c) /\ q > 0
  BY OrderIs
<1>2. Order(venue[c], rows[c], stored[c], c)
  BY DEF IInv, Orders
<1>3. CASE Unknown(c)
  BY <1>1, <1>3 DEF Unknown, Twice
<1>4. CASE Pending(c)
  BY <1>1, <1>4 DEF Pending, Twice
<1>5. CASE Counted(c)
  BY <1>1, <1>2, <1>5 DEF Counted, Twice, Order
<1> QED BY <1>3, <1>4, <1>5 DEF Settled

\* The client id was used before: nothing goes out.
LEMMA DuplicatePlain ==
  ASSUME IInv, IInv', PlainInv, NEW p \in Sweeps, pass[p].pc = "sending", holder = {p}, Sent(p),
         UNCHANGED <<sleeve, rows, stored, venue, book, cache>>
  PROVE  PlainInv'
<1>1. PICK r \in PassState :
        /\ Becomes(p, r) /\ holder' \subseteq {p}
        /\ r.late => pass[p].late
        /\ \A c \in Cid : r.model[c] \in {0, pass[p].model[c]}
        /\ r.pc \in {"idle", "applying"}
        /\ r.pc = "idle" => holder' = {}
        /\ r.pc = "applying" =>
             /\ holder' = {p} /\ ~r.fast /\ ~pass[p].fast
             /\ r.cid = pass[p].cid /\ r.pos = pass[p].pos /\ r.listed = pass[p].listed
  BY SentPass DEF IInv
<1>2. \A c \in Cid : Settled(c)
  BY DEF PlainInv, Sends
<1>3. \A c \in Cid : ~Twice(c) /\ ~OnWire(c)
  BY <1>2, SettledOnce, NothingOnWire
<1>4. ~r.late
  BY <1>1 DEF PlainInv, PassesPlain
<1>5. \A c \in Cid : r.model[c] <= stored[c]
  <2>1. \A c \in Cid : pass[p].model[c] <= stored[c] /\ stored[c] \in Nat
    BY DEF PlainInv, Behind, IInv, Typed, Quantities
  <2> QED BY <1>1, <2>1
<1>6. ASSUME r.pc = "applying" PROVE Fetched(p)'
  <2>1. pass'[p] = r
    BY <1>1, PassTo DEF IInv
  <2>2. Fetched(p) /\ Settling(p)
    BY <1>1, <1>6 DEF PlainInv, Settling
  <2>3. /\ \A c \in Cid : rows[c].state = "filled" => stored[c] = Qty(c)
        /\ \A c \in Cid : pass[p].pos[c] \in {0, venue[c].done} /\ stored[c] \in {0, pass[p].pos[c]}
        /\ \A c \in pass[p].listed : pass[p].pos[c] = 0 /\ venue[c].at # "unsent"
        /\ \A c \in Cid \ pass[p].listed : venue[c].at \in {"unsent", "filled"}
    BY <2>2 DEF Fetched
  <2>4. pass'[p].pos = pass[p].pos /\ pass'[p].listed = pass[p].listed /\ pass'[p].pc = "applying"
    BY <1>1, <1>6, <2>1
  <2> QED BY <2>3, <2>4 DEF Fetched
<1> QED BY <1>1, <1>3, <1>4, <1>5, <1>6, PassKeeps

\* An order goes out.
LEMMA InsertPlain ==
  ASSUME IInv, IInv', PlainInv, NEW p \in Sweeps, pass[p].pc = "sending", holder = {p},
         NEW c \in Cid, c = pass[p].cid, rows[c].state = "absent",
         rows' = Ahead(c), venue' = [venue EXCEPT ![c].at = "working"],
         book' = [book EXCEPT !.recent = TRUE], Goto(p, "acking"),
         UNCHANGED <<holder, sleeve, stored, cache>>
  PROVE  PlainInv'
<1>0. /\ BookKnows /\ RowsTrue /\ GatesCurrent /\ Behind /\ PassesPlain
      /\ Exposure + Signed(c, Qty(c)) \in Wants /\ \A d \in Cid : Settled(d)
  BY DEF PlainInv, Sends
<1>1. PICK r : /\ Becomes(p, r) /\ pass'[p] = r /\ \A q \in Sweeps : q # p => pass'[q] = pass[q]
               /\ r.pc = "acking" /\ r.cid = c /\ r.fast = pass[p].fast /\ r.late = pass[p].late
               /\ r.model = pass[p].model /\ r.pos = pass[p].pos /\ r.listed = pass[p].listed
  <2>1. PICK r : r = [pass[p] EXCEPT !.pc = "acking"] /\ Becomes(p, r)
    BY DEF Goto
  <2>2. "acking" \in Steps
    BY DEF Steps
  <2>3. /\ r.pc = "acking" /\ r.cid = c /\ r.fast = pass[p].fast /\ r.late = pass[p].late
        /\ r.model = pass[p].model /\ r.pos = pass[p].pos /\ r.listed = pass[p].listed
    BY <2>1, <2>2, GotoIs DEF IInv
  <2> QED BY <2>1, <2>3, PassTo DEF IInv
<1>2. /\ book'.recent = TRUE /\ book'.pos = book.pos /\ book'.orders = book.orders
  BY DEF IInv, Typed, Book
<1>3. /\ rows'[c].state = "sending" /\ rows'[c].note = "none"
      /\ \A d \in Cid : d # c => rows'[d] = rows[d]
  BY AheadIs DEF IInv
<1>4. /\ venue[c].at = "unsent" /\ venue'[c].at = "working" /\ venue'[c].done = venue[c].done
      /\ \A d \in Cid : d # c => venue'[d] = venue[d]
  <2>1. venue \in [Cid -> J!VenueOrder] /\ Order(venue[c], rows[c], stored[c], c)
    BY DEF IInv, Typed, Orders
  <2>2. PICK v \in J!VenueOrder : v = venue[c]
    BY <2>1
  <2>3. v.at = "unsent"
    BY <2>1, <2>2 DEF Order
  <2>4. PICK w : w = [v EXCEPT !.at = "working"]
    OBVIOUS
  <2>5. w.at = "working" /\ w.done = v.done
    BY <2>4 DEF J!VenueOrder
  <2>6. venue' = [venue EXCEPT ![c] = w]
    BY <2>1, <2>2, <2>4
  <2> QED BY <2>1, <2>2, <2>3, <2>5, <2>6
<1>5. BookKnows'
  <2>1. OnWire(c)'
    <3>1. Unknown(c)
      BY <1>0, SettledOnce
    <3> QED BY <1>1, <1>2, <1>3, <3>1 DEF OnWire, Unknown
  <2>2. ASSUME NEW d \in Cid, d # c PROVE Settled(d)'
    BY <1>0, <1>2, <1>3, <2>2 DEF Settled, Unknown, Pending, Counted
  <2> QED BY <2>1, <2>2 DEF BookKnows
<1>6. RowsTrue'
  BY <1>0, <1>3, <1>4 DEF RowsTrue
<1>7. GatesCurrent'
  <2>1. J!Epoch(rows) \in Nat /\ J!Epoch(rows') = J!Epoch(rows) + 1
    BY <1>3, EpochMore
  <2>2. ASSUME NEW g, Current(g), g.epoch \in Nat PROVE Current(g)'
    BY <1>2, <2>1, <2>2 DEF Current
  <2>3. cache # NoCache => Current(cache.gates)'
    <3>1. cache # NoCache => cache.gates.epoch \in Nat
      BY DEF IInv, Typed, Cached, J!Gates
    <3>2. PICK g : g = cache.gates
      OBVIOUS
    <3>3. cache # NoCache => Current(g)'
      BY <1>0, <2>2, <3>1, <3>2 DEF GatesCurrent
    <3> QED BY <3>2, <3>3
  <2>4. ASSUME NEW q \in Sweeps, pass'[q].fast /\ pass'[q].pc = "waiting"
        PROVE  Current(pass[q].gates)'
    <3>1. pass'[q] = pass[q]
      BY <1>1, <2>4
    <3>2. pass[q].gates.epoch \in Nat
      BY DEF IInv, Typed, PassState, J!Gates
    <3>3. PICK g : g = pass[q].gates
      OBVIOUS
    <3>4. Current(g)'
      BY <1>0, <2>2, <2>4, <3>1, <3>2, <3>3 DEF GatesCurrent
    <3> QED BY <3>1, <3>3, <3>4
  <2> QED BY <2>3, <2>4 DEF GatesCurrent
<1>8. Behind'
  BY <1>0, <1>1 DEF Behind
<1>9. PassesPlain'
  BY <1>0, <1>1 DEF PassesPlain
<1>10. (Exposure \in Wants)'
  <2>1. Exposure' = Exposure + Signed(c, Qty(c))
    BY <1>4, ExposureMore
  <2> QED BY <1>0, <2>1
<1>11. Sends(p)'
  BY <1>1 DEF Sends
<1>12. ASSUME ~pass'[p].fast PROVE Fetched(p)'
  <2>1. Fetched(p)
    BY <1>1, <1>12 DEF PlainInv
  <2>2. \A d \in Cid : venue'[d].done = venue[d].done /\ (venue[d].at # "unsent" => venue'[d].at # "unsent")
    BY <1>4
  <2>3. /\ \A d \in Cid : pass[p].pos[d] \in {0, venue[d].done} /\ stored[d] \in {0, pass[p].pos[d]}
        /\ \A d \in pass[p].listed : pass[p].pos[d] = 0 /\ venue[d].at # "unsent"
        /\ pass[p].listed \in SUBSET Cid
    BY <2>1 DEF Fetched, IInv, Typed, PassState
  <2>4. pass'[p].pc = "acking" /\ pass'[p].pos = pass[p].pos /\ pass'[p].listed = pass[p].listed
    BY <1>1
  <2> QED BY <2>2, <2>3, <2>4 DEF Fetched, Settling
<1> QED BY <1>5, <1>6, <1>7, <1>8, <1>9, <1>10, <1>11, <1>12 DEF PlainInv

LEMMA SubmitPlain ==
  ASSUME IInv, IInv', Plain, PlainInv, NEW p \in Sweeps, Submit(p)
  PROVE  PlainInv'
<1>1. PICK c \in Cid : c = pass[p].cid
  BY DEF Submit, At, IInv, Locks
<1>2. UNCHANGED <<sleeve, stored, cache>>
  BY DEF Submit
<1>3. pass[p].pc = "sending" /\ holder = {p}
  BY AloneInLock DEF Submit, At, UnderLock, Steps
<1>4. ~Fault
  BY DEF Fault, Plain, IInv, Typed
<1>5. CASE rows[c].state # "absent" /\ Sent(p) /\ UNCHANGED <<rows, venue, book, faults>>
  BY <1>2, <1>3, <1>5, DuplicatePlain
<1>6. CASE /\ rows[c].state = "absent"
           /\ rows' = Ahead(c) /\ venue' = [venue EXCEPT ![c].at = "working"]
           /\ book' = [book EXCEPT !.recent = TRUE]
           /\ Goto(p, "acking") /\ UNCHANGED <<holder, faults>>
  BY <1>1, <1>2, <1>3, <1>6, InsertPlain
<1> QED BY <1>1, <1>4, <1>5, <1>6, SubmitIs

LEMMA AckPlain ==
  ASSUME IInv, IInv', PlainInv, NEW p \in Sweeps, Ack(p)
  PROVE  PlainInv'
<1>0. /\ BookKnows /\ RowsTrue /\ GatesCurrent /\ Behind /\ PassesPlain /\ Exposure \in Wants
  BY DEF PlainInv
<1>1. PICK c \in Cid, st \in {"submitted", "filled"} :
        /\ c = pass[p].cid /\ rows[c].state = "sending" /\ Sent(p)
        /\ UNCHANGED <<want, sleeve, stored, venue, cache, faults, restarts>>
        /\ \A d \in Cid : d # c => rows'[d] = rows[d]
        /\ rows'[c].state = st /\ rows'[c].filled = rows[c].filled
        /\ rows'[c].note = rows[c].note
        /\ st = "filled" => venue[c].at = "filled"
        /\ book' = [book EXCEPT !.orders[c] = Qty(c)]
  BY AckIs
<1>2. pass[p].pc = "acking" /\ holder = {p}
  BY AloneInLock DEF Ack, At, UnderLock, Steps
<1>3. PICK r \in PassState :
        /\ Becomes(p, r) /\ holder' \subseteq {p}
        /\ r.late => pass[p].late
        /\ \A d \in Cid : r.model[d] \in {0, pass[p].model[d]}
        /\ r.pc \in {"idle", "applying"}
        /\ r.pc = "idle" => holder' = {}
        /\ r.pc = "applying" =>
             /\ holder' = {p} /\ ~r.fast /\ ~pass[p].fast
             /\ r.cid = pass[p].cid /\ r.pos = pass[p].pos /\ r.listed = pass[p].listed
  BY <1>1, <1>2, SentPass DEF IInv
<1>4. pass'[p] = r /\ \A q \in Sweeps : q # p => pass'[q] = pass[q]
  BY <1>3, PassTo DEF IInv
<1>5. /\ book'.orders[c] = Qty(c) /\ \A d \in Cid : d # c => book'.orders[d] = book.orders[d]
      /\ book'.pos = book.pos /\ book'.recent = book.recent
  <2>1. PICK b : b = book'
    OBVIOUS
  <2>2. b = [book EXCEPT !.orders[c] = Qty(c)] /\ Typed
    BY <1>1, <2>1 DEF IInv
  <2>3. /\ b.orders[c] = Qty(c) /\ \A e \in Cid : e # c => b.orders[e] = book.orders[e]
        /\ b.pos = book.pos /\ b.recent = book.recent
    BY <2>2, AckedBook
  <2> QED BY <2>1, <2>3
<1>6. OnWire(c) /\ stored[c] = 0
  <2>1. Order(venue[c], rows[c], stored[c], c) /\ Qty(c) > 0 /\ stored[c] \in Nat
    BY OrderIs DEF IInv, Orders, Typed, Quantities
  <2>2. stored[c] = 0
    BY <1>1, <2>1 DEF Order
  <2>3. ~Settled(c) /\ ~Early(c) /\ ~Twice(c)
    BY <1>1, <2>1, <2>2, SettledOnce DEF Early, Twice
  <2> QED BY <1>0, <2>2, <2>3 DEF BookKnows
<1>7. Pending(c)'
  BY <1>1, <1>5, <1>6 DEF Pending, OnWire
<1>8. ASSUME NEW d \in Cid, d # c PROVE Settled(d)'
  <2>1. ~OnWire(d)
    BY <1>1, <1>2, <1>8 DEF OnWire
  <2>2. ~Early(d) /\ ~Twice(d)
    BY <1>6 DEF OnWire, Early, Twice
  <2>3. Settled(d)
    BY <1>0, <2>1, <2>2 DEF BookKnows
  <2> QED BY <1>1, <1>5, <1>8, <2>3 DEF Settled, Unknown, Pending, Counted
<1>9. BookKnows'
  BY <1>7, <1>8 DEF BookKnows, Settled
<1>10. RowsTrue'
  BY <1>0, <1>1 DEF RowsTrue
<1>11. GatesCurrent'
  <2>1. J!Epoch(rows') = J!Epoch(rows)
    <3>1. \A d \in Cid : (rows'[d].state = "absent") <=> (rows[d].state = "absent")
      BY <1>1
    <3> QED BY <3>1, EpochSame
  <2>2. J!OpenRows(rows') \subseteq J!OpenRows(rows)
    <3>1. J!OpenRows(rows) = {d \in Cid : rows[d].state \in {"sending", "submitted", "open"} /\ rows[d].filled < Qty(d)}
      BY OpenRowsIs
    <3>2. J!OpenRows(rows') = {d \in Cid : rows'[d].state \in {"sending", "submitted", "open"} /\ rows'[d].filled < Qty(d)}
      BY OpenRowsIs
    <3> QED BY <1>1, <3>1, <3>2
  <2>3. \A q \in Sweeps : pass'[q].fast /\ pass'[q].pc = "waiting" => pass'[q] = pass[q]
    BY <1>3, <1>4
  <2> QED BY <1>0, <1>1, <1>5, <2>1, <2>2, <2>3, GatesKept
<1>12. Behind'
  <2>1. \A d \in Cid : pass[p].model[d] <= stored[d] /\ stored[d] \in Nat
    BY <1>0 DEF Behind, IInv, Typed, Quantities
  <2> QED BY <1>0, <1>1, <1>3, <1>4, <2>1 DEF Behind
<1>13. PassesPlain'
  BY <1>0, <1>3, <1>4 DEF PassesPlain
<1>14. (Exposure \in Wants)'
  <2>1. Exposure' = Exposure
    BY <1>1, ExposureSame
  <2> QED BY <1>0, <2>1
<1>15. Sends(p)'
  BY <1>3, <1>4 DEF Sends
<1>16. ASSUME r.pc = "applying" PROVE Fetched(p)'
  <2>1. Fetched(p)
    BY <1>2, <1>3, <1>16 DEF PlainInv
  <2>2. /\ \A d \in Cid : pass[p].pos[d] \in {0, venue[d].done} /\ stored[d] \in {0, pass[p].pos[d]}
        /\ \A d \in pass[p].listed : pass[p].pos[d] = 0 /\ venue[d].at # "unsent"
    BY <1>2, <2>1 DEF Fetched
  <2>3. /\ pass'[p].pos = pass[p].pos /\ pass'[p].listed = pass[p].listed
        /\ pass'[p].pc = "applying" /\ pass'[p].cid = c
    BY <1>1, <1>3, <1>4, <1>16
  <2>4. c # <<>>
    BY DEF Cid
  <2>5. ~(Settling(p)')
    BY <1>5, <1>6, <2>3, <2>4 DEF Settling, OnWire
  <2> QED BY <1>1, <2>2, <2>3, <2>5 DEF Fetched
<1>17. \A q \in holder' : q = p /\ r.pc = "applying"
  BY <1>3
<1> QED BY <1>9, <1>10, <1>11, <1>12, <1>13, <1>14, <1>15, <1>16, <1>17 DEF PlainInv

\* What an answered poll makes of the rows and of the sums behind the gates.
LEMMA PolledRows ==
  ASSUME IInv, PlainInv, NEW rs, rs = J!Polled
  PROVE  /\ rs \in [Cid -> J!Row]
         /\ \A c \in Cid :
              /\ rs[c].filled = venue[c].done /\ rs[c].note = rows[c].note
              /\ rs[c].state = rows[c].state \/ (rs[c].state = "filled" /\ venue[c].done = Qty(c))
              /\ venue[c].done > 0 => rs[c].state = "filled"
              /\ rs[c].state = "filled" => venue[c].at = "filled" /\ venue[c].done = Qty(c)
              /\ rs[c].state = "absent" <=> rows[c].state = "absent"
         /\ J!Epoch(rs) = J!Epoch(rows) /\ J!OpenRows(rs) \subseteq J!OpenRows(rows)
<1>1. rs \in [Cid -> J!Row]
  BY PolledIs DEF IInv
<1>2. ASSUME NEW c \in Cid
      PROVE  /\ rs[c].filled = venue[c].done /\ rs[c].note = rows[c].note
             /\ rs[c].state = rows[c].state \/ (rs[c].state = "filled" /\ venue[c].done = Qty(c))
             /\ venue[c].done > 0 => rs[c].state = "filled"
             /\ rs[c].state = "filled" => venue[c].at = "filled" /\ venue[c].done = Qty(c)
             /\ rs[c].state = "absent" <=> rows[c].state = "absent"
             /\ rs[c].state # "filled" => rs[c].filled = rows[c].filled
  <2>1. Order(venue[c], rows[c], stored[c], c) /\ stored[c] \in Nat /\ Qty(c) \in Nat /\ Qty(c) > 0
    BY OrderIs DEF IInv, Orders, Typed, Quantities
  <2>2. /\ Order(venue[c], rs[c], venue[c].done, c) /\ rs[c].note = rows[c].note
        /\ rs[c].state = IF venue[c].done # stored[c] THEN "filled" ELSE rows[c].state
    BY PolledIs DEF IInv
  <2>3. rows[c].state = "filled" => venue[c].at = "filled"
    BY DEF PlainInv, RowsTrue
  <2>4. venue[c].done \in {0, Qty(c)} /\ (venue[c].done # 0 <=> venue[c].at = "filled")
    BY <2>1 DEF Order
  <2> QED BY <2>1, <2>2, <2>3, <2>4 DEF Order
<1>3. J!Epoch(rs) = J!Epoch(rows)
  BY <1>2, EpochSame
<1>4. J!OpenRows(rs) \subseteq J!OpenRows(rows)
  <2>1. J!OpenRows(rows) = {c \in Cid : rows[c].state \in {"sending", "submitted", "open"} /\ rows[c].filled < Qty(c)}
    BY OpenRowsIs
  <2>2. J!OpenRows(rs) = {c \in Cid : rs[c].state \in {"sending", "submitted", "open"} /\ rs[c].filled < Qty(c)}
    BY OpenRowsIs
  <2>3. ASSUME NEW c \in J!OpenRows(rs) PROVE c \in J!OpenRows(rows)
    <3>1. c \in Cid /\ rs[c].state \in {"sending", "submitted", "open"} /\ rs[c].filled < Qty(c)
      BY <2>2, <2>3
    <3>2. rs[c].state # "filled"
      BY <3>1
    <3>3. rows[c].state = rs[c].state /\ rows[c].filled = rs[c].filled
      BY <1>2, <3>1, <3>2
    <3> QED BY <2>1, <3>1, <3>3
  <2> QED BY <2>3
<1> QED BY <1>1, <1>2, <1>3, <1>4

\* What an answered poll leaves the book with.
LEMMA PollKnows ==
  ASSUME IInv, PlainInv, NEW p \in Sweeps, pass[p].pc = "polling", holder = {p}, holder' = holder,
         NEW rs, rs = J!Polled, book' = NoteFills, UNCHANGED venue,
         \A c \in Cid : stored'[c] = venue[c].done /\ rows'[c].state = rs[c].state,
         pass'[p].pc = "positions",
         J!UnfoldedFreeze(rs, pass[p].model) => pass'[p].gates.unfolded
  PROVE  BookKnows'
<1>0. BookKnows /\ RowsTrue /\ Behind
  BY DEF PlainInv
<1>1. /\ book'.recent = book.recent
      /\ \A c \in Cid :
           /\ New[c] \in Nat /\ New[c] = venue[c].done - stored[c]
           /\ book'.pos[c] = book.pos[c] + New[c]
           /\ book'.orders[c] = IF book.orders[c] > New[c] THEN book.orders[c] - New[c] ELSE 0
  BY NoteFillsIs DEF IInv
<1>2. rs \in [Cid -> J!Row] /\ \A c \in Cid :
        /\ rs[c].filled = venue[c].done /\ rs[c].note = rows[c].note
        /\ rs[c].state = rows[c].state \/ (rs[c].state = "filled" /\ venue[c].done = Qty(c))
        /\ venue[c].done > 0 => rs[c].state = "filled"
  BY PolledRows
<1>3. ASSUME NEW c \in Cid
      PROVE  (Settled(c) \/ OnWire(c) \/ Early(c) \/ Twice(c))'
  <2>1. PICK q \in Nat : q = Qty(c) /\ q > 0
    BY OrderIs
  <2>2. Order(venue[c], rows[c], stored[c], c) /\ stored[c] \in Nat
    BY DEF IInv, Orders, Typed, Quantities
  <2>3. PICK n \in Nat, d \in Nat, pos \in Nat, ord \in Nat :
          n = stored[c] /\ d = venue[c].done /\ pos = book.pos[c] /\ ord = book.orders[c]
    BY DEF IInv, Typed, Quantities, J!VenueOrder, Book
  <2>4. /\ n \in {0, d} /\ d \in {0, q} /\ stored'[c] = d /\ book'.pos[c] = pos + (d - n)
        /\ book'.orders[c] = IF ord > d - n THEN ord - (d - n) ELSE 0
    BY <1>1, <2>1, <2>2, <2>3 DEF Order
  <2>5. ~OnWire(c) /\ ~Twice(c)
    BY DEF OnWire, Twice
  <2>6. CASE Unknown(c)
    <3>1. d = 0 /\ pos = 0 /\ ord = 0 /\ n = 0 /\ rows[c].state = "absent"
      BY <2>2, <2>3, <2>4, <2>6 DEF Unknown, Order
    <3>2. rs[c].state = "absent"
      <4>1. venue[c].done # Qty(c)
        BY <2>1, <2>3, <3>1
      <4>2. rs[c].state = rows[c].state
        BY <1>2, <4>1
      <4> QED BY <3>1, <4>2
    <3> QED BY <2>4, <3>1, <3>2 DEF Settled, Unknown
  <2>7. CASE Pending(c)
    <3>1. n = 0 /\ pos = 0 /\ ord = q /\ rows[c].state \in {"submitted", "filled"}
      BY <2>1, <2>3, <2>7 DEF Pending
    <3>2. rs[c].state \in {"submitted", "filled"}
      BY <1>2, <3>1
    <3>3. CASE d = 0
      BY <2>1, <2>4, <3>1, <3>2, <3>3 DEF Settled, Pending
    <3>4. CASE d = q
      BY <2>1, <2>4, <3>1, <3>4 DEF Settled, Counted
    <3> QED BY <2>4, <3>3, <3>4
  <2>8. CASE Counted(c)
    <3>1. n = q /\ pos = q /\ ord = 0
      BY <2>1, <2>3, <2>8 DEF Counted
    <3> QED BY <2>1, <2>4, <3>1 DEF Settled, Counted
  <2>9. CASE Early(c)
    <3>1. n = 0 /\ d = q /\ pos \in {0, q} /\ ord = 0 /\ ~book.recent /\ rows[c].state = "submitted"
      BY <2>1, <2>2, <2>3, <2>9 DEF Early, Order
    <3>2. CASE pos = 0
      BY <2>1, <2>4, <3>1, <3>2 DEF Settled, Counted
    <3>3. CASE pos = q
      <4>1. J!UnfoldedFreeze(rs, pass[p].model)
        <5>1. PICK model \in Quantities : model = pass[p].model
          BY DEF IInv, Typed, PassState
        <5>2. ASSUME NEW e \in Cid
              PROVE  model[e] <= IF rs[e].state = "filled" THEN rs[e].filled ELSE 0
          <6>1. model[e] <= stored[e] /\ model[e] \in Nat
            BY <1>0, <5>1 DEF Behind, Quantities
          <6>2. stored[e] \in {0, venue[e].done} /\ venue[e].done \in Nat
            BY DEF IInv, Orders, Order, Typed, J!VenueOrder
          <6> QED BY <1>2, <6>1, <6>2
        <5>3. rs[c].state = "filled" /\ rs[c].note # "folded" /\ model[c] < rs[c].filled
          <6>1. rs[c].filled = q /\ rs[c].state = "filled"
            BY <1>2, <2>1, <2>3, <3>1
          <6>2. rows[c].note # "folded"
            BY <1>0, <3>1 DEF RowsTrue
          <6>3. model[c] \in Nat /\ model[c] <= n
            BY <1>0, <2>3, <5>1 DEF Behind, Quantities
          <6> QED BY <1>2, <2>1, <3>1, <6>1, <6>2, <6>3
        <5> QED BY <1>2, <5>1, <5>2, <5>3, FreshFillFreezes
      <4> QED BY <1>1, <2>1, <2>4, <3>1, <3>3, <4>1 DEF Twice
    <3> QED BY <3>1, <3>2, <3>3
  <2> QED BY <1>0, <2>5, <2>6, <2>7, <2>8, <2>9 DEF BookKnows, Settled
<1> QED BY <1>3 DEF BookKnows

LEMMA PollAnsweredPlain ==
  ASSUME IInv, IInv', PlainInv, NEW p \in Sweeps, PollAnswered(p)
  PROVE  PlainInv'
<1>0. /\ BookKnows /\ RowsTrue /\ GatesCurrent /\ Behind /\ PassesPlain /\ Exposure \in Wants
  BY DEF PlainInv
<1>1. pass[p].pc = "polling" /\ holder = {p} /\ ~pass[p].fast
  BY <1>0, AloneInLock DEF PollAnswered, At, UnderLock, Steps, PassesPlain
<1>2. UNCHANGED <<want, sleeve, venue, holder>> /\ book' = NoteFills
  BY DEF PollAnswered
<1>3. \A c \in Cid : stored'[c] = venue[c].done
  BY JournalCid DEF PollAnswered, J!StoreAll
<1>4. PICK rs : rs = J!Polled
  OBVIOUS
<1>5. /\ rs \in [Cid -> J!Row]
      /\ \A c \in Cid :
           /\ rs[c].filled = venue[c].done /\ rs[c].note = rows[c].note
           /\ rs[c].state = rows[c].state \/ (rs[c].state = "filled" /\ venue[c].done = Qty(c))
           /\ venue[c].done > 0 => rs[c].state = "filled"
           /\ rs[c].state = "filled" => venue[c].at = "filled" /\ venue[c].done = Qty(c)
           /\ rs[c].state = "absent" <=> rows[c].state = "absent"
      /\ J!Epoch(rs) = J!Epoch(rows) /\ J!OpenRows(rs) \subseteq J!OpenRows(rows)
  BY <1>4, PolledRows
<1>6. PICK r \in PassState :
        /\ Becomes(p, r) /\ r.pc = "positions"
        /\ r.gates = J!GatesOf(rs, pass[p].model)
        /\ r.model = pass[p].model /\ r.fast = pass[p].fast /\ r.late = pass[p].late
        /\ rows' = J!Lifted(rs, pass[p].model)
        /\ cache' # NoCache => cache # NoCache /\ cache'.gates = J!GatesOf(rs, pass[p].model)
  <2>1. stored' \in Quantities
    BY DEF IInv, Typed
  <2>2. Regate(p, rs, stored', TRUE)
    BY <1>4 DEF PollAnswered
  <2> QED BY <1>5, <2>1, <2>2, RegateIs DEF IInv
<1>7. pass'[p] = r /\ \A q \in Sweeps : q # p => pass'[q] = pass[q]
  BY <1>6, PassTo DEF IInv
<1>8. \A c \in Cid : /\ rows'[c].state = rs[c].state /\ rows'[c].filled = rs[c].filled
                     /\ rows'[c].note = rs[c].note \/ rs[c].state = "filled"
  BY <1>5, <1>6, LiftedRow, LiftedNote
<1>9. J!OpenRows(rows') = J!OpenRows(rs) /\ J!Epoch(rows') = J!Epoch(rs)
  BY <1>8, OpenSame
<1>10. BookKnows'
  <2>1. J!UnfoldedFreeze(rs, pass[p].model) => pass'[p].gates.unfolded
    BY <1>6, <1>7 DEF J!GatesOf
  <2> QED BY <1>1, <1>2, <1>3, <1>4, <1>6, <1>7, <1>8, <2>1, PollKnows
<1>11. RowsTrue'
  BY <1>0, <1>2, <1>5, <1>8 DEF RowsTrue
<1>12. book'.recent = book.recent
  BY <1>2, NoteFillsIs DEF IInv
<1>13. GatesCurrent'
  <2>1. cache' # NoCache => Current(cache.gates)'
    <3>1. PICK g : g = J!GatesOf(rs, pass[p].model)
      OBVIOUS
    <3>2. Current(g)'
      BY <1>9, <3>1, GatesOfCurrent
    <3> QED BY <1>6, <3>1, <3>2
  <2>2. \A q \in Sweeps : pass'[q].fast /\ pass'[q].pc = "waiting" => pass'[q] = pass[q]
    BY <1>6, <1>7
  <2> QED BY <1>0, <1>5, <1>9, <1>12, <2>1, <2>2, GatesKept
<1>14. Behind'
  <2>1. ASSUME NEW c \in Cid, NEW n \in Nat, n <= stored[c] PROVE n <= stored'[c]
    <3>1. stored[c] \in {0, venue[c].done} /\ venue[c].done \in Nat
      BY DEF IInv, Orders, Order, Typed, J!VenueOrder
    <3> QED BY <1>3, <2>1, <3>1
  <2>2. \A c \in Cid : sleeve[c] \in Nat /\ \A q \in Sweeps : pass[q].model[c] \in Nat
    BY DEF IInv, Typed, PassState, Quantities
  <2> QED BY <1>0, <1>2, <1>6, <1>7, <2>1, <2>2 DEF Behind
<1>15. PassesPlain'
  BY <1>0, <1>1, <1>6, <1>7 DEF PassesPlain
<1>16. (Exposure \in Wants)'
  <2>1. Exposure' = Exposure
    BY <1>2, ExposureSame
  <2> QED BY <1>0, <2>1
<1>17. Sends(p)'
  BY <1>6, <1>7 DEF Sends
<1>18. Fetched(p)'
  <2>1. J!OpenRows(rows') \subseteq pass'[p].gates.open
    BY <1>6, <1>7, <1>9 DEF J!GatesOf
  <2>2. \A c \in Cid : rows'[c].state = "filled" => stored'[c] = Qty(c)
    BY <1>3, <1>5, <1>8
  <2>3. pass'[p].pc = "positions"
    BY <1>6, <1>7
  <2> QED BY <2>1, <2>2, <2>3 DEF Fetched
<1> QED BY <1>1, <1>2, <1>10, <1>11, <1>13, <1>14, <1>15, <1>16, <1>17, <1>18 DEF PlainInv

\* Past a submission no row waits for one.
LEMMA NothingSending ==
  ASSUME IInv, PlainInv, NEW c \in Cid, ~OnWire(c)
  PROVE  rows[c].state # "sending"
<1>1. Order(venue[c], rows[c], stored[c], c) /\ Qty(c) > 0
  BY OrderIs DEF IInv, Orders
<1>2. CASE Settled(c)
  BY <1>2, SettledOnce
<1>3. CASE Early(c)
  BY <1>3 DEF Early
<1>4. CASE Twice(c)
  BY <1>1, <1>4 DEF Twice, Order
<1> QED BY <1>2, <1>3, <1>4 DEF PlainInv, BookKnows

\* What the audit leaves the book with.
LEMMA AuditKnows ==
  ASSUME IInv, PlainInv, NEW p \in Sweeps, pass[p].pc = "applying", holder = {p}, Fetched(p),
         UNCHANGED <<stored, venue>>, \A c \in Cid : rows'[c] = rows[c],
         book'.recent = book.recent,
         \A c \in Cid :
           /\ book'.pos[c] = IF book.recent THEN book.pos[c] ELSE pass[p].pos[c]
           /\ book'.orders[c] = IF c \notin pass[p].listed /\ book.recent THEN book.orders[c]
                                ELSE IF c \in pass[p].listed THEN Qty(c) ELSE 0
  PROVE  BookKnows'
<1>0. BookKnows /\ RowsTrue
  BY DEF PlainInv
<1>1. ASSUME NEW c \in Cid PROVE Settled(c) \/ Early(c) \/ Twice(c)
  <2>1. ~OnWire(c)
    BY NothingOnWire
  <2> QED BY <1>0, <2>1 DEF BookKnows
<1>2. ASSUME NEW c \in Cid
      PROVE  (Settled(c) \/ OnWire(c) \/ Early(c) \/ Twice(c))'
  <2>1. PICK q \in Nat : q = Qty(c) /\ q > 0
    BY OrderIs
  <2>2. Order(venue[c], rows[c], stored[c], c)
    BY DEF IInv, Orders
  <2>3. PICK n, pos : n = stored[c] /\ pos = pass[p].pos[c]
    OBVIOUS
  <2>4. pos \in {0, venue[c].done} /\ n \in {0, pos}
    BY <2>3 DEF Fetched
  <2>6. CASE c \in pass[p].listed
    <3>1. pos = 0 /\ venue[c].at # "unsent" /\ n = 0
      BY <2>3, <2>4, <2>6 DEF Fetched
    <3>2. rows[c].state # "absent"
      BY <2>2, <3>1 DEF Order
    <3>3. Pending(c) \/ Early(c)
      <4>1. ~Unknown(c)
        BY <3>2 DEF Unknown
      <4>2. ~Counted(c) /\ ~Twice(c)
        BY <2>1, <2>3, <3>1 DEF Counted, Twice
      <4> QED BY <1>1, <4>1, <4>2 DEF Settled
    <3>4. Pending(c)'
      BY <2>3, <2>6, <3>1, <3>3 DEF Pending, Early
    <3> QED BY <3>4 DEF Settled
  <2>7. CASE c \notin pass[p].listed /\ book.recent
    <3>1. Settled(c)
      BY <1>1, <2>7 DEF Early, Twice
    <3>2. Settled(c)'
      BY <2>7, <3>1 DEF Settled, Unknown, Pending, Counted
    <3> QED BY <3>2
  <2>8. CASE c \notin pass[p].listed /\ ~book.recent
    <3>1. venue[c].at \in {"unsent", "filled"} /\ (rows[c].state = "filled" => n = q)
      BY <2>1, <2>3, <2>8 DEF Fetched, Settling
    <3>2. book'.pos[c] = pos /\ book'.orders[c] = 0
      BY <2>3, <2>8
    <3>3. CASE venue[c].at = "unsent"
      <4>1. pos = 0 /\ rows[c].state = "absent"
        BY <1>0, <2>2, <2>4, <3>3 DEF Order, RowsTrue
      <4> QED BY <3>2, <4>1 DEF Settled, Unknown
    <3>4. CASE venue[c].at = "filled" /\ n # 0
      <4>1. n = q /\ pos = q
        BY <2>1, <2>2, <2>4, <3>4 DEF Order
      <4> QED BY <2>1, <2>3, <3>2, <4>1 DEF Settled, Counted
    <3>5. CASE venue[c].at = "filled" /\ n = 0
      <4>1. rows[c].state # "absent" /\ rows[c].state # "filled"
        BY <2>1, <2>2, <3>1, <3>5 DEF Order
      <4>2. rows[c].state = "submitted"
        <5>1. ~Unknown(c)
          BY <4>1 DEF Unknown
        <5>2. ~Counted(c) /\ ~Twice(c)
          BY <2>1, <2>3, <3>5 DEF Counted, Twice
        <5>3. Pending(c) \/ Early(c)
          BY <1>1, <5>1, <5>2 DEF Settled
        <5> QED BY <4>1, <5>3 DEF Pending, Early
      <4>3. pos \in {0, q}
        BY <2>1, <2>2, <2>4, <3>5 DEF Order
      <4> QED BY <2>1, <2>3, <2>8, <3>2, <3>5, <4>2, <4>3 DEF Early
    <3> QED BY <3>1, <3>3, <3>4, <3>5
  <2> QED BY <2>6, <2>7, <2>8
<1> QED BY <1>2 DEF BookKnows

LEMMA ApplyPlain ==
  ASSUME IInv, IInv', PlainInv, NEW p \in Sweeps, Apply(p)
  PROVE  PlainInv'
<1>0. /\ BookKnows /\ RowsTrue /\ GatesCurrent /\ Behind /\ PassesPlain /\ Exposure \in Wants
  BY DEF PlainInv
<1>1. pass[p].pc = "applying" /\ holder = {p} /\ ~pass[p].fast /\ ~pass[p].late /\ Fetched(p)
  BY <1>0, AloneInLock DEF Apply, At, UnderLock, Steps, PassesPlain, PlainInv
<1>2. /\ UNCHANGED <<want, sleeve, stored, venue, cache>>
      /\ book' = [Audited(pass[p].pos, pass[p].listed) EXCEPT !.clean = ~pass[p].drift]
      /\ rows' = [c \in Cid |-> J!Resolved(p, c)] /\ Becomes(p, IdlePass) /\ holder' = {}
  BY <1>1 DEF Apply, End
<1>3. \A c \in Cid : ~OnWire(c)
  BY <1>1, NothingOnWire
<1>4. \A c \in Cid : rows'[c] = rows[c]
  <2>1. \A c \in Cid : rows[c].state # "sending"
    BY <1>3, NothingSending
  <2>2. p \in holder
    BY <1>1
  <2> QED BY <1>2, <2>1, <2>2, ResolvedIs
<1>5. /\ book'.recent = book.recent
      /\ \A c \in Cid :
           /\ book'.pos[c] = IF book.recent THEN book.pos[c] ELSE pass[p].pos[c]
           /\ book'.orders[c] = IF c \notin pass[p].listed /\ book.recent THEN book.orders[c]
                                ELSE IF c \in pass[p].listed THEN Qty(c) ELSE 0
  <2>1. PICK d \in BOOLEAN : d = ~pass[p].drift
    OBVIOUS
  <2>2. pass[p].pos \in Quantities /\ pass[p].listed \in SUBSET Cid
    BY DEF IInv, Typed, PassState
  <2>3. PICK a : a = Audited(pass[p].pos, pass[p].listed) /\ book' = [a EXCEPT !.clean = d]
    BY <1>2, <2>1
  <2>4. Rebuilt(book', pass[p].pos, pass[p].listed, d)
    BY <2>2, <2>3, AuditedIs DEF IInv
  <2> QED BY <2>4 DEF Rebuilt
<1>6. BookKnows'
  BY <1>1, <1>2, <1>4, <1>5, AuditKnows
<1>7. RowsTrue'
  BY <1>0, <1>2, <1>4 DEF RowsTrue
<1>8. pass'[p] = IdlePass /\ \A q \in Sweeps : q # p => pass'[q] = pass[q]
  BY <1>2, PassTo DEF IInv
<1>9. GatesCurrent'
  <2>1. J!OpenRows(rows') = J!OpenRows(rows) /\ J!Epoch(rows') = J!Epoch(rows)
    BY <1>4, OpenSame
  <2>2. \A q \in Sweeps : pass'[q].fast /\ pass'[q].pc = "waiting" => pass'[q] = pass[q]
    BY <1>8, IdleIs
  <2> QED BY <1>0, <1>2, <1>5, <2>1, <2>2, GatesKept
<1>10. Behind'
  <2>1. \A c \in Cid : IdlePass.model[c] = 0 /\ stored[c] \in Nat
    BY IdleIs DEF NoQty, IInv, Typed, Quantities
  <2> QED BY <1>0, <1>2, <1>8, <2>1 DEF Behind
<1>11. PassesPlain'
  BY <1>0, <1>8, IdleIs DEF PassesPlain
<1>12. (Exposure \in Wants)'
  <2>1. Exposure' = Exposure
    BY <1>2, ExposureSame
  <2> QED BY <1>0, <2>1
<1> QED BY <1>2, <1>6, <1>7, <1>9, <1>10, <1>11, <1>12 DEF PlainInv

\* The settle window closes: no fast pass acts on gates from before it.
LEMMA SettleEndsPlain ==
  ASSUME IInv, IInv', PlainInv, ~SlowLock, SettleEnds
  PROVE  PlainInv'
<1>0. /\ BookKnows /\ RowsTrue /\ GatesCurrent /\ Behind /\ PassesPlain /\ Exposure \in Wants
  BY DEF PlainInv
<1>1. UNCHANGED <<want, sleeve, rows, stored, venue, pass, holder>> /\ book.recent
  BY DEF SettleEnds
<1>2. book'.recent = FALSE /\ book'.pos = book.pos /\ book'.orders = book.orders
  BY DEF SettleEnds, IInv, Typed, Book
<1>3. ASSUME NEW c \in Cid PROVE Settled(c)
  <2>1. ~OnWire(c)
    <3>1. c # <<>>
      <4>1. PICK i, e : c = <<i, e>>
        BY DEF Cid
      <4> QED BY <4>1
    <3> QED BY <3>1 DEF OnWire, SettleEnds
  <2> QED BY <1>0, <1>1, <2>1 DEF BookKnows, Early, Twice
<1>4. \A c \in Cid : Settled(c)'
  BY <1>1, <1>2, <1>3 DEF Settled, Unknown, Pending, Counted
<1>5. BookKnows'
  BY <1>4 DEF BookKnows
<1>6. RowsTrue'
  BY <1>0, <1>1 DEF RowsTrue
<1>7. ASSUME NEW g, Current(g), ~Outdated(g) PROVE Current(g)'
  BY <1>1, <1>7 DEF Current, Outdated
<1>8. GatesCurrent'
  <2>1. cache' # NoCache => Current(cache.gates)'
    <3>1. PICK g : g = cache.gates
      OBVIOUS
    <3>2. cache' # NoCache => cache' = cache /\ ~Outdated(g)
      BY <3>1 DEF SettleEnds
    <3>3. cache' # NoCache => Current(g)'
      BY <1>0, <1>7, <3>1, <3>2 DEF GatesCurrent
    <3> QED BY <3>1, <3>2, <3>3
  <2>2. ASSUME NEW p \in Sweeps, pass'[p].fast /\ pass'[p].pc = "waiting"
        PROVE  Current(pass[p].gates)'
    <3>1. PICK g : g = pass[p].gates
      OBVIOUS
    <3>2. Current(g) /\ ~Outdated(g)
      BY <1>0, <1>1, <2>2, <3>1 DEF GatesCurrent, SettleEnds
    <3>3. Current(g)'
      BY <1>7, <3>2
    <3> QED BY <1>1, <3>1, <3>3
  <2> QED BY <2>1, <2>2 DEF GatesCurrent
<1>9. Behind' /\ PassesPlain'
  BY <1>0, <1>1 DEF Behind, PassesPlain
<1>10. Exposure' = Exposure
  BY <1>1, ExposureSame
<1>11. ASSUME NEW p \in holder
       PROVE  Sends(p)' /\ (~pass'[p].fast => Fetched(p)')
  <2>1. Sends(p)'
    BY <1>1, <1>4, <1>10 DEF PlainInv, Sends
  <2>2. ASSUME ~pass'[p].fast PROVE Fetched(p)'
    <3>1. Fetched(p)
      BY <1>1, <2>2 DEF PlainInv
    <3>2. Settling(p)' => Settling(p)
      BY <1>1 DEF Settling, SettleEnds
    <3> QED BY <1>1, <3>1, <3>2 DEF Fetched
  <2> QED BY <2>1, <2>2
<1> QED BY <1>0, <1>1, <1>5, <1>6, <1>8, <1>9, <1>10, <1>11 DEF PlainInv

-----------------------------------------------------------------------------
(* The invariant of an ordinary day holds, and what follows from it.       *)

LEMMA InitPlain ==
  ASSUME Init PROVE PlainInv
<1>1. IInv
  BY InitHolds
<1>2. /\ \A c \in Cid : rows[c] = J!NoRow /\ stored[c] = 0 /\ sleeve[c] = 0
                        /\ book.pos[c] = 0 /\ book.orders[c] = 0 /\ venue[c].at = "unsent"
      /\ cache = NoCache /\ holder = {} /\ \A p \in Sweeps : pass[p] = IdlePass
  BY DEF Init, NoQty, EmptyBook
<1>3. J!NoRow.state = "absent" /\ J!NoRow.note = "none"
  BY DEF J!NoRow
<1>4. BookKnows
  BY <1>2, <1>3 DEF BookKnows, Settled, Unknown
<1>5. RowsTrue
  BY <1>2, <1>3 DEF RowsTrue
<1>6. GatesCurrent
  BY <1>2, IdleIs DEF GatesCurrent
<1>7. Behind
  BY <1>2, IdleIs DEF Behind, NoQty
<1>8. PassesPlain
  BY <1>2, IdleIs DEF PassesPlain
<1>9. Exposure \in Wants
  <2>1. NoQty \in Quantities /\ \A c \in Cid : NoQty[c] = 0
    BY DEF NoQty, Quantities
  <2>2. Net(NoQty) = Net(NoQty) + Net(NoQty)
    BY <2>1, NetSum
  <2>3. Net(NoQty) = 0
    BY <2>1, <2>2, NetIs
  <2>4. Net(Owned(venue)) = Net(NoQty)
    <3>1. \A c \in Cid : Owned(venue)[c] = NoQty[c]
      BY <1>2, <2>1, OwnedType
    <3> QED BY <2>1, <3>1, OwnedType, NetSame
  <2>5. Exposure = 0
    BY <1>1, <2>3, <2>4, ExposureIs
  <2> QED BY <2>5, WantsAssumption
<1> QED BY <1>2, <1>4, <1>5, <1>6, <1>7, <1>8, <1>9 DEF PlainInv

LEMMA StutterPlain ==
  ASSUME IInv, PlainInv, UNCHANGED vars PROVE PlainInv'
<1>1. UNCHANGED <<want, sleeve, rows, stored, venue, book, cache, pass, holder>>
  BY DEF vars
<1>2. IInv'
  BY StepHolds
<1>3. \A c \in Cid : sleeve'[c] <= stored[c]
  BY <1>1 DEF PlainInv, Behind
<1> QED BY <1>1, <1>2, <1>3, QuietKeeps

LEMMA PlainHolds ==
  ASSUME ~SlowLock, IInv, PlainInv, Plain, [Next /\ UNCHANGED regime]_vars
  PROVE  PlainInv'
<1>0. IInv'
  BY StepHolds
<1>1. CASE UNCHANGED vars
  BY <1>1, StutterPlain
<1>2. ASSUME NEW p \in Sweeps, SweepStep(p)
      PROVE  PlainInv'
  <2>1. ~PollUnanswered(p) /\ ~FetchUnanswered(p)
    BY DEF Plain, PollUnanswered, FetchUnanswered
  <2>2. ~LatePoll(p) /\ ~ResolveStale(p)
    BY DEF PlainInv, PassesPlain, LatePoll, ResolveStale, At
  <2>3. CASE \E fast \in BOOLEAN : Gather(p, fast)
    BY <1>0, <2>3, GatherPlain
  <2>4. CASE AcquireFast(p) \/ AcquireAudit(p) \/ PollAnswered(p)
    BY <1>0, <2>4, AcquireFastPlain, AcquireAuditPlain, PollAnsweredPlain
  <2>5. CASE FetchPositions(p) \/ FetchOrders(p)
    BY <1>0, <2>5, FetchPositionsPlain, FetchOrdersPlain
  <2>6. CASE Submit(p) \/ Ack(p) \/ Apply(p)
    BY <1>0, <2>6, SubmitPlain, AckPlain, ApplyPlain
  <2> QED BY <1>2, <2>1, <2>2, <2>3, <2>4, <2>5, <2>6, Zenon DEF SweepStep
<1>3. regime.threads \subseteq Sweeps
  BY RegimesAssumption DEF IInv, Typed, Regime
<1>4. ~BookStale /\ ~Restart
  BY DEF Plain, BookStale, Restart, IInv, Typed
<1>5. CASE Tick \/ (\E c \in Cid : Age(c) \/ Fill(c))
  BY <1>0, <1>5, QuietPlain
<1>6. CASE SettleEnds
  BY <1>0, <1>6, SettleEndsPlain
<1>7. CASE Next
  BY <1>2, <1>3, <1>4, <1>5, <1>6, <1>7 DEF Next
<1> QED BY <1>1, <1>7

LEMMA PlainStays ==
  ASSUME [Next /\ UNCHANGED regime]_vars PROVE Plain' = Plain
  BY DEF Plain, vars

(* Never mis-order on an ordinary stretch of the day (Plain), for every    *)
(* set of wants, every order size, any epoch and any number of threads of  *)
(* both kinds, provided a fast pass does not wait at the lock past the     *)
(* settle window: what the account holds once every working order has      *)
(* filled is always a number of shares the strategy could have wanted.     *)
(* What NeverMisorders says of refused and unanswered orders of a single   *)
(* quantity is left to TLC.                                                *)
THEOREM OrdersFit ==
  ASSUME ~SlowLock
  PROVE  Spec => [](Plain => NeverMisorders)
<1> DEFINE Inv == IInv /\ (Plain => PlainInv)
           Covered == Plain => NeverMisorders
<1>1. Init => Inv
  BY InitHolds, InitPlain
<1>2. Inv /\ [Next /\ UNCHANGED regime]_vars => Inv'
  <2> SUFFICES ASSUME Inv, [Next /\ UNCHANGED regime]_vars PROVE Inv'
    OBVIOUS
  <2>1. IInv' /\ Plain' = Plain
    BY StepHolds, PlainStays
  <2>2. Plain => PlainInv'
    BY PlainHolds
  <2> QED BY <2>1, <2>2
<1>3. Inv => Covered
  <2> SUFFICES ASSUME Inv, Plain
               PROVE  Exposure \in 0 .. Max(Wants)
    BY DEF NeverMisorders
  <2>3. Exposure \in Wants
    BY DEF PlainInv
  <2>4. Max(Wants) \in Wants /\ \A w \in Wants : w <= Max(Wants)
    BY WantsAssumption, MaxIsGreatest
  <2>5. Max(Wants) \in Nat /\ Exposure \in Nat
    BY <2>3, <2>4, WantsAssumption
  <2> QED BY <2>3, <2>4, <2>5
<1> HIDE DEF Inv, Covered
<1>4. Spec => []Covered
  BY <1>1, <1>2, <1>3, PTL DEF Spec
<1> QED BY <1>4 DEF Covered

(* Whenever the lock is free and no gate of the journal holds the symbol,  *)
(* a clean book on an ordinary stretch of the day knows the account: its   *)
(* position and its pending orders add up to what the venue holds and      *)
(* works, so that a fast pass trades from the truth.                       *)
THEOREM BookTold ==
  ASSUME ~SlowLock
  PROVE  Spec => [](Plain => BookTrusted)
<1> DEFINE Inv == IInv /\ (Plain => PlainInv)
           Told == Plain => BookTrusted
<1>1. Init => Inv
  BY InitHolds, InitPlain
<1>2. Inv /\ [Next /\ UNCHANGED regime]_vars => Inv'
  <2> SUFFICES ASSUME Inv, [Next /\ UNCHANGED regime]_vars PROVE Inv'
    OBVIOUS
  <2>1. IInv' /\ Plain' = Plain
    BY StepHolds, PlainStays
  <2>2. Plain => PlainInv'
    BY PlainHolds
  <2> QED BY <2>1, <2>2
<1>3. Inv => Told
  <2> SUFFICES ASSUME IInv, PlainInv, holder = {},
                      ~Frozen(J!GatesOf(rows, sleeve), book.orders)
               PROVE  Net(book.pos) + Net(book.orders) = Exposure
    BY DEF BookTrusted
  <2>1. ASSUME NEW c \in Cid PROVE Settled(c)
    <3>1. ~OnWire(c) /\ ~Twice(c)
      BY DEF OnWire, Twice
    <3>2. ASSUME Early(c) PROVE FALSE
      <4>1. c \in J!OpenRows(rows) /\ book.orders[c] = 0
        BY <3>2, UnfilledIsOpen DEF Early
      <4>2. c \in J!GatesOf(rows, sleeve).open
        BY <4>1 DEF J!GatesOf
      <4> QED BY <4>1, <4>2 DEF Frozen
    <3> QED BY <3>1, <3>2 DEF PlainInv, BookKnows
  <2> QED BY <2>1, BookAddsUp DEF PlainInv
<1> HIDE DEF Inv, Told
<1>4. Spec => []Told
  BY <1>1, <1>2, <1>3, PTL DEF Spec
<1> QED BY <1>4 DEF Told
=============================================================================
