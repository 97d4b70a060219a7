------------------------------ MODULE Rational ------------------------------
(***************************************************************************)
(* Exact rational numbers <<n, d>> in lowest terms, d > 0.  The program    *)
(* computes its indicators and weights in binary floating point; the       *)
(* properties are about the formulas, not about rounding, so the model     *)
(* computes them exactly.                                                  *)
(***************************************************************************)
LOCAL INSTANCE Integers
LOCAL INSTANCE Sequences

Gcd[a \in Nat, b \in Nat] == IF b = 0 THEN a ELSE Gcd[b, a % b]

Magn(i) == IF i < 0 THEN -i ELSE i

\* n / d in lowest terms, for d # 0
Reduced[n \in Int, d \in Int] ==
  LET g == Gcd[Magn(n), Magn(d)]
      sign == IF d < 0 THEN -1 ELSE 1
  IN  <<sign * (n \div g), sign * (d \div g)>>
Frac(n, d) == Reduced[n, d]

Int2Q(i) == <<i, 1>>
Zero == <<0, 1>>
One == <<1, 1>>
Half == <<1, 2>>
Hundred == <<100, 1>>

\* Sums are taken over the least common denominator and products cross-cancelled
\* first, so that no intermediate number is larger than it has to be.
Ratios == Int \X Int
Plus[p \in Ratios, q \in Ratios] ==
  LET g == Gcd[p[2], q[2]]
  IN  Frac(p[1] * (q[2] \div g) + q[1] * (p[2] \div g), (p[2] \div g) * q[2])
Times[p \in Ratios, q \in Ratios] ==
  LET a == Frac(p[1], q[2])
      b == Frac(q[1], p[2])
  IN  <<a[1] * b[1], a[2] * b[2]>>
Minus(q) == <<-q[1], q[2]>>
Invert(q) == Frac(q[2], q[1])
p ++ q == Plus[p, q]
p -- q == Plus[p, Minus(q)]
p ** q == Times[p, q]
p // q == Times[p, Invert(q)]

Lt(p, q) == (p -- q)[1] < 0
Le(p, q) == (p -- q)[1] <= 0
Between(lo, q, hi) == Le(lo, q) /\ Le(q, hi)
QMax(p, q) == IF Lt(p, q) THEN q ELSE p
QMin(p, q) == IF Lt(q, p) THEN q ELSE p
QAbs(q) == <<Magn(q[1]), q[2]>>

\* a sequence of rationals: its sum, mean, extremes and mean squared deviation
Readings == Seq(Ratios)
Total[s \in Readings] == IF s = <<>> THEN Zero ELSE Plus[Head(s), Total[Tail(s)]]
Highest[s \in Readings] ==
  CHOOSE x \in {s[i] : i \in DOMAIN s} : \A i \in DOMAIN s : Le(s[i], x)
Lowest[s \in Readings] ==
  CHOOSE x \in {s[i] : i \in DOMAIN s} : \A i \in DOMAIN s : Le(x, s[i])
Mean[s \in Readings] == Total[s] // Int2Q(Len(s))
Spread[s \in Readings] ==
  LET off(i) == s[i] -- Mean[s]
  IN  Mean[[i \in DOMAIN s |-> off(i) ** off(i)]]

QSum(s) == Total[s]
QMean(s) == Mean[s]
QHigh(s) == Highest[s]
QLow(s) == Lowest[s]
QSpread(s) == Spread[s]
=============================================================================
