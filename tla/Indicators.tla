----------------------------- MODULE Indicators -----------------------------
(***************************************************************************)
(* The indicators of dqengine/runtime/indicators.py: each is a small state *)
(* machine a strategy feeds one close or one bar at a time.  A deque with  *)
(* maxlen is the last elements of what was fed, so an indicator that keeps *)
(* nothing else is an operator on a window; one that recurs on its own     *)
(* value has an Init and a Step.  Values are exact rationals, a square     *)
(* root is left out (a deviation is compared through its square), and the  *)
(* periods are the arguments of the constructors.                          *)
(***************************************************************************)
EXTENDS Rational, Integers, Sequences, SequencesExt

\* deque(maxlen=n) after everything in s was appended
LastOf(n, s) == SubSeq(s, IF Len(s) > n THEN Len(s) - n + 1 ELSE 1, Len(s))
Col(bars, f) == [i \in DOMAIN bars |-> bars[i][f]]

\* IndicatorBase.is_ready
IsReady(period, samples) == samples >= period

-----------------------------------------------------------------------------
(* Indicators on the last closes fed: w is the deque.                      *)

SimpleMovingAverage(w) == IF w = <<>> THEN Zero ELSE QMean(w)
Variance(w) == IF w = <<>> THEN Zero ELSE QSpread(w)
Maximum(w) == IF w = <<>> THEN Zero ELSE QHigh(w)
Minimum(w) == IF w = <<>> THEN Zero ELSE QLow(w)
Sum(w) == QSum(w)
MeanAbsoluteDeviation(w) ==
  IF w = <<>> THEN Zero ELSE QMean([i \in DOMAIN w |-> QAbs(w[i] -- QMean(w))])

LinearWeightedMovingAverage(w) ==
  IF w = <<>> THEN Zero
  ELSE QSum([i \in DOMAIN w |-> Int2Q(i) ** w[i]]) // Frac(Len(w) * (Len(w) + 1), 2)

\* the deque of these three holds period + 1 closes
Momentum(w) == IF Len(w) > 1 THEN Last(w) -- w[1] ELSE Zero
RateOfChange(w) == IF Len(w) < 2 \/ w[1] = Zero THEN Zero ELSE (Last(w) -- w[1]) // w[1]
RateOfChangeRatio(w) == IF Len(w) < 2 \/ w[1] = Zero THEN Zero ELSE Last(w) // w[1]
RateOfChangePercent(w) == RateOfChange(w) ** Hundred

KaufmanEfficiencyRatio(w) ==
  LET noise == QSum([i \in 1 .. Len(w) - 1 |-> QAbs(w[i + 1] -- w[i])])
  IN  IF Len(w) < 2 \/ noise = Zero THEN Zero ELSE QAbs(Last(w) -- w[1]) // noise

\* the least-squares line through the window: <<slope, value at its last point>>
Fit(w) ==
  LET n == Len(w)
      mx == Frac(n - 1, 2)
      dx(i) == Int2Q(i - 1) -- mx
      slope == QSum([i \in DOMAIN w |-> dx(i) ** (w[i] -- QMean(w))])
               // QSum([i \in DOMAIN w |-> dx(i) ** dx(i)])
  IN  IF n < 2 THEN <<Zero, IF n = 0 THEN Zero ELSE Last(w)>>
      ELSE <<slope, QMean(w) ++ (slope ** (Int2Q(n - 1) -- mx))>>
LeastSquaresMovingAverage(w) == Fit(w)[2]
TimeSeriesForecast(w) == Fit(w)[2] ++ Fit(w)[1]

\* changes between consecutive closes (period + 1 of them are kept)
Momersion(w) ==
  LET d(i) == w[i + 1] -- w[i]
      pairs == {i \in 1 .. Len(w) - 2 : d(i) # Zero /\ d(i + 1) # Zero}
      same == {i \in pairs : Lt(Zero, d(i)) <=> Lt(Zero, d(i + 1))}
  IN  IF pairs = {} THEN Zero ELSE Frac(100 * Cardinality(same), Cardinality(pairs))

DetrendedPriceOscillator(p, closes) ==
  LET lag == p \div 2 + 1
  IN  IF Len(closes) <= lag THEN Zero
      ELSE closes[Len(closes) - lag] -- SimpleMovingAverage(LastOf(p, closes))

\* both deviations the bands are built from, squared: a width is compared through its square
BollingerBands(w) == [middle |-> SimpleMovingAverage(w), squared |-> Variance(w)]

\* inner average over every close, outer average over the inner's ready values
TriangularMovingAverage(p, closes) ==
  LET a == IF p % 2 = 0 THEN p \div 2 ELSE (p + 1) \div 2
      b == IF p % 2 = 0 THEN p \div 2 + 1 ELSE (p + 1) \div 2
      inner == [i \in 1 .. Len(closes) - a + 1 |-> QMean(SubSeq(closes, i, i + a - 1))]
  IN  IF Len(closes) < a THEN Zero ELSE SimpleMovingAverage(LastOf(b, inner))

RelativeMovingAverage(p, closes) ==
  (SimpleMovingAverage(LastOf(3 * p, closes)) -- SimpleMovingAverage(LastOf(2 * p, closes)))
    ++ SimpleMovingAverage(LastOf(p, closes))

AbsolutePriceOscillator(fast, slow, closes) ==
  SimpleMovingAverage(LastOf(fast, closes)) -- SimpleMovingAverage(LastOf(slow, closes))

\* LWMA of (2 * fast - slow) over the last root of its values
HullMovingAverage(p, root, closes) ==
  LET at(i) == LET upto == SubSeq(closes, 1, i)
               IN  (Int2Q(2) ** LinearWeightedMovingAverage(LastOf(IF p > 1 THEN p \div 2 ELSE 1, upto)))
                     -- LinearWeightedMovingAverage(LastOf(p, upto))
  IN  LinearWeightedMovingAverage(LastOf(root, [i \in DOMAIN closes |-> at(i)]))

-----------------------------------------------------------------------------
(* Indicators on the last bars fed.                                        *)

TrueRange(bars) ==
  LET b == Last(bars)
      pc == bars[Len(bars) - 1].c
  IN  IF Len(bars) = 1 THEN b.h -- b.l
      ELSE QMax(b.h -- b.l, QMax(QAbs(b.h -- pc), QAbs(b.l -- pc)))

TypicalPrice(b) == (b.h ++ b.l ++ b.c) // Int2Q(3)

InternalBarStrength(b) == IF b.h = b.l THEN Half ELSE (b.c -- b.l) // (b.h -- b.l)

BalanceOfPower(bars) ==
  LET b == Last(bars)
      o == IF Len(bars) = 1 THEN b.c ELSE bars[Len(bars) - 1].c
  IN  IF b.h = b.l THEN Zero ELSE (b.c -- o) // (b.h -- b.l)

WilliamsPercentR(w) ==
  LET hi == Maximum(Col(w, "h"))
      lo == Minimum(Col(w, "l"))
  IN  IF hi = lo THEN Int2Q(-50) ELSE ((hi -- Last(w).c) // (hi -- lo)) ** Int2Q(-100)

\* %K of the window; %D is the mean of its last d values
StochK(w) ==
  LET hi == Maximum(Col(w, "h"))
      lo == Minimum(Col(w, "l"))
  IN  IF hi = lo THEN Int2Q(50) ELSE ((Last(w).c -- lo) // (hi -- lo)) ** Hundred
Stochastic(p, d, bars) ==
  [k |-> StochK(LastOf(p, bars)),
   d |-> SimpleMovingAverage(LastOf(d, [i \in DOMAIN bars |-> StochK(LastOf(p, SubSeq(bars, 1, i)))]))]

DonchianChannel(w) ==
  [upper |-> Maximum(Col(w, "h")), lower |-> Minimum(Col(w, "l")),
   middle |-> (Maximum(Col(w, "h")) ++ Minimum(Col(w, "l"))) // Int2Q(2)]
MidPoint(w) == (Maximum(Col(w, "c")) ++ Minimum(Col(w, "c"))) // Int2Q(2)
MidPrice(w) == DonchianChannel(w).middle

\* w holds period + 1 bars; the first bar with the extreme is the one counted
AroonOscillator(p, w) ==
  LET first(S) == CHOOSE i \in S : \A j \in S : i <= j
      hi == first({i \in DOMAIN w : w[i].h = Maximum(Col(w, "h"))})
      lo == first({i \in DOMAIN w : w[i].l = Minimum(Col(w, "l"))})
      up == Frac(100 * (p - (Len(w) - hi)), p)
      down == Frac(100 * (p - (Len(w) - lo)), p)
  IN  [up |-> up, down |-> down, value |-> up -- down]

\* the flows of the last p bars that have a predecessor
MoneyFlowIndex(p, bars) ==
  LET tp(i) == TypicalPrice(bars[i])
      D == {i \in DOMAIN bars : i > 1 /\ i > Len(bars) - p}
      flow(S) == QSum([i \in DOMAIN bars |-> IF i \in S THEN tp(i) ** bars[i].v ELSE Zero])
      pos == flow({i \in D : Lt(tp(i - 1), tp(i))})
      neg == flow({i \in D : Lt(tp(i), tp(i - 1))})
  IN  IF neg = Zero THEN (IF pos # Zero THEN Hundred ELSE Int2Q(50))
      ELSE Hundred -- (Hundred // (One ++ (pos // neg)))

MoneyFlowVolume(b) ==
  IF b.h = b.l THEN Zero ELSE (((b.c -- b.l) -- (b.h -- b.c)) // (b.h -- b.l)) ** b.v
ChaikinMoneyFlow(w) ==
  LET tv == Sum(Col(w, "v"))
  IN  IF tv = Zero THEN Zero ELSE Sum([i \in DOMAIN w |-> MoneyFlowVolume(w[i])]) // tv
VolumeWeighted(w, price(_)) ==
  LET tv == Sum(Col(w, "v"))
  IN  IF tv = Zero THEN Zero ELSE Sum([i \in DOMAIN w |-> price(w[i]) ** w[i].v]) // tv
VolumeWeightedAveragePriceIndicator(w) == VolumeWeighted(w, TypicalPrice)
VolumeWeightedMovingAverage(w) == VolumeWeighted(w, LAMBDA b : b.c)

\* buying pressure over true range for the last n bars that have a predecessor
UltimateOscillator(p1, p2, p3, bars) ==
  LET low(i) == QMin(bars[i].l, bars[i - 1].c)
      bp(i) == bars[i].c -- low(i)
      tr(i) == QMax(bars[i].h, bars[i - 1].c) -- low(i)
      of(f(_), n) == QSum([i \in DOMAIN bars |->
                             IF i > 1 /\ i > Len(bars) - n THEN f(i) ELSE Zero])
      avg(n) == IF Len(bars) - 1 < n \/ of(tr, n) = Zero THEN Zero ELSE of(bp, n) // of(tr, n)
  IN  (Hundred ** ((Int2Q(4) ** avg(p1)) ++ (Int2Q(2) ** avg(p2)) ++ avg(p3))) // Int2Q(7)

DeMarkerIndicator(p, bars) ==
  LET D == {i \in DOMAIN bars : i > 1 /\ i > Len(bars) - p}
      up == QSum([i \in DOMAIN bars |-> IF i \in D THEN QMax(bars[i].h -- bars[i - 1].h, Zero) ELSE Zero])
      dn == QSum([i \in DOMAIN bars |-> IF i \in D THEN QMax(bars[i - 1].l -- bars[i].l, Zero) ELSE Zero])
  IN  IF up ++ dn = Zero THEN Zero ELSE up // (up ++ dn)

Vortex(p, bars) ==
  LET D == {i \in DOMAIN bars : i > 1 /\ i > Len(bars) - p}
      of(f(_)) == QSum([i \in DOMAIN bars |-> IF i \in D THEN f(i) ELSE Zero])
      t == of(LAMBDA i : TrueRange(SubSeq(bars, 1, i)))
  IN  IF t = Zero THEN [plus |-> Zero, minus |-> Zero]
      ELSE [plus |-> of(LAMBDA i : QAbs(bars[i].h -- bars[i - 1].l)) // t,
            minus |-> of(LAMBDA i : QAbs(bars[i].l -- bars[i - 1].h)) // t]

\* the bands widen each bar by its own range: h * (1 + r) and l * (1 - r), r = width * range / (h + l)
AccelerationBands(width, w) ==
  LET r(b) == IF b.h ++ b.l = Zero THEN Zero ELSE (width ** (b.h -- b.l)) // (b.h ++ b.l)
  IN  [upper |-> SimpleMovingAverage([i \in DOMAIN w |-> w[i].h ** (One ++ r(w[i]))]),
       middle |-> SimpleMovingAverage(Col(w, "c")),
       lower |-> SimpleMovingAverage([i \in DOMAIN w |-> w[i].l ** (One -- r(w[i]))])]

CommodityChannelIndex(w) ==
  LET tp == [i \in DOMAIN w |-> TypicalPrice(w[i])]
      md == MeanAbsoluteDeviation(tp)
  IN  IF md = Zero THEN Zero ELSE (Last(tp) -- QMean(tp)) // (Frac(15, 1000) ** md)

\* the cloud's lines are midpoints of windows, the two spans delayed by delay - 1 bars
IchimokuKinkoHyo(tenkan, kijun, senkouB, delay, bars) ==
  LET mid(n, i) == MidPrice(LastOf(n, SubSeq(bars, 1, i)))
      a == [i \in DOMAIN bars |-> (mid(tenkan, i) ++ mid(kijun, i)) // Int2Q(2)]
      b == [i \in DOMAIN bars |-> mid(senkouB, i)]
  IN  [tenkan |-> mid(tenkan, Len(bars)), kijun |-> mid(kijun, Len(bars)),
       senkouA |-> LastOf(delay, a)[1], senkouB |-> LastOf(delay, b)[1]]
=============================================================================
