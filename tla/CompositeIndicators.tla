------------------------ MODULE CompositeIndicators ------------------------
(***************************************************************************)
(* The indicators of dqengine/runtime/indicators.py that are built out of  *)
(* others: a range, an oscillator or a return is computed from the bars    *)
(* and put through averages.  Each is an operator on everything that was   *)
(* fed; an average inside it is a fold of that average's own step.  A      *)
(* logarithm or a hyperbolic tangent at the end is left out, and its       *)
(* argument compared instead.                                              *)
(***************************************************************************)
EXTENDS SmoothedIndicators

\* the values of an indicator after each sample, as a tuple
Series(s, f(_)) == <<>> \o [i \in DOMAIN s |-> f(SubSeq(s, 1, i))]

\* an average fed a whole series, ready or not: its value now, and after each sample
EmaFed[p \in Nat, s \in Readings] ==
  LET fed == FoldLeft(LAMBDA es, v : Append(es, EmaStep(p, Last(es), v)), <<EmaInit>>, s)
  IN  [i \in DOMAIN s |-> fed[i + 1].value]
EmaSeries(p, s) == EmaFed[p, s]
EmaOf(p, s) == IF s = <<>> THEN Zero ELSE Last(EmaSeries(p, s))
SmaOf(p, s) == SimpleMovingAverage(LastOf(p, s))

\* _ma_of: the configured smoothing
MovingAverage(kind, p, s) ==
  CASE kind = "wilders" -> FoldLeft(LAMBDA e, v : WilderStep(p, e, v), WilderInit, s).value
    [] kind = "exponential" -> EmaOf(p, s)
    [] kind = "lwma" -> LinearWeightedMovingAverage(LastOf(p, s))
    [] OTHER -> SmaOf(p, s)

\* the values an average had once it was ready, one for each sample from then on
ReadyEma(p, s) == SubSeq(EmaSeries(p, s), p, Len(s))

MedianPrice(b) == (b.h ++ b.l) // Int2Q(2)
Ranges(bars) == [i \in DOMAIN bars |-> bars[i].h -- bars[i].l]

-----------------------------------------------------------------------------
(* On closes.                                                              *)

PercentagePriceOscillator(fast, slow, closes) ==
  LET s == SmaOf(slow, closes)
  IN  IF s = Zero THEN Zero ELSE ((SmaOf(fast, closes) -- s) // s) ** Hundred

\* the rate of change is 0 until it has two closes, and that 0 is averaged too
Roc(p, closes) == Series(closes, LAMBDA s : RateOfChangePercent(LastOf(p + 1, s)))

CoppockCurve(short, long, p, closes) ==
  LET a == Roc(short, closes)
      b == Roc(long, closes)
  IN  LinearWeightedMovingAverage(LastOf(p, [i \in DOMAIN closes |-> a[i] ++ b[i]]))

\* rocs and smas: the periods of the four legs, weighted 1 to 4
KnowSureThing(rocs, smas, closes) ==
  QSum([k \in DOMAIN rocs |-> SmaOf(smas[k], Roc(rocs[k], closes)) ** Int2Q(k)])

\* the RSI smoothed twice, none of the stages waiting for the one before it
DerivativeOscillator(pr, p1, p2, ps, closes) ==
  LET rsi(s) == RelativeStrengthIndex(pr, FoldLeft(LAMBDA e, v : RsiStep(pr, e, v), RsiInit, s))
      once == EmaSeries(p1, Series(closes, rsi))
      twice == EmaSeries(p2, once)
  IN  [smoothed |-> Last(twice), value |-> Last(twice) -- SmaOf(ps, twice)]

\* the residuals' mean square; the channel is the line and k of their roots
RegressionChannel(w) ==
  LET line == Fit(w)
      back(i) == line[2] -- (line[1] ** Int2Q(Len(w) - i))
  IN  [line |-> line[2],
       squared |-> IF Len(w) < 2 THEN Zero ELSE QSpread([i \in DOMAIN w |-> w[i] -- back(i)])]

\* mutant: the place among the last n values before this one
PlacesBehind(n, s) ==
  Series(s, LAMBDA t :
    LET w == LastOf(n, Front(t))
    IN  IF Len(t) = 1 \/ Le(QHigh(w), QLow(w)) THEN Zero
        ELSE ((Last(t) -- QLow(w)) // (QHigh(w) -- QLow(w))) ** Hundred)

\* where each value lies among the last n, in percent
Places(n, s) ==
  Series(s, LAMBDA t :
    LET w == LastOf(n, t)
    IN  IF Le(QHigh(w), QLow(w)) THEN Zero
        ELSE ((Last(t) -- QLow(w)) // (QHigh(w) -- QLow(w))) ** Hundred)

\* SchaffTrendCycle: the place of the place of the MACD line, each smoothed over pd
SchaffTrendCycle(cycle, fast, slow, pd, closes) ==
  LET quick == EmaSeries(fast, closes)
      late == EmaSeries(slow, closes)
      d == EmaSeries(pd, Places(cycle, [i \in DOMAIN closes |-> quick[i] -- late[i]]))
  IN  EmaOf(pd, Places(cycle, d))

\* the root mean square of the returns below mar, squared, over the whole window
TargetDownsideDeviation(p, mar, closes) ==
  LET below(r) == QMin(Zero, r -- mar)
      w == LastOf(p, Series(closes, LAMBDA s : RateOfChange(LastOf(2, s))))
  IN  QMean([i \in DOMAIN w |-> below(w[i]) ** below(w[i])])

\* the mean return above the free rate, and its deviation squared: the ratio's two terms
SharpeRatio(p, free, closes) ==
  LET w == LastOf(p, Series(closes, LAMBDA s : RateOfChange(LastOf(2, s))))
  IN  [excess |-> QMean(w) -- free, squared |-> Variance(w)]

-----------------------------------------------------------------------------
(* On bars.                                                                *)

AverageRange(p, bars) == SmaOf(p, Ranges(bars))
NormalizedAverageTrueRange(atr, b) ==
  IF b.c = Zero THEN Zero ELSE (atr.value // b.c) ** Hundred
SmoothedOnBalanceVolume(p, bars) == SmaOf(p, Series(bars, OnBalanceVolume))
AwesomeOscillator(fast, slow, bars) ==
  LET mid == [i \in DOMAIN bars |-> MedianPrice(bars[i])]
  IN  SmaOf(fast, mid) -- SmaOf(slow, mid)

\* ChoppinessIndex: the path over the distance, of which it takes the logarithm
ChoppinessIndex(p, bars) ==
  LET path == QSum(LastOf(p, Series(bars, TrueRange)))
      w == LastOf(p, bars)
      range == Maximum(Col(w, "h")) -- Minimum(Col(w, "l"))
  IN  IF Len(w) < 2 \/ Le(range, Zero) \/ Le(path, Zero) THEN One ELSE path // range

\* the second average is fed once the first is ready, the ratios once the second is not 0
MassIndex(pe, p, bars) ==
  LET one == ReadyEma(pe, Ranges(bars))
      two == EmaSeries(pe, one)
      live == SelectSeq([i \in DOMAIN one |-> i], LAMBDA i : two[i] # Zero)
  IN  QSum(LastOf(p, [k \in DOMAIN live |-> one[live[k]] // two[live[k]]]))

\* a bar without range or volume is not averaged, and still is the next bar's predecessor
EaseOfMovementValue(p, scale, bars) ==
  LET counts == SelectSeq([i \in DOMAIN bars |-> i],
                  LAMBDA i : i > 1 /\ Lt(bars[i].l, bars[i].h) /\ Lt(Zero, bars[i].v))
      ease(i) == (MedianPrice(bars[i]) -- MedianPrice(bars[i - 1]))
                   // ((bars[i].v // scale) // (bars[i].h -- bars[i].l))
  IN  SmaOf(p, [k \in DOMAIN counts |-> ease(counts[k])])

ForceIndex(p, bars) ==
  EmaOf(p, [i \in 1 .. Len(bars) - 1 |-> (bars[i + 1].c -- bars[i].c) ** bars[i + 1].v])

\* AccumulationDistributionOscillator, and ChaikinOscillator by its other name
AccumulationDistributionOscillator(fast, slow, bars) ==
  LET ad == Series(bars, AccumulationDistribution)
  IN  EmaOf(fast, ad) -- EmaOf(slow, ad)

\* ADXR: today's index and that of period - 1 bars ago, once there is one
AverageDirectionalMovementIndexRating(p, bars) ==
  LET lag == IF p > 2 THEN p - 1 ELSE 1
      fed == FoldLeft(LAMBDA xs, i : Append(xs, AdxStep(p, Last(xs), SubSeq(bars, 1, i))),
                      <<AdxInit>>, [i \in DOMAIN bars |-> i])
      n == Len(bars)
  IN  IF n <= lag THEN fed[n + 1].value ELSE (fed[n + 1].value ++ fed[n + 1 - lag].value) // Int2Q(2)

\* Wilder's R is chosen by the move that dominates
WilderSwingIndex(limit, bars) ==
  LET b == Last(bars)
      a == bars[Len(bars) - 1]
      up == QAbs(b.h -- a.c)
      down == QAbs(b.l -- a.c)
      range == QAbs(b.h -- b.l)
      tail == QAbs(a.c -- a.o) // Int2Q(4)
      r == CASE Le(down, up) /\ Le(range, up) -> (up -- (down // Int2Q(2))) ++ tail
             [] Le(up, down) /\ Le(range, down) -> (down -- (up // Int2Q(2))) ++ tail
             [] OTHER -> range ++ tail
      move == (b.c -- a.c) ++ ((b.c -- b.o) // Int2Q(2)) ++ ((a.c -- a.o) // Int2Q(4))
  IN  IF Len(bars) < 2 \/ r = Zero \/ limit = Zero THEN Zero
      ELSE ((Int2Q(50) ** move) // r) ** (QMax(up, down) // limit)
WilderAccumulativeSwingIndex(limit, bars) ==
  QSum(Series(bars, LAMBDA s : WilderSwingIndex(limit, s)))

\* %K put through two averages; the value is the hyperbolic tangent of half of it
PremierStochasticOscillator(p, pe, bars) ==
  LET k == Series(bars, LAMBDA s : (StochK(LastOf(p, s)) -- Int2Q(50)) // Int2Q(10))
  IN  EmaOf(pe, EmaSeries(pe, k))

\* RelativeVigorIndex: close - open over high - low, each weighted 1-2-2-1 over four bars
Weighted4(x, i) ==
  (x[i] ++ (Int2Q(2) ** (x[i - 1] ++ x[i - 2])) ++ x[i - 3]) // Int2Q(6)
RelativeVigorIndex(kind, p, bars) ==
  LET body == [i \in DOMAIN bars |-> bars[i].c -- bars[i].o]
      band(x) == MovingAverage(kind, p, [k \in 1 .. Len(bars) - 3 |-> Weighted4(x, k + 3)])
      range == band(Ranges(bars))
  IN  IF Len(bars) - 3 < p \/ range = Zero THEN Zero ELSE band(body) // range

\* FisherTransform: the place of the median price in its window, smoothed by alpha;
\* the value is half the logarithm of (1 + x) / (1 - x), clamped, with feedback
FisherTransform(p, alpha, bars) ==
  LET mid == [i \in DOMAIN bars |-> MedianPrice(bars[i])]
      place(i) == LET w == LastOf(p, SubSeq(mid, 1, i))
                  IN  IF QLow(w) = QHigh(w) THEN <<>>
                      ELSE <<((mid[i] -- QLow(w)) // (QHigh(w) -- QLow(w))) -- Half>>
      step(x, i) == IF i < p \/ place(i) = <<>> THEN x
                    ELSE (alpha ** Int2Q(2) ** place(i)[1]) ++ ((One -- alpha) ** x)
  IN  FoldLeft(step, Zero, [i \in DOMAIN bars |-> i])

\* WaveTrendOscillator: each stage is fed once the one before it is ready
WaveValue(pc, pa, norm, off, dev) ==
  EmaOf(pa, FlattenSeq([i \in DOMAIN dev |->
              IF dev[i] = Zero THEN <<>> ELSE <<off[i + pc - 1] // (norm ** dev[i])>>]))
WaveTrendOscillator(pc, pa, norm, bars) ==
  LET tp == [i \in DOMAIN bars |-> TypicalPrice(bars[i])]
      esa == ReadyEma(pc, tp)
      off == [i \in 1 .. Len(bars) - pc + 1 |-> tp[i + pc - 1] -- esa[i]]
      dev == ReadyEma(pc, [i \in DOMAIN off |-> QAbs(off[i])])
  IN  [average |-> esa, deviation |-> dev, value |-> WaveValue(pc, pa, norm, off, dev)]

-----------------------------------------------------------------------------
(* On two symbols: a and b are the closes that entered the windows.        *)

\* _sample_cov: divided by n - 1
SampleCov(a, b) ==
  IF Len(a) < 2 THEN Zero
  ELSE QSum([i \in DOMAIN a |-> (a[i] -- QMean(a)) ** (b[i] -- QMean(b))]) // Int2Q(Len(a) - 1)

ClosingReturns(s) == [i \in 1 .. Len(s) - 1 |-> IF s[i] = Zero THEN Zero ELSE (s[i + 1] // s[i]) -- One]
Covariance(p, a, b) == SampleCov(LastOf(p, ClosingReturns(a)), LastOf(p, ClosingReturns(b)))

\* a window without variance reads the covariance itself
Beta(p, a, b) ==
  LET var == Covariance(p, b, b)
  IN  Covariance(p, a, b) // (IF var = Zero THEN One ELSE var)

\* the covariance of the closes, not of the returns, and the two variances it is divided by
Correlation(p, a, b) ==
  [cov |-> SampleCov(LastOf(p, a), LastOf(p, b)),
   left |-> SampleCov(LastOf(p, a), LastOf(p, a)), right |-> SampleCov(LastOf(p, b), LastOf(p, b))]
=============================================================================
