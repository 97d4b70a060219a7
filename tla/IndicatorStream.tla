-------------------------- MODULE IndicatorStream ---------------------------
(***************************************************************************)
(* An algorithm's indicators over a stream of bars: QCAlgorithm.consolidate*)
(* and register_indicator, TradeBarConsolidator, the feeds the backtester  *)
(* drives once per bar and once per session, and the two-symbol indicators *)
(* that wait for both streams to reach the same time.                      *)
(*                                                                         *)
(* One symbol's minute bars pass through a consolidator of Span minutes    *)
(* (buckets start at midnight); the library is registered on the raw bars, *)
(* on the consolidator or on the session's bar.  A second symbol has a     *)
(* close at some of the minutes only.                                      *)
(***************************************************************************)
EXTENDS CompositeIndicators, DailySeries

CONSTANTS
  Bars,          \* minute -> the bars it can bring: [o, h, l, c, v], rationals
  OtherCloses,   \* minute -> the closes the second symbol can have there, Zero for none
  Minutes,       \* the minutes of a session at which bars end
  Sessions,      \* sessions of the run
  Span,          \* width of the consolidator's buckets, in minutes
  DayMinutes,    \* minutes in a day: a span of that or more is in days
  Period         \* period of the indicators

ASSUME StreamAssumption ==
  /\ Minutes \subseteq 1 .. (DayMinutes - 1) /\ Minutes # {}
  /\ DOMAIN OtherCloses = Minutes /\ DOMAIN Bars = Minutes
  /\ {Sessions, Span, DayMinutes, Period} \subseteq Nat \ {0}

VARIABLES
  day,        \* the session
  t,          \* end of the last minute stepped, 0 before the session's first
  registered, \* what the library is fed from: "minute", "consolidator" or "session"
  working,    \* the consolidator's working bar with the minutes it holds, or None
  bucket,     \* the bucket of the working bar
  emitted,    \* the bars it has emitted
  tape,       \* every minute bar of the run, oldest first
  fed,        \* the bars the library was fed
  lib,        \* the library's recurring indicators
  other,      \* the second symbol's last close of the session, Zero before it has one
  pending,    \* two-symbol indicators: the newest close of either symbol, by name
  pairs       \* the closes that entered their windows together

vars == <<day, t, registered, working, bucket, emitted, tape, fed, lib, other, pending, pairs>>

None == [from |-> 0]
Names == {"target", "reference"}
Today == SelectSeq(tape, LAMBDA b : b.day = day)
LastMinute == CHOOSE m \in Minutes : \A k \in Minutes : k <= m

LibInit ==
  [ema |-> EmaInit, wilder |-> WilderInit, chain |-> ChainInit, trix |-> TrixInit,
   kama |-> KamaInit, zlema |-> EmaInit, macd |-> MacdInit, rsi |-> RsiInit, cmo |-> CmoInit,
   vidya |-> VidyaInit, tsi |-> TsiInit, connors |-> ConnorsInit, stochRsi |-> StochRsiInit,
   atr |-> AtrInit, keltner |-> KeltnerInit, adx |-> AdxInit, sar |-> SarInit,
   trend |-> TrendInit, kroll |-> KrollInit, heikin |-> HeikinInit, klinger |-> KlingerInit]

\* every registered indicator sees the bar: update_bar for the bar-fed, update(close) for the rest
LibStep(s, bars) ==
  LET b == Last(bars)
      closes == Col(bars, "c")
      P == Period
  IN  [ema |-> EmaStep(P, s.ema, b.c), wilder |-> WilderStep(P, s.wilder, b.c),
       chain |-> ChainStep(P, s.chain, b.c), trix |-> TrixStep(P, s.trix, b.c),
       kama |-> KamaStep(P, 1, 3, s.kama, closes), zlema |-> ZlemaStep(P, s.zlema, closes),
       macd |-> MacdStep(1, P, P, s.macd, b.c), rsi |-> RsiStep(P, s.rsi, b.c),
       cmo |-> CmoStep(P, s.cmo, b.c), vidya |-> VidyaStep(P, s.vidya, b.c),
       tsi |-> TsiStep(P, 1, s.tsi, b.c), connors |-> ConnorsStep(P, P, s.connors, closes),
       stochRsi |-> StochRsiStep(P, P, P, s.stochRsi, b.c),
       atr |-> AtrStep(P, s.atr, bars), keltner |-> KeltnerStep(P, s.keltner, bars),
       adx |-> AdxStep(P, s.adx, bars), sar |-> SarStep(Half, Frac(1, 4), One, s.sar, bars),
       trend |-> TrendStep(P, One, s.trend, bars), kroll |-> KrollStep(P, One, P, s.kroll, bars),
       heikin |-> HeikinStep(s.heikin, b), klinger |-> KlingerStep(s.klinger, bars)]

\* feed the library one or no more bars
Feed(more) ==
  \E bars \in {fed \o more} :
    /\ fed' = bars
    /\ lib' = IF bars = fed THEN lib ELSE LibStep(lib, bars)

\* _bucket_of: minutes since the midnight of the bar's own day; a span of a day
\* or more counts days from that same midnight
BucketOf(end) == IF Span >= DayMinutes THEN 0 ELSE end \div Span

\* one bar out of several: open of the first, extremes, close of the last, summed volume
\* mutant: the joined bar opens where the newest minute opened
JoinedLosesOpen(w, b) ==
  IF w = None THEN b
  ELSE [b EXCEPT !.h = QMax(w.h, b.h), !.l = QMin(w.l, b.l), !.v = w.v ++ b.v, !.from = w.from]

Joined(w, b) ==
  IF w = None THEN b
  ELSE [b EXCEPT !.o = w.o, !.h = QMax(w.h, b.h), !.l = QMin(w.l, b.l), !.v = w.v ++ b.v,
                 !.from = w.from]


Init ==
  /\ day = 1 /\ t = 0
  /\ registered \in {"minute", "consolidator", "session"}
  /\ working = None /\ bucket = -1 /\ emitted = <<>>
  /\ tape = <<>> /\ fed = <<>> /\ lib = LibInit
  /\ other = Zero /\ pending = <<>> /\ pairs = <<>>

\* update_symbol: keep the symbol's newest close; once both are of one time, both windows advance

Pair(p, name, at, close) ==
  LET now == [n \in DOMAIN p.left \cup {name} |->
                IF n = name THEN [at |-> at, close |-> close] ELSE p.left[n]]
  IN  IF DOMAIN now = Names /\ now["target"].at = now["reference"].at
      THEN [left |-> <<>>, made |-> Append(p.made, now)]
      ELSE [left |-> now, made |-> p.made]

\* the two-symbol indicators are fed whatever resolution they are registered at
PairUp(at, target, reference) ==
  LET one == Pair([left |-> pending, made |-> <<>>], "target", at, target)
      both == IF reference = Zero THEN one ELSE Pair(one, "reference", at, reference)
  IN  pending' = both.left /\ pairs' = pairs \o both.made

\* the feeds of one stepped minute: the raw bar to the indicators on it and to the
\* two-symbol ones, then the consolidator, whose handlers feed what it emits
Minute(b, close) ==
  /\ day <= Sessions
  /\ t' \in {m \in Minutes : m > t /\ \A k \in Minutes : k > t => m <= k}
  /\ LET bar == [b EXCEPT !.day = day, !.from = t', !.to = t']
         out == IF working # None /\ BucketOf(t') # bucket THEN <<working>> ELSE <<>>
     IN  /\ b \in Bars[t'] /\ close \in OtherCloses[t']
         /\ tape' = Append(tape, bar)
         /\ PairUp(<<day, t'>>, b.c, close)
         /\ working' = Joined(IF out = <<>> THEN working ELSE None, bar)
         /\ emitted' = emitted \o out
         /\ bucket' = BucketOf(t')
         /\ Feed(CASE registered = "minute" -> <<bar>>
                   [] registered = "consolidator" -> out
                   [] registered = "session" -> <<>>)
  /\ other' = IF close = Zero THEN other ELSE close
  /\ UNCHANGED <<day, registered>>

\* the session's one bar, as the daily feed builds it
SessionBar ==
  [o |-> Today[1].o, h |-> Maximum(Col(Today, "h")), l |-> Minimum(Col(Today, "l")),
   c |-> Last(Today).c, v |-> Sum(Col(Today, "v")), day |-> day, from |-> 0, to |-> 0]

\* _end_session: flush the consolidators, then feed the daily and the two-symbol indicators
EndSession ==
  /\ t = LastMinute
  /\ emitted' = IF working = None THEN emitted ELSE Append(emitted, working)
  /\ working' = None /\ bucket' = -1
  /\ Feed(CASE registered = "session" -> <<SessionBar>>
            [] registered = "consolidator" -> IF working = None THEN <<>> ELSE <<working>>
            [] registered = "minute" -> <<>>)
  /\ PairUp(<<day, DayMinutes>>, Last(Today).c, other)
  /\ day' = day + 1 /\ t' = 0 /\ other' = Zero
  /\ UNCHANGED <<registered, tape>>

\* the run is over (bound: Sessions)
Done == day > Sessions /\ UNCHANGED vars

Next ==
  \/ \E b \in UNION Range(Bars), close \in UNION Range(OtherCloses) : Minute(b, close)
  \/ EndSession
  \/ Done

Spec == Init /\ [][Next]_vars
-----------------------------------------------------------------------------
(* Properties. *)

Window == LastOf(Period, fed)
WindowAnd1 == LastOf(Period + 1, fed)
FedCloses == Col(fed, "c")

\* The bounded oscillators read inside the range their definitions promise, from the
\* first sample on: the percentages (the RSI family, money flow, Ultimate, Momersion,
\* the directional indices, Stochastic, Aroon) in 0 .. 100, Williams %R in -100 .. 0,
\* the balanced ones (Chande's, true strength, Aroon's difference) in -100 .. 100, bar
\* strength, DeMarker and efficiency in 0 .. 1, Chaikin's flow in -1 .. 1.  What each
\* reads is a quotient of two running quantities that are updated apart.
\* BalanceOfPower is not a ratio of one bar: it divides the move from the close before
\* by the bar's own range, so a gap takes it past 1; it stays within the true range.
\* The oscillators with no range (CommodityChannelIndex, Vortex and the differences of
\* prices) are not claimed.
OscillatorsInRange ==
  fed # <<>> =>
    LET in(lo, q, hi) == Between(Int2Q(lo), q, Int2Q(hi))
    IN  /\ \A q \in {RelativeStrengthIndex(Period, lib.rsi),
                     StochasticRelativeStrengthIndex(lib.stochRsi),
                     ConnorsRelativeStrengthIndex(Period, Period, 4, lib.connors, FedCloses),
                     MoneyFlowIndex(Period, fed), UltimateOscillator(1, 2, 3, fed),
                     Momersion(LastOf(Period + 2, FedCloses)),
                     lib.adx.value, DirectionalIndex(Period, lib.adx, lib.adx.up),
                     DirectionalIndex(Period, lib.adx, lib.adx.down)} : in(0, q, 100)
        /\ \A q \in Range(Stochastic(Period, Period, fed)) : in(0, q, 100)
        /\ \A aroon \in {AroonOscillator(Period, WindowAnd1)} :
             in(0, aroon.up, 100) /\ in(0, aroon.down, 100) /\ in(-100, aroon.value, 100)
        /\ \A q \in {WilliamsPercentR(Window)} : in(-100, q, 0)
        /\ \A q \in {ChandeMomentumOscillator(lib.cmo), TrueStrengthIndex(lib.tsi)} : in(-100, q, 100)
        /\ \A q \in {InternalBarStrength(Last(fed)), DeMarkerIndicator(Period, fed),
                     KaufmanEfficiencyRatio(LastOf(Period + 1, FedCloses))} : in(0, q, 1)
        /\ \A q \in {ChaikinMoneyFlow(Window)} : in(-1, q, 1)
        /\ \A q \in {BalanceOfPower(fed)} :
             Le(QAbs(q) ** (Last(fed).h -- Last(fed).l), TrueRange(fed))
        /\ Le(QAbs(lib.klinger.force), Int2Q(200) ** Last(fed).v)

\* A plain average that says it is ready lies between the lowest and the highest price
\* it was fed: no warm-up zero was averaged in and no step overshot (the simple, linear,
\* triangular and volume-weighted means, the EMA's seed, Wilder's running mean, KAMA's
\* and VIDYA's variable steps, MACD's slow leg, the candle transform).
\* The double and the triple average are excepted until their last stage is seeded: they
\* say ready with their first stage (is_ready counts their own samples) and read the
\* later ones' warm-up zeros meanwhile (indicators.py:28, 441-473).  From then on they
\* lead the stage they are built on by no more than the spread of the prices, once and
\* three times.  The averages that overshoot by their design (Hull, ZeroLag, T3,
\* McGinley's, and the rest of the family) are not claimed.
AveragesInRange ==
  LET within(Q, x, y) ==
        \A q \in Q, lo \in {Minimum(Col(fed, x))}, hi \in {Maximum(Col(fed, y))} : Between(lo, q, hi)
      traded == Sum(Col(Window, "v")) # Zero
      candle == lib.heikin
      leads(k, q, stage) ==
        \A spread \in {Maximum(FedCloses) -- Minimum(FedCloses)} :
          Le(QAbs(q -- stage), Int2Q(k) ** spread)
  IN  /\ IsReady(Period, Len(fed)) =>
           /\ within({lib.ema.value, lib.wilder.value, lib.kama.value, lib.vidya.value,
                      lib.macd.slow.value, SimpleMovingAverage(Col(Window, "c")),
                      LinearWeightedMovingAverage(Col(Window, "c")),
                      TriangularMovingAverage(Period, FedCloses)}, "c", "c")
           /\ traded => /\ within({VolumeWeightedMovingAverage(Window)}, "c", "c")
                        /\ within({VolumeWeightedAveragePriceIndicator(Window)}, "l", "h")
      /\ candle.on => within({candle.o, candle.h, candle.l, candle.c}, "l", "h")
      /\ within({e.value : e \in {x \in {lib.chain.e1, lib.chain.e2, lib.chain.e3} : IsReady(Period, x.n)}}, "c", "c")
      /\ IsReady(Period, lib.chain.e2.n) =>
           leads(1, DoubleExponentialMovingAverage(lib.chain), lib.chain.e1.value)
      /\ IsReady(Period, lib.chain.e3.n) =>
           leads(3, TripleExponentialMovingAverage(lib.chain), lib.chain.e3.value)

\* Channels stay in order and hold what they are drawn around: Donchian and Ichimoku
\* lines inside the extremes of their windows, Keltner and acceleration bands around
\* their middle line, the newest close within sqrt(n - 1) deviations of Bollinger's
\* middle, and a fitted line's end no further from the window than its own height.
BandsHold ==
  fed # <<>> =>
    LET w == Col(Window, "c")
        close == Last(fed).c
        ordered(band) == Between(band.lower, band.middle, band.upper)
    IN  /\ \A don \in {DonchianChannel(Window)} :
             /\ ordered(don) /\ Between(don.lower, close, don.upper)
             /\ Between(don.lower, MidPoint(Window), don.upper)
        /\ \A band \in {KeltnerChannels(Int2Q(2), lib.keltner), AccelerationBands(Int2Q(2), Window)} :
             ordered(band)
        /\ \A bol \in {BollingerBands(w)} :
             /\ \A off \in {close -- bol.middle} :
                  Le(off ** off, Int2Q(Len(w) - 1) ** bol.squared)
             /\ \A over \in {LeastSquaresMovingAverage(w) -- bol.middle} :
                  Le(QAbs(over), Maximum(w) -- Minimum(w))
        /\ \A line \in Range(IchimokuKinkoHyo(1, 2, 3, 2, fed)) :
             Between(Minimum(Col(fed, "l")), line, Maximum(Col(fed, "h")))

\* What these composites are built of bounds what they read: an average of percentages is a percentage however often it is smoothed, the difference
\* of two ready averages of one series stays within the series' spread, a weighted
\* mean of rates lies between the rates, and the channel of a fitted line is wide
\* enough for its own window.  Each has stages that wait, or do not wait, for the one
\* before (MassIndex, DerivativeOscillator, SchaffTrendCycle and others).
CompositesInRange ==
  fed # <<>> =>
    LET P == Period
        in(lo, q, hi) == Between(Int2Q(lo), q, Int2Q(hi))
        low == Minimum(Col(fed, "l"))
        high == Maximum(Col(fed, "h"))
        holds(x, q) == Between(Minimum(x), q, Maximum(x))
        spread(x) == Maximum(x) -- Minimum(x)
        mids == Series(fed, LAMBDA s : MedianPrice(Last(s)))
        flows == Series(fed, AccumulationDistribution)
        scaled(k) == LET rates == Roc(1, FedCloses) IN [i \in DOMAIN rates |-> rates[i] ** Int2Q(k)]
    IN  /\ \A d \in {DerivativeOscillator(P, 1, P, P, FedCloses)} :
             in(0, d.smoothed, 100) /\ in(-100, d.value, 100)
        /\ \A q \in {SchaffTrendCycle(P, 1, P, P, FedCloses),
                     AverageDirectionalMovementIndexRating(P, fed)} : in(0, q, 100)
        /\ \A q \in {PremierStochasticOscillator(P, P, fed)} : in(-5, q, 5)
        /\ \A q \in {RelativeVigorIndex("simple", P, fed), FisherTransform(P, Frac(1, 3), fed)} :
             in(-1, q, 1)
        /\ \A q \in {ChoppinessIndex(P, fed)} : Le(One, q)
        /\ \A q \in {MassIndex(P, P, fed), NormalizedAverageTrueRange(lib.atr, Last(fed))} : Le(Zero, q)
        /\ \A q \in {AverageRange(P, fed)} : Le(q, high -- low)
        /\ \A q \in {SmoothedOnBalanceVolume(P, fed)} : Le(QAbs(q), Sum(Col(fed, "v")))
        /\ IsReady(P, Len(fed)) =>
             /\ \A q \in {AwesomeOscillator(1, P, fed)} : Le(QAbs(q), spread(mids))
             /\ \A q \in {AccumulationDistributionOscillator(1, P, fed)} : Le(QAbs(q), spread(flows))
        /\ \A q \in {CoppockCurve(1, 1, P, FedCloses)}, x \in {scaled(2)} : holds(x, q)
        /\ \A q \in {KnowSureThing(<<1, 1>>, <<1, P>>, FedCloses)}, x \in {scaled(3)} : holds(x, q)
        /\ \A line \in {RegressionChannel(Col(Window, "c"))} :
             \A off \in {Last(fed).c -- line.line} :
               /\ Le(line.squared, Variance(Col(Window, "c")))
               /\ Le(off ** off, Int2Q(Len(Window)) ** line.squared)
        /\ \A wave \in {WaveTrendOscillator(P, 1, Frac(3, 200), fed)} :
             /\ \A q \in Range(wave.average) : Between(low, q, high)
             /\ \A q \in Range(wave.deviation) : Le(Zero, q)

\* The direction of a tape is the direction of what reads it: while no bar has closed
\* below the one before it and the ranges rise with the closes, nothing that weighs
\* changes by price or by volume reads below zero, and there is no downside; and two
\* symbols' covariance never exceeds what their own variances allow, beta of a symbol
\* on itself being 1.
DirectionsAgree ==
  fed # <<>> =>
    LET P == Period
        rising == \A i \in 1 .. Len(fed) - 1 : \A f \in {"h", "l", "c"} : Le(fed[i][f], fed[i + 1][f])
        returns == ClosingReturns(FedCloses)
        side(name) == [i \in DOMAIN pairs |-> pairs[i][name].close]
    IN  /\ rising => /\ \A q \in {ForceIndex(P, fed), EaseOfMovementValue(P, One, fed),
                                   PercentagePriceOscillator(1, P, FedCloses),
                                   AwesomeOscillator(1, P, fed), CoppockCurve(1, 2, P, FedCloses),
                                   KnowSureThing(<<1, 2>>, <<1, P>>, FedCloses)} : Le(Zero, q)
                     /\ TargetDownsideDeviation(P, Zero, FedCloses) = Zero
        /\ rising /\ (\A i \in DOMAIN fed : Le(fed[i].o, fed[i].c)) =>
             Le(Zero, WilderAccumulativeSwingIndex(One, fed))
        /\ \A sharpe \in {SharpeRatio(P, Zero, FedCloses)}, low \in {Minimum(LastOf(P, returns))} :
             Le(low, sharpe.excess) \/ Len(returns) < P
        /\ \A a \in {side("target")}, b \in {side("reference")} :
             /\ \A cor \in {Correlation(P, a, b)} : Le(cor.cov ** cor.cov, cor.left ** cor.right)
             /\ Covariance(P, a, b) = Covariance(P, b, a)
             /\ Covariance(P, a, a) # Zero => Beta(P, a, a) = One

\* Whatever an algorithm compares one of these indicators with, a level, a price, a band
\* or zero, it reads where its definition says it can: the statements above, with the
\* exceptions they name.
ReadingsInRange ==
  OscillatorsInRange /\ AveragesInRange /\ BandsHold /\ CompositesInRange /\ DirectionsAgree

\* A stop follows its trend and only turns when price goes through it: while the
\* parabolic stop keeps its side it is never inside the bar it just saw, it does not
\* give ground once it is clear of the prior two bars, and it turns only on a bar that
\* trades through it; SuperTrend's line ratchets, and once its range is ready the close
\* is on the side the trend claims (indicators.py:1058, "the one thing a
\* stop-and-reverse must not do" is never to reverse).
StopsFollow ==
  [][ fed' # fed =>
        LET b == Last(fed')
            prior == LastOf(2, fed)
            s == lib.sar
            r == lib'.sar
            clear == IF s.long THEN Le(s.sar, Minimum(Col(prior, "l")))
                     ELSE Le(Maximum(Col(prior, "h")), s.sar)
            u == lib.trend
            w == lib'.trend
        IN  /\ s.on /\ r.long = s.long =>
                 /\ IF s.long THEN Le(r.sar, b.l) ELSE Le(b.h, r.sar)
                 /\ clear => IF s.long THEN Le(s.sar, r.sar) ELSE Le(r.sar, s.sar)
            /\ s.on /\ r.long # s.long =>
                 /\ r.sar = s.ep
                 /\ IF s.long THEN Lt(b.l, Maximum(<<s.sar, s.ep>>)) ELSE Lt(Minimum(<<s.sar, s.ep>>), b.h)
            /\ u.on /\ w.up = u.up => IF u.up THEN Le(u.st, w.st) ELSE Le(w.st, u.st)
            /\ AtrReady(Period, w.atr) => IF w.up THEN Le(w.st, b.c) ELSE Le(b.c, w.st)
    ]_vars

\* One number, two implementations: on the same closes the streaming indicators and
\* the daily-series ones of core/indicators.py are ready together and read the same,
\* however the series was fed (simple and exponential averages, Wilder's RSI, the
\* deviation, highest, lowest and the cumulative return).  The return is the exception:
\* with exactly a period of samples RateOfChange says it is ready and reads the change
\* over the one interval less it has (indicators.py:28, 311-324), where cum_return
\* wants one close more and is not ready (core/indicators.py:232-236).
SameReading ==
  LET P == Period
      w == Col(Window, "c")
      agree(daily, ready, value) == daily = IF ready THEN value ELSE NotReady
      ready == IsReady(P, Len(fed))
  IN  /\ agree(DailySma(P, fed), ready, SimpleMovingAverage(w))
      /\ agree(DailyEma(P, fed), IsReady(P, lib.ema.n), lib.ema.value)
      /\ agree(WilderRsi(P, fed), RsiReady(P, lib.rsi), RelativeStrengthIndex(P, lib.rsi))
      /\ agree(DailyVariance(P, fed), ready, Variance(w))
      /\ agree(DailyHighest(P, fed), ready, Maximum(w))
      /\ agree(DailyLowest(P, fed), ready, Minimum(w))
      /\ Len(fed) # P =>
           agree(DailyCumReturn(P, fed), ready, RateOfChange(Col(WindowAnd1, "c")))
      /\ Len(fed) = P => ready /\ DailyCumReturn(P, fed) = NotReady

\* The consolidator loses no bar, counts none twice and leaks none into the next
\* session: every bar it emitted is exactly the join of one bucket of one session, and
\* what it emitted and what it holds account for the whole tape.
EmittedIsItsBucket ==
  LET of(e) == SelectSeq(tape, LAMBDA b : b.day = e.day /\ BucketOf(b.to) = BucketOf(e.to))
      held == IF working = None THEN <<>> ELSE <<working>>
  IN  /\ \A i \in DOMAIN emitted :
           LET e == emitted[i]
               mine == of(e)
           IN  /\ e.o = mine[1].o /\ e.c = Last(mine).c /\ e.v = Sum(Col(mine, "v"))
               /\ e.h = Maximum(Col(mine, "h")) /\ e.l = Minimum(Col(mine, "l"))
               /\ e.from = mine[1].to /\ e.to = Last(mine).to
      /\ Sum(Col(emitted \o held, "v")) = Sum(Col(tape, "v"))
      /\ registered = "consolidator" => fed = emitted

\* The two windows of a two-symbol indicator advance together: every pair in them is
\* two closes of the same moment, in the order of those moments, none of them twice.
PairsAligned ==
  /\ \A i \in DOMAIN pairs : pairs[i]["target"].at = pairs[i]["reference"].at
  /\ \A i, j \in DOMAIN pairs : i < j =>
       LET a == pairs[i]["target"].at
           b == pairs[j]["target"].at
       IN  a[1] < b[1] \/ (a[1] = b[1] /\ a[2] < b[2])

\* Both joins account for what came in: the consolidator's bars and the two-symbol
\* windows, which the same minutes drive side by side.
StreamsAccount == EmittedIsItsBucket /\ PairsAligned

\* What DualSymbolIndicator's comment and QCAlgorithm's default resolution say: an
\* indicator on two symbols at daily resolution takes one pair of closes a session.
\* The feeds ignore its resolution, so it takes every minute's pair and the session
\* close once more (backtester.py:1197-1204).
DailyPairsOncePerSession ==
  registered = "session" =>
    \A i, j \in DOMAIN pairs : pairs[i]["target"].at[1] = pairs[j]["target"].at[1] => i = j

\* What QCAlgorithm.consolidate says ("hourly (or 4-hourly, or weekly)"): a span of
\* several days emits one bar for that span.
SpanHonoured ==
  LET span(e) == ((e.day - 1) * DayMinutes) \div Span
  IN  Span >= DayMinutes =>
        \A i, j \in DOMAIN emitted : span(emitted[i]) = span(emitted[j]) => i = j
=============================================================================
