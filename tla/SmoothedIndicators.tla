------------------------- MODULE SmoothedIndicators -------------------------
(***************************************************************************)
(* The indicators of dqengine/runtime/indicators.py that recur on their    *)
(* own value: for each an initial state, the step one sample makes, and    *)
(* the values read from it.  A step is one call of update or update_bar.   *)
(***************************************************************************)
EXTENDS Indicators

(* Averages. *)

\* ExponentialMovingAverage: 0 until the seed, the mean of the first p samples, is complete
EmaInit == [n |-> 0, seed |-> <<>>, value |-> Zero]

EmaStep(p, s, v) ==
  IF s.n < p
  THEN LET seed == Append(s.seed, v)
       IN  [n |-> s.n + 1, seed |-> seed,
            value |-> IF s.n + 1 = p THEN QMean(seed) ELSE Zero]
  ELSE [s EXCEPT !.n = @ + 1, !.value = @ ++ ((v -- @) ** Frac(2, p + 1))]

\* WilderMovingAverage: the running mean until p samples, then 1/p of each step
WilderInit == EmaInit
WilderStep(p, s, v) ==
  IF s.n < p
  THEN [n |-> s.n + 1, seed |-> Append(s.seed, v), value |-> QMean(Append(s.seed, v))]
  ELSE [s EXCEPT !.n = @ + 1, !.value = @ ++ ((v -- @) ** Frac(1, p))]

\* a stage is fed only once the stage before it is ready
Chained(p, outer, inner) == IF IsReady(p, inner.n) THEN EmaStep(p, outer, inner.value) ELSE outer

ChainInit == [e1 |-> EmaInit, e2 |-> EmaInit, e3 |-> EmaInit]
ChainStep(p, s, v) ==
  LET e1 == EmaStep(p, s.e1, v)
      e2 == Chained(p, s.e2, e1)
  IN  [e1 |-> e1, e2 |-> e2, e3 |-> Chained(p, s.e3, e2)]
DoubleExponentialMovingAverage(s) == (Int2Q(2) ** s.e1.value) -- s.e2.value
TripleExponentialMovingAverage(s) ==
  ((Int2Q(3) ** s.e1.value) -- (Int2Q(3) ** s.e2.value)) ++ s.e3.value

\* Trix: the change of the third average, in percent of its previous value
TrixStep(p, s, v) ==
  LET chain == ChainStep(p, s.chain, v)
      cur == chain.e3.value
  IN  [chain |-> chain, prev |-> cur,
       out |-> IF s.prev = Zero THEN s.out ELSE ((cur -- s.prev) // s.prev) ** Hundred]
TrixInit == [chain |-> ChainInit, prev |-> Zero, out |-> Zero]

\* KaufmanAdaptiveMovingAverage: the price itself until period + 1 samples
KamaInit == [n |-> 0, value |-> Zero]
KamaStep(p, fast, slow, s, closes) ==
  LET er == KaufmanEfficiencyRatio(LastOf(p + 1, closes))
      f == Frac(2, fast + 1)
      w == Frac(2, slow + 1)
      root == (er ** (f -- w)) ++ w
  IN  [n |-> s.n + 1,
       value |-> IF s.n + 1 < p + 1 THEN Last(closes)
                 ELSE s.value ++ ((root ** root) ** (Last(closes) -- s.value))]

\* ZeroLagExponentialMovingAverage: the average of 2 * close - the close lag samples ago
ZlemaStep(p, s, closes) ==
  EmaStep(p, s, (Int2Q(2) ** Last(closes)) -- LastOf((p - 1) \div 2 + 1, closes)[1])

\* MovingAverageConvergenceDivergence with exponential legs
MacdInit == [n |-> 0, fast |-> EmaInit, slow |-> EmaInit, signal |-> EmaInit]
MacdValue(s) == s.fast.value -- s.slow.value
MacdStep(pf, ps, pg, s, v) ==
  LET fast == EmaStep(pf, s.fast, v)
      slow == EmaStep(ps, s.slow, v)
  IN  [n |-> s.n + 1, fast |-> fast, slow |-> slow,
       signal |-> IF s.n + 1 >= ps THEN EmaStep(pg, s.signal, fast.value -- slow.value)
                  ELSE s.signal]

-----------------------------------------------------------------------------
(* Oscillators on closes. *)

Gain(d) == QMax(d, Zero)
Loss(d) == QMax(Minus(d), Zero)
\* 100 - 100 / (1 + gain / loss)
Strength(gain, loss) ==
  IF loss = Zero THEN Hundred ELSE Hundred -- (Hundred // (One ++ (gain // loss)))

\* RelativeStrengthIndex: the first p changes are averaged, later ones smoothed by 1/p
RsiInit == [n |-> 0, prev |-> Zero, gains |-> <<>>, losses |-> <<>>, ag |-> Zero, al |-> Zero]
RsiReady(p, s) == s.n > p
RsiStep(p, s, v) ==
  LET d == v -- s.prev
      gains == Append(s.gains, Gain(d))
      losses == Append(s.losses, Loss(d))
      blend(a, x) == ((a ** Int2Q(p - 1)) ++ x) // Int2Q(p)
      new == [s EXCEPT !.n = @ + 1, !.prev = v]
  IN  IF s.n = 0 THEN new
      ELSE IF RsiReady(p, s)
      THEN [new EXCEPT !.ag = blend(s.ag, Gain(d)), !.al = blend(s.al, Loss(d))]
      ELSE [new EXCEPT !.gains = gains, !.losses = losses,
                       !.ag = IF Len(gains) = p THEN QMean(gains) ELSE Zero,
                       !.al = IF Len(gains) = p THEN QMean(losses) ELSE Zero]
RelativeStrengthIndex(p, s) == IF RsiReady(p, s) THEN Strength(s.ag, s.al) ELSE Zero

\* ChandeMomentumOscillator: gains and losses each through a Wilder average
CmoInit == [n |-> 0, prev |-> Zero, gain |-> WilderInit, loss |-> WilderInit]
CmoStep(p, s, v) ==
  IF s.n = 0 THEN [s EXCEPT !.n = 1, !.prev = v]
  ELSE [n |-> s.n + 1, prev |-> v,
        gain |-> WilderStep(p, s.gain, Gain(v -- s.prev)),
        loss |-> WilderStep(p, s.loss, Loss(v -- s.prev))]
ChandeMomentumOscillator(s) ==
  LET g == s.gain.value
      l == s.loss.value
  IN  IF g ++ l = Zero THEN Zero ELSE ((g -- l) // (g ++ l)) ** Hundred

\* VariableIndexDynamicAverage: an average whose step scales with |CMO|
VidyaInit == [cmo |-> CmoInit, value |-> Zero]
VidyaStep(p, s, v) ==
  LET cmo == CmoStep(p, s.cmo, v)
      k == QAbs(ChandeMomentumOscillator(cmo)) // Hundred
  IN  [cmo |-> cmo, value |-> IF s.cmo.n = 0 THEN v
                              ELSE s.value ++ ((Frac(2, p + 1) ** k) ** (v -- s.value))]

\* TrueStrengthIndex: momentum and its magnitude through the same two averages, not gated
TsiInit == [n |-> 0, prev |-> Zero, m1 |-> EmaInit, m2 |-> EmaInit, a1 |-> EmaInit, a2 |-> EmaInit]
TsiStep(long, short, s, v) ==
  LET d == v -- s.prev
      m1 == EmaStep(long, s.m1, d)
      a1 == EmaStep(long, s.a1, QAbs(d))
  IN  IF s.n = 0 THEN [s EXCEPT !.n = 1, !.prev = v]
      ELSE [n |-> s.n + 1, prev |-> v, m1 |-> m1, m2 |-> EmaStep(short, s.m2, m1.value),
            a1 |-> a1, a2 |-> EmaStep(short, s.a2, a1.value)]
TrueStrengthIndex(s) == IF s.a2.value = Zero THEN Zero ELSE (Hundred ** s.m2.value) // s.a2.value

\* ConnorsRelativeStrengthIndex: RSI of price, RSI of the streak, rank of the latest return
ConnorsInit == [rsi |-> RsiInit, streakRsi |-> RsiInit, streak |-> 0]
ConnorsStep(pr, ps, s, closes) ==
  LET n == Len(closes)
      streak == IF Lt(closes[n - 1], closes[n]) THEN (IF s.streak > 0 THEN s.streak + 1 ELSE 1)
                ELSE IF Lt(closes[n], closes[n - 1]) THEN (IF s.streak < 0 THEN s.streak - 1 ELSE -1)
                ELSE 0
  IN  IF n = 1 THEN [s EXCEPT !.rsi = RsiStep(pr, @, closes[1])]
      ELSE [rsi |-> RsiStep(pr, s.rsi, closes[n]), streak |-> streak,
            streakRsi |-> RsiStep(ps, s.streakRsi, Int2Q(streak))]
ConnorsRelativeStrengthIndex(pr, ps, lookback, s, closes) ==
  LET rets == LastOf(lookback, [i \in 1 .. Len(closes) - 1 |-> (closes[i + 1] -- closes[i]) // closes[i]])
      rank == Frac(100 * Cardinality({i \in DOMAIN rets : Le(rets[i], Last(rets))}), Len(rets))
  IN  IF Len(rets) < 2 THEN Zero
      ELSE (RelativeStrengthIndex(pr, s.rsi) ++ RelativeStrengthIndex(ps, s.streakRsi) ++ rank) // Int2Q(3)

\* StochasticRelativeStrengthIndex: where the RSI lies among its own last values
StochRsiInit == [rsi |-> RsiInit, win |-> <<>>, raws |-> <<>>]
StochRsiStep(pr, pw, pk, s, v) ==
  LET rsi == RsiStep(pr, s.rsi, v)
      r == RelativeStrengthIndex(pr, rsi)
      win == LastOf(pw, Append(s.win, r))
      raw == IF QHigh(win) = QLow(win) THEN Zero
             ELSE ((r -- QLow(win)) // (QHigh(win) -- QLow(win))) ** Hundred
  IN  [rsi |-> rsi, win |-> win, raws |-> LastOf(pk, Append(s.raws, raw))]
StochasticRelativeStrengthIndex(s) == SimpleMovingAverage(s.raws)

-----------------------------------------------------------------------------
(* Indicators on bars. *)

\* AverageTrueRange: the mean of the first p true ranges, later ones smoothed by 1/p
AtrInit == [n |-> 0, trs |-> <<>>, value |-> Zero]
AtrReady(p, s) == s.n >= p
AtrStep(p, s, bars) ==
  LET tr == TrueRange(bars)
      trs == Append(s.trs, tr)
  IN  IF AtrReady(p, s)
      THEN [s EXCEPT !.n = @ + 1, !.value = ((@ ** Int2Q(p - 1)) ++ tr) // Int2Q(p)]
      ELSE [n |-> s.n + 1, trs |-> trs, value |-> IF Len(trs) = p THEN QMean(trs) ELSE Zero]

KeltnerInit == [ema |-> EmaInit, atr |-> AtrInit]
KeltnerStep(p, s, bars) ==
  [ema |-> EmaStep(p, s.ema, Last(bars).c), atr |-> AtrStep(p, s.atr, bars)]
KeltnerChannels(k, s) ==
  [upper |-> s.ema.value ++ (k ** s.atr.value), middle |-> s.ema.value,
   lower |-> s.ema.value -- (k ** s.atr.value)]

\* AverageDirectionalIndex: running accumulators that decay after period + 1 bars;
\* a zero directional sum reads 50 and leaves the average alone
AdxInit == [n |-> 0, str |-> Zero, up |-> Zero, down |-> Zero, adx |-> WilderInit, value |-> Zero]
AdxMoved(p, s, bars) ==
  LET n == s.n + 1
      b == Last(bars)
      a == bars[Len(bars) - 1]
      tr == IF n = 1 THEN Zero ELSE TrueRange(bars)
      rise == b.h -- a.h
      fall == a.l -- b.l
      dmp == IF n > 1 /\ Lt(Zero, rise) /\ Le(fall, rise) THEN rise ELSE Zero
      dmn == IF n > 1 /\ Lt(Zero, fall) /\ Lt(rise, fall) THEN fall ELSE Zero
      accum(x, d) == x ++ (d -- (IF n > p + 1 THEN x // Int2Q(p) ELSE Zero))
  IN  [s EXCEPT !.n = n, !.str = accum(@, tr), !.up = accum(@, dmp), !.down = accum(@, dmn)]
AdxRead(p, s) ==
  LET adx == WilderStep(p, s.adx, (Hundred ** QAbs(s.up -- s.down)) // (s.up ++ s.down))
  IN  IF s.n > p /\ s.str # Zero /\ s.up ++ s.down # Zero
      THEN [s EXCEPT !.adx = adx, !.value = adx.value]
      ELSE [s EXCEPT !.value = Int2Q(50)]
AdxStep(p, s, bars) == AdxRead(p, AdxMoved(p, s, bars))
\* the positive and negative directional index, in percent of the smoothed range
DirectionalIndex(p, s, x) == IF s.str = Zero \/ s.n <= p THEN Zero ELSE (Hundred ** x) // s.str

OnBalanceVolume(bars) ==
  LET sign(i) == IF i = 1 \/ Lt(bars[i - 1].c, bars[i].c) THEN bars[i].v
                 ELSE IF Lt(bars[i].c, bars[i - 1].c) THEN Minus(bars[i].v) ELSE Zero
  IN  QSum([i \in DOMAIN bars |-> sign(i)])
AccumulationDistribution(bars) == QSum([i \in DOMAIN bars |-> MoneyFlowVolume(bars[i])])

\* ParabolicStopAndReverse: the stop is clamped to the prior two bars, the current one excluded
SarInit == [n |-> 0, on |-> FALSE, long |-> TRUE, sar |-> Zero, ep |-> Zero, af |-> Zero]
\* mutant: the stop is clamped to the current bar too
SarClampedToday(af0, inc, top, s, bars) ==
  LET b == Last(bars)
      prior == LastOf(2, bars)
      moved == s.sar ++ (s.af ** (s.ep -- s.sar))
      stop == IF s.long THEN QMin(moved, Minimum(Col(prior, "l")))
              ELSE QMax(moved, Maximum(Col(prior, "h")))
      through == IF s.long THEN Lt(b.l, stop) ELSE Lt(stop, b.h)
      further == IF s.long THEN Lt(s.ep, b.h) ELSE Lt(b.l, s.ep)
      far(long) == IF long THEN b.h ELSE b.l
      new == [s EXCEPT !.n = @ + 1]
      starts == Le(Last(prior).h, b.c)
  IN  IF s.n = 0 THEN new
      ELSE IF ~s.on
      THEN [new EXCEPT !.on = TRUE, !.long = starts, !.ep = far(starts), !.af = af0,
                       !.sar = IF starts THEN Last(prior).l ELSE Last(prior).h]
      ELSE IF through
      THEN [new EXCEPT !.long = ~s.long, !.sar = s.ep, !.ep = far(~s.long), !.af = af0]
      ELSE [new EXCEPT !.sar = stop,
                       !.ep = IF further THEN far(s.long) ELSE @,
                       !.af = IF further THEN QMin(@ ++ inc, top) ELSE @]

SarStep(af0, inc, top, s, bars) ==
  LET b == Last(bars)
      prior == LastOf(2, Front(bars))
      moved == s.sar ++ (s.af ** (s.ep -- s.sar))
      stop == IF s.long THEN QMin(moved, Minimum(Col(prior, "l")))
              ELSE QMax(moved, Maximum(Col(prior, "h")))
      through == IF s.long THEN Lt(b.l, stop) ELSE Lt(stop, b.h)
      further == IF s.long THEN Lt(s.ep, b.h) ELSE Lt(b.l, s.ep)
      far(long) == IF long THEN b.h ELSE b.l
      new == [s EXCEPT !.n = @ + 1]
      starts == Le(Last(prior).h, b.c)
  IN  IF s.n = 0 THEN new
      ELSE IF ~s.on
      THEN [new EXCEPT !.on = TRUE, !.long = starts, !.ep = far(starts), !.af = af0,
                       !.sar = IF starts THEN Last(prior).l ELSE Last(prior).h]
      ELSE IF through
      THEN [new EXCEPT !.long = ~s.long, !.sar = s.ep, !.ep = far(~s.long), !.af = af0]
      ELSE [new EXCEPT !.sar = stop,
                       !.ep = IF further THEN far(s.long) ELSE @,
                       !.af = IF further THEN QMin(@ ++ inc, top) ELSE @]

\* SuperTrend: the line ratchets with the trend and jumps to the other band when the close crosses it
TrendInit == [atr |-> AtrInit, on |-> FALSE, up |-> TRUE, st |-> Zero]
TrendStep(p, m, s, bars) ==
  LET b == Last(bars)
      atr == AtrStep(p, s.atr, bars)
      mid == (b.h ++ b.l) // Int2Q(2)
      upper == mid ++ (m ** atr.value)
      lower == mid -- (m ** atr.value)
      line == IF s.up THEN QMax(s.st, lower) ELSE QMin(s.st, upper)
      crossed == IF s.up THEN Lt(b.c, line) ELSE Lt(line, b.c)
  IN  [atr |-> atr, on |-> TRUE,
       up |-> IF s.on /\ crossed THEN ~s.up ELSE s.up,
       st |-> IF ~s.on THEN lower ELSE IF ~crossed THEN line ELSE IF s.up THEN upper ELSE lower]

\* ChandeKrollStop: extremes of the last bars set back by the range, then the extremes of those
KrollInit == [atr |-> AtrInit, short |-> <<>>, long |-> <<>>]
KrollStep(pa, m, p, s, bars) ==
  LET atr == AtrStep(pa, s.atr, bars)
      w == LastOf(pa, bars)
  IN  [atr |-> atr,
       short |-> LastOf(p, Append(s.short, Maximum(Col(w, "h")) -- (m ** atr.value))),
       long |-> LastOf(p, Append(s.long, Minimum(Col(w, "l")) ++ (m ** atr.value)))]

\* HeikinAshi: each open is the middle of the previous transformed candle
HeikinInit == [on |-> FALSE, o |-> Zero, h |-> Zero, l |-> Zero, c |-> Zero]
HeikinStep(s, b) ==
  LET c == (b.o ++ b.h ++ b.l ++ b.c) // Int2Q(4)
      o == IF s.on THEN (s.o ++ s.c) // Int2Q(2) ELSE (b.o ++ b.c) // Int2Q(2)
  IN  [on |-> TRUE, o |-> o, c |-> c, h |-> QMax(b.h, QMax(o, c)), l |-> QMin(b.l, QMin(o, c))]

\* KlingerVolumeOscillator's force: the movement accumulates while the trend holds
\* and restarts from today's and yesterday's range when it turns
KlingerInit == [n |-> 0, trend |-> 0, cum |-> Zero, force |-> Zero]
KlingerStep(s, bars) ==
  LET n == s.n + 1
      b == Last(bars)
      a == bars[Len(bars) - 1]
      today == b.h -- b.l
      trend == IF Lt(a.h ++ a.l ++ a.c, b.h ++ b.l ++ b.c) THEN 1 ELSE -1
      cum == IF s.cum = Zero \/ trend # s.trend THEN today ++ (a.h -- a.l) ELSE s.cum ++ today
  IN  IF n = 1 THEN [s EXCEPT !.n = 1]
      ELSE IF n = 2 THEN [s EXCEPT !.n = 2, !.trend = trend]
      ELSE [n |-> n, trend |-> trend, cum |-> cum,
            force |-> b.v ** QAbs(Int2Q(2) ** ((IF cum = Zero THEN Zero ELSE today // cum) -- One))
                          ** Int2Q(100 * trend)]
=============================================================================
