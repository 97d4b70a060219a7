----------------------------- MODULE DailySeries -----------------------------
(***************************************************************************)
(* The daily-series indicators of dqengine/runtime/core/indicators.py: an  *)
(* indicator is computed from the whole series of session closes (highs,   *)
(* lows) of a symbol, or is NotReady.  s is a DailySeries, a sequence of   *)
(* [c, h, l]; returns are between consecutive closes, all positive.        *)
(***************************************************************************)
EXTENDS Indicators

NotReady == <<>>

Closes(s) == Col(s, "c")
Returns(s) == [i \in 1 .. Len(s) - 1 |-> (s[i + 1].c // s[i].c) -- One]

DailySma(w, s) == IF Len(s) < w THEN NotReady ELSE QMean(LastOf(w, Closes(s)))
DailyHighest(w, s) == IF Len(s) < w THEN NotReady ELSE QHigh(LastOf(w, Closes(s)))
DailyLowest(w, s) == IF Len(s) < w THEN NotReady ELSE QLow(LastOf(w, Closes(s)))
\* squared: the program takes the root
DailyVariance(w, s) == IF Len(s) < w THEN NotReady ELSE QSpread(LastOf(w, Closes(s)))
DailyRealizedVol(w, s) == IF Len(s) - 1 < w THEN NotReady ELSE QSpread(LastOf(w, Returns(s)))
DailyCumReturn(w, s) ==
  IF Len(s) < w + 1 THEN NotReady ELSE (s[Len(s)].c // s[Len(s) - w].c) -- One

\* the average a sequence of values reaches: its first w are the seed
\* mutant: seeded with the first value
SmoothedFromFirst(w, vals) ==
  LET k == Frac(2, w + 1)
      ema[i \in 1 .. Len(vals)] ==
        IF i = 1 THEN vals[1] ELSE (vals[i] ** k) ++ (ema[i - 1] ** (One -- k))
  IN  ema[Len(vals)]

SmoothedOver(w, vals) ==
  LET k == Frac(2, w + 1)
      ema[i \in w .. Len(vals)] ==
        IF i = w THEN QMean(SubSeq(vals, 1, w))
        ELSE (vals[i] ** k) ++ (ema[i - 1] ** (One -- k))
  IN  ema[Len(vals)]
DailyEma(w, s) == IF Len(s) < w THEN NotReady ELSE SmoothedOver(w, Closes(s))

\* the gain and loss a run of differences averages to, Wilder's way
WilderRsi(w, s) ==
  LET d(i) == s[i].c -- s[i - 1].c
      up(i) == QMax(d(i), Zero)
      dn(i) == QMax(Minus(d(i)), Zero)
      seed(f(_)) == QMean([i \in 1 .. w |-> f(i + 1)])
      ag[i \in w + 1 .. Len(s)] ==
        IF i = w + 1 THEN seed(up) ELSE ((ag[i - 1] ** Int2Q(w - 1)) ++ up(i)) // Int2Q(w)
      al[i \in w + 1 .. Len(s)] ==
        IF i = w + 1 THEN seed(dn) ELSE ((al[i - 1] ** Int2Q(w - 1)) ++ dn(i)) // Int2Q(w)
      n == Len(s)
  IN  IF n < w + 1 THEN NotReady
      ELSE IF al[n] = Zero THEN Hundred
      ELSE Hundred -- (Hundred // (One ++ (ag[n] // al[n])))

\* the plain form, on the last w returns
SimpleRsi(w, s) ==
  LET r == LastOf(w, Returns(s))
      gain == QSum([i \in DOMAIN r |-> QMax(r[i], Zero)])
      loss == QSum([i \in DOMAIN r |-> QMax(Minus(r[i]), Zero)])
  IN  IF Len(s) - 1 < w THEN NotReady
      ELSE IF loss = Zero THEN Hundred
      ELSE Hundred -- (Hundred // (One ++ (gain // loss)))

\* the worst fall from a running peak of the window
WorstFall(closes) ==
  LET peak(i) == QHigh(SubSeq(closes, 1, i))
  IN  QLow(<<Zero>> \o [i \in DOMAIN closes |-> (closes[i] // peak(i)) -- One])
DailyDrawdown(w, s) == IF Len(s) < w THEN NotReady ELSE WorstFall(LastOf(w, Closes(s)))

\* the plain mean of w true ranges, each against the close before it
DailyAtr(w, s) ==
  LET tr(i) == QMax(s[i].h -- s[i].l,
                    QMax(QAbs(s[i].h -- s[i - 1].c), QAbs(s[i].l -- s[i - 1].c)))
  IN  IF Len(s) < w + 1 THEN NotReady
      ELSE QMean([i \in 1 .. w |-> tr(Len(s) - w + i)])

\* _expr_history: an expression as of each of the last n sessions, the trailing run of ready values
ExprHistory(inner(_), s, n) ==
  LET from == IF Len(s) - n + 1 > 1 THEN Len(s) - n + 1 ELSE 1
      asof(i) == inner(SubSeq(s, 1, i))
      start == {i \in from .. Len(s) : \A j \in i .. Len(s) : asof(j) # NotReady}
      first == CHOOSE i \in start : \A j \in start : i <= j
  IN  IF start = {} THEN <<>> ELSE [k \in 1 .. Len(s) - first + 1 |-> asof(first + k - 1)]

SeriesEma(w, inner(_), s) ==
  LET hist == ExprHistory(inner, s, 3 * w + 10)
  IN  IF Len(hist) < w THEN NotReady ELSE SmoothedOver(w, hist)
SeriesSma(w, inner(_), s) ==
  LET hist == ExprHistory(inner, s, 3 * w + 10)
  IN  IF Len(hist) < w THEN NotReady ELSE QMean(LastOf(w, hist))

\* the rank of the newest value among the last lookback, in steps of 1 / (n - 1)
PctRank(lookback, minObs, inner(_), s) ==
  LET hist == ExprHistory(inner, s, lookback)
      n == Len(hist)
      below == {i \in DOMAIN hist : Le(hist[i], hist[n])}
  IN  IF n < minObs \/ n = 0 THEN NotReady
      ELSE IF n = 1 THEN One
      ELSE QMin(One, Frac(Cardinality(below), n - 1))

\* _series_with_today: the live price appended as if the session had closed at it
WithToday(s, price) ==
  IF price = NotReady THEN s ELSE Append(s, [c |-> price, h |-> price, l |-> price])
=============================================================================
