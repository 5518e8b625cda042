------------------------------ MODULE ChartView ------------------------------
(***************************************************************************)
(* app::ChartController without its pixels: which part of the series the   *)
(* user looks at.  A view is the series last handed over (only its first   *)
(* and last open time and its size matter), the number of candles visible, *)
(* the open time at the right edge, and the older history asked for and    *)
(* not yet seen.  The interval is one unit of time.                        *)
(*                                                                         *)
(* initialized_, lastSeriesLastOpen_ and lastKnownFirstOpen_ always say    *)
(* what the series says, so they are read off it; backfillInFlight_ and    *)
(* awaitedFirstOpen_ are the one field asked.                              *)
(***************************************************************************)
EXTENDS Integers

CONSTANTS MinBars,         \* setVisibleLimits(30, 5000)
          MaxBars,
          DefaultVisible,  \* kDefaultVisibleCandles
          Margin,          \* kPanBackfillMarginCandles
          Batch            \* kBackfillBatchCandles

ASSUME BarsAssumption ==
    /\ MinBars \in Nat \ {0} /\ MaxBars \in Nat /\ MinBars <= MaxBars
    /\ DefaultVisible \in Nat \ {0}
    /\ Margin \in Nat /\ Batch \in Nat \ {0}

Least(a, b) == IF a <= b THEN a ELSE b
Most(a, b) == IF a <= b THEN b ELSE a
Clamp(x, lo, hi) == IF x < lo THEN lo ELSE IF x > hi THEN hi ELSE x

NoAsk == -1
NoSeries == [first |-> 0, last |-> 0, size |-> 0]

(* A series of size candles, one interval apart or more.                   *)
Summary == [first : Nat, last : Nat, size : Nat]
IsSeries(s) == s.size > 0 /\ s.last >= s.first + (s.size - 1)

View == [series : Summary, visible : Nat \ {0}, right : Int, asked : Nat \union {NoAsk}]
InitView == [series |-> NoSeries, visible |-> DefaultVisible, right |-> 0, asked |-> NoAsk]

FewestVisible(s) == Least(MinBars, s.size)
MostVisible(s) == Least(MaxBars, s.size)
MinRight(s, visible) == s.first + (visible - 1)
LeftEdge(v) == v.right - (v.visible - 1)

(* ensureVisibleWithinSeries                                               *)
Within(v) ==
    LET visible == Clamp(v.visible, FewestVisible(v.series), MostVisible(v.series))
        minRight == MinRight(v.series, visible)
    IN  [v EXCEPT !.visible = visible,
                  !.right = IF v.series.last < minRight THEN v.series.last
                            ELSE Clamp(v.right, minRight, v.series.last)]

Answered(v, s) ==
    \/ v.series.size = 0
    \/ s.first < v.series.first
    \/ s.first <= v.asked

(* Mutant: a new candle moves a chart that was panned away, too.           *)
SetSeriesFollows(v, s) ==
    IF s.size = 0 THEN [v EXCEPT !.series = s, !.asked = NoAsk]
    ELSE Within([v EXCEPT !.series = s, !.right = s.last])

(* setSeries: the first series is shown at its end; later ones are         *)
(* followed by a chart that was at the end, and only by such a chart.      *)
SetSeries(v, s) ==
    IF s.size = 0 THEN [v EXCEPT !.series = s, !.asked = NoAsk]
    ELSE LET fresh == v.series.size = 0
             atEnd == v.right >= v.series.last
         IN  Within([series  |-> s,
                     visible |-> IF fresh THEN DefaultVisible ELSE v.visible,
                     right   |-> IF fresh \/ atEnd THEN s.last ELSE v.right,
                     asked   |-> IF Answered(v, s) THEN NoAsk ELSE v.asked])

(* Mutant: the start of the batch may lie before time zero.                *)
AskIfAtEdgeBeforeZero(v) ==
    LET start == v.series.first - Batch
    IN  IF \/ LeftEdge(v) > v.series.first + Margin
           \/ v.asked # NoAsk /\ LeftEdge(v) >= v.asked
           \/ start >= v.series.first
        THEN v ELSE [v EXCEPT !.asked = start]

(* maybeRequestBackfill: near the left edge, ask once for a batch.         *)
AskIfAtEdge(v) ==
    LET start == Most(0, v.series.first - Batch)
    IN  IF \/ LeftEdge(v) > v.series.first + Margin
           \/ v.asked # NoAsk /\ LeftEdge(v) >= v.asked
           \/ start >= v.series.first
        THEN v ELSE [v EXCEPT !.asked = start]

(* Mutant: a pan is not brought back into the series.                      *)
PanByUnclamped(v, candles) ==
    IF v.series.size = 0 THEN v
    ELSE AskIfAtEdge([v EXCEPT !.right = v.right - candles])

(* panByCandles: what a drag of as many candle widths, or a key, amounts   *)
(* to; candles # 0.                                                        *)
PanBy(v, candles) ==
    IF v.series.size = 0 THEN v
    ELSE AskIfAtEdge(Within([v EXCEPT !.right = v.right - candles]))

(* onZoomWheel: bars is what clampCandles makes of the wheel, offset the   *)
(* candles between the cursor and the right edge.                          *)
Zoom(v, bars, offset) ==
    IF v.series.size = 0 \/ bars = v.visible THEN v
    ELSE LET right == v.right - offset + Least(offset, bars - 1)
             anchored == IF right - (bars - 1) < v.series.first
                         THEN MinRight(v.series, bars) ELSE right
         IN  Within([v EXCEPT !.visible = bars, !.right = anchored])

-----------------------------------------------------------------------------
(* The view shows candles of the series only: as many as there are and as  *)
(* the limits allow, from the first open time to the last, whatever        *)
(* sequence of pans, zooms, new candles and replaced series led there.     *)
InSeries(v) ==
    v.series.size > 0 =>
        /\ v.visible >= FewestVisible(v.series)
        /\ v.visible <= MostVisible(v.series)
        /\ v.right <= v.series.last
        /\ LeftEdge(v) >= v.series.first
=============================================================================
