----------------------------- MODULE ChartProofs -----------------------------
(***************************************************************************)
(* Proofs about RenderLoop for every limit of the controller, the canvas   *)
(* and the publisher.                                                      *)
(***************************************************************************)
EXTENDS RenderLoop, NumberSets

(***************************************************************************)
(* The controller                                                          *)
(***************************************************************************)
LEMMA BarsFacts ==
    /\ MinBars \in Nat /\ MinBars >= 1 /\ MaxBars \in Nat /\ MinBars <= MaxBars
    /\ DefaultVisible \in Nat /\ DefaultVisible >= 1
    /\ Margin \in Nat /\ Batch \in Nat
  BY BarsAssumption

(* What a view must be for ensureVisibleWithinSeries to bring it back.     *)
Loose(v) == v \in View /\ IsSeries(v.series)
Fitting(v) == v.visible <= Most(MaxBars, DefaultVisible)

LEMMA WithinFits ==
    ASSUME NEW v, Loose(v)
    PROVE  /\ Within(v) \in View /\ InSeries(Within(v)) /\ Fitting(Within(v))
           /\ Within(v).series = v.series /\ Within(v).asked = v.asked
           /\ v.right \in MinRight(v.series, Within(v).visible)..v.series.last
              => Within(v).right = v.right
  <1> DEFINE s == v.series
             visible == Clamp(v.visible, FewestVisible(s), MostVisible(s))
             minRight == MinRight(s, visible)
             right == IF s.last < minRight THEN s.last ELSE Clamp(v.right, minRight, s.last)
  <1>1. /\ s \in Summary /\ s.size \in Nat /\ s.size >= 1
        /\ s.first \in Nat /\ s.last \in Nat /\ s.last >= s.first + (s.size - 1)
    BY DEF Loose, View, Summary, IsSeries
  <1>2. v.visible \in Nat /\ v.visible >= 1 /\ v.right \in Int
    BY DEF Loose, View
  <1>3. Within(v) = [v EXCEPT !.visible = visible, !.right = right]
    BY DEF Within
  <1> HIDE DEF s
  <1>4. /\ visible \in Nat /\ visible >= 1 /\ visible <= s.size /\ visible <= MaxBars
        /\ visible >= FewestVisible(s) /\ visible <= MostVisible(s)
    BY <1>1, <1>2, BarsFacts DEF Clamp, FewestVisible, MostVisible, Least
  <1> HIDE DEF visible
  <1>5. minRight \in Int /\ minRight <= s.last /\ minRight - (visible - 1) = s.first
    BY <1>1, <1>4 DEF MinRight
  <1>6. /\ right \in Int /\ right <= s.last /\ right >= minRight
        /\ v.right \in minRight..s.last => right = v.right
    BY <1>1, <1>2, <1>5 DEF Clamp
  <1> HIDE DEF minRight, right
  <1>7. /\ Within(v).visible = visible /\ Within(v).right = right
        /\ Within(v).series = s /\ Within(v).asked = v.asked
        /\ Within(v) \in View
    <2>1. v \in View /\ v.series = s
      BY DEF Loose, s
    <2>2. visible \in Nat \ {0} /\ right \in Int
      BY <1>4, <1>6
    <2>3. QED
      BY <1>3, <2>1, <2>2 DEF View
  <1>8. InSeries(Within(v))
    BY <1>1, <1>4, <1>5, <1>6, <1>7 DEF InSeries, LeftEdge
  <1>9. Fitting(Within(v))
    BY <1>4, <1>7, BarsFacts DEF Fitting, Most
  <1>10. QED
    BY <1>6, <1>7, <1>8, <1>9 DEF minRight, s

Good(v) ==
    /\ v \in View /\ Fitting(v) /\ InSeries(v)
    /\ v.series.size > 0 => IsSeries(v.series)

LEMMA AskIsGood ==
    ASSUME NEW v, Good(v)
    PROVE  /\ Good(AskIfAtEdge(v)) /\ AskIfAtEdge(v).series = v.series
           /\ AskIfAtEdge(v).right = v.right /\ AskIfAtEdge(v).visible = v.visible
  <1> DEFINE start == Most(0, v.series.first - Batch)
             w == AskIfAtEdge(v)
  <1>1. start \in Nat
    BY BarsFacts DEF Good, View, Summary, Most
  <1>2. w = v \/ w = [v EXCEPT !.asked = start]
    BY DEF AskIfAtEdge
  <1> HIDE DEF start, w
  <1>3. w \in View /\ w.series = v.series /\ w.right = v.right /\ w.visible = v.visible
    BY <1>1, <1>2 DEF Good, View
  <1>4. QED
    BY <1>3 DEF Good, InSeries, LeftEdge, Fitting, w

LEMMA PanIsGood ==
    ASSUME NEW v, Good(v), NEW candles \in Int
    PROVE  Good(PanBy(v, candles)) /\ PanBy(v, candles).series = v.series
  <1>1. CASE v.series.size = 0
    BY <1>1 DEF PanBy
  <1>2. CASE v.series.size # 0
    <2> DEFINE w == [v EXCEPT !.right = v.right - candles]
    <2>1. v.right - candles \in Int
      BY DEF Good, View
    <2>2. w \in View /\ w.series = v.series
      BY <2>1 DEF Good, View
    <2>3. v.series.size > 0
      BY <1>2 DEF Good, View, Summary
    <2>4. Loose(w)
      BY <2>2, <2>3 DEF Loose, Good
    <2> HIDE DEF w
    <2>5. Good(Within(w)) /\ Within(w).series = v.series
      BY <2>2, <2>3, <2>4, WithinFits DEF Good, Loose
    <2>6. PanBy(v, candles) = AskIfAtEdge(Within(w))
      BY <1>2 DEF PanBy, w
    <2>7. QED
      BY <2>5, <2>6, AskIsGood
  <1>3. QED
    BY <1>1, <1>2

LEMMA ZoomIsGood ==
    ASSUME NEW v, Good(v), NEW bars \in MinBars..MaxBars, NEW offset \in Nat
    PROVE  Good(Zoom(v, bars, offset)) /\ Zoom(v, bars, offset).series = v.series
  <1>1. CASE v.series.size = 0 \/ bars = v.visible
    BY <1>1 DEF Zoom
  <1>2. CASE ~(v.series.size = 0 \/ bars = v.visible)
    <2> DEFINE right == v.right - offset + Least(offset, bars - 1)
               anchored == IF right - (bars - 1) < v.series.first
                           THEN MinRight(v.series, bars) ELSE right
               w == [v EXCEPT !.visible = bars, !.right = anchored]
    <2>1. bars \in Nat \ {0} /\ v.right \in Int /\ v.series.first \in Nat
      BY BarsFacts DEF Good, View, Summary
    <2>2. anchored \in Int
      BY <2>1 DEF MinRight, Least
    <2>3. Zoom(v, bars, offset) = Within(w)
      BY <1>2 DEF Zoom
    <2> HIDE DEF anchored
    <2>4. w \in View /\ w.series = v.series
      BY <2>1, <2>2 DEF Good, View
    <2>5. v.series.size > 0
      BY <1>2 DEF Good, View, Summary
    <2>6. Loose(w)
      BY <2>4, <2>5 DEF Loose, Good
    <2> HIDE DEF w
    <2>7. Good(Within(w)) /\ Within(w).series = v.series
      BY <2>4, <2>5, <2>6, WithinFits DEF Good, Loose
    <2>8. QED
      BY <2>3, <2>7
  <1>3. QED
    BY <1>1, <1>2

(* A series given to the controller: empty, or as long as its times say.   *)
Given(s) == s \in Summary /\ (s.size > 0 => IsSeries(s))

LEMMA SetSeriesIsGood ==
    ASSUME NEW v, Good(v), NEW s, Given(s)
    PROVE  /\ Good(SetSeries(v, s)) /\ SetSeries(v, s).series = s
           /\ v.series.size > 0 /\ s.size > 0 =>
                /\ v.right = v.series.last => SetSeries(v, s).right = s.last
                /\ /\ v.right < v.series.last
                   /\ v.right \in MinRight(s, SetSeries(v, s).visible)..s.last
                   => SetSeries(v, s).right = v.right
  <1>1. CASE s.size = 0
    <2>1. SetSeries(v, s) = [v EXCEPT !.series = s, !.asked = NoAsk]
      BY <1>1 DEF SetSeries
    <2>2. /\ SetSeries(v, s) \in View /\ SetSeries(v, s).series = s
          /\ SetSeries(v, s).visible = v.visible
      BY <2>1 DEF Good, Given, View
    <2>3. QED
      BY <1>1, <2>2 DEF Good, InSeries, Fitting
  <1>2. CASE s.size # 0
    <2> DEFINE fresh == v.series.size = 0
               atEnd == v.right >= v.series.last
               shown == IF fresh THEN DefaultVisible ELSE v.visible
               end == IF fresh \/ atEnd THEN s.last ELSE v.right
               ask == IF Answered(v, s) THEN NoAsk ELSE v.asked
               w == [series |-> s, visible |-> shown, right |-> end, asked |-> ask]
    <2>1. s.size > 0 /\ IsSeries(s) /\ s \in Summary /\ s.last \in Nat /\ s.first \in Nat
          /\ s.size \in Nat
      BY <1>2 DEF Given, Summary
    <2>2. shown \in Nat \ {0}
      BY BarsFacts DEF Good, View
    <2>3. end \in Int /\ v.right \in Int /\ v.series.last \in Int
      BY <2>1 DEF Good, View, Summary
    <2>4. ask \in Nat \union {NoAsk}
      BY DEF Good, View
    <2>5. SetSeries(v, s) = Within(w)
      BY <1>2 DEF SetSeries
    <2>6. fresh \/ atEnd => end = s.last
      OBVIOUS
    <2>7. ~fresh /\ ~atEnd => end = v.right
      OBVIOUS
    <2> HIDE DEF shown, end, ask
    <2>8. w \in View /\ w.series = s /\ w.right = end
      BY <2>1, <2>2, <2>3, <2>4 DEF View
    <2>9. Loose(w)
      BY <2>1, <2>8 DEF Loose
    <2> HIDE DEF w
    <2>10. /\ Good(Within(w)) /\ Within(w).series = s
           /\ end \in MinRight(s, Within(w).visible)..s.last => Within(w).right = end
      BY <2>1, <2>8, <2>9, WithinFits DEF Good
    <2>11. s.last \in MinRight(s, Within(w).visible)..s.last
      <3>1. /\ Within(w).visible \in Nat /\ Within(w).right \in Int
            /\ Within(w).right <= s.last
            /\ Within(w).right - (Within(w).visible - 1) >= s.first
        BY <2>1, <2>10 DEF Good, InSeries, LeftEdge, View
      <3>2. QED
        BY <2>1, <3>1 DEF MinRight
    <2>12. v.right = v.series.last /\ v.series.size > 0 => Within(w).right = s.last
      BY <2>3, <2>6, <2>10, <2>11
    <2>13. v.right < v.series.last /\ v.series.size > 0 => end = v.right
      BY <2>3, <2>7 DEF Good, View, Summary
    <2>14. QED
      BY <2>5, <2>10, <2>12, <2>13
  <1>3. QED
    BY <1>1, <1>2 DEF Given, Summary

(***************************************************************************)
(* Series                                                                  *)
(***************************************************************************)
LEMMA LoopFacts ==
    /\ MaxTime \in Nat /\ MaxTime >= 1 /\ FirstTime \in 1..MaxTime
    /\ PublishCandles \in Nat /\ PublishCandles >= 1 /\ FetchLimit \in Nat
    /\ MinDrawn \in Nat /\ MinDrawn >= 1 /\ MinDrawn <= MinBars
    /\ MaxRev \in Nat /\ MaxInputs \in Nat /\ MaxPan \in Nat
    /\ Max(Widths) \in Widths /\ Widths \subseteq Nat
    /\ Stored \subseteq SUBSET Times
    /\ Period \in Nat /\ Period >= 1
  <1>1. Max(Widths) \in Widths
    <2>1. Widths \subseteq Int
      BY LoopAssumption
    <2>2. QED
      BY <2>1, LoopAssumption, FiniteMinMax
  <1>2. QED
    BY <1>1, LoopAssumption, PeriodAssumption DEF Times

LEMMA TimesFacts ==
    ASSUME NEW T \in SUBSET Times
    PROVE  /\ IsFiniteSet(T) /\ Cardinality(T) \in 0..MaxTime /\ T \subseteq Int
           /\ T = {} <=> Cardinality(T) = 0
           /\ T # {} => /\ Min(T) \in T /\ Max(T) \in T
                        /\ \A t \in T : Min(T) <= t /\ t <= Max(T)
                        /\ Cardinality(T) <= Max(T) - Min(T) + 1
  <1>1. IsFiniteSet(1..MaxTime) /\ Cardinality(1..MaxTime) = MaxTime
    BY LoopFacts, FS_Interval
  <1>2. IsFiniteSet(T) /\ Cardinality(T) \in 0..MaxTime
    <2>1. T \in SUBSET (1..MaxTime)
      BY DEF Times
    <2>2. IsFiniteSet(T) /\ Cardinality(T) <= MaxTime
      BY <1>1, <2>1, FS_Subset
    <2>3. QED
      BY <2>2, LoopFacts, FS_CardinalityType
  <1>3. T \subseteq Int
    BY LoopFacts DEF Times
  <1>4. ASSUME T # {}
        PROVE  /\ Min(T) \in T /\ Max(T) \in T
               /\ \A t \in T : Min(T) <= t /\ t <= Max(T)
               /\ Cardinality(T) <= Max(T) - Min(T) + 1
    <2>1. /\ Min(T) \in T /\ Max(T) \in T
          /\ \A t \in T : Min(T) <= t /\ t <= Max(T)
      BY <1>2, <1>3, <1>4, FiniteMinMax
    <2> DEFINE a == Min(T)
               b == Max(T)
    <2>2. a \in Int /\ b \in Int /\ a <= b
      BY <1>3, <2>1
    <2>3. T \in SUBSET (a..b)
      BY <1>3, <2>1
    <2> HIDE DEF a, b
    <2>4. IsFiniteSet(a..b) /\ Cardinality(a..b) = b - a + 1
      BY <2>2, FS_Interval
    <2>5. Cardinality(T) <= b - a + 1
      BY <2>3, <2>4, FS_Subset
    <2>6. QED
      BY <2>1, <2>5 DEF a, b
  <1>5. QED
    BY <1>2, <1>3, <1>4, FS_EmptySet

LEMMA SummaryGiven ==
    ASSUME NEW T \in SUBSET Times
    PROVE  /\ Given(SummaryOf(T)) /\ SummaryOf(T).size = Cardinality(T)
           /\ SummaryOf(T).last \in 0..MaxTime
  <1>1. CASE T = {}
    BY <1>1, FS_EmptySet, LoopFacts DEF SummaryOf, NoSeries, Given, Summary
  <1>2. CASE T # {}
    <2>1. SummaryOf(T) = [first |-> Min(T), last |-> Max(T), size |-> Cardinality(T)]
      BY <1>2 DEF SummaryOf
    <2>2. Min(T) \in 1..MaxTime /\ Max(T) \in 1..MaxTime
      BY <1>2, TimesFacts DEF Times
    <2>3. Cardinality(T) \in Nat /\ Cardinality(T) <= Max(T) - Min(T) + 1
      BY <1>2, TimesFacts
    <2>4. QED
      BY <2>1, <2>2, <2>3, LoopFacts DEF Given, Summary, IsSeries
  <1>3. QED
    BY <1>1, <1>2

LEMMA LatestFacts ==
    ASSUME NEW T \in SUBSET Times, NEW n \in Nat
    PROVE  /\ LatestOf(T, n) \in SUBSET Times /\ LatestOf(T, n) \subseteq T
           /\ T # {} /\ n >= 1 => LatestOf(T, n) # {}
  <1>1. LatestOf(T, n) \subseteq T
    BY DEF LatestOf
  <1>2. ASSUME T # {}, n >= 1 PROVE LatestOf(T, n) # {}
    <2> DEFINE m == Max(T)
    <2>1. m \in T /\ \A t \in T : t <= m /\ t \in Int
      BY <1>2, TimesFacts
    <2> HIDE DEF m
    <2>2. {u \in T : u > m} = {}
      BY <2>1
    <2>3. Cardinality({u \in T : u > m}) < n
      BY <1>2, <2>2, FS_EmptySet
    <2>4. QED
      BY <2>1, <2>3 DEF LatestOf
  <1>3. QED
    BY <1>1, <1>2

(***************************************************************************)
(* The EMA slot                                                            *)
(***************************************************************************)
LEMMA EmaTyped ==
    ASSUME NEW T \in SUBSET Times, T # {}, NEW stored \in SUBSET Times
    PROVE  EmaOf(T, stored) \in Emas
  <1> DEFINE input == T \union WarmupOf(T, stored)
             seeds == {t \in input : Cardinality({u \in input : u < t}) < Period}
             m == Min(input)
  <1>1. input \in SUBSET Times /\ input # {}
    BY DEF WarmupOf, RangeOf
  <1>2. EmaOf(T, stored) = [of |-> T, from |-> Max(seeds)]
    BY DEF EmaOf
  <1> HIDE DEF input
  <1>3. m \in input /\ \A t \in input : m <= t /\ t \in Int
    BY <1>1, TimesFacts
  <1> HIDE DEF m
  <1>4. {u \in input : u < m} = {}
    BY <1>3
  <1>5. m \in seeds
    <2>1. Cardinality({u \in input : u < m}) < Period
      <3>1. Period \in Nat /\ Period > 0
        BY PeriodAssumption
      <3>2. Cardinality({u \in input : u < m}) = 0
        BY <1>4, FS_EmptySet
      <3>3. QED
        BY <3>1, <3>2
    <2>2. QED
      BY <1>3, <2>1
  <1>6. seeds \in SUBSET Times
    BY <1>1
  <1> HIDE DEF seeds
  <1>7. Max(seeds) \in 0..MaxTime
    <2>1. Max(seeds) \in Times
      BY <1>5, <1>6, TimesFacts
    <2>2. QED
      BY <2>1, LoopFacts DEF Times
  <1>8. QED
    BY <1>2, <1>7 DEF Emas

Slots(s) == s = [ema |-> s.ema, version |-> s.version, pending |-> s.pending]
EmaOK ==
    /\ Slots(slot) /\ slot.ema \in Emas
    /\ IsFiniteSet(jobs) /\ \A j \in jobs : j.ema \in Emas /\ j.n \in Nat

LEMMA StartedOK ==
    ASSUME EmaOK, NEW ema \in Emas, NEW version
    PROVE  /\ IsFiniteSet(Started(ema, version))
           /\ \A j \in Started(ema, version) : j.ema \in Emas /\ j.n \in Nat
  <1> DEFINE twins == {j \in jobs : j.ema = ema /\ j.version = version}
             used == {j.n : j \in twins}
             num == [j \in twins |-> j.n]
             c == Cardinality(twins)
             left == 0..c \ used
             n == Min(left)
             new == [ema |-> ema, version |-> version, n |-> n]
  <1>1. twins \in SUBSET jobs
    OBVIOUS
  <1>2. used = {num[j] : j \in twins} /\ DOMAIN num = twins
    OBVIOUS
  <1>3. Started(ema, version) = jobs \union {new}
    BY DEF Started
  <1> HIDE DEF twins, used, num
  <1>4. IsFiniteSet(twins)
    BY <1>1, FS_Subset DEF EmaOK
  <1>5. IsFiniteSet(used) /\ Cardinality(used) <= c /\ c \in Nat /\ Cardinality(used) \in Nat
    BY <1>2, <1>4, ImageFinite, FS_CardinalityType
  <1>6. left # {}
    <2> SUFFICES ASSUME left = {} PROVE FALSE
      OBVIOUS
    <2>1. 0..c \in SUBSET used
      OBVIOUS
    <2>2. Cardinality(0..c) = c + 1
      BY <1>5, FS_Interval
    <2>3. Cardinality(0..c) <= Cardinality(used)
      BY <1>5, <2>1, FS_Subset
    <2>4. QED
      BY <1>5, <2>2, <2>3
  <1>7. n \in Nat
    <2>1. left \subseteq Nat
      BY <1>5
    <2> HIDE DEF left
    <2>2. QED
      BY <1>6, <2>1, MinIsSmallest
  <1> HIDE DEF n
  <1>8. IsFiniteSet(jobs \union {new})
    <2>1. IsFiniteSet({new})
      BY FS_Singleton
    <2> HIDE DEF new
    <2>2. QED
      BY <2>1, FS_Union DEF EmaOK
  <1>9. QED
    BY <1>3, <1>7, <1>8 DEF EmaOK

LEMMA GetEmaOK ==
    ASSUME EmaOK, NEW T \in SUBSET Times, NEW version, NEW stored \in SUBSET Times,
           GetEma(T, version, stored)
    PROVE  EmaOK'
  <1>1. CASE UNCHANGED cacheVars
    BY <1>1 DEF EmaOK, cacheVars
  <1>2. CASE /\ T # {}
             /\ slot' = [slot EXCEPT !.pending = version]
             /\ jobs' = IF Cardinality(T) < Period THEN jobs
                        ELSE Started(EmaOf(T, stored), version)
    <2>1. slot' = [ema |-> slot.ema, version |-> slot.version, pending |-> version]
      BY <1>2 DEF EmaOK, Slots
    <2>2. Slots(slot') /\ slot'.ema \in Emas
      BY <2>1 DEF EmaOK, Slots
    <2>3. IsFiniteSet(jobs') /\ \A j \in jobs' : j.ema \in Emas /\ j.n \in Nat
      <3>1. EmaOf(T, stored) \in Emas
        BY <1>2, EmaTyped
      <3>2. CASE jobs' = jobs
        BY <3>2 DEF EmaOK
      <3>3. CASE jobs' = Started(EmaOf(T, stored), version)
        BY <3>1, <3>3, StartedOK
      <3>4. QED
        BY <1>2, <3>2, <3>3
    <2>4. QED
      BY <2>2, <2>3 DEF EmaOK
  <1>3. QED
    BY <1>1, <1>2 DEF GetEma

LEMMA FinishOK ==
    ASSUME EmaOK, Compute
    PROVE  EmaOK'
  <1>1. PICK job \in jobs : Finish(job)
    BY DEF Compute
  <1>2. slot' = [ema |-> job.ema, version |-> job.version, pending |-> NoVersion]
    BY <1>1 DEF Finish
  <1>3. Slots(slot') /\ slot'.ema \in Emas
    BY <1>2 DEF EmaOK, Slots
  <1>4. jobs' \in SUBSET jobs
    BY <1>1 DEF Finish
  <1>5. IsFiniteSet(jobs')
    BY <1>4, FS_Subset DEF EmaOK
  <1>6. QED
    BY <1>3, <1>4, <1>5 DEF EmaOK

(***************************************************************************)
(* The invariant                                                           *)
(***************************************************************************)
Pcs == {"poll", "polled", "wait", "snapshot", "apply", "count", "draw", "render", "stopped"}
DataOK ==
    /\ repo \in [times : SUBSET Times, open : BOOLEAN]
    /\ cache \in Series /\ publisher \in {"idle", "notify"} /\ pending \in BOOLEAN
FrameOK == pc \in Pcs /\ frame \in [seen : 0..MaxRev, got : Series, count : 0..MaxTime]
ShownOK ==
    /\ series \in Series /\ seriesRev \in 0..MaxRev
    /\ Good(view) /\ view.series = SummaryOf(series.times)
InputOK == width \in Widths /\ inputs \in 0..MaxInputs
DrawOK ==
    /\ commands \subseteq Snapshots /\ Cardinality(commands) <= 1
    /\ screen \in [last : 0..MaxTime, rev : 0..MaxRev, ema : BOOLEAN]
(* Commands wait only for Render, and until then nothing moves the view.   *)
DrawnInv ==
    commands # {} =>
        /\ pc = "render"
        /\ \A snapshot \in commands : snapshot.drawn = Visible(series.times, view, width)
(* A series of the cache, once shown, is only replaced by a later one.     *)
OrderInv ==
    /\ screen.rev > 0 => series.rev >= screen.rev
    /\ series.rev > 0 => series.times # {} /\ cache.times # {} /\ cache.rev >= series.rev
    /\ cache.times # {} => repo.times # {}
    /\ pc = "apply" =>
         /\ series.rev > 0 => frame.got.times # {} /\ frame.got.rev >= series.rev
         /\ frame.got.times # {} => cache.times # {} /\ cache.rev >= frame.got.rev
ChartInv ==
    /\ DataOK /\ FrameOK /\ ShownOK /\ InputOK /\ DrawOK /\ EmaOK
    /\ DrawnInv /\ OrderInv

LEMMA SameShown == ShownOK /\ UNCHANGED <<series, seriesRev, view>> => ShownOK'
  BY DEF ShownOK

LEMMA SameEma == EmaOK /\ UNCHANGED cacheVars => EmaOK'
  BY DEF EmaOK, cacheVars

LEMMA SameDraw == DrawOK /\ UNCHANGED <<commands, screen>> => DrawOK'
  BY DEF DrawOK

LEMMA SameData == DataOK /\ UNCHANGED <<dataVars, pending>> => DataOK'
  BY DEF DataOK, dataVars

LEMMA SameInput == InputOK /\ UNCHANGED <<width, inputs>> => InputOK'
  BY DEF InputOK

LEMMA SameFrame == FrameOK /\ UNCHANGED <<pc, frame>> => FrameOK'
  BY DEF FrameOK

(* What a frame has read by the time it is applied or drawn.               *)
LEMMA NothingTyped ==
    Nothing \in Series /\ NoFrame \in [seen : 0..MaxRev, got : Series, count : 0..MaxTime]
  <1>1. Nothing \in Series
    BY LoopFacts DEF Nothing, Series
  <1>2. QED
    BY <1>1, LoopFacts DEF NoFrame

LEMMA SameAll == ChartInv /\ UNCHANGED vars => ChartInv'
  <1> SUFFICES ASSUME ChartInv, UNCHANGED vars PROVE ChartInv'
    OBVIOUS
  <1>1. /\ UNCHANGED <<dataVars, pending>> /\ UNCHANGED <<pc, frame>>
        /\ UNCHANGED <<series, seriesRev, view>> /\ UNCHANGED <<width, inputs>>
        /\ UNCHANGED <<commands, screen>> /\ UNCHANGED cacheVars
    BY DEF vars, loopVars
  <1>2. DrawnInv' /\ OrderInv'
    BY <1>1 DEF ChartInv, DrawnInv, OrderInv, dataVars
  <1>3. QED
    BY <1>1, <1>2, SameData, SameFrame, SameShown, SameInput, SameDraw, SameEma DEF ChartInv

LEMMA ChartInvInit == Init => ChartInv
  <1> SUFFICES ASSUME Init PROVE ChartInv
    OBVIOUS
  <1>1. PICK T \in Stored : repo = [times |-> T, open |-> FALSE]
    BY DEF Init
  <1>2. DataOK
    BY <1>1, LoopFacts, NothingTyped DEF Init, DataOK
  <1>3. FrameOK
    BY NothingTyped DEF Init, FrameOK, Pcs
  <1>4. InitView \in View /\ InitView.series = NoSeries /\ InitView.visible = DefaultVisible
    <2>1. NoSeries \in Summary
      BY DEF NoSeries, Summary
    <2>2. QED
      BY <2>1, BarsFacts DEF InitView, View
  <1>5. ShownOK
    <2>1. SummaryOf(Nothing.times) = NoSeries /\ NoSeries.size = 0
      BY DEF Nothing, SummaryOf, NoSeries
    <2>2. Good(InitView)
      BY <1>4, <2>1, BarsFacts DEF Good, Fitting, InSeries, Most
    <2>3. QED
      BY <1>4, <2>1, <2>2, LoopFacts, NothingTyped DEF Init, ShownOK
  <1>6. InputOK
    BY LoopFacts DEF Init, InputOK
  <1>7. DrawOK
    BY LoopFacts, FS_EmptySet DEF Init, DrawOK, NoScreen
  <1>8. EmaOK
    BY LoopFacts, FS_EmptySet DEF Init, CacheInit, EmaOK, Slots, NoEma, Emas
  <1>9. DrawnInv /\ OrderInv
    BY DEF Init, DrawnInv, OrderInv, NoScreen, Nothing
  <1>10. QED
    BY <1>2, <1>3, <1>5, <1>6, <1>7, <1>8, <1>9 DEF ChartInv

(***************************************************************************)
(* The live thread                                                         *)
(***************************************************************************)
LEMMA AppendStep == ChartInv /\ Append => ChartInv'
  <1> SUFFICES ASSUME ChartInv, Append PROVE ChartInv'
    OBVIOUS
  <1>1. /\ UNCHANGED <<cache, publisher, pending>> /\ UNCHANGED <<pc, frame>>
        /\ UNCHANGED <<series, seriesRev, view>> /\ UNCHANGED <<width, inputs>>
        /\ UNCHANGED <<commands, screen>> /\ UNCHANGED cacheVars
    BY DEF Append, loopVars
  <1>2. /\ repo' \in [times : SUBSET Times, open : BOOLEAN]
        /\ repo.times # {} => repo'.times # {}
    <2> DEFINE T == repo.times
    <2>0. T \in SUBSET Times /\ repo \in [times : SUBSET Times, open : BOOLEAN]
      BY DEF ChartInv, DataOK
    <2>1. PICK open \in BOOLEAN :
          \/ repo' = [repo EXCEPT !.open = open]
          \/ /\ T # {} /\ Max(T) < MaxTime
             /\ repo' = [times |-> T \union {Max(T) + 1}, open |-> open]
          \/ repo' = [times |-> {FirstTime}, open |-> open]
      BY DEF Append
    <2>2. CASE repo' = [repo EXCEPT !.open = open]
      BY <2>0, <2>2
    <2>3. CASE T # {} /\ Max(T) < MaxTime
               /\ repo' = [times |-> T \union {Max(T) + 1}, open |-> open]
      <3>1. Max(T) + 1 \in Times
        BY <2>0, <2>3, TimesFacts, LoopFacts DEF Times
      <3>2. QED
        BY <2>0, <2>3, <3>1
    <2>4. CASE repo' = [times |-> {FirstTime}, open |-> open]
      BY <2>4, LoopFacts DEF Times
    <2>5. QED
      BY <2>1, <2>2, <2>3, <2>4
  <1>3. DataOK'
    BY <1>1, <1>2 DEF ChartInv, DataOK
  <1>4. DrawnInv' /\ OrderInv'
    BY <1>1, <1>2 DEF ChartInv, DrawnInv, OrderInv
  <1>5. QED
    BY <1>1, <1>3, <1>4, SameFrame, SameShown, SameInput, SameDraw, SameEma DEF ChartInv

LEMMA UpdateCacheStep == ChartInv /\ UpdateCache => ChartInv'
  <1> SUFFICES ASSUME ChartInv, UpdateCache PROVE ChartInv'
    OBVIOUS
  <1>1. /\ UNCHANGED <<repo, pending>> /\ UNCHANGED <<pc, frame>>
        /\ UNCHANGED <<series, seriesRev, view>> /\ UNCHANGED <<width, inputs>>
        /\ UNCHANGED <<commands, screen>> /\ UNCHANGED cacheVars
        /\ publisher' = "notify" /\ cache.rev < MaxRev
    BY DEF UpdateCache, loopVars
  <1> DEFINE T == LatestOf(repo.times, PublishCandles)
  <1>2. cache' = [times |-> T, rev |-> cache.rev + 1]
    BY DEF UpdateCache
  <1>3. /\ T \in SUBSET Times /\ T \subseteq repo.times
        /\ repo.times # {} => T # {}
    <2>1. repo.times \in SUBSET Times
      BY DEF ChartInv, DataOK
    <2>2. QED
      BY <2>1, LatestFacts, LoopFacts
  <1> HIDE DEF T
  <1>4. cache.rev \in Nat /\ cache.rev + 1 \in 0..MaxRev
    BY <1>1, LoopFacts DEF ChartInv, DataOK, Series
  <1>5. cache' \in Series /\ cache'.times = T /\ cache'.rev = cache.rev + 1
    BY <1>2, <1>3, <1>4 DEF Series
  <1>6. DataOK'
    BY <1>1, <1>5 DEF ChartInv, DataOK
  <1>7. series.rev \in Nat /\ frame.got.rev \in Nat
    BY DEF ChartInv, ShownOK, FrameOK, Series
  <1>8. DrawnInv' /\ OrderInv'
    BY <1>1, <1>3, <1>4, <1>5, <1>7 DEF ChartInv, DrawnInv, OrderInv
  <1>9. QED
    BY <1>1, <1>6, <1>8, SameFrame, SameShown, SameInput, SameDraw, SameEma DEF ChartInv

LEMMA NotifyStep == ChartInv /\ Notify => ChartInv'
  <1> SUFFICES ASSUME ChartInv, Notify PROVE ChartInv'
    OBVIOUS
  <1>1. /\ UNCHANGED <<repo, cache>> /\ UNCHANGED <<pc, frame>>
        /\ UNCHANGED <<series, seriesRev, view>> /\ UNCHANGED <<width, inputs>>
        /\ UNCHANGED <<commands, screen>> /\ UNCHANGED cacheVars
        /\ publisher' = "idle" /\ pending' = TRUE
    BY DEF Notify, loopVars
  <1>2. DataOK'
    BY <1>1 DEF ChartInv, DataOK
  <1>3. DrawnInv' /\ OrderInv'
    BY <1>1 DEF ChartInv, DrawnInv, OrderInv
  <1>4. QED
    BY <1>1, <1>2, <1>3, SameFrame, SameShown, SameInput, SameDraw, SameEma DEF ChartInv

(***************************************************************************)
(* Input                                                                   *)
(***************************************************************************)
LEMMA GestureView ==
    ASSUME ShownOK, InputOK, Gesture, UNCHANGED <<series, seriesRev>>
    PROVE  ShownOK' /\ InputOK' /\ view'.series = view.series
  <1>1. Good(view) /\ view.visible \in Nat
    BY DEF ShownOK, Good, View
  <1>2. Good(view') /\ view'.series = view.series
    <2>1. CASE \E candles \in -MaxPan..MaxPan \ {0} : view' = PanBy(view, candles)
      <3>1. PICK candles \in -MaxPan..MaxPan \ {0} : view' = PanBy(view, candles)
        BY <2>1
      <3>2. candles \in Int
        BY <3>1, LoopFacts
      <3>3. QED
        BY <1>1, <3>1, <3>2, PanIsGood
    <2>2. CASE \E bars \in MinBars..MaxBars, offset \in 0..view.visible :
                   view' = Zoom(view, bars, offset)
      <3>1. PICK bars \in MinBars..MaxBars, offset \in 0..view.visible :
                   view' = Zoom(view, bars, offset)
        BY <2>2
      <3>2. offset \in Nat
        BY <1>1, <3>1
      <3>3. QED
        BY <1>1, <3>1, <3>2, ZoomIsGood
    <2>3. CASE view' = view
      BY <1>1, <2>3
    <2>4. QED
      BY <2>1, <2>2, <2>3 DEF Gesture
  <1>3. width' \in Widths
    BY DEF Gesture, InputOK
  <1>4. inputs' \in 0..MaxInputs
    BY LoopFacts DEF Gesture, InputOK
  <1>5. QED
    BY <1>2, <1>3, <1>4 DEF ShownOK, InputOK

LEMMA InputStep == ChartInv /\ Input => ChartInv' /\ view'.series = view.series
  <1> SUFFICES ASSUME ChartInv, Input PROVE ChartInv' /\ view'.series = view.series
    OBVIOUS
  <1>1. /\ UNCHANGED <<dataVars, pending>> /\ frame' = frame /\ pc' = "polled"
        /\ UNCHANGED <<series, seriesRev>> /\ UNCHANGED <<commands, screen>>
        /\ UNCHANGED cacheVars /\ Gesture /\ pc \in {"poll", "polled", "wait"}
    BY DEF Input
  <1>2. ShownOK' /\ InputOK' /\ view'.series = view.series
    BY <1>1, GestureView DEF ChartInv
  <1>3. FrameOK'
    BY <1>1 DEF ChartInv, FrameOK, Pcs
  <1>4. commands' = {}
    BY <1>1 DEF ChartInv, DrawnInv
  <1>5. DrawnInv' /\ OrderInv'
    BY <1>1, <1>4 DEF ChartInv, DrawnInv, OrderInv, dataVars
  <1>6. QED
    BY <1>1, <1>2, <1>3, <1>5, SameData, SameDraw, SameEma DEF ChartInv

(***************************************************************************)
(* The steps of a frame                                                    *)
(***************************************************************************)
(* Steps that only move the thread, and what it has read.                  *)
LEMMA PcStep ==
    ASSUME ChartInv, UNCHANGED <<dataVars, pending, loopVars, commands, screen, inputs, cacheVars>>,
           pc' \in Pcs, frame' \in [seen : 0..MaxRev, got : Series, count : 0..MaxTime],
           commands # {} => pc' = "render",
           pc' = "apply" =>
              /\ series.rev > 0 => frame'.got.times # {} /\ frame'.got.rev >= series.rev
              /\ frame'.got.times # {} => cache.times # {} /\ cache.rev >= frame'.got.rev
    PROVE  ChartInv'
  <1>1. /\ UNCHANGED <<dataVars, pending>> /\ UNCHANGED <<series, seriesRev, view>>
        /\ UNCHANGED <<width, inputs>> /\ UNCHANGED <<commands, screen>> /\ UNCHANGED cacheVars
    BY DEF loopVars
  <1>2. FrameOK'
    BY DEF FrameOK
  <1>3. DrawnInv' /\ OrderInv'
    BY <1>1 DEF ChartInv, DrawnInv, OrderInv, dataVars
  <1>4. QED
    BY <1>1, <1>2, <1>3, SameData, SameShown, SameInput, SameDraw, SameEma DEF ChartInv

LEMMA MoveStep ==
    ChartInv /\ (NoEvent \/ Close \/ ReadVersion \/ TakeSnapshot \/ ReadCount) => ChartInv'
  <1> SUFFICES ASSUME ChartInv, NoEvent \/ Close \/ ReadVersion \/ TakeSnapshot \/ ReadCount
               PROVE  ChartInv'
    OBVIOUS
  <1>1. UNCHANGED <<dataVars, pending, loopVars, commands, screen, inputs, cacheVars>>
    BY DEF NoEvent, Close, ReadVersion, TakeSnapshot, ReadCount
  <1>2. pc # "render" /\ commands = {}
    BY DEF NoEvent, Close, ReadVersion, TakeSnapshot, ReadCount, ChartInv, DrawnInv
  <1>3. frame \in [seen : 0..MaxRev, got : Series, count : 0..MaxTime] /\ cache \in Series
    BY DEF ChartInv, FrameOK, DataOK
  <1>4. CASE NoEvent \/ Close
    BY <1>1, <1>2, <1>3, <1>4, PcStep DEF NoEvent, Close, Pcs
  <1>5. CASE ReadVersion
    <2>1. frame' = [NoFrame EXCEPT !.seen = cache.rev] /\ pc' = "snapshot"
      BY <1>5 DEF ReadVersion
    <2>2. frame' \in [seen : 0..MaxRev, got : Series, count : 0..MaxTime]
      BY <1>3, <2>1, NothingTyped DEF Series
    <2>3. QED
      BY <1>1, <1>2, <2>1, <2>2, PcStep DEF Pcs
  <1>6. CASE TakeSnapshot
    <2>1. frame' = [frame EXCEPT !.got = cache] /\ pc' = "apply"
      BY <1>6 DEF TakeSnapshot
    <2>2. /\ frame' \in [seen : 0..MaxRev, got : Series, count : 0..MaxTime]
          /\ frame'.got = cache
      BY <1>3, <2>1
    <2>3. /\ series.rev > 0 => cache.times # {} /\ cache.rev >= series.rev
          /\ cache.rev >= cache.rev
      BY <1>3 DEF ChartInv, OrderInv, Series
    <2>4. QED
      BY <1>1, <1>2, <2>1, <2>2, <2>3, PcStep DEF Pcs
  <1>7. CASE ReadCount
    <2>1. frame' = [NoFrame EXCEPT !.count = Cardinality(Closed)] /\ pc' = "draw"
      BY <1>7 DEF ReadCount
    <2>2. Cardinality(Closed) \in 0..MaxTime
      <3>1. Closed \in SUBSET Times
        BY DEF ChartInv, DataOK, Closed
      <3>2. QED
        BY <3>1, TimesFacts
    <2>3. frame' \in [seen : 0..MaxRev, got : Series, count : 0..MaxTime]
      BY <2>1, <2>2, NothingTyped
    <2>4. QED
      BY <1>1, <1>2, <2>1, <2>3, PcStep DEF Pcs
  <1>8. QED
    BY <1>4, <1>5, <1>6, <1>7

(* What the frame shows: as setSeries leaves it.                           *)
LEMMA ShowOK ==
    ASSUME ShownOK, NEW shown \in Series, NEW rev \in 0..MaxRev, Show(shown, rev)
    PROVE  /\ ShownOK' /\ series' = shown
           /\ view'.series = SummaryOf(shown.times) /\ Follows
  <1> DEFINE s == SummaryOf(shown.times)
  <1>1. shown.times \in SUBSET Times
    BY DEF Series
  <1>2. Given(s)
    BY <1>1, SummaryGiven
  <1> HIDE DEF s
  <1>3. series' = shown /\ seriesRev' = rev /\ view' = SetSeries(view, s)
    BY DEF Show, s
  <1>4. /\ Good(view') /\ view'.series = s
        /\ view.series.size > 0 /\ s.size > 0 =>
              /\ view.right = view.series.last => view'.right = s.last
              /\ /\ view.right < view.series.last
                 /\ view.right \in MinRight(s, view'.visible)..s.last
                 => view'.right = view.right
    BY <1>2, <1>3, SetSeriesIsGood DEF ShownOK
  <1>5. Follows
    BY <1>4 DEF Follows
  <1>6. QED
    BY <1>3, <1>4, <1>5 DEF ShownOK, s

LEMMA ApplyStep == ChartInv /\ Apply => ChartInv' /\ (Follows \/ view' = view)
  <1> SUFFICES ASSUME ChartInv, Apply PROVE ChartInv' /\ (Follows \/ view' = view)
    OBVIOUS
  <1> DEFINE fetched == frame.got.times # {}
             fresh == fetched /\ (frame.seen # seriesRev \/ pending \/ series.times = {})
             kept == IF ~fetched /\ pending THEN Nothing ELSE series
  <1>1. /\ pc = "apply" /\ pc' = "count" /\ pending' = FALSE
        /\ UNCHANGED dataVars /\ frame' = frame /\ UNCHANGED <<width, inputs>>
        /\ UNCHANGED <<commands, screen>> /\ UNCHANGED cacheVars
    BY DEF Apply
  <1>2. \/ fresh /\ Show(frame.got, frame.seen)
        \/ ~fresh /\ kept.times = {} /\ Show(Fallback, frame.seen)
        \/ ~fresh /\ kept # series /\ Show(Nothing, 0)
        \/ UNCHANGED <<series, seriesRev, view>>
    BY DEF Apply
  <1>3. /\ frame.got \in Series /\ frame.seen \in 0..MaxRev /\ ShownOK
        /\ series \in Series
    BY DEF ChartInv, FrameOK, ShownOK
  <1>4. Fallback \in Series /\ Fallback.rev = 0
    <2>1. repo.times \in SUBSET Times
      BY DEF ChartInv, DataOK
    <2>2. LatestOf(repo.times, FetchLimit) \in SUBSET Times
      BY <2>1, LatestFacts, LoopFacts
    <2>3. QED
      BY <2>2, LoopFacts DEF Fallback, Series
  <1>5. series.rev > 0 => fetched /\ series.times # {} /\ frame.got.rev >= series.rev
    BY <1>1 DEF ChartInv, OrderInv
  <1>6. series.rev = 0 \/ series.rev > 0
    BY <1>3 DEF Series
  <1>7. DataOK' /\ FrameOK' /\ InputOK' /\ DrawOK' /\ EmaOK' /\ commands = {}
    <2>1. DataOK'
      BY <1>1 DEF ChartInv, DataOK, dataVars
    <2>2. FrameOK'
      BY <1>1 DEF ChartInv, FrameOK, Pcs
    <2>3. commands = {}
      BY <1>1 DEF ChartInv, DrawnInv
    <2>4. QED
      BY <1>1, <2>1, <2>2, <2>3, SameInput, SameDraw, SameEma DEF ChartInv
  <1>8. /\ ShownOK' /\ (Follows \/ view' = view)
        /\ series'.rev >= series.rev
        /\ series'.rev > 0 => /\ series'.times # {} /\ cache.times # {}
                              /\ cache.rev >= series'.rev
    <2>1. CASE fresh /\ Show(frame.got, frame.seen)
      <3>1. ShownOK' /\ Follows /\ series' = frame.got
        BY <1>3, <2>1, ShowOK
      <3>2. frame.got.times # {} /\ cache.times # {} /\ cache.rev >= frame.got.rev
        BY <1>1, <2>1 DEF ChartInv, OrderInv
      <3>3. frame.got.rev >= series.rev
        BY <1>3, <1>5, <1>6 DEF Series
      <3>4. QED
        BY <3>1, <3>2, <3>3
    <2>2. CASE kept.times = {} /\ Show(Fallback, frame.seen)
      <3>1. ShownOK' /\ Follows /\ series' = Fallback
        BY <1>3, <1>4, <2>2, ShowOK
      <3>2. series.rev = 0
        BY <1>5, <1>6, <2>2
      <3>3. QED
        BY <1>4, <3>1, <3>2
    <2>3. CASE kept # series /\ Show(Nothing, 0)
      <3>1. ShownOK' /\ Follows /\ series' = Nothing
        BY <2>3, <1>3, ShowOK, NothingTyped, LoopFacts
      <3>2. series.rev = 0
        BY <1>5, <1>6, <2>3
      <3>3. QED
        BY <3>1, <3>2 DEF Nothing
    <2>4. CASE UNCHANGED <<series, seriesRev, view>>
      <3>1. ShownOK' /\ view' = view /\ series' = series
        BY <1>3, <2>4, SameShown
      <3>2. series.rev >= series.rev
        BY <1>3 DEF Series
      <3>3. QED
        BY <3>1, <3>2 DEF ChartInv, OrderInv
    <2>5. QED
      BY <1>2, <2>1, <2>2, <2>3, <2>4
  <1>9. DrawnInv'
    BY <1>1, <1>7 DEF DrawnInv
  <1>10. OrderInv'
    <2>1. /\ screen.rev > 0 => series.rev >= screen.rev
          /\ cache.times # {} => repo.times # {}
      BY DEF ChartInv, OrderInv
    <2>2. screen.rev \in Nat /\ series.rev \in Nat /\ series'.rev \in Nat
      BY <1>8, LoopFacts DEF ChartInv, ShownOK, DrawOK, Series
    <2>3. QED
      BY <1>1, <1>8, <2>1, <2>2 DEF OrderInv, dataVars
  <1>11. QED
    BY <1>7, <1>8, <1>9, <1>10 DEF ChartInv

LEMMA EnqueueStep == ChartInv /\ Enqueue => ChartInv'
  <1> SUFFICES ASSUME ChartInv, Enqueue PROVE ChartInv'
    OBVIOUS
  <1> DEFINE drawn == Visible(series.times, view, width)
             ema == IF AsksForEma THEN Served(series.times, VersionAsked) ELSE NoEma
             snapshot == [drawn |-> drawn, ema |-> ema]
  <1>1. /\ UNCHANGED <<dataVars, pending>> /\ UNCHANGED <<series, seriesRev, view>>
        /\ UNCHANGED <<width, inputs>> /\ screen' = screen
        /\ pc' = "render" /\ frame' = NoFrame /\ commands' = {snapshot}
        /\ GetEma(series.times, VersionAsked, repo.times) \/ UNCHANGED cacheVars
    BY DEF Enqueue, loopVars
  <1>2. series.times \in SUBSET Times /\ repo.times \in SUBSET Times
    BY DEF ChartInv, ShownOK, DataOK, Series
  <1>3. drawn \in SUBSET Times
    BY <1>2 DEF Visible
  <1>4. ema \in Emas
    <2>1. NoEma \in Emas
      BY LoopFacts DEF NoEma, Emas
    <2>2. QED
      BY <2>1 DEF Served, ChartInv, EmaOK
  <1>5. EmaOK'
    BY <1>1, <1>2, GetEmaOK, SameEma DEF ChartInv
  <1>6. snapshot.drawn = drawn
    OBVIOUS
  <1> HIDE DEF drawn, ema
  <1>7. snapshot \in Snapshots
    BY <1>3, <1>4 DEF Snapshots
  <1> HIDE DEF snapshot
  <1>8. DrawOK'
    <2>1. Cardinality({snapshot}) = 1
      BY FS_Singleton
    <2>2. QED
      BY <1>1, <1>7, <2>1 DEF ChartInv, DrawOK
  <1>9. FrameOK'
    BY <1>1, NothingTyped DEF FrameOK, Pcs
  <1>10. DrawnInv'
    BY <1>1, <1>6 DEF DrawnInv, drawn
  <1>11. OrderInv'
    BY <1>1 DEF ChartInv, OrderInv, dataVars
  <1>12. QED
    BY <1>1, <1>5, <1>8, <1>9, <1>10, <1>11, SameData, SameShown, SameInput DEF ChartInv

LEMMA RenderStep ==
    ChartInv /\ Render => ChartInv' /\ (screen.rev > 0 => screen'.rev >= screen.rev)
  <1> SUFFICES ASSUME ChartInv, Render
               PROVE  ChartInv' /\ (screen.rev > 0 => screen'.rev >= screen.rev)
    OBVIOUS
  <1>1. /\ UNCHANGED <<dataVars, pending>> /\ UNCHANGED <<series, seriesRev, view>>
        /\ UNCHANGED <<width, inputs>> /\ UNCHANGED cacheVars
        /\ pc' = "poll" /\ frame' = frame /\ commands' = {}
    BY DEF Render, loopVars
  <1>2. PICK snapshot \in commands :
          screen' = [last |-> SummaryOf(series.times).last, rev |-> series.rev,
                     ema |-> snapshot.ema # NoEma]
    BY DEF Render
  <1> DEFINE last == SummaryOf(series.times).last
             lit == snapshot.ema # NoEma
  <1>3. last \in 0..MaxTime /\ series.rev \in 0..MaxRev /\ lit \in BOOLEAN
    <2>1. series.times \in SUBSET Times /\ series.rev \in 0..MaxRev
      BY DEF ChartInv, ShownOK, Series
    <2>2. QED
      BY <2>1, SummaryGiven
  <1>4. screen' = [last |-> last, rev |-> series.rev, ema |-> lit]
    BY <1>2
  <1> HIDE DEF last, lit
  <1>5. screen' \in [last : 0..MaxTime, rev : 0..MaxRev, ema : BOOLEAN] /\ screen'.rev = series.rev
    BY <1>3, <1>4
  <1>6. DrawOK'
    BY <1>1, <1>5, FS_EmptySet DEF DrawOK
  <1>7. FrameOK'
    BY <1>1 DEF ChartInv, FrameOK, Pcs
  <1>8. DrawnInv'
    BY <1>1 DEF DrawnInv
  <1>9. OrderInv'
    <2>1. series.rev >= series.rev
      BY <1>3
    <2>2. QED
      BY <1>1, <1>5, <2>1 DEF ChartInv, OrderInv, dataVars
  <1>10. screen.rev > 0 => screen'.rev >= screen.rev
    BY <1>5 DEF ChartInv, OrderInv
  <1>11. QED
    BY <1>1, <1>6, <1>7, <1>8, <1>9, <1>10, SameData, SameShown, SameInput, SameEma DEF ChartInv

LEMMA FinishEmaStep == ChartInv /\ FinishEma => ChartInv'
  <1> SUFFICES ASSUME ChartInv, FinishEma PROVE ChartInv'
    OBVIOUS
  <1>1. /\ UNCHANGED <<dataVars, pending>> /\ UNCHANGED <<pc, frame>>
        /\ UNCHANGED <<series, seriesRev, view>> /\ UNCHANGED <<width, inputs>>
        /\ UNCHANGED <<commands, screen>> /\ Compute
    BY DEF FinishEma, loopVars
  <1>2. EmaOK'
    BY <1>1, FinishOK DEF ChartInv
  <1>3. DrawnInv' /\ OrderInv'
    BY <1>1 DEF ChartInv, DrawnInv, OrderInv, dataVars
  <1>4. QED
    BY <1>1, <1>2, <1>3, SameData, SameFrame, SameShown, SameInput, SameDraw DEF ChartInv

(***************************************************************************)
(* The window                                                              *)
(***************************************************************************)
(* Between the ends of a series without a hole, counting candles is        *)
(* reckoning with open times.                                              *)
LEMMA CountsAreTimes ==
    ASSUME NEW T \in SUBSET Times, T # {}, Contiguous(T)
    PROVE  /\ T = Min(T)..Max(T) /\ Min(T) \in Nat /\ Max(T) \in Nat /\ Min(T) <= Max(T)
           /\ Cardinality(T) = Max(T) - Min(T) + 1
           /\ \A x \in T : /\ Cardinality({t \in T : t <= x}) = x - Min(T) + 1
                           /\ Cardinality({t \in T : t < x}) = x - Min(T)
  <1> DEFINE a == Min(T)
             b == Max(T)
  <1>1. /\ a \in T /\ b \in T /\ \A t \in T : a <= t /\ t <= b
        /\ T \subseteq Int /\ Cardinality(T) = b - a + 1
    BY TimesFacts DEF Contiguous
  <1>2. a \in Nat /\ b \in Nat /\ a <= b
    <2>1. a \in Times /\ b \in Times
      BY <1>1
    <2>2. QED
      BY <1>1, <2>1, LoopFacts DEF Times
  <1> HIDE DEF a, b
  <1>3. T = a..b
    <2>1. T \in SUBSET (a..b)
      BY <1>1
    <2>2. IsFiniteSet(a..b) /\ Cardinality(a..b) = b - a + 1
      BY <1>2, FS_Interval
    <2>3. Cardinality(a..b) = Cardinality(T)
      BY <1>1, <2>2
    <2>4. QED
      BY <2>1, <2>2, <2>3, FS_Subset
  <1>4. ASSUME NEW x \in T
        PROVE  /\ Cardinality({t \in T : t <= x}) = x - a + 1
               /\ Cardinality({t \in T : t < x}) = x - a
    <2>1. x \in Int /\ a <= x /\ x <= b
      BY <1>1
    <2>2. {t \in T : t <= x} = a..x /\ {t \in T : t < x} = a..(x - 1)
      BY <1>2, <1>3, <2>1
    <2>3. Cardinality(a..x) = x - a + 1
      BY <1>2, <2>1, FS_Interval
    <2>4. Cardinality(a..(x - 1)) = x - a
      <3>1. x - 1 \in Int /\ a \in Int
        BY <1>2, <2>1
      <3>2. Cardinality(a..(x - 1)) = IF a > x - 1 THEN 0 ELSE (x - 1) - a + 1
        BY <3>1, FS_Interval
      <3>3. QED
        BY <2>1, <3>1, <3>2
    <2>5. QED
      BY <2>2, <2>3, <2>4
  <1>5. QED
    BY <1>1, <1>2, <1>3, <1>4 DEF a, b

(* The controller's open times and the builder's indices mean the same     *)
(* candles.                                                                *)
LEMMA WindowIsView ==
    ASSUME NEW T \in SUBSET Times, T # {}, Contiguous(T), NEW v, Good(v),
           v.series = SummaryOf(T), NEW cap \in Nat, v.visible <= cap
    PROVE  Visible(T, v, cap) = LeftEdge(v)..v.right
  <1> DEFINE a == Min(T)
             b == Max(T)
             n == v.visible
             total == Cardinality(T)
             upTo == Cardinality({t \in T : t <= v.right})
             rightIndex == IF upTo = 0 THEN 0 ELSE upTo - 1
             desired == Least(Most(v.visible, MinDrawn), total)
             first == Most(rightIndex + 1 - desired, 0)
             count == Least(Least(Clamp(desired, MinBars, MaxBars), cap), total)
             start == IF rightIndex = total - 1 THEN total - count
                      ELSE Least(first, total - count)
  <1>1. /\ T = a..b /\ a \in Nat /\ b \in Nat /\ a <= b /\ total = b - a + 1
        /\ \A x \in T : /\ Cardinality({t \in T : t <= x}) = x - a + 1
                        /\ Cardinality({t \in T : t < x}) = x - a
    BY CountsAreTimes
  <1>2. v.series.first = a /\ v.series.last = b /\ v.series.size = total
    BY DEF SummaryOf
  <1> HIDE DEF a, b, total
  <1>3. n \in Nat /\ n >= 1 /\ v.right \in Int /\ total \in Nat /\ total >= 1
    BY <1>1 DEF Good, View
  <1>4. /\ n >= Least(MinBars, total) /\ n <= Least(MaxBars, total)
        /\ v.right <= b /\ v.right - (n - 1) >= a
    BY <1>2, <1>3 DEF Good, InSeries, FewestVisible, MostVisible, LeftEdge
  <1>5. v.right \in T
    BY <1>1, <1>3, <1>4
  <1>6. upTo = v.right - a + 1
    BY <1>1, <1>5
  <1> HIDE DEF upTo
  <1>7. rightIndex = v.right - a
    BY <1>1, <1>3, <1>4, <1>6
  <1> HIDE DEF rightIndex
  <1>8. desired = n
    <2>1. n <= total /\ (n >= MinBars \/ n >= total)
      BY <1>3, <1>4, BarsFacts DEF Least
    <2>2. QED
      BY <1>3, <2>1, BarsFacts, LoopFacts DEF Least, Most
  <1> HIDE DEF desired
  <1>9. count = n
    <2>1. n <= total /\ n <= MaxBars /\ (n >= MinBars \/ n = total)
      BY <1>3, <1>4, BarsFacts DEF Least
    <2>2. QED
      BY <1>3, <1>8, <2>1, BarsFacts DEF Least, Clamp
  <1> HIDE DEF count
  <1>10. start = v.right - a - n + 1
    <2>1. first = v.right - a + 1 - n
      BY <1>1, <1>3, <1>4, <1>7, <1>8 DEF Most
    <2> HIDE DEF first
    <2>2. total - count = b - a + 1 - n
      BY <1>1, <1>3, <1>9
    <2>3. CASE rightIndex = total - 1
      <3>1. v.right = b
        BY <1>1, <1>3, <1>7, <2>3
      <3>2. QED
        BY <2>2, <2>3, <3>1, <1>1, <1>3
    <2>4. CASE rightIndex # total - 1
      <3>1. /\ a \in Int /\ b \in Int /\ v.right \in Int /\ n \in Int /\ v.right <= b
            /\ first = v.right - a + 1 - n /\ total - count = b - a + 1 - n
        BY <1>1, <1>3, <1>4, <2>1, <2>2
      <3>2. v.right - a + 1 - n <= b - a + 1 - n
        BY <3>1
      <3>3. Least(first, total - count) = first
        BY <3>1, <3>2 DEF Least
      <3>4. v.right - a + 1 - n = v.right - a - n + 1
        BY <3>1
      <3>5. QED
        BY <2>4, <3>1, <3>3, <3>4
    <2>5. QED
      BY <2>3, <2>4
  <1> HIDE DEF start
  <1>11. Window(T, v, cap) = [start |-> start, count |-> count]
    BY DEF Window, start, count, first, desired, rightIndex, upTo, total
  <1>12. Visible(T, v, cap) =
           {t \in T : /\ Cardinality({u \in T : u < t}) >= start
                      /\ Cardinality({u \in T : u < t}) < start + count}
    BY <1>11 DEF Visible
  <1>13. \A t \in T : Cardinality({u \in T : u < t}) = t - a
    BY <1>1
  <1>14. Visible(T, v, cap) = {t \in T : t - a >= start /\ t - a < start + count}
    BY <1>12, <1>13
  <1>15. QED
    <2>1. ASSUME NEW t
          PROVE  t \in Visible(T, v, cap) <=> t \in LeftEdge(v)..v.right
      <3>1. t \in Visible(T, v, cap) <=>
                t \in a..b /\ t - a >= v.right - a - n + 1 /\ t - a < v.right - a - n + 1 + n
        BY <1>1, <1>9, <1>10, <1>14
      <3>2. t \in LeftEdge(v)..v.right <=> t \in Int /\ v.right - (n - 1) <= t /\ t <= v.right
        BY <1>3 DEF LeftEdge
      <3>3. /\ a \in Int /\ b \in Int /\ v.right \in Int /\ n \in Int
            /\ v.right <= b /\ v.right - (n - 1) >= a
        BY <1>1, <1>3, <1>4
      <3>4. ASSUME t \in Int
            PROVE  /\ t - a >= v.right - a - n + 1 <=> v.right - (n - 1) <= t
                   /\ t - a < v.right - a - n + 1 + n <=> t <= v.right
        BY <3>3, <3>4
      <3>5. t \in a..b <=> t \in Int /\ a <= t /\ t <= b
        BY <3>3
      <3>6. ASSUME t \in Int, v.right - (n - 1) <= t, t <= v.right
            PROVE  a <= t /\ t <= b
        BY <3>3, <3>6
      <3>7. QED
        BY <3>1, <3>2, <3>4, <3>5, <3>6
    <2>2. QED
      BY <2>1

(***************************************************************************)
(* Theorems                                                                *)
(***************************************************************************)
LEMMA ChartInvStep ==
    ChartInv /\ [Next]_vars => /\ ChartInv'
                               /\ Follows \/ view' = view
                               /\ NotOlder \/ screen' = screen
  <1> SUFFICES ASSUME ChartInv, [Next]_vars
               PROVE  /\ ChartInv'
                      /\ Follows \/ view' = view
                      /\ NotOlder \/ screen' = screen
    OBVIOUS
  <1>1. CASE Append \/ UpdateCache \/ Notify
    <2>1. ChartInv'
      BY <1>1, AppendStep, UpdateCacheStep, NotifyStep
    <2>2. view' = view /\ screen' = screen
      BY <1>1 DEF Append, UpdateCache, Notify, loopVars
    <2>3. QED
      BY <2>1, <2>2
  <1>2. CASE Input
    <2>1. ChartInv' /\ view'.series = view.series
      BY <1>2, InputStep
    <2>2. screen' = screen /\ Follows
      BY <1>2, <2>1 DEF Input, Follows
    <2>3. QED
      BY <2>1, <2>2
  <1>3. CASE NoEvent \/ Close \/ ReadVersion \/ TakeSnapshot \/ ReadCount
    <2>1. ChartInv'
      BY <1>3, MoveStep
    <2>2. view' = view /\ screen' = screen
      BY <1>3 DEF NoEvent, Close, ReadVersion, TakeSnapshot, ReadCount, loopVars
    <2>3. QED
      BY <2>1, <2>2
  <1>4. CASE Apply
    <2>1. ChartInv' /\ (Follows \/ view' = view)
      BY <1>4, ApplyStep
    <2>2. screen' = screen
      BY <1>4 DEF Apply
    <2>3. QED
      BY <2>1, <2>2
  <1>5. CASE Enqueue \/ FinishEma
    <2>1. ChartInv'
      BY <1>5, EnqueueStep, FinishEmaStep
    <2>2. view' = view /\ screen' = screen
      BY <1>5 DEF Enqueue, FinishEma, loopVars
    <2>3. QED
      BY <2>1, <2>2
  <1>6. CASE Render
    <2>1. ChartInv' /\ NotOlder
      BY <1>6, RenderStep DEF NotOlder
    <2>2. view' = view
      BY <1>6 DEF Render, loopVars
    <2>3. QED
      BY <2>1, <2>2
  <1>7. CASE UNCHANGED vars
    BY <1>7, SameAll DEF vars, loopVars
  <1>8. QED
    BY <1>1, <1>2, <1>3, <1>4, <1>5, <1>6, <1>7 DEF Next, UiStep

LEMMA ChartInvAlways == Spec => []ChartInv
  BY ChartInvInit, ChartInvStep, PTL DEF Spec

(* Type correctness of the loop, for every limit, canvas and bound.        *)
THEOREM ChartTypes == Spec => []TypeOK
  <1>1. ChartInv => TypeOK
    BY DEF ChartInv, DataOK, FrameOK, ShownOK, InputOK, DrawOK, EmaOK, TypeOK, Pcs, Good,
           Fitting
  <1>2. QED
    BY <1>1, ChartInvAlways, PTL

(* The controller's view lies within the series the frame draws from.      *)
THEOREM ViewStaysInSeries == Spec => []ViewInSeries
  <1>1. ChartInv => ViewInSeries
    BY DEF ChartInv, ShownOK, Good, ViewInSeries
  <1>2. QED
    BY <1>1, ChartInvAlways, PTL

(* The frame draws the candles the controller's view names.                *)
THEOREM FrameDrawsTheView == Spec => []DrawnIsTheView
  <1>1. ChartInv => DrawnIsTheView
    <2> SUFFICES ASSUME ChartInv, NEW snapshot \in commands,
                        series.times # {}, Contiguous(series.times), view.visible <= width
                 PROVE  snapshot.drawn = LeftEdge(view)..view.right
      BY DEF DrawnIsTheView
    <2>1. snapshot.drawn = Visible(series.times, view, width)
      BY DEF ChartInv, DrawnInv
    <2>2. /\ series.times \in SUBSET Times /\ Good(view)
          /\ view.series = SummaryOf(series.times) /\ width \in Nat
      BY LoopFacts DEF ChartInv, ShownOK, InputOK, Series
    <2>3. QED
      BY <2>1, <2>2, WindowIsView
  <1>2. QED
    BY <1>1, ChartInvAlways, PTL

(* A chart at its newest candle follows new ones; one panned away stays.   *)
THEOREM ChartFollows == Spec => FollowsOrStays
  <1>1. ChartInv /\ [Next]_vars => [Follows]_view
    BY ChartInvStep
  <1>2. QED
    BY <1>1, ChartInvAlways, PTL DEF Spec, FollowsOrStays

(* No frame draws an older publication than one before it.                 *)
THEOREM NeverDrawsOlder == Spec => DrawnNeverGoesBack
  <1>1. ChartInv /\ [Next]_vars => [NotOlder]_screen
    BY ChartInvStep
  <1>2. QED
    BY <1>1, ChartInvAlways, PTL DEF Spec, DrawnNeverGoesBack
=============================================================================
