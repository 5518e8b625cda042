------------------------------ MODULE RenderLoop ------------------------------
(***************************************************************************)
(* app::Application with the chart controller, the snapshot builder, the   *)
(* render manager and the indicator coordinator it drives.  The UI thread  *)
(* runs the loop: input, then one frame, read by read, since the live      *)
(* thread appends candles to the repository and publishes snapshots of it  *)
(* in between, and EMA threads finish when they like.                      *)
(*                                                                         *)
(* A series is the set of its open times; rev numbers the publications (a  *)
(* version of the cache), 0 standing for a series read straight from the   *)
(* repository.  The code keeps no rev with a series: here it records what  *)
(* a frame has really shown.  backfilling_ stays set for as long as the    *)
(* orchestrator runs, so what the chart asks it for is never answered.     *)
(***************************************************************************)
EXTENDS ChartView, IndicatorCache

CONSTANTS PublishCandles,  \* SyncConfig::publishCandles
          FetchLimit,      \* kMaxFetchCandles
          MinDrawn,        \* kMinVisibleCandlesClamp
          Widths,          \* candles a canvas has room for: width / kMinPxPerCandle
          Stored,          \* what the repository may hold at the start
          FirstTime,       \* the first live candle of an empty repository
          MaxTime,         \* bound: last open time
          MaxRev,          \* bound: publications
          MaxPan,          \* bound: candles one gesture pans by
          MaxJobs,         \* bound: EMA threads still computing when a candle comes
          MaxInputs        \* bound: gestures that change the view

ASSUME LoopAssumption ==
    /\ {PublishCandles, FetchLimit, MinDrawn, FirstTime, MaxTime} \subseteq Nat \ {0}
    /\ {MaxRev, MaxPan, MaxJobs, MaxInputs} \subseteq Nat
    /\ MinDrawn <= MinBars /\ FirstTime <= MaxTime
    /\ Widths \subseteq Nat \ {0} /\ IsFiniteSet(Widths) /\ Widths # {}
    /\ Stored \subseteq SUBSET (1..MaxTime)

VARIABLES repo,            \* candles of the repository; open: the last one may still change
          cache,           \* SeriesCache: the series published last
          publisher,       \* "idle", or "notify" between cache and event bus
          pending,         \* pendingSeriesUpdate_
          pc,              \* where the UI thread is
          frame,           \* locals of enqueueCandleRender
          view,            \* ChartController
          series,          \* lastSeries_
          seriesRev,       \* lastSeriesVersion_
          width,           \* of the window, in candles
          commands,        \* RenderManager::commands: {} or the one snapshot they draw
          screen,          \* what was drawn last: its last open time, rev, and whether an EMA
          inputs

dataVars == <<repo, cache, publisher>>
loopVars == <<view, series, seriesRev, width>>
vars == <<dataVars, pending, pc, frame, loopVars, commands, screen, inputs, cacheVars>>

Nothing == [times |-> {}, rev |-> 0]
NoFrame == [seen |-> 0, got |-> Nothing, count |-> 0]
NoScreen == [last |-> 0, rev |-> 0, ema |-> FALSE]

SummaryOf(times) ==
    IF times = {} THEN NoSeries
    ELSE [first |-> Min(times), last |-> Max(times), size |-> Cardinality(times)]

(* metadata() counts the closed candles; lastClosedOpenTime().             *)
Closed == repo.times \ (IF repo.open THEN {Max(repo.times)} ELSE {})
LastClosed == Max({0} \union Closed)

Init ==
    /\ repo \in {[times |-> times, open |-> FALSE] : times \in Stored}
    /\ cache = Nothing /\ publisher = "idle" /\ pending = FALSE
    /\ pc = "poll" /\ frame = NoFrame
    /\ view = InitView /\ series = Nothing /\ seriesRev = 0
    /\ width = Max(Widths)
    /\ commands = {} /\ screen = NoScreen /\ inputs = 0
    /\ CacheInit

(***************************************************************************)
(* The live thread                                                         *)
(***************************************************************************)
(* A candle is appended, or the open one changes, or closes.               *)
Append ==
    /\ pc # "stopped" /\ publisher = "idle" /\ Cardinality(jobs) < MaxJobs
    /\ \E open \in BOOLEAN :
          \/ /\ repo.open /\ ~open
             /\ repo' = [repo EXCEPT !.open = open]
          \/ /\ repo.times # {} /\ Max(repo.times) < MaxTime
             /\ repo' = [times |-> repo.times \union {Max(repo.times) + 1}, open |-> open]
          \/ /\ repo.times = {}
             /\ repo' = [times |-> {FirstTime}, open |-> open]
    /\ UNCHANGED <<cache, publisher, pending, pc, frame, loopVars, commands, screen, inputs,
                   cacheVars>>

(* publishSnapshot up to cache_->update: no one else changes the           *)
(* repository between the two.                                             *)
UpdateCache ==
    /\ pc # "stopped" /\ publisher = "idle" /\ cache.rev < MaxRev
    /\ cache' = [times |-> LatestOf(repo.times, PublishCandles), rev |-> cache.rev + 1]
    /\ publisher' = "notify"
    /\ UNCHANGED <<repo, pending, pc, frame, loopVars, commands, screen, inputs, cacheVars>>

(* publishSeriesUpdated, and the subscription of the Application.          *)
Notify ==
    /\ pc # "stopped" /\ publisher = "notify" /\ publisher' = "idle"
    /\ pending' = TRUE
    /\ UNCHANGED <<repo, cache, pc, frame, loopVars, commands, screen, inputs, cacheVars>>
(***************************************************************************)
(* The UI thread: input                                                    *)
(***************************************************************************)
hasCommands == commands # {}

(* A drag or an arrow key, the wheel or a zoom key, a resize; anything     *)
(* else (the mouse moving over the window) changes nothing here.           *)
Gesture ==
    \/ /\ inputs < MaxInputs /\ inputs' = inputs + 1 /\ width' = width
       /\ \E candles \in -MaxPan..MaxPan \ {0} : view' = PanBy(view, candles)
    \/ /\ inputs < MaxInputs /\ inputs' = inputs + 1 /\ width' = width
       /\ \E bars \in MinBars..MaxBars, offset \in 0..view.visible :
             view' = Zoom(view, bars, offset)
    \/ inputs < MaxInputs /\ inputs' = inputs + 1 /\ width' \in Widths \ {width} /\ view' = view
    \/ UNCHANGED <<inputs, width, view>>

(* pollEvent or waitEvent returns an event, which the event bus delivers.  *)
Input ==
    /\ pc \in {"poll", "polled", "wait"}
    /\ pc' = "polled"
    /\ Gesture
    /\ UNCHANGED <<dataVars, pending, frame, series, seriesRev, commands, screen, cacheVars>>

(* No event at the top of the loop: wait for one unless commands are left. *)
NoEvent ==
    /\ pc = "poll"
    /\ pc' = IF hasCommands THEN "polled" ELSE "wait"
    /\ UNCHANGED <<dataVars, pending, frame, loopVars, commands, screen, inputs, cacheVars>>

(* The window is closed: one last frame without it, and the loop ends.     *)
Close ==
    /\ pc \in {"poll", "polled", "wait"} /\ pc' = "stopped"
    /\ UNCHANGED <<dataVars, pending, frame, loopVars, commands, screen, inputs, cacheVars>>

(***************************************************************************)
(* The UI thread: enqueueCandleRender                                      *)
(***************************************************************************)
(* Mutant: the snapshot is taken before the version is read.               *)
ReadVersionLate ==
    /\ pc = "polled" /\ pc' = "snapshot"
    /\ frame' = [NoFrame EXCEPT !.got = cache]
    /\ UNCHANGED <<dataVars, pending, loopVars, commands, screen, inputs, cacheVars>>

(* seriesCache_->version(), before ...                                     *)
ReadVersion ==
    /\ pc = "polled" /\ pc' = "snapshot"
    /\ frame' = [NoFrame EXCEPT !.seen = cache.rev]
    /\ UNCHANGED <<dataVars, pending, loopVars, commands, screen, inputs, cacheVars>>

(* ... seriesCache_->snapshot()                                            *)
TakeSnapshot ==
    /\ pc = "snapshot" /\ pc' = "apply"
    /\ frame' = [frame EXCEPT !.got = cache]
    /\ UNCHANGED <<dataVars, pending, loopVars, commands, screen, inputs, cacheVars>>

Show(shown, rev) ==
    /\ series' = shown /\ seriesRev' = rev
    /\ view' = SetSeries(view, SummaryOf(shown.times))

Fallback == [times |-> LatestOf(repo.times, FetchLimit), rev |-> 0]

(* Mutant: the repository is consulted whenever no event is pending.       *)
ApplyRepository ==
    /\ pc = "apply" /\ pc' = "count" /\ pending' = FALSE
    /\ IF frame.got.times # {} /\ pending THEN Show(frame.got, frame.seen)
       ELSE Show(Fallback, frame.seen)
    /\ UNCHANGED <<dataVars, frame, width, commands, screen, inputs, cacheVars>>

(* The event flag is taken, and the series shown is replaced if the cache  *)
(* has a new one; without any, the repository is shown.                    *)
Apply ==
    LET fetched == frame.got.times # {}
        fresh == fetched /\ (frame.seen # seriesRev \/ pending \/ series.times = {})
        kept == IF ~fetched /\ pending THEN Nothing ELSE series
    IN  /\ pc = "apply" /\ pc' = "count" /\ pending' = FALSE
        /\ IF fresh THEN Show(frame.got, frame.seen)
           ELSE IF kept.times = {} /\ repo.times # {} THEN Show(Fallback, frame.seen)
           ELSE IF kept # series THEN Show(Nothing, 0)
           ELSE UNCHANGED <<series, seriesRev, view>>
        /\ UNCHANGED <<dataVars, frame, width, commands, screen, inputs, cacheVars>>

(* metadata(): the count of closed candles, before ...                     *)
ReadCount ==
    /\ pc = "count" /\ pc' = "draw"
    /\ frame' = [NoFrame EXCEPT !.count = Cardinality(Closed)]
    /\ UNCHANGED <<dataVars, pending, loopVars, commands, screen, inputs, cacheVars>>

(* Mutant: lower_bound for upper_bound.                                    *)
WindowLower(times, v, cap) ==
    LET total == Cardinality(times)
        upTo == Cardinality({t \in times : t < v.right})
        rightIndex == IF upTo = 0 THEN 0 ELSE upTo - 1
        desired == Least(Most(v.visible, MinDrawn), total)
        first == Most(rightIndex + 1 - desired, 0)
        count == Least(Least(Clamp(desired, MinBars, MaxBars), cap), total)
    IN  [start |-> IF rightIndex = total - 1 THEN total - count ELSE Least(first, total - count),
         count |-> count]

(* RenderSnapshotBuilder: the visible time range as indices of the series, *)
(* then cut to what the canvas has room for.                               *)
Window(times, v, cap) ==
    LET total == Cardinality(times)
        upTo == Cardinality({t \in times : t <= v.right})
        rightIndex == IF upTo = 0 THEN 0 ELSE upTo - 1
        desired == Least(Most(v.visible, MinDrawn), total)
        first == Most(rightIndex + 1 - desired, 0)
        count == Least(Least(Clamp(desired, MinBars, MaxBars), cap), total)
    IN  [start |-> IF rightIndex = total - 1 THEN total - count ELSE Least(first, total - count),
         count |-> count]

Visible(times, v, cap) ==
    LET window == Window(times, v, cap)
        index(t) == Cardinality({u \in times : u < t})
    IN  {t \in times : index(t) >= window.start /\ index(t) < window.start + window.count}

(* mergeIndicators: the version the EMA of the series is asked for under,  *)
(* whatever candles the series has; an empty repository is not asked for.  *)
AsksForEma == frame.count > 0
VersionAsked == <<LastClosed, frame.count>>

(* ... lastClosedOpenTime(), the snapshot with its indicator, and the      *)
(* commands that will draw it.                                             *)
Enqueue ==
    /\ pc = "draw" /\ pc' = "render"
    /\ frame' = NoFrame
    /\ commands' = {[drawn |-> Visible(series.times, view, width),
                     ema   |-> IF AsksForEma THEN Served(series.times, VersionAsked) ELSE NoEma]}
    /\ IF AsksForEma THEN GetEma(series.times, VersionAsked, repo.times) ELSE UNCHANGED cacheVars
    /\ UNCHANGED <<dataVars, pending, loopVars, screen, inputs>>

(* render and display: the commands are drawn and forgotten.               *)
Render ==
    /\ pc = "render" /\ pc' = "poll"
    /\ \E snapshot \in commands :
          screen' = [last |-> SummaryOf(series.times).last, rev |-> series.rev,
                     ema |-> snapshot.ema # NoEma]
    /\ commands' = {}
    /\ UNCHANGED <<dataVars, pending, frame, loopVars, inputs, cacheVars>>

FinishEma ==
    /\ pc # "stopped" /\ Compute
    /\ UNCHANGED <<dataVars, pending, pc, frame, loopVars, commands, screen, inputs>>

UiStep == NoEvent \/ ReadVersion \/ TakeSnapshot \/ Apply \/ ReadCount \/ Enqueue \/ Render

Next ==
    \/ Append \/ UpdateCache \/ Notify
    \/ Input \/ Close \/ UiStep
    \/ FinishEma

Spec == Init /\ [][Next]_vars

(* The system runs every runnable thread.  Nothing is promised about the   *)
(* user or the market.                                                     *)
Fairness == WF_vars(UiStep) /\ WF_vars(Notify) /\ WF_vars(FinishEma)

FairSpec == Spec /\ Fairness
-----------------------------------------------------------------------------
(***************************************************************************)
(* Properties                                                              *)
(***************************************************************************)
Times == 1..MaxTime
Series == [times : SUBSET Times, rev : 0..MaxRev]
Emas == [of : SUBSET Times, from : 0..MaxTime]
Snapshots == [drawn : SUBSET Times, ema : Emas]

(* Every variable stays in its type.                                       *)
TypeOK ==
    /\ repo \in [times : SUBSET Times, open : BOOLEAN]
    /\ cache \in Series /\ publisher \in {"idle", "notify"} /\ pending \in BOOLEAN
    /\ pc \in {"poll", "polled", "wait", "snapshot", "apply", "count", "draw",
               "render", "stopped"}
    /\ frame \in [seen : 0..MaxRev, got : Series, count : 0..MaxTime]
    /\ view \in View /\ view.visible <= Most(MaxBars, DefaultVisible)
    /\ series \in Series /\ seriesRev \in 0..MaxRev /\ width \in Widths
    /\ commands \subseteq Snapshots /\ Cardinality(commands) <= 1
    /\ screen \in [last : 0..MaxTime, rev : 0..MaxRev, ema : BOOLEAN]
    /\ inputs \in 0..MaxInputs
    /\ slot.ema \in Emas /\ \A j \in jobs : j.ema \in Emas /\ j.n \in Nat

(* After any sequence of pans, zooms, resizes and new or replaced series   *)
(* the controller's view lies within the series it was given last, which   *)
(* is the one the frame draws from.                                        *)
ViewInSeries == view.series = SummaryOf(series.times) /\ InSeries(view)

(* The frame draws what the view says: the controller reckons in open      *)
(* times and the builder in indices, and for a series without a hole, on a *)
(* canvas with room for it, they mean the same candles.                    *)
Contiguous(times) == times # {} => Cardinality(times) = Max(times) - Min(times) + 1

DrawnIsTheView ==
    \A snapshot \in commands :
        series.times # {} /\ Contiguous(series.times) /\ view.visible <= width =>
            snapshot.drawn = LeftEdge(view)..view.right

(* A chart at its newest candle stays there when candles come in, and a    *)
(* chart that was panned away is not moved, as long as the candles it      *)
(* shows are still in the series.                                          *)
Follows ==
    LET old == view.series
        new == view'.series
    IN  old # new /\ old.size > 0 /\ new.size > 0 =>
            /\ view.right = old.last => view'.right = new.last
            /\ /\ view.right < old.last
               /\ view.right \in MinRight(new, view'.visible)..new.last
               => view'.right = view.right

FollowsOrStays == [][Follows]_view

(* Once a publication has been drawn, no later frame draws an older one,   *)
(* or goes back to what the repository holds: of the three sources of a    *)
(* frame (the cache, the series kept, the repository) none takes over out  *)
(* of turn.                                                                *)
NotOlder == screen.rev > 0 => screen'.rev >= screen.rev
DrawnNeverGoesBack == [][NotOlder]_screen

(* If the user keeps the loop going, the chart catches up with what is     *)
(* published: no interleaving of the publisher's steps with the reads of a *)
(* frame leaves it with an older series for good.                          *)
KeepsMoving == []<><<Input>>_vars

CaughtUp == cache.times = {} \/ screen.rev = cache.rev \/ pc = "stopped"

CatchesUpOnInput == KeepsMoving => []<>CaughtUp

(* If the chart started with a series long enough for an EMA, and the user *)
(* keeps the loop going, the chart ends up with its EMA once no more       *)
(* candles come, whatever computations were under way, in whatever order   *)
(* they finished.                                                          *)
EmaSettles ==
    Cardinality(repo.times) >= Period /\ KeepsMoving =>
        <>[](screen.ema \/ pc = "stopped")

(* What the README says of the terminal, that it renders streaming market  *)
(* data: the chart catches up with what is published.                      *)
StreamIsDrawn == []<>CaughtUp
=============================================================================
