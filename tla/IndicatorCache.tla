---------------------------- MODULE IndicatorCache ----------------------------
(***************************************************************************)
(* indicators::IndicatorCoordinator for the one EMA the chart asks for:    *)
(* one cache slot under mtx_, and detached threads that each compute the   *)
(* EMA of the candles they were given and store it when they are done, in  *)
(* any order.  A series is the set of its open times.  An EMA is [of,      *)
(* from]: the series it belongs to, value by value, and the open time its  *)
(* values begin at.  The chart always allows the asynchronous path; the    *)
(* synchronous branch of getEMA has no caller, nor has invalidate.         *)
(***************************************************************************)
EXTENDS Integers, FiniteSets, FiniteSetsExt

CONSTANTS Period         \* EmaParams::period

ASSUME PeriodAssumption == Period \in Nat \ {0}

VARIABLES slot,          \* the cache entry: series, version, pendingVersion
          jobs           \* the detached threads that are still computing

cacheVars == <<slot, jobs>>

NoEma == [of |-> {}, from |-> 0]
NoVersion == <<>>

(* getLatest and getRange of the repository; a range is empty unless it    *)
(* ends after it starts.                                                   *)
LatestOf(times, n) == {t \in times : Cardinality({u \in times : u > t}) < n}
RangeOf(times, start, end) == {t \in times : start < end /\ start <= t /\ t <= end}

(* prepareSeriesWithWarmup: the candles just before the series that the    *)
(* repository can add, at most Period - 1 intervals of them; a range of    *)
(* one candle is empty.                                                    *)
WarmupOf(times, stored) ==
    LET first == Min(times)
        start == Max({Min(stored), first - (Period - 1)})
    IN  IF stored = {} THEN {} ELSE RangeOf(stored, start, first - 1)

(* computeEMA of the combined candles, then trimWarmup: the first value is *)
(* that of the Period-th candle.                                           *)
EmaOf(times, stored) ==
    LET input == times \union WarmupOf(times, stored)
        seeds == {t \in input : Cardinality({u \in input : u < t}) < Period}
    IN  [of |-> times, from |-> Max(seeds)]

CacheInit ==
    /\ slot = [ema |-> NoEma, version |-> NoVersion, pending |-> NoVersion]
    /\ jobs = {}

(* getEMA, under mtx_: an EMA of this version and size, or nothing.        *)
Hit(times, version) ==
    /\ slot.version = version
    /\ slot.ema.of # {} /\ Cardinality(slot.ema.of) = Cardinality(times)

Served(times, version) == IF Hit(times, version) THEN slot.ema ELSE NoEma

(* scheduleEmaCompute_: one more thread, told apart from any that computes *)
(* the same.                                                               *)
Started(ema, version) ==
    LET twins == {j \in jobs : j.ema = ema /\ j.version = version}
        n == Min(0..Cardinality(twins) \ {j.n : j \in twins})
    IN  jobs \union {[ema |-> ema, version |-> version, n |-> n]}

(* The rest of getEMA: a miss marks the version as pending and starts a    *)
(* thread for it, unless it is marked already.  Too short a series is      *)
(* marked, and no thread started.                                          *)
GetEma(times, version, stored) ==
    IF times = {} \/ Hit(times, version) \/ slot.pending = version
    THEN UNCHANGED cacheVars
    ELSE /\ slot' = [slot EXCEPT !.pending = version]
         /\ jobs' = IF Cardinality(times) < Period THEN jobs
                    ELSE Started(EmaOf(times, stored), version)

(* Mutant: the pending mark outlives the computation.                      *)
FinishKeepsPending(job) ==
    /\ slot' = [slot EXCEPT !.ema = job.ema, !.version = job.version]
    /\ jobs' = jobs \ {job}

(* A thread stores its result and clears the mark, whosever mark it is.    *)
Finish(job) ==
    /\ slot' = [ema |-> job.ema, version |-> job.version, pending |-> NoVersion]
    /\ jobs' = jobs \ {job}

Compute == \E job \in jobs : Finish(job)
=============================================================================
