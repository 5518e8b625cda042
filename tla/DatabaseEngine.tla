--------------------------- MODULE DatabaseEngine ---------------------------
(***************************************************************************)
(* DatabaseEngine: a map of all known candles, a ring cache of the newest  *)
(* ones and their price limits, fed by two threads.  The warm-up thread    *)
(* (actualize) pages history from REST, saves, ingests, and rebuilds the   *)
(* cache from the map; the WebSocket thread (updateWithNewData) puts ticks *)
(* into the cache first and into file and map afterwards.  One action is   *)
(* what a thread does between two acquisitions of cacheMutex,              *)
(* historicalMutex_ or the file's mutex.                                   *)
(***************************************************************************)
EXTENDS PriceDataFile

CONSTANTS
    CacheSize,   \* cacheSize
    PageLimit,   \* the 1000 candles of a full page
    Warm,        \* WARMUP_CANDLES
    Extreme      \* numeric_limits: no price is as high, nor -Extreme as low

ASSUME EngineAssumption == {CacheSize, PageLimit, Warm, Extreme} \subseteq Nat \ {0}

VARIABLES
    file,        \* the records on disk, in file order
    history,     \* historicalData_: the records, by open time
    bounds,      \* minOpenTime_, maxOpenTime_
    ready,       \* dataReady_
    anchor,      \* readinessAnchor_
    cache,       \* cache, newest first
    limits,      \* currentMaxPrice, currentMinPrice
    cursor,      \* previousTimestamp
    warm,        \* the warm-up thread: step, request, page, copy of the map
    tick         \* updateWithNewData: step, the tick, the candle it closes

storeVars == <<history, bounds, ready, anchor>>
cacheVars == <<cache, limits, cursor>>
dbVars == <<file, storeVars, cacheVars, warm, tick>>

(* A record's price range: a candle in progress has seen less of it.       *)
High(r) == r.val
Low(r) == -r.val

NoRecord == [open |-> 0, val |-> 0]
NoLimits == [max |-> -Extreme, min |-> Extreme]
(* Mutant: -1 for "nothing known".                                         *)
NoBoundsSentinel == [min |-> -1, max |-> -1]
NoBounds == [min |-> 0, max |-> 0]
IdleWarm == [pc |-> "off", from |-> 0, page |-> {}, copy |-> <<>>, last |-> FALSE]
IdleTick == [pc |-> "idle", data |-> NoRecord, closed |-> <<>>]

(***************************************************************************)
(* Records and the map                                                     *)
(***************************************************************************)
(* One record per minute, the last one given.                              *)
NormalizeRecords(seq) ==
    LET n == [i \in 1..Len(seq) |-> Normalize(seq[i])]
    IN  {n[i] : i \in {k \in 1..Len(n) :
                          /\ IsValid(n[k])
                          /\ \A j \in k + 1 .. Len(n) : n[j].open # n[k].open}}

(* What is there is overwritten.                                           *)
Put(h, rs) == {r \in h : r.open \notin Opens(rs)} \union rs

NewestOpen(h) == Max(Opens(h))
OldestOpen(h) == Min(Opens(h))

(* hasConsecutiveCandlesLocked and tryGetLatestSpan: minute by minute, for *)
(* whatever interval.                                                      *)
HasLatestSpan(h, n) ==
    h # {} /\ \A k \in 0..(n - 1) : NewestOpen(h) - k * Minute \in Opens(h)

(* Mutant: readiness, once reached, is never taken back.                   *)
IngestKeepsReady(rs) ==
    IF rs = {} THEN UNCHANGED storeVars
    ELSE /\ history' = Put(history, rs)
         /\ bounds' = [min |-> OldestOpen(history'), max |-> NewestOpen(history')]
         /\ ready' = (ready \/ HasLatestSpan(history', Warm))
         /\ anchor' = IF ready' THEN NewestOpen(history') ELSE 0

Ingest(rs) ==
    IF rs = {} THEN UNCHANGED storeVars
    ELSE /\ history' = Put(history, rs)
         /\ bounds' = [min |-> OldestOpen(history'), max |-> NewestOpen(history')]
         /\ ready' = HasLatestSpan(history', Warm)
         /\ anchor' = IF ready' THEN NewestOpen(history') ELSE 0

(***************************************************************************)
(* rebuildCacheFromHistorical, in its two critical sections                *)
(***************************************************************************)
NewestRecords(h) ==
    [i \in 1..Min({CacheSize, Cardinality(h)}) |->
        CHOOSE r \in h : Cardinality({s \in h : s.open >= r.open}) = i]

LimitsOf(seq) == [max |-> Max({High(seq[i]) : i \in 1..Len(seq)}),
                  min |-> Min({Low(seq[i]) : i \in 1..Len(seq)})]

ReplaceCache(copy) ==
    /\ cache' = copy
    /\ IF copy = <<>> THEN UNCHANGED <<cursor, limits>>
       ELSE cursor' = copy[1].open /\ limits' = LimitsOf(copy)

(***************************************************************************)
(* Construction: create the file unless it can be opened, load it, then    *)
(* resume from its last record                                             *)
(***************************************************************************)
Load(o) ==
    LET h == NormalizeRecords(file')
    IN  /\ file' = Opened(file, o)
        /\ history' = h
        /\ bounds' = IF h = {} THEN NoBounds ELSE [min |-> OldestOpen(h), max |-> NewestOpen(h)]
        /\ ready' = HasLatestSpan(h, Warm)
        /\ anchor' = IF ready' THEN NewestOpen(h) ELSE 0
        /\ cache' = NewestRecords(h)
        /\ limits' = IF h = {} THEN NoLimits ELSE LimitsOf(cache')
        /\ cursor' = (LastOpen(file') \div Minute) * Minute
        /\ warm' = IdleWarm /\ tick' = IdleTick

(***************************************************************************)
(* The warm-up thread                                                      *)
(***************************************************************************)
WarmupAsync ==
    /\ warm.pc \in {"off", "done"}       \* warmupRequested was false
    /\ warm' = [IdleWarm EXCEPT !.pc = "fetch"]
    /\ UNCHANGED <<file, storeVars, cacheVars, tick>>

(* The request starts at previousTimestamp, read without a lock.           *)
SendRequest ==
    /\ warm.pc = "fetch"
    /\ warm' = [warm EXCEPT !.pc = "answer", !.from = cursor]
    /\ UNCHANGED <<file, storeVars, cacheVars, tick>>

Answer(page) ==
    LET rs == NormalizeRecords(page)
    IN  /\ warm.pc = "answer"
        /\ warm' = [warm EXCEPT
                      !.pc = IF rs # {} THEN "save" ELSE IF page = <<>> THEN "copy" ELSE "fetch",
                      !.page = rs,
                      !.last = page = <<>>]
        /\ UNCHANGED <<file, storeVars, cacheVars, tick>>

SavePage(o) ==
    /\ warm.pc = "save"
    /\ file' = SaveRecords(file, warm.page, o)
    /\ warm' = [warm EXCEPT !.pc = "cursor"]
    /\ UNCHANGED <<storeVars, cacheVars, tick>>

MoveCursor ==
    /\ warm.pc = "cursor"
    /\ cursor' = NewestOpen(warm.page)
    /\ warm' = [warm EXCEPT !.pc = "ingest"]
    /\ UNCHANGED <<file, storeVars, cache, limits, tick>>

IngestPage ==
    /\ warm.pc = "ingest"
    /\ Ingest(warm.page)
    /\ warm' = [warm EXCEPT !.pc = "copy"]
    /\ UNCHANGED <<file, cacheVars, tick>>

CopyHistory ==
    /\ warm.pc = "copy"
    /\ warm' = [warm EXCEPT !.pc = "replace", !.copy = NewestRecords(history)]
    /\ UNCHANGED <<file, storeVars, cacheVars, tick>>

(* Mutant: only an empty page is the last one.                             *)
RebuildUntilEmpty ==
    /\ warm.pc = "replace"
    /\ ReplaceCache(warm.copy)
    /\ warm' = IF warm.last THEN [IdleWarm EXCEPT !.pc = "done"]
               ELSE [IdleWarm EXCEPT !.pc = "fetch"]
    /\ UNCHANGED <<file, storeVars, tick>>

(* A page that is not full was the last one: rebuild once more and end.    *)
Rebuild ==
    /\ warm.pc = "replace"
    /\ ReplaceCache(warm.copy)
    /\ warm' = IF warm.last THEN [IdleWarm EXCEPT !.pc = "done"]
               ELSE IF Cardinality(warm.page) < PageLimit
               THEN [IdleWarm EXCEPT !.pc = "copy", !.last = TRUE]
               ELSE [IdleWarm EXCEPT !.pc = "fetch"]
    /\ UNCHANGED <<file, storeVars, tick>>

(* Its steps that touch neither the network nor the disk.                  *)
WarmStep == SendRequest \/ MoveCursor \/ IngestPage \/ CopyHistory \/ Rebuild

(***************************************************************************)
(* updateWithNewData                                                       *)
(***************************************************************************)
Widened(r) == [max |-> Max({limits.max, High(r)}), min |-> Min({limits.min, Low(r)})]
Then(pc, r, closed) == tick' = [pc |-> pc, data |-> r, closed |-> closed]

PushFirst(r) ==
    /\ cache = <<>>
    /\ cache' = <<r>> /\ cursor' = r.open
    /\ limits' = [max |-> High(r), min |-> Low(r)]
    /\ Then("ingest", r, <<>>)

PushNewer(r) ==
    /\ cache # <<>> /\ r.open > cache[1].open
    /\ cache' = SubSeq(<<r>> \o cache, 1, Min({CacheSize, Len(cache) + 1}))
    /\ cursor' = r.open
    /\ limits' = Widened(r)
    /\ Then("save", r, <<cache[1]>>)

(* Mutant: limits are only looked at when a new candle opens.              *)
ReplaceFrontUnwidened(r) ==
    /\ cache # <<>> /\ r.open = cache[1].open
    /\ cache' = <<r>> \o Tail(cache)
    /\ Then("ingest", r, <<>>)
    /\ UNCHANGED <<cursor, limits>>

ReplaceFront(r) ==
    /\ cache # <<>> /\ r.open = cache[1].open
    /\ cache' = <<r>> \o Tail(cache)
    /\ limits' = Widened(r)
    /\ Then("ingest", r, <<>>)
    /\ UNCHANGED cursor

(* Mutant: the age of a tick is not looked at.                             *)
IgnoreStalePushed(r) ==
    /\ cache # <<>> /\ r.open < cache[1].open
    /\ cache' = SubSeq(<<r>> \o cache, 1, Min({CacheSize, Len(cache) + 1}))
    /\ Then("ingest", r, <<>>)
    /\ UNCHANGED <<cursor, limits>>

IgnoreStale(r) ==
    /\ cache # <<>> /\ r.open < cache[1].open
    /\ UNCHANGED <<cacheVars, tick>>

UpdateCache(data) ==
    LET r == Normalize(data)
    IN  /\ tick.pc = "idle" /\ IsValid(r)
        /\ PushFirst(r) \/ PushNewer(r) \/ ReplaceFront(r) \/ IgnoreStale(r)
        /\ UNCHANGED <<file, storeVars, warm>>

SaveClosed(o) ==
    /\ tick.pc = "save" /\ ~o.emptied
    /\ file' = SaveRecord(file, tick.closed[1], o)
    /\ tick' = [tick EXCEPT !.pc = "ingest", !.closed = <<>>]
    /\ UNCHANGED <<storeVars, cacheVars, warm>>

(* Mutant: a tick that is in the cache is not put into the map as well.    *)
IngestTickCached ==
    /\ tick.pc = "ingest"
    /\ tick' = IdleTick
    /\ UNCHANGED <<file, storeVars, cacheVars, warm>>

IngestTick ==
    /\ tick.pc = "ingest"
    /\ Ingest({tick.data})
    /\ tick' = IdleTick
    /\ UNCHANGED <<file, cacheVars, warm>>

(* The process ends, in order or not: the file is all that stays.          *)
Unload ==
    /\ history' = {} /\ bounds' = NoBounds /\ ready' = FALSE /\ anchor' = 0
    /\ cache' = <<>> /\ limits' = NoLimits /\ cursor' = 0
    /\ warm' = IdleWarm /\ tick' = IdleTick

EngineInit ==
    /\ file = <<>> /\ history = {} /\ bounds = NoBounds
    /\ ready = FALSE /\ anchor = 0
    /\ cache = <<>> /\ limits = NoLimits /\ cursor = 0
    /\ warm = IdleWarm /\ tick = IdleTick
-----------------------------------------------------------------------------
(***************************************************************************)
(* Properties.  InHand: candles a thread has taken and not yet ingested.   *)
(***************************************************************************)
InHand == Opens(warm.page) \union (IF tick.pc = "idle" THEN {} ELSE {tick.data.open})

(* The ring is strictly newest first and never overfull, although it is    *)
(* replaced by an older copy of the map while ticks are pushed on it.      *)
CacheIsOrdered ==
    /\ Len(cache) <= CacheSize
    /\ \A i \in 1..(Len(cache) - 1) : cache[i].open > cache[i + 1].open

(* The ring shows, and the next request starts from, candles that the map  *)
(* has or a thread is about to put there: neither a rebuild nor a tick can *)
(* make the two stores name different candles for good.                    *)
CacheIsBacked ==
    /\ OpensOf(cache) \subseteq Opens(history) \union InHand
    /\ cursor = 0 \/ cursor \in Opens(history) \union InHand

(* The published price limits contain every candle of the ring, through    *)
(* rebuilds, replacements and trims.                                       *)
LimitsCoverCache ==
    \A i \in 1..Len(cache) : /\ High(cache[i]) <= limits.max
                             /\ limits.min <= Low(cache[i])

(* What is cached about the map (range, readiness and its anchor) is what  *)
(* a query of the map would answer, at every step of either thread.        *)
SummariesMatchHistory ==
    /\ ready = HasLatestSpan(history, Warm)
    /\ anchor = IF ready THEN NewestOpen(history) ELSE 0
    /\ bounds = IF history = {} THEN NoBounds
                ELSE [min |-> Min(Opens(history)), max |-> NewestOpen(history)]
=============================================================================
