-------------------------- MODULE SyncOrchestrator --------------------------
(***************************************************************************)
(* SyncOrchestrator over the repository: a worker thread that backfills    *)
(* from REST and then keeps a live subscription, the WebSocket thread that *)
(* delivers live candles, a detached thread that pages older history, and  *)
(* the UI thread that starts, stops and asks.  Each network answer, each   *)
(* appendOrReplace, and the two halves of publishSnapshot are steps of     *)
(* their own, because the threads interleave between them.                 *)
(***************************************************************************)
EXTENDS Repository

CONSTANTS
    Partial, Final,  \* a candle's data before and after the exchange closed it
    Listed,          \* the first candle the exchange has
    Holes,           \* candles the exchange never had (an outage)
    FirstNow, MaxNow,\* the candle in progress at first, and the last one (bound)
    SeedBars,        \* seedBarsFor(interval)
    Batch,           \* cfg_.restBatch
    PageBars,        \* kBackfillBatchCandles
    Published,       \* cfg_.publishCandles
    MaxFeed,         \* bound: live updates in flight
    MaxFaults        \* bound: REST answers that fail or miss candles

ASSUME SyncAssumption ==
    /\ Vals = {Partial, Final} /\ Partial # Final
    /\ {Listed, FirstNow, MaxNow, SeedBars, Batch, PageBars, Published, MaxFeed}
         \subseteq Nat \ {0}
    /\ Holes \subseteq Nat /\ MaxFaults \in Nat
    /\ FirstNow % Interval = 0 /\ Listed <= FirstNow /\ FirstNow <= MaxNow

VARIABLES
    now,          \* the exchange: open time of the candle in progress
    faults,       \* bad REST answers so far
    connected,    \* the live session is receiving
    feed,         \* live updates in flight, in order
    pc,           \* where each thread is
    task,         \* the page each REST thread is working on
    plan,         \* locals of runBackfill
    running,      \* running_
    backfilling,  \* backfilling_
    paging,       \* pagingBackfill_
    repairing,    \* repairing_
    fresh,        \* lastLivePublish_ is still time_point::min()
    mutex,        \* publishMutex_: the threads that are inside
    snapshot,     \* per thread, what it read and has yet to publish
    cache,        \* the series cache: what the chart is given
    seeded,       \* seeded_
    skipped,      \* the throttle dropped an update since the last snapshot
    finals        \* history: candles whose final live update was handled

repoVars == <<candles, metadata, hasGap, file, opened, answer>>
exchangeVars == <<now, faults, connected, feed>>
flagVars == <<running, backfilling, paging, repairing>>
publishVars == <<mutex, snapshot, cache, seeded>>
liveVars == <<fresh, skipped, finals>>
syncVars == <<repoVars, exchangeVars, flagVars, publishVars, liveVars, pc, task, plan>>

Threads == {"worker", "pager", "live"}
Rest == {"worker", "pager"}
TaskOf(page) == [from |-> 0, batch |-> page, todo |-> page, gap |-> <<>>]
NoTask == TaskOf(<<>>)
NoPlan == [next |-> 0, seeding |-> FALSE, seedEnd |-> 0,
           fetchedAny |-> FALSE, widenedOnce |-> FALSE]
At(th, label) == pc' = [pc EXCEPT ![th] = label]
(* Mutant: the window may start before time zero.                          *)
AtLeast0Not(t) == t
AtLeast0(t) == IF t < 0 THEN 0 ELSE t

(***************************************************************************)
(* The exchange, as ExchangeGateway::fetchRange and its live session show  *)
(* it.  REST marks every kline closed, the one in progress included.       *)
(***************************************************************************)
Kline(t) == [open |-> t, closed |-> TRUE, val |-> IF t < now THEN Final ELSE Partial]

(* The numbers of S in order: up to the i-th there are i.                  *)
Ascending(S) ==
    [i \in 1..Cardinality(S) |-> CHOOSE x \in S : Cardinality({y \in S : y <= x}) = i]

(* The elements of s at the places I, in order.                            *)
Part(s, I) ==
    LET at == Ascending(I) IN [k \in 1..Len(at) |-> s[at[k]]]

Klines(from, to, limit) ==
    LET opens == {t \in Listed..now : t % Interval = 0 /\ t \notin Holes
                                      /\ from <= t /\ t <= to}
        all == Ascending(opens)
    IN  [i \in 1..(IF Len(all) < limit THEN Len(all) ELSE limit) |-> Kline(all[i])]

(* A complete answer, or a faulty one: nothing at all after the retries,   *)
(* or without the candles that validateCandle rejected.                    *)
FetchRange(from, to, limit) ==
    LET all == Klines(from, to, limit)
        faulty == {Part(all, I) : I \in (SUBSET (1..Len(all))) \ {1..Len(all)}}
    IN  {[page |-> all, faults |-> faults]} \union
        (IF faults = MaxFaults \/ all = <<>> THEN {}
         ELSE {[page |-> page, faults |-> faults + 1] : page \in faulty})

Update(t, final) ==
    [open |-> t, closed |-> final, val |-> IF final THEN Final ELSE Partial]

Tick ==
    /\ now + Interval <= MaxNow
    /\ now' = now + Interval
    /\ IF connected /\ now \notin Holes
       THEN Len(feed) < MaxFeed /\ feed' = Append(feed, Update(now, TRUE))
       ELSE UNCHANGED feed
    /\ UNCHANGED <<repoVars, faults, connected, flagVars, publishVars, liveVars, pc, task, plan>>

Push ==
    /\ connected /\ Len(feed) < MaxFeed /\ now \notin Holes
    /\ feed' = Append(feed, Update(now, FALSE))
    /\ UNCHANGED <<repoVars, now, faults, connected, flagVars, publishVars, liveVars>>
    /\ UNCHANGED <<pc, task, plan>>

Connect ==
    /\ pc["live"] # "off" /\ ~connected
    /\ connected' = TRUE
    /\ UNCHANGED <<repoVars, now, faults, feed, flagVars, publishVars, liveVars, pc, task, plan>>

Disconnect ==
    /\ connected
    /\ connected' = FALSE /\ feed' = <<>>
    /\ UNCHANGED <<repoVars, now, faults, flagVars, publishVars, liveVars, pc, task, plan>>

(***************************************************************************)
(* publishSnapshot: read the latest candles, then hand them to the cache   *)
(***************************************************************************)
GetLatest(cs, n) == IF Len(cs) <= n THEN cs ELSE SubSeq(cs, Len(cs) - n + 1, Len(cs))

(* Mutants: publishMutex_ not taken; publishMutex_ not released.           *)
EnterPublishUnlocked(th) == TRUE
LeavePublishLocked(th) == mutex
EnterPublish(th) == mutex = {}
LeavePublish(th) == mutex \ {th}

TakeSnapshot(th) ==
    /\ pc[th] \in {"publish", "lastPublish"}
    /\ EnterPublish(th)
    /\ mutex' = mutex \union {th}
    /\ snapshot' = [snapshot EXCEPT ![th] = GetLatest(candles, Published)]
    /\ skipped' = FALSE
    /\ At(th, IF pc[th] = "publish" THEN "update" ELSE "lastUpdate")
    /\ UNCHANGED <<repoVars, exchangeVars, flagVars, cache, seeded, fresh, finals, task, plan>>

UpdateCache(th) ==
    /\ pc[th] \in {"update", "lastUpdate"}
    /\ cache' = snapshot[th]
    /\ seeded' = TRUE
    /\ mutex' = LeavePublish(th)
    /\ snapshot' = [snapshot EXCEPT ![th] = <<>>]
    /\ At(th, IF th = "live" THEN "idle"
              ELSE IF th = "pager" THEN "off"
              ELSE IF pc[th] = "lastUpdate" THEN "golive" ELSE "next")
    /\ paging' = IF th = "pager" THEN FALSE ELSE paging
    /\ UNCHANGED <<repoVars, exchangeVars, running, backfilling, repairing, liveVars, task, plan>>

(***************************************************************************)
(* Appending a fetched page, and repairGap                                 *)
(***************************************************************************)
AppendHead(th) == task[th].todo # <<>> /\ AppendOrReplace(Head(task[th].todo))
Refused == answer'.state = "Gap"

AppendPage(th) ==
    /\ pc[th] = "append"
    /\ AppendHead(th)
    /\ task' = [task EXCEPT ![th].todo = Tail(@),
                            ![th].gap = IF Refused THEN <<answer'>> ELSE @]
    /\ At(th, IF Refused THEN "repair"
              ELSE IF Len(task[th].todo) = 1 THEN "publish" ELSE "append")
    /\ UNCHANGED <<exchangeVars, flagVars, publishVars, liveVars, plan>>

(* The candles of the page from the refused one on.                        *)
Retried(th) ==
    LET batch == task[th].batch
    IN  Part(batch, {i \in 1..Len(batch) :
                        AlignDown(batch[i].open, Interval) >= task[th].gap[1].to})

Repair(th) ==
    LET gap == task[th].gap[1]
        limit == (gap.to - gap.from + Interval - 1) \div Interval
    IN  /\ pc[th] = "repair"
        /\ IF repairing
           THEN At(th, "publish") /\ UNCHANGED <<faults, repairing, task>>
           ELSE /\ repairing' = TRUE
                /\ \E missing \in FetchRange(gap.from, gap.to - 1, limit) :
                      /\ faults' = missing.faults
                      /\ task' = [task EXCEPT ![th].todo =
                            IF missing.page = <<>> THEN Retried(th) ELSE missing.page]
                      /\ At(th, IF missing.page = <<>> THEN "retry" ELSE "fill")
        /\ UNCHANGED <<repoVars, now, connected, feed, running, backfilling, paging,
                       publishVars, liveVars, plan>>

Fill(th) ==
    LET done == Refused \/ Len(task[th].todo) = 1
    IN  /\ pc[th] = "fill"
        /\ AppendHead(th)
        /\ task' = [task EXCEPT ![th].todo = IF done THEN Retried(th) ELSE Tail(@)]
        /\ At(th, IF done THEN "retry" ELSE "fill")
        /\ UNCHANGED <<exchangeVars, flagVars, publishVars, liveVars, plan>>

(* Ends with the log line "Gap repaired and series consistent" unless the  *)
(* repository reports a gap again.                                         *)
Retry(th) ==
    LET done == Refused \/ Len(task[th].todo) = 1
    IN  /\ pc[th] = "retry"
        /\ AppendHead(th)
        /\ task' = [task EXCEPT ![th].todo = IF done THEN <<>> ELSE Tail(@)]
        /\ At(th, IF done THEN "publish" ELSE "retry")
        /\ repairing' = ~done
        /\ UNCHANGED <<exchangeVars, running, backfilling, paging, publishVars, liveVars, plan>>

(***************************************************************************)
(* The worker: stop, runBackfill, the live phase                           *)
(***************************************************************************)
Stop ==
    /\ running
    /\ running' = FALSE
    /\ UNCHANGED <<repoVars, exchangeVars, backfilling, paging, repairing, publishVars,
                   liveVars, pc, task, plan>>

RepoEmpty == metadata.count = 0 \/ metadata.maxOpen <= 0
SeedSpan == Interval * SeedBars

BeginBackfill ==
    LET seedEnd == AlignDown(now, Interval)
    IN  /\ pc["worker"] = "begin"
        /\ backfilling' = TRUE
        /\ plan' = [next |-> IF RepoEmpty THEN AtLeast0(seedEnd - SeedSpan)
                             ELSE metadata.maxOpen + Interval,
                    seeding |-> RepoEmpty,
                    seedEnd |-> IF RepoEmpty THEN seedEnd ELSE 0,
                    fetchedAny |-> FALSE, widenedOnce |-> FALSE]
        /\ At("worker", "request")
        /\ UNCHANGED <<repoVars, exchangeVars, running, paging, repairing, publishVars,
                       liveVars, task>>

Exhausted == plan.seeding /\ plan.seedEnd > 0 /\ plan.next > plan.seedEnd

RequestEnd ==
    LET whole == plan.next + Interval * Batch - 1
        capped == plan.seedEnd + Interval - 1
    IN  IF plan.seeding /\ plan.seedEnd > 0 /\ capped >= plan.next /\ capped < whole
        THEN capped ELSE whole

LeaveLoop ==
    /\ pc["worker"] = "request" /\ (~running \/ Exhausted)
    /\ At("worker", "lastPublish")
    /\ UNCHANGED <<repoVars, exchangeVars, flagVars, publishVars, liveVars, task, plan>>

FetchPage ==
    /\ pc["worker"] = "request" /\ running /\ ~Exhausted
    /\ \E got \in FetchRange(plan.next, RequestEnd, Batch) :
          /\ faults' = got.faults
          /\ task' = [task EXCEPT !["worker"] = TaskOf(got.page)]
    /\ At("worker", "received")
    /\ UNCHANGED <<repoVars, now, connected, feed, flagVars, publishVars, liveVars, plan>>

(* Mutant: the window is widened as often as answers are empty.            *)
MayWidenAgain == ~plan.fetchedAny /\ plan.seeding

(* An empty first answer widens an empty repository's seed window once.    *)
MayWiden == ~plan.fetchedAny /\ plan.seeding /\ ~plan.widenedOnce

Widen ==
    /\ pc["worker"] = "received" /\ running
    /\ task["worker"].batch = <<>> /\ MayWiden
    /\ plan' = [plan EXCEPT !.widenedOnce = TRUE, !.next = AtLeast0(@ - SeedSpan)]
    /\ At("worker", "request")
    /\ UNCHANGED <<repoVars, exchangeVars, flagVars, publishVars, liveVars, task>>

GiveUp ==
    /\ pc["worker"] = "received"
    /\ ~running \/ (task["worker"].batch = <<>> /\ ~MayWiden)
    /\ At("worker", "lastPublish")
    /\ UNCHANGED <<repoVars, exchangeVars, flagVars, publishVars, liveVars, task, plan>>

AcceptPage ==
    /\ pc["worker"] = "received" /\ running /\ task["worker"].batch # <<>>
    /\ plan' = [plan EXCEPT !.fetchedAny = TRUE]
    /\ At("worker", "append")
    /\ UNCHANGED <<repoVars, exchangeVars, flagVars, publishVars, liveVars, task>>

(* A page that was cut short by a gap never ends the backfill.             *)
MorePages == Len(task["worker"].batch) >= Batch \/ task["worker"].gap # <<>>

NextPage ==
    /\ pc["worker"] = "next"
    /\ IF metadata.count = 0
       THEN UNCHANGED plan /\ At("worker", "request")
       ELSE /\ plan' = [plan EXCEPT !.next = metadata.maxOpen + Interval]
            /\ At("worker", IF running /\ MorePages THEN "request" ELSE "lastPublish")
    /\ task' = [task EXCEPT !["worker"] = NoTask]
    /\ UNCHANGED <<repoVars, exchangeVars, flagVars, publishVars, liveVars>>

EndRun ==
    /\ pc["worker"] = "golive" /\ ~running
    /\ At("worker", "off")
    /\ backfilling' = FALSE
    /\ plan' = NoPlan
    /\ task' = [task EXCEPT !["worker"] = NoTask]
    /\ UNCHANGED <<repoVars, exchangeVars, running, paging, repairing, publishVars, liveVars>>

StartLiveStream ==
    /\ pc["worker"] = "golive" /\ running
    /\ pc' = [pc EXCEPT !["worker"] = "live", !["live"] = "idle"]
    /\ fresh' = TRUE
    /\ plan' = NoPlan
    /\ task' = [task EXCEPT !["worker"] = NoTask]
    /\ UNCHANGED <<repoVars, exchangeVars, flagVars, publishVars, skipped, finals>>

(* stop() of the session joins its thread, so a handler finishes first.    *)
StopLiveStream ==
    /\ pc["worker"] = "live" /\ ~running /\ pc["live"] = "idle"
    /\ pc' = [pc EXCEPT !["worker"] = "off", !["live"] = "off"]
    /\ connected' = FALSE /\ feed' = <<>>
    /\ backfilling' = FALSE
    /\ fresh' = FALSE
    /\ UNCHANGED <<repoVars, now, faults, running, paging, repairing, publishVars, skipped,
                   finals, task, plan>>

(***************************************************************************)
(* handleLiveCandle.  A candle in progress may be throttled; time since    *)
(* the last publication is not modelled, so it may also not be.            *)
(***************************************************************************)
IgnoreLive ==
    /\ pc["live"] = "idle" /\ feed # <<>> /\ ~running
    /\ feed' = Tail(feed)
    /\ UNCHANGED <<repoVars, now, faults, connected, flagVars, publishVars, liveVars>>
    /\ UNCHANGED <<pc, task, plan>>

Throttled(update) == ~update.closed /\ ~fresh

HandleLive ==
    LET update == Head(feed)
    IN  /\ pc["live"] = "idle" /\ feed # <<>> /\ running
        /\ feed' = Tail(feed)
        /\ AppendOrReplace(update)
        /\ finals' = IF update.closed THEN finals \union {update.open} ELSE finals
        /\ \/ /\ At("live", "publish")
              /\ fresh' = FALSE
              /\ UNCHANGED skipped
           \/ /\ Throttled(update)
              /\ skipped' = TRUE
              /\ UNCHANGED <<pc, fresh>>
        /\ UNCHANGED <<now, faults, connected, flagVars, publishVars, task, plan>>

(***************************************************************************)
(* requestBackfillOlder, asked for by the chart with the series it shows,  *)
(* and the detached thread it starts                                       *)
(***************************************************************************)
Shown == IF cache # <<>> THEN cache ELSE candles
AcceptsRequest == running /\ ~backfilling /\ ~paging

RequestBackfillOlder ==
    LET start == AtLeast0(Shown[1].open - PageBars * Interval)
    IN  /\ opened /\ Shown # <<>> /\ start < Shown[1].open
        /\ AcceptsRequest
        /\ paging' = TRUE
        /\ task' = [task EXCEPT !["pager"].from = start]
        /\ At("pager", "request")
        /\ UNCHANGED <<repoVars, exchangeVars, running, backfilling, repairing,
                       publishVars, liveVars, plan>>

FetchOlder ==
    LET from == task["pager"].from
    IN  /\ pc["pager"] = "request"
        /\ \E got \in FetchRange(from, from + PageBars * Interval - 1, PageBars) :
              /\ faults' = got.faults
              /\ task' = [task EXCEPT !["pager"] = TaskOf(got.page)]
              /\ paging' = (got.page # <<>>)
              /\ At("pager", IF got.page = <<>> THEN "off" ELSE "append")
        /\ UNCHANGED <<repoVars, now, connected, feed, running, backfilling, repairing,
                       publishVars, liveVars, plan>>

(***************************************************************************)
(* The process                                                             *)
(***************************************************************************)
Idle ==
    /\ connected = FALSE /\ feed = <<>>
    /\ pc = [th \in Threads |-> "off"]
    /\ task = [th \in Rest |-> NoTask]
    /\ plan = NoPlan
    /\ running = FALSE /\ backfilling = FALSE /\ paging = FALSE /\ repairing = FALSE
    /\ mutex = {} /\ snapshot = [th \in Threads |-> <<>>]
    /\ cache = <<>> /\ seeded = FALSE
    /\ fresh = FALSE /\ skipped = FALSE

SyncInit ==
    /\ Init /\ Idle
    /\ now = FirstNow /\ faults = 0 /\ finals = {}

(* The application constructs the repository and the orchestrator and      *)
(* calls start(), once per process.                                        *)
Boot ==
    /\ Open
    /\ running' = TRUE
    /\ At("worker", "begin")
    /\ UNCHANGED <<exchangeVars, backfilling, paging, repairing, publishVars, liveVars,
                   task, plan>>

(* Death of the process, possibly between the two file writes of the       *)
(* candle that some thread is about to append.                             *)
InHand == {Head(task[th].todo) : th \in {t \in Rest : pc[t] \in {"append", "fill", "retry"}}}
          \union IF pc["live"] = "idle" /\ feed # <<>> /\ running THEN {Head(feed)} ELSE {}

Restarted ==
    /\ connected' = FALSE /\ feed' = <<>>
    /\ pc' = [th \in Threads |-> "off"]
    /\ task' = [th \in Rest |-> NoTask]
    /\ plan' = NoPlan
    /\ running' = FALSE /\ backfilling' = FALSE /\ paging' = FALSE /\ repairing' = FALSE
    /\ mutex' = {} /\ snapshot' = [th \in Threads |-> <<>>]
    /\ cache' = <<>> /\ seeded' = FALSE
    /\ fresh' = FALSE /\ skipped' = FALSE

Die ==
    /\ Crash \/ \E c \in InHand : CrashBetweenWrites(c)
    /\ Restarted
    /\ UNCHANGED <<now, faults, finals>>

WorkerStep ==
    \/ BeginBackfill \/ LeaveLoop \/ FetchPage \/ Widen \/ GiveUp \/ AcceptPage
    \/ NextPage \/ EndRun \/ StartLiveStream \/ StopLiveStream

RestStep(th) ==
    \/ AppendPage(th) \/ Repair(th) \/ Fill(th) \/ Retry(th)

PublishStep(th) == TakeSnapshot(th) \/ UpdateCache(th)

SyncNext ==
    \/ Tick \/ Push \/ Connect \/ Disconnect
    \/ Boot \/ Stop \/ Die
    \/ WorkerStep
    \/ \E th \in Rest : RestStep(th)
    \/ \E th \in Threads : PublishStep(th)
    \/ IgnoreLive \/ HandleLive
    \/ RequestBackfillOlder \/ FetchOlder

SyncSpec == SyncInit /\ [][SyncNext]_syncVars

(* The operating system runs every runnable thread; nothing is promised    *)
(* about the user, the exchange, or the network.                           *)
Fairness ==
    /\ WF_syncVars(WorkerStep)
    /\ \A th \in Rest : WF_syncVars(RestStep(th))
    /\ \A th \in Threads : WF_syncVars(PublishStep(th))
    /\ WF_syncVars(FetchOlder)
    /\ WF_syncVars(IgnoreLive \/ HandleLive)

FairSyncSpec == SyncSpec /\ Fairness
-----------------------------------------------------------------------------
(***************************************************************************)
(* Properties                                                              *)
(***************************************************************************)
Labels == {"off", "begin", "request", "received", "append", "repair", "fill", "retry",
           "publish", "update", "next", "lastPublish", "lastUpdate", "golive", "live", "idle"}

(* Every variable stays in its type; no request starts before time zero.   *)
SyncTypeOK ==
    /\ now \in Nat /\ faults \in 0..MaxFaults
    /\ connected \in BOOLEAN /\ feed \in Seq(Candle)
    /\ pc \in [Threads -> Labels]
    /\ \A th \in Rest : task[th].todo \in Seq(Candle) /\ task[th].batch \in Seq(Candle)
    /\ plan \in [next : Nat, seeding : BOOLEAN, seedEnd : Nat,
                 fetchedAny : BOOLEAN, widenedOnce : BOOLEAN]
    /\ {running, backfilling, paging, repairing, fresh, seeded, skipped} \subseteq BOOLEAN
    /\ mutex \subseteq Threads
    /\ cache \in Seq(Candle) /\ finals \subseteq Nat

(* Whenever no thread is between an append and the end of the publication  *)
(* that follows it, the chart has exactly the newest candles of the        *)
(* repository, save an update the throttle held back: every path of every  *)
(* thread ends in publishSnapshot, and publications do not overtake.       *)
Settled(th) == pc[th] \in {"off", "begin", "request", "received", "next", "golive",
                           "live", "idle"}
CacheIsCurrent ==
    (\A th \in Threads : Settled(th)) /\ seeded /\ ~skipped
        => cache = GetLatest(candles, Published)

(* What the chart shows never goes back: a publication is never replaced   *)
(* by an older one of another thread.                                      *)
NotBack(was, is) ==
    /\ is # <<>>
    /\ LastOf(is).open >= LastOf(was).open
    /\ LastOf(is).open = LastOf(was).open /\ LastOf(was).closed => LastOf(is).closed
ChartNeverGoesBack == [][cache # <<>> /\ opened' => NotBack(cache, cache')]_syncVars

(* Once the exchange's last update of a candle has been handled, no REST   *)
(* page fetched earlier, late partial update or restart gives the          *)
(* repository another value for it.                                        *)
FinalValuesStick ==
    /\ \A i \in 1..Len(candles) : candles[i].open \in finals
          => candles[i].closed /\ candles[i].val = Final
    /\ \A i \in 1..Len(file) : file[i].open \in finals => file[i].val = Final

(* When repairGap reports "Gap repaired and series consistent", every      *)
(* candle from the first that was missing to the last of the refused page  *)
(* is in the series, though the repair's own fetch may have failed or come *)
(* back with holes, and the repository reports no gap.                     *)
Restored(th) ==
    \A t \in task[th].gap[1].from .. LastOf(task[th].batch).open :
        t % Interval = 0 => \E i \in 1..Len(candles') : candles'[i].open = t
RepairedMeansConsistent ==
    [][\A th \in Rest : pc[th] = "retry" /\ pc'[th] = "publish" /\ ~Refused
                         => Restored(th) /\ ~hasGap']_syncVars

(* A backfill ends: from start() the worker reaches the live phase or      *)
(* stops, whatever REST answers fail or miss candles on the way.           *)
BackfillEnds == pc["worker"] = "begin" ~> pc["worker"] \in {"live", "off"}

(* stop() returns: the worker leaves whatever it is doing, and joining the *)
(* session's thread does not wait for a handler that waits for the worker. *)
StopReturns == ~running ~> pc["worker"] = "off"

(* Snapshots are republished whenever new candles arrive: once the final   *)
(* update of a candle is handled in the live phase, the chart reaches it.  *)
ArrivalsAreShown ==
    pc["worker"] = "live" /\ pc["live"] = "idle" /\ running
        => \A t \in finals : cache # <<>> /\ LastOf(cache).open >= t

(* After "Backfill finished" no backfill is running, so a request for      *)
(* older history is not turned away as "orchestrator busy".                *)
LiveServesOlderHistory ==
    pc["worker"] = "live" /\ running /\ pc["pager"] = "off" => AcceptsRequest
=============================================================================
