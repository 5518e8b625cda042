---------------------------- MODULE DatabaseFeed ----------------------------
(***************************************************************************)
(* The database engine in the running application: the exchange with its   *)
(* REST history and its kline stream, the WebSocket client whose io thread *)
(* calls updateWithNewData, the warm-up thread, and the main thread that   *)
(* starts them and ends the process.                                       *)
(***************************************************************************)
EXTENDS DatabaseEngine, WebSocketClient

CONSTANTS
    Interval,     \* one candle, in ticks
    Listed,       \* the first candle the exchange has
    Holes,        \* candles the exchange never had (an outage)
    FirstNow, MaxNow,  \* the candle in progress at first, and the last (bound)
    MaxFeed,      \* bound: klines in flight
    MaxFaults,    \* bound: answers, connections, opens and processes that fail
    MaxBoots      \* bound: starts of the process

Traded == {t \in Listed..MaxNow : t % Interval = 0 /\ t \notin Holes}

ASSUME FeedAssumption ==
    /\ {Interval, Listed, FirstNow, MaxNow, MaxFeed, MaxBoots} \subseteq Nat \ {0}
    /\ MaxFaults \in Nat /\ Holes \subseteq Nat /\ FirstNow \in Traded
    /\ Extreme > 2      \* the highest price of a Kline

VARIABLES
    now,      \* open time of the exchange's candle in progress
    feed,     \* klines in flight
    faults, boots,
    main      \* the main thread: which of its calls come next

worldVars == <<now, feed, faults, boots, main>>
feedVars == <<dbVars, wsVars, worldVars>>

(* A candle has its whole price range once it is over.                     *)
Kline(t) == [open |-> t, val |-> IF t < now THEN 2 ELSE 1]

(* fetchHistoricalData: at most a page of the oldest candles from the one  *)
(* asked for; an error anywhere leaves what was parsed before it.          *)
Page ==
    LET opens == {t \in Traded : warm.from <= t /\ t <= now}
        first == {t \in opens : Cardinality({u \in opens : u <= t}) <= PageLimit}
    IN  InOrder({Kline(t) : t \in first})

FetchHistoricalData ==
    \/ Answer(Page) /\ UNCHANGED faults
    \/ /\ faults < MaxFaults /\ faults' = faults + 1
       /\ \E n \in 0..Len(Page) - 1 : Answer(SubSeq(Page, 1, n))

(* Opening the file for writing goes well, or is one of the failures.      *)
DiskOutcome == {Sound} \union (IF faults < MaxFaults THEN Outcome ELSE {})
Spent(o) == faults' = IF o = Sound THEN faults ELSE faults + 1

WarmUp ==
    /\ \/ WarmStep /\ UNCHANGED faults
       \/ \E o \in DiskOutcome : SavePage(o) /\ Spent(o)
       \/ FetchHistoricalData
    /\ UNCHANGED <<wsVars, now, feed, boots, main>>

(* The exchange closes a candle with a final kline and opens the next one. *)
Deliver(r) == IF connected /\ io \in {"read", "handler"}
              THEN Len(feed) < MaxFeed /\ feed' = Append(feed, r)
              ELSE UNCHANGED feed

Pass ==
    /\ now < Max(Traded)
    /\ now' = Min({t \in Traded : t > now})
    /\ Deliver([open |-> now, val |-> 2])
    /\ UNCHANGED <<dbVars, wsVars, faults, boots, main>>

Push ==
    /\ Deliver(Kline(now)) /\ feed' # feed
    /\ UNCHANGED <<dbVars, wsVars, now, faults, boots, main>>

(* The io thread.                                                          *)
Receive ==
    /\ feed # <<>> /\ feed' = Tail(feed)
    /\ OnKline
    /\ UpdateCache(Head(feed))
    /\ UNCHANGED <<now, faults, boots, main>>

Handle ==
    /\ \/ \E o \in DiskOutcome : SaveClosed(o) /\ Spent(o) /\ UNCHANGED wsVars
       \/ IngestTick /\ UNCHANGED <<wsVars, faults>>
       \/ tick.pc = "idle" /\ DoRead /\ UNCHANGED <<dbVars, faults>>
    /\ UNCHANGED <<now, feed, boots, main>>

Network ==
    /\ IoStep
    /\ UNCHANGED <<dbVars, worldVars>>

IoThread == Receive \/ Handle \/ Network

Drop ==
    /\ faults < MaxFaults /\ faults' = faults + 1
    /\ Fail
    /\ feed' = <<>>
    /\ UNCHANGED <<dbVars, now, boots, main>>

(* The main thread: the constructors, warmupAsync, connect; disconnect     *)
(* once the window is closed, and the end of main.  The io thread is       *)
(* joined, the warm-up thread dies with the process.                       *)
Boot ==
    /\ main = "down" /\ boots < MaxBoots
    /\ boots' = boots + 1 /\ main' = "built"
    /\ \E o \in DiskOutcome : Load(o) /\ Spent(o)
    /\ UNCHANGED <<wsVars, now, feed>>

StartWarmup ==
    /\ main = "built" /\ main' = "warming"
    /\ WarmupAsync
    /\ UNCHANGED <<wsVars, now, feed, faults, boots>>

StartClient ==
    /\ main = "warming" /\ main' = "running"
    /\ Connect
    /\ UNCHANGED <<dbVars, now, feed, faults, boots>>

CloseWindow ==
    /\ main = "running" /\ main' = "closing"
    /\ Disconnect
    /\ UNCHANGED <<dbVars, now, feed, faults, boots>>

Die ==
    /\ Unload /\ Off /\ feed' = <<>>
    /\ UNCHANGED <<file, now, boots>>

Exit ==
    /\ main = "closing" /\ Joined
    /\ main' = "ended"
    /\ Die /\ UNCHANGED faults

(* A new process may follow a crash, which can come where Exit does.       *)
Crash ==
    /\ main \notin {"down", "ended"} /\ faults < MaxFaults
    /\ main' = "down" /\ faults' = faults + 1
    /\ Die

Init ==
    /\ EngineInit /\ WsInit
    /\ now = FirstNow /\ feed = <<>> /\ faults = 0 /\ boots = 0 /\ main = "down"

Next ==
    \/ Boot \/ StartWarmup \/ StartClient \/ CloseWindow \/ Exit \/ Crash
    \/ WarmUp \/ IoThread \/ Drop
    \/ Pass \/ Push

Spec == Init /\ [][Next]_feedVars

(* Threads that can run do; REST requests end; the main thread makes its   *)
(* calls.  Candles, closing the window and failures need not happen.       *)
FairSpec ==
    /\ Spec
    /\ WF_feedVars(WarmUp) /\ WF_feedVars(IoThread)
    /\ WF_feedVars(StartWarmup \/ StartClient \/ Exit)
-----------------------------------------------------------------------------
Records == [open : 0..MaxNow, val : 0..2]

(* Every variable stays in its type.                                       *)
TypeOK ==
    /\ file \in Seq(Records) /\ cache \in Seq(Records) /\ feed \in Seq(Records)
    /\ history \subseteq Records /\ warm.page \subseteq Records
    /\ Cardinality(Opens(history)) = Cardinality(history)
    /\ bounds \in [min : Nat, max : Nat] /\ ready \in BOOLEAN /\ anchor \in Nat
    /\ limits \in [max : -Extreme..Extreme, min : -Extreme..Extreme] /\ cursor \in Nat
    /\ warm.pc \in {"off", "fetch", "answer", "save", "cursor", "ingest", "copy",
                    "replace", "done"}
    /\ warm.copy \in Seq(Records)
    /\ tick.pc \in {"idle", "save", "ingest"} /\ tick.data \in Records
    /\ io \in {"off", "connecting", "read", "handler", "timer", "spent"}
    /\ {connected, wsOpen, stopped} \subseteq BOOLEAN /\ delay \in 1..MaxDelay

(* A candle that was written leaves the file only when saveRecords or the  *)
(* constructor fails to open it and so empties it, whichever of the        *)
(* appends of the io thread and the merging writes of the warm-up thread   *)
(* comes first, and across restarts.  Even then the running process has    *)
(* it: no candle leaves the map while the process lives, and the file      *)
(* never holds one that neither the map nor a thread has.                  *)
Remembers ==
    /\ faults' = faults => OpensOf(file) \subseteq OpensOf(file')
    /\ main' \notin {"down", "ended"} =>
           /\ Opens(history) \subseteq Opens(history')
           /\ OpensOf(file') \subseteq Opens(history') \union InHand'
NothingIsForgotten == [][Remembers]_feedVars

(* actualize comes to an end: no page makes it ask for the same candles    *)
(* again and again.                                                        *)
WarmupEnds == warm.pc = "fetch" ~> warm.pc \in {"done", "off"}

(* After any failure the client reads again, unless it is switched off.    *)
Reconnects == connected ~> (wsOpen \/ ~connected)

(* What the README says of the warm-up thread: once it has fetched the     *)
(* history batch after batch, every candle of the exchange up to the       *)
(* newest known one is known.                                              *)
WarmupLeavesNoHole ==
    warm.pc = "done" /\ tick.pc = "idle" /\ faults = 0 /\ history # {} =>
        \A t \in Traded : t <= NewestOpen(history) => t \in Opens(history)
=============================================================================
