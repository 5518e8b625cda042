--------------------------- MODULE ExchangeProofs ---------------------------
(***************************************************************************)
(* What the exchange's answers and updates do to the repository through    *)
(* all of the orchestrator's threads: whatever they append is a call the   *)
(* repository's own specification knows, so its theorems hold for the      *)
(* whole orchestrator; the final value of a candle stays; and a repaired   *)
(* gap is closed.                                                          *)
(***************************************************************************)
EXTENDS SyncProofs

(* What the exchange may have sent when its candle in progress is n.       *)
Sent(n) == {c \in Candle : OnGrid(c.open) /\ Listed <= c.open /\ c.open <= n}

SourceInv ==
    /\ OnGrid(now) /\ FirstNow <= now /\ now <= MaxNow
    /\ feed \in Seq(Sent(now))
    /\ \A th \in Rest : task[th].batch \in Seq(Sent(now)) /\ task[th].todo \in Seq(Sent(now))

(***************************************************************************)
(* The grid, and pages                                                     *)
(***************************************************************************)
LEMMA DividesEvenly ==
    ASSUME NEW t \in Nat, NEW i \in Nat \ {0}, t % i = 0
    PROVE  (t \div i) * i = t
  BY SMT

LEMMA OnGridTimes ==
    ASSUME NEW t \in Nat, t > 0, t % Interval = 0
    PROVE  OnGrid(t)
  <1>1. AlignDown(t, Interval) = t
    BY DividesEvenly, IntervalAssumption DEF AlignDown
  <1>2. QED
    BY <1>1, AlignDownOnGrid

LEMMA GridSteps ==
    ASSUME NEW s, OnGrid(s), NEW t, OnGrid(t)
    PROVE  /\ OnGrid(s + Interval)
           /\ s < t => s + Interval <= t
  <1> DEFINE j == s \div Interval
             k == t \div Interval
  <1>1. /\ j \in Nat /\ k \in Nat /\ s = j * Interval /\ t = k * Interval
        /\ Interval \in Nat \ {0} /\ s \in Nat /\ t \in Nat /\ s > 0
    BY AlignDownIsMultiple, IntervalAssumption DEF OnGrid
  <1> HIDE DEF j, k
  <1>2. s < t => s + Interval <= t
    <2>1. SUFFICES ASSUME s < t PROVE s + Interval <= t
      OBVIOUS
    <2>2. j + 1 <= k
      BY <1>1, <2>1, SMT
    <2>3. (j + 1) * Interval <= k * Interval /\ (j + 1) * Interval = j * Interval + Interval
      BY <1>1, <2>2, SMT
    <2>4. QED
      BY <1>1, <2>3
  <1>3. OnGrid(s + Interval)
    <2>1. s + Interval = (j + 1) * Interval /\ j + 1 \in Nat
      BY <1>1, SMT
    <2>2. AlignDown(s + Interval, Interval) = s + Interval
      BY <1>1, <2>1, AlignDownOfMultiple
    <2>3. s + Interval \in Nat /\ s + Interval > 0
      BY <1>1
    <2>4. QED
      BY <2>2, <2>3, AlignDownOnGrid
  <1>4. QED
    BY <1>2, <1>3

LEMMA SeqWiden ==
    ASSUME NEW S, NEW T, S \subseteq T, NEW s \in Seq(S)
    PROVE  s \in Seq(T)
  <1>1. Len(s) \in Nat /\ s = [i \in 1..Len(s) |-> s[i]] /\ \A i \in 1..Len(s) : s[i] \in S
    BY LenProperties, ElementOfSeq
  <1>2. QED
    BY <1>1

LEMMA SentLater ==
    ASSUME NEW m \in Nat, NEW n \in Nat, m <= n
    PROVE  Sent(m) \subseteq Sent(n) /\ Sent(m) \subseteq Candle
  <1>1. ASSUME NEW c \in Sent(m)
        PROVE  c \in Sent(n)
    <2>1. c.open \in Nat
      BY DEF Sent, Candle
    <2>2. QED
      BY <2>1 DEF Sent
  <1>2. QED
    BY <1>1 DEF Sent

LEMMA KlineIsSent ==
    ASSUME now \in Nat, NEW t \in Listed..now, t % Interval = 0
    PROVE  Kline(t) \in Sent(now)
  <1>1. t \in Nat /\ t > 0 /\ Listed <= t /\ t <= now
    BY SyncAssumption
  <1>2. OnGrid(t)
    BY <1>1, OnGridTimes
  <1>3. Kline(t) \in Candle /\ Kline(t).open = t
    BY <1>1, SyncAssumption DEF Kline, Candle
  <1>4. QED
    BY <1>1, <1>2, <1>3 DEF Sent

LEMMA AnswersAreSent ==
    ASSUME now \in Nat, faults \in 0..MaxFaults, NEW from, NEW to, NEW limit \in Int,
           NEW got \in FetchRange(from, to, limit)
    PROVE  got.page \in Seq(Sent(now))
  <1>1. Klines(from, to, limit) \in Seq(Sent(now))
    BY KlineIsSent, KlinesAreFrom
  <1>2. QED
    BY <1>1, AnswersAreFrom

(***************************************************************************)
(* The pages in hand                                                       *)
(***************************************************************************)
LEMMA TodoSet ==
    ASSUME task \in [Rest -> Page], NEW th \in Rest, NEW todo,
           task' = [task EXCEPT ![th].todo = todo]
    PROVE  /\ task'[th].todo = todo /\ task'[th].batch = task[th].batch
           /\ task'[th].gap = task[th].gap /\ task'[th].from = task[th].from
           /\ \A u \in Rest : u # th => task'[u] = task[u]
  <1> DEFINE mine == [task[th] EXCEPT !.todo = todo]
  <1>1. task[th] \in Page
    OBVIOUS
  <1>2. /\ mine.todo = todo /\ mine.batch = task[th].batch
        /\ mine.gap = task[th].gap /\ mine.from = task[th].from
    BY <1>1 DEF Page
  <1>3. task' = [task EXCEPT ![th] = mine]
    OBVIOUS
  <1> HIDE DEF mine
  <1>4. \A u \in Rest : task'[u] = IF u = th THEN mine ELSE task[u]
    BY <1>3
  <1>5. QED
    BY <1>2, <1>4

LEMMA AppendTask ==
    ASSUME task \in [Rest -> Page], NEW th \in Rest, AppendPage(th)
    PROVE  /\ task'[th].todo = Tail(task[th].todo) /\ task'[th].batch = task[th].batch
           /\ task'[th].gap = (IF Refused THEN <<answer'>> ELSE task[th].gap)
           /\ \A u \in Rest : u # th => task'[u] = task[u]
  <1> DEFINE gap == IF Refused THEN <<answer'>> ELSE task[th].gap
             rest == Tail(task[th].todo)
             mine == [[task[th] EXCEPT !.todo = rest] EXCEPT !.gap = gap]
  <1>1. task[th] \in Page
    OBVIOUS
  <1>2. task' = [task EXCEPT ![th] = mine]
    BY <1>1 DEF AppendPage, Page
  <1> HIDE DEF rest, gap
  <1>3. mine.todo = rest /\ mine.batch = task[th].batch /\ mine.gap = gap
    BY <1>1 DEF Page
  <1> HIDE DEF mine
  <1>4. \A u \in Rest : task'[u] = IF u = th THEN mine ELSE task[u]
    BY <1>2
  <1>5. QED
    BY <1>3, <1>4 DEF rest, gap

LEMMA PageSet ==
    ASSUME task \in [Rest -> Page], NEW th \in Rest, NEW page,
           task' = [task EXCEPT ![th] = TaskOf(page)]
    PROVE  /\ task'[th].todo = page /\ task'[th].batch = page
           /\ \A u \in Rest : u # th => task'[u] = task[u]
  BY DEF TaskOf

LEMMA RepairLimit ==
    ASSUME SyncInv, NEW th \in Rest, Repair(th)
    PROVE  LET gap == task[th].gap[1]
           IN  (gap.to - gap.from + Interval - 1) \div Interval \in Int
  <1> DEFINE gap == task[th].gap[1]
  <1>1. task[th].gap # <<>> /\ task[th].gap \in Seq(Answer)
    BY PlanFields DEF Repair, SyncInv, PhaseInv, Page
  <1>2. gap \in Answer
    BY <1>1, EmptySeq, ElementOfSeq
  <1>3. gap.to \in Int /\ gap.from \in Int
    BY <1>2 DEF Answer
  <1> HIDE DEF gap
  <1>4. gap.to - gap.from + Interval - 1 \in Int /\ Interval \in Nat \ {0}
    BY <1>3, IntervalAssumption
  <1>5. (gap.to - gap.from + Interval - 1) \div Interval \in Int
    BY <1>4
  <1>6. QED
    BY <1>5 DEF gap

(* What is left of a page, and what of it is tried again, was in it.       *)
LEMMA RestStepPages ==
    ASSUME SyncInv, NEW th \in Rest, RestStep(th), NEW S,
           task[th].batch \in Seq(S), task[th].todo \in Seq(S),
           \A from, to, limit : limit \in Int
               => \A got \in FetchRange(from, to, limit) : got.page \in Seq(S)
    PROVE  /\ task'[th].batch \in Seq(S) /\ task'[th].todo \in Seq(S)
           /\ \A u \in Rest : u # th => task'[u] = task[u]
  <1>1. task \in [Rest -> Page]
    BY PlanFields
  <1>2. /\ task[th].todo # <<>> => Tail(task[th].todo) \in Seq(S)
        /\ Retried(th) \in Seq(S) /\ <<>> \in Seq(S)
    BY HeadTailProperties, RetriedFrom, EmptySeq
  <1>3. CASE AppendPage(th)
    <2>1. task[th].todo # <<>>
      BY <1>3 DEF AppendPage, AppendHead
    <2>2. QED
      BY <1>1, <1>2, <1>3, <2>1, AppendTask
  <1>4. CASE Fill(th) \/ Retry(th)
    <2>1. task[th].todo # <<>>
      BY <1>4 DEF Fill, Retry, AppendHead
    <2>2. PICK todo \in Seq(S) : task' = [task EXCEPT ![th].todo = todo]
      BY <1>2, <1>4, <2>1 DEF Fill, Retry
    <2>3. QED
      BY <1>1, <2>2, TodoSet
  <1>5. CASE Repair(th)
    <2> DEFINE gap == task[th].gap[1]
               limit == (gap.to - gap.from + Interval - 1) \div Interval
    <2>1. limit \in Int
      BY <1>5, RepairLimit
    <2>2. \/ task' = task
          \/ \E missing \in FetchRange(gap.from, gap.to - 1, limit) :
                task' = [task EXCEPT ![th].todo =
                           IF missing.page = <<>> THEN Retried(th) ELSE missing.page]
      BY <1>5 DEF Repair
    <2> HIDE DEF gap, limit
    <2>3. CASE task' = task
      BY <2>3
    <2>4. ASSUME NEW missing \in FetchRange(gap.from, gap.to - 1, limit),
                 task' = [task EXCEPT ![th].todo =
                           IF missing.page = <<>> THEN Retried(th) ELSE missing.page]
          PROVE  /\ task'[th].batch \in Seq(S) /\ task'[th].todo \in Seq(S)
                 /\ \A u \in Rest : u # th => task'[u] = task[u]
      <3>1. missing.page \in Seq(S)
        BY <2>1
      <3>2. PICK todo \in Seq(S) : task' = [task EXCEPT ![th].todo = todo]
        BY <1>2, <2>4, <3>1
      <3>3. QED
        BY <1>1, <3>2, TodoSet
    <2>5. QED
      BY <2>2, <2>3, <2>4
  <1>6. QED
    BY <1>3, <1>4, <1>5 DEF RestStep

(***************************************************************************)
(* Where candles come from                                                 *)
(***************************************************************************)
LEMMA SourceStarts ==
    ASSUME SyncInit
    PROVE  SourceInv
  <1>1. now = FirstNow /\ feed = <<>> /\ task = [th \in Rest |-> NoTask]
    BY DEF SyncInit, Idle
  <1>2. OnGrid(FirstNow) /\ FirstNow <= MaxNow /\ FirstNow \in Nat
    BY OnGridTimes, SyncAssumption
  <1>3. <<>> \in Seq(Sent(now))
    BY EmptySeq
  <1>4. \A th \in Rest : task[th].batch = <<>> /\ task[th].todo = <<>>
    BY <1>1 DEF NoTask, TaskOf
  <1>5. now \in Nat /\ FirstNow <= now
    BY <1>1, <1>2
  <1>6. QED
    BY <1>1, <1>2, <1>3, <1>4, <1>5 DEF SourceInv

LEMMA SourceStep ==
    ASSUME SyncInv, SourceInv, [SyncNext]_syncVars
    PROVE  SourceInv'
  <1>1. /\ OnGrid(now) /\ FirstNow <= now /\ now <= MaxNow /\ feed \in Seq(Sent(now))
        /\ \A th \in Rest : /\ task[th].batch \in Seq(Sent(now))
                            /\ task[th].todo \in Seq(Sent(now))
        /\ task \in [Rest -> Page] /\ now \in Nat /\ FirstNow \in Nat /\ MaxNow \in Nat
        /\ faults \in 0..MaxFaults
    BY PlanFields, SyncAssumption DEF SourceInv
  <1>2. <<>> \in Seq(Sent(now)) /\ NoTask.batch = <<>> /\ NoTask.todo = <<>>
    BY EmptySeq DEF NoTask, TaskOf
  <1>3. feed # <<>> => Tail(feed) \in Seq(Sent(now))
    BY <1>1, HeadTailProperties
  <1>4. \A final \in BOOLEAN : Append(feed, Update(now, final)) \in Seq(Sent(now))
    <2>1. ASSUME NEW final \in BOOLEAN
          PROVE  Update(now, final) \in Sent(now)
      <3>1. Update(now, final) \in Candle /\ Update(now, final).open = now
        BY <1>1, UpdateIsCandle DEF Update
      <3>2. QED
        BY <1>1, <3>1, SyncAssumption DEF Sent
    <2>2. QED
      BY <1>1, <2>1, AppendProperties
  <1>5. CASE Tick
    <2>1. /\ now' = now + Interval /\ now' <= MaxNow /\ task' = task
          /\ feed' = feed \/ feed' = Append(feed, Update(now, TRUE))
      BY <1>5 DEF Tick
    <2>2. OnGrid(now') /\ now <= now' /\ now' \in Nat
      <3>1. OnGrid(now + Interval)
        BY <1>1, GridSteps
      <3>2. QED
        BY <1>1, <2>1, <3>1, IntervalAssumption
    <2>3. Sent(now) \subseteq Sent(now')
      BY <1>1, <2>2, SentLater
    <2>4. feed' \in Seq(Sent(now))
      BY <1>1, <1>4, <2>1
    <2>5. /\ feed' \in Seq(Sent(now'))
          /\ \A th \in Rest : /\ task'[th].batch \in Seq(Sent(now'))
                              /\ task'[th].todo \in Seq(Sent(now'))
      BY <1>1, <2>1, <2>3, <2>4, SeqWiden
    <2>6. QED
      BY <1>1, <2>1, <2>2, <2>5 DEF SourceInv
  <1>6. CASE Push \/ Disconnect \/ IgnoreLive \/ HandleLive \/ StopLiveStream
    <2>1. now' = now /\ task' = task
      BY <1>6 DEF Push, Disconnect, IgnoreLive, HandleLive, StopLiveStream
    <2>2. feed' \in Seq(Sent(now))
      BY <1>2, <1>3, <1>4, <1>6 DEF Push, Disconnect, IgnoreLive, HandleLive, StopLiveStream
    <2>3. QED
      BY <1>1, <2>1, <2>2 DEF SourceInv
  <1>7. CASE Die
    <2>1. now' = now /\ feed' = <<>> /\ \A th \in Rest : task'[th] = NoTask
      BY <1>7 DEF Die, Restarted
    <2>2. QED
      BY <1>1, <1>2, <2>1 DEF SourceInv
  <1>8. ASSUME now' = now, feed' = feed,
               \A th \in Rest : /\ task'[th].batch \in Seq(Sent(now))
                                /\ task'[th].todo \in Seq(Sent(now))
        PROVE  SourceInv'
    BY <1>1, <1>8 DEF SourceInv
  <1>9. CASE FetchPage \/ FetchOlder
    <2>1. now' = now /\ feed' = feed
      BY <1>9 DEF FetchPage, FetchOlder
    <2>2. Batch \in Int /\ PageBars \in Int
      BY SyncAssumption
    <2>3. PICK th \in Rest, page \in Seq(Sent(now)) : task' = [task EXCEPT ![th] = TaskOf(page)]
      BY <1>1, <1>9, <2>2, AnswersAreSent DEF FetchPage, FetchOlder, Rest
    <2>4. /\ task'[th].todo = page /\ task'[th].batch = page
          /\ \A u \in Rest : u # th => task'[u] = task[u]
      BY <1>1, <2>3, PageSet
    <2>5. \A u \in Rest : task'[u].batch \in Seq(Sent(now)) /\ task'[u].todo \in Seq(Sent(now))
      BY <1>1, <2>4
    <2>6. QED
      BY <1>8, <2>1, <2>5
  <1>10. CASE NextPage \/ EndRun \/ StartLiveStream
    <2>1. now' = now /\ feed' = feed /\ task' = [task EXCEPT !["worker"] = NoTask]
      BY <1>10 DEF NextPage, EndRun, StartLiveStream, exchangeVars
    <2>2. \A th \in Rest : task'[th] = NoTask \/ task'[th] = task[th]
      BY <1>1, <2>1
    <2>3. QED
      BY <1>1, <1>2, <1>8, <2>1, <2>2
  <1>11. ASSUME NEW th \in Rest, RestStep(th)
         PROVE  SourceInv'
    <2>1. now' = now /\ feed' = feed
      BY <1>11 DEF RestStep, AppendPage, Repair, Fill, Retry, exchangeVars
    <2>2. \A from, to, limit : limit \in Int
              => \A got \in FetchRange(from, to, limit) : got.page \in Seq(Sent(now))
      BY <1>1, AnswersAreSent
    <2>3. QED
      BY <1>1, <1>8, <1>11, <2>1, <2>2, RestStepPages
  <1>12. CASE RequestBackfillOlder
    <2>1. now' = now /\ feed' = feed
          /\ \E start : task' = [task EXCEPT !["pager"].from = start]
      BY <1>12 DEF RequestBackfillOlder, exchangeVars
    <2>2. \A th \in Rest : task'[th].batch = task[th].batch /\ task'[th].todo = task[th].todo
      BY <1>1, <2>1 DEF Page, Rest
    <2>3. QED
      BY <1>1, <1>8, <2>1, <2>2
  <1>13. CASE UNCHANGED <<now, feed, task>>
    BY <1>1, <1>8, <1>13
  <1>14. QED
    <2>1. \/ UNCHANGED <<now, feed, task>> \/ Tick \/ Push \/ Disconnect \/ IgnoreLive \/ HandleLive
          \/ StopLiveStream \/ Die \/ FetchPage \/ FetchOlder \/ NextPage \/ EndRun
          \/ StartLiveStream \/ RequestBackfillOlder \/ \E th \in Rest : RestStep(th)
      BY DEF SyncNext, Connect, Boot, Stop, WorkerStep, LeaveLoop, GiveUp, AcceptPage, Widen,
             BeginBackfill, PublishStep, TakeSnapshot, UpdateCache, syncVars, exchangeVars
    <2>2. QED
      BY <1>5, <1>6, <1>7, <1>9, <1>10, <1>11, <1>12, <1>13, <2>1

(***************************************************************************)
(* A thread that is to append has a candle to append                       *)
(***************************************************************************)
InPage(c, page) == \E j \in 1..Len(page) : page[j] = c

HandInv(th) ==
    LET t == task[th]
    IN  /\ pc[th] = "received" => t.todo = t.batch
        /\ pc[th] \in {"append", "fill", "retry"} => t.todo # <<>>
        /\ pc[th] = "append" => \A i \in 1..Len(t.todo) : InPage(t.todo[i], t.batch)
        /\ pc[th] \in {"repair", "fill"} =>
              \E j \in 1..Len(t.batch) : AlignDown(t.batch[j].open, Interval) >= t.gap[1].to

LEMMA TailElements ==
    ASSUME NEW S, NEW s \in Seq(S), s # <<>>
    PROVE  /\ Tail(s) \in Seq(S) /\ Len(Tail(s)) = Len(s) - 1 /\ Len(s) \in Nat \ {0}
           /\ \A i \in 1..Len(Tail(s)) : i + 1 \in 1..Len(s) /\ Tail(s)[i] = s[i + 1]
           /\ Head(s) = s[1] /\ 1 \in 1..Len(s) /\ Head(s) \in S
           /\ Len(s) # 1 => Tail(s) # <<>>
  <1>1. /\ Head(s) \in S /\ Head(s) = s[1] /\ Tail(s) \in Seq(S)
        /\ Len(Tail(s)) = Len(s) - 1 /\ \A i \in 1..Len(Tail(s)) : Tail(s)[i] = s[i + 1]
    BY HeadTailProperties
  <1>2. Len(s) \in Nat \ {0}
    BY LenProperties, EmptySeq
  <1>3. Tail(s) = <<>> => Len(Tail(s)) = 0
    BY EmptySeq
  <1>4. QED
    BY <1>1, <1>2, <1>3

LEMMA RetriedSome ==
    ASSUME NEW th \in Rest, task[th].batch \in Seq(Candle),
           \E j \in 1..Len(task[th].batch) :
              AlignDown(task[th].batch[j].open, Interval) >= task[th].gap[1].to
    PROVE  Retried(th) # <<>>
  <1> DEFINE batch == task[th].batch
             I == {i \in 1..Len(batch) :
                     AlignDown(batch[i].open, Interval) >= task[th].gap[1].to}
             at == Ascending(I)
  <1>1. Len(batch) \in Nat /\ I \subseteq 1..Len(batch) /\ I \subseteq Int /\ I # {}
    BY LenProperties
  <1>2. IsFiniteSet(I)
    <2> HIDE DEF I, batch
    <2>1. IsFiniteSet(1..Len(batch)) /\ I \in SUBSET (1..Len(batch))
      BY <1>1, FS_Interval
    <2>2. QED
      BY <2>1, FS_Subset
  <1>3. Retried(th) = [k \in 1..Len(at) |-> batch[at[k]]]
    BY DEF Retried, Part
  <1> HIDE DEF batch, I
  <1>4. Len(at) = Cardinality(I) /\ Cardinality(I) \in Nat /\ Cardinality(I) # 0
    BY <1>1, <1>2, AscendingElements, FS_CardinalityType, FS_EmptySet
  <1> HIDE DEF at
  <1>5. 1 \in DOMAIN Retried(th)
    BY <1>3, <1>4
  <1>6. DOMAIN <<>> = {}
    OBVIOUS
  <1>7. QED
    BY <1>5, <1>6

(* What a gap answer says of the candle that was refused.                  *)
LEMMA RefusedGap ==
    ASSUME SyncInv, NEW c \in Candle, AppendOrReplace(c), Refused
    PROVE  /\ ReportGap(NormalizeCandle(c))
           /\ answer'.to = AlignDown(c.open, Interval)
           /\ UNCHANGED <<candles, metadata, file, opened>> /\ candles # <<>>
           /\ answer'.to > LastOf(candles).open
  <1> DEFINE n == NormalizeCandle(c)
  <1>1. n \in Candle /\ n.open = AlignDown(c.open, Interval) /\ n.open \in Nat
    BY NormalisedCandle DEF NormalizeCandle, Candle
  <1>2. /\ UNCHANGED opened
        /\ \/ IgnoreInvalid(n) \/ AppendFirst(n) \/ KeepClosedTail(n)
           \/ ReplaceTail(n) \/ IgnoreOlder(n) \/ ReportGap(n) \/ AppendNext(n)
    BY DEF AppendOrReplace
  <1> HIDE DEF n
  <1>3. ReportGap(n)
    BY <1>2 DEF Refused, IgnoreInvalid, AppendFirst, KeepClosedTail, ReplaceTail, IgnoreOlder,
                AppendNext, Answered
  <1>4. /\ candles # <<>> /\ answer'.to = n.open /\ n.open > Expected
        /\ UNCHANGED <<candles, metadata, file>>
    BY <1>3 DEF ReportGap
  <1>5. LastOf(candles).open \in Nat
    BY <1>4, PlanFields, NewestOpen
  <1>6. n.open > LastOf(candles).open
    BY <1>1, <1>4, <1>5, IntervalAssumption DEF Expected
  <1>7. QED
    BY <1>1, <1>2, <1>3, <1>4, <1>6 DEF n

LEMMA HandKept ==
    ASSUME NEW th \in Rest, HandInv(th),
           \/ pc'[th] = pc[th] /\ task'[th] = task[th]
           \/ pc'[th] \notin {"received", "append", "repair", "fill", "retry"}
    PROVE  HandInv(th)'
  BY DEF HandInv, InPage

LEMMA RestStepHand ==
    ASSUME SyncInv, NEW th \in Rest, HandInv(th), RestStep(th)
    PROVE  HandInv(th)'
  <1>1. /\ task \in [Rest -> Page] /\ pc \in [Threads -> Labels] /\ th \in Threads
        /\ task[th].todo \in Seq(Candle) /\ task[th].batch \in Seq(Candle)
    BY PlanFields DEF Page, Rest, Threads
  <1>2. task[th].todo # <<>> =>
           /\ Len(task[th].todo) # 1 => Tail(task[th].todo) # <<>>
           /\ \A i \in 1..Len(Tail(task[th].todo)) :
                 /\ i + 1 \in 1..Len(task[th].todo)
                 /\ Tail(task[th].todo)[i] = task[th].todo[i + 1]
           /\ Head(task[th].todo) = task[th].todo[1] /\ 1 \in 1..Len(task[th].todo)
           /\ Head(task[th].todo) \in Candle
    BY <1>1, TailElements
  <1>3. pc[th] \in {"repair", "fill"} => Retried(th) # <<>>
    BY <1>1, RetriedSome DEF HandInv
  <1>4. CASE AppendPage(th)
    <2>1. /\ pc[th] = "append" /\ task[th].todo # <<>>
          /\ AppendOrReplace(Head(task[th].todo))
          /\ pc'[th] = IF Refused THEN "repair"
                       ELSE IF Len(task[th].todo) = 1 THEN "publish" ELSE "append"
      BY <1>1, <1>4 DEF AppendPage, AppendHead, At
    <2>2. /\ task'[th].todo = Tail(task[th].todo) /\ task'[th].batch = task[th].batch
          /\ task'[th].gap = (IF Refused THEN <<answer'>> ELSE task[th].gap)
      BY <1>1, <1>4, AppendTask
    <2>3. CASE Refused
      <3>1. pc'[th] = "repair" /\ task'[th].gap = <<answer'>>
        BY <2>1, <2>2, <2>3
      <3>2. answer'.to = AlignDown(Head(task[th].todo).open, Interval) /\ answer'.to \in Int
        <4>1. AlignDown(Head(task[th].todo).open, Interval) \in Nat
          BY <1>2, <2>1, AlignDownIsMultiple, IntervalAssumption DEF Candle
        <4>2. QED
          BY <1>2, <2>1, <2>3, <4>1, RefusedGap
      <3>3. InPage(Head(task[th].todo), task[th].batch)
        BY <1>2, <2>1 DEF HandInv
      <3>4. \E j \in 1..Len(task[th].batch) :
               AlignDown(task[th].batch[j].open, Interval) >= answer'.to
        BY <3>2, <3>3 DEF InPage
      <3>5. task'[th].gap[1] = answer'
        BY <3>1
      <3>6. QED
        BY <2>2, <3>1, <3>4, <3>5 DEF HandInv
    <2>4. CASE ~Refused /\ Len(task[th].todo) # 1
      <3>1. pc'[th] = "append"
        BY <2>1, <2>4
      <3>2. task'[th].todo # <<>>
        BY <1>2, <2>1, <2>2, <2>4
      <3>3. \A i \in 1..Len(task'[th].todo) : InPage(task'[th].todo[i], task[th].batch)
        BY <1>2, <2>1, <2>2 DEF HandInv
      <3>4. QED
        BY <2>2, <3>1, <3>2, <3>3 DEF HandInv, InPage
    <2>5. CASE ~Refused /\ Len(task[th].todo) = 1
      BY <2>1, <2>5, HandKept
    <2>6. QED
      BY <2>3, <2>4, <2>5
  <1>5. CASE Fill(th)
    <2> DEFINE done == Refused \/ Len(task[th].todo) = 1
    <2>1. /\ pc[th] = "fill" /\ task[th].todo # <<>>
          /\ task' = [task EXCEPT ![th].todo = IF done THEN Retried(th) ELSE Tail(@)]
          /\ pc'[th] = IF done THEN "retry" ELSE "fill"
      BY <1>1, <1>5 DEF Fill, AppendHead, At
    <2>2. CASE done
      <3>1. task'[th].todo = Retried(th) /\ pc'[th] = "retry"
        BY <1>1, <2>1, <2>2, TodoSet
      <3>2. QED
        BY <1>3, <2>1, <3>1 DEF HandInv
    <2>3. CASE ~done
      <3>1. task' = [task EXCEPT ![th].todo = Tail(task[th].todo)] /\ pc'[th] = "fill"
        BY <1>1, <2>1, <2>3
      <3>2. /\ task'[th].todo = Tail(task[th].todo)
            /\ task'[th].batch = task[th].batch /\ task'[th].gap = task[th].gap
        BY <1>1, <3>1, TodoSet
      <3>3. QED
        BY <1>2, <2>1, <2>3, <3>1, <3>2 DEF HandInv
    <2>4. QED
      BY <2>2, <2>3
  <1>6. CASE Retry(th)
    <2> DEFINE done == Refused \/ Len(task[th].todo) = 1
    <2>1. /\ pc[th] = "retry" /\ task[th].todo # <<>>
          /\ task' = [task EXCEPT ![th].todo = IF done THEN <<>> ELSE Tail(@)]
          /\ pc'[th] = IF done THEN "publish" ELSE "retry"
      BY <1>1, <1>6 DEF Retry, AppendHead, At
    <2>2. CASE done
      BY <2>1, <2>2, HandKept
    <2>3. CASE ~done
      <3>1. task' = [task EXCEPT ![th].todo = Tail(task[th].todo)] /\ pc'[th] = "retry"
        BY <1>1, <2>1, <2>3
      <3>2. task'[th].todo = Tail(task[th].todo)
        BY <1>1, <3>1, TodoSet
      <3>3. QED
        BY <1>2, <2>1, <2>3, <3>1, <3>2 DEF HandInv
    <2>4. QED
      BY <2>2, <2>3
  <1>7. CASE Repair(th)
    <2>1. pc[th] = "repair"
      BY <1>7 DEF Repair
    <2>2. CASE pc'[th] = "publish"
      BY <2>2, HandKept
    <2>3. CASE pc'[th] # "publish"
      <3>1. PICK page : /\ task' = [task EXCEPT ![th].todo =
                                      IF page = <<>> THEN Retried(th) ELSE page]
                        /\ pc'[th] = IF page = <<>> THEN "retry" ELSE "fill"
        BY <1>1, <1>7, <2>3 DEF Repair, At
      <3>2. /\ task'[th].todo = (IF page = <<>> THEN Retried(th) ELSE page)
            /\ task'[th].batch = task[th].batch /\ task'[th].gap = task[th].gap
        BY <1>1, <3>1, TodoSet
      <3>3. QED
        BY <1>3, <2>1, <3>1, <3>2 DEF HandInv
    <2>4. QED
      BY <2>2, <2>3
  <1>8. QED
    BY <1>4, <1>5, <1>6, <1>7 DEF RestStep

LEMMA HandStarts ==
    ASSUME SyncInit
    PROVE  \A th \in Rest : HandInv(th)
  <1>1. \A th \in Rest : pc[th] = "off"
    BY DEF SyncInit, Idle, Rest, Threads
  <1>2. QED
    BY <1>1 DEF HandInv

LEMMA HandStep ==
    ASSUME SyncInv, \A th \in Rest : HandInv(th), [SyncNext]_syncVars, NEW th \in Rest
    PROVE  HandInv(th)'
  <1>1. /\ task \in [Rest -> Page] /\ pc \in [Threads -> Labels] /\ th \in Threads
        /\ HandInv(th)
    BY PlanFields DEF Rest, Threads
  <1>2. CASE pc' = pc /\ task' = task
    BY <1>1, <1>2, HandKept
  <1>3. ASSUME NEW u \in Rest, RestStep(u)
        PROVE  HandInv(th)'
    <2>1. CASE u = th
      BY <1>1, <1>3, <2>1, RestStepHand
    <2>2. CASE u # th
      <3>1. task'[th] = task[th]
        <4>1. \/ task' = task \/ AppendPage(u)
              \/ \E todo : task' = [task EXCEPT ![u].todo = todo]
          BY <1>3 DEF RestStep, Repair, Fill, Retry
        <4>2. QED
          BY <1>1, <2>2, <4>1, AppendTask, TodoSet
      <3>2. pc'[th] = pc[th]
        BY <1>1, <1>3, <2>2 DEF RestStep, AppendPage, Repair, Fill, Retry, At
      <3>3. QED
        BY <1>1, <3>1, <3>2, HandKept
    <2>3. QED
      BY <2>1, <2>2
  <1>4. CASE FetchPage
    <2>1. PICK page : task' = [task EXCEPT !["worker"] = TaskOf(page)]
      BY <1>4 DEF FetchPage
    <2>2. pc' = [pc EXCEPT !["worker"] = "received"]
      BY <1>4 DEF FetchPage, At
    <2>3. CASE th = "worker"
      <3>1. task'[th].todo = task'[th].batch /\ pc'[th] = "received"
        BY <1>1, <2>1, <2>2, <2>3, PageSet
      <3>2. QED
        BY <3>1 DEF HandInv
    <2>4. CASE th # "worker"
      BY <1>1, <2>1, <2>2, <2>4, HandKept
    <2>5. QED
      BY <2>3, <2>4
  <1>5. CASE AcceptPage
    <2>1. /\ pc["worker"] = "received" /\ task["worker"].batch # <<>> /\ task' = task
          /\ pc' = [pc EXCEPT !["worker"] = "append"]
      BY <1>5 DEF AcceptPage, At
    <2>2. CASE th = "worker"
      <3>1. pc'[th] = "append" /\ task[th].todo = task[th].batch
        BY <1>1, <2>1, <2>2 DEF HandInv
      <3>2. \A i \in 1..Len(task[th].todo) : InPage(task[th].todo[i], task[th].batch)
        BY <3>1 DEF InPage
      <3>3. QED
        BY <2>1, <2>2, <3>1, <3>2 DEF HandInv, InPage
    <2>3. CASE th # "worker"
      BY <1>1, <2>1, <2>3, HandKept
    <2>4. QED
      BY <2>2, <2>3
  <1>6. CASE FetchOlder
    <2>1. PICK page : /\ task' = [task EXCEPT !["pager"] = TaskOf(page)]
                      /\ pc' = [pc EXCEPT !["pager"] = IF page = <<>> THEN "off" ELSE "append"]
      BY <1>6 DEF FetchOlder, At
    <2>2. CASE th = "pager" /\ page = <<>>
      BY <1>1, <2>1, <2>2, HandKept
    <2>3. CASE th = "pager" /\ page # <<>>
      <3>1. task'[th].todo = page /\ task'[th].batch = page /\ pc'[th] = "append"
        BY <1>1, <2>1, <2>3, PageSet
      <3>2. \A i \in 1..Len(page) : InPage(page[i], page)
        BY DEF InPage
      <3>3. QED
        BY <2>3, <3>1, <3>2 DEF HandInv, InPage
    <2>4. CASE th # "pager"
      BY <1>1, <2>1, <2>4, HandKept
    <2>5. QED
      BY <2>2, <2>3, <2>4
  <1>7. CASE NextPage \/ EndRun \/ StartLiveStream \/ RequestBackfillOlder
    <2>1. \E u \in Rest, l \in {"request", "lastPublish", "off", "live"} :
             /\ pc'[u] = l /\ \A v \in Rest : v # u => pc'[v] = pc[v] /\ task'[v] = task[v]
      BY <1>1, <1>7 DEF NextPage, EndRun, StartLiveStream, RequestBackfillOlder, At, Rest,
                        Threads
    <2>2. QED
      BY <1>1, <2>1, HandKept
  <1>8. ASSUME task' = task, NEW u \in Threads,
               NEW l \in Labels \ {"received", "append", "repair", "fill", "retry"},
               pc' = [pc EXCEPT ![u] = l]
        PROVE  HandInv(th)'
    BY <1>1, <1>8, HandKept
  <1>9. CASE BeginBackfill \/ LeaveLoop \/ Widen \/ GiveUp \/ Boot
    <2>1. task' = task /\ (At("worker", "request") \/ At("worker", "lastPublish")
                           \/ At("worker", "begin"))
      BY <1>9 DEF BeginBackfill, LeaveLoop, Widen, GiveUp, Boot
    <2>2. QED
      BY <1>8, <2>1 DEF At, Labels, Threads
  <1>10. ASSUME NEW u \in Threads, PublishStep(u)
         PROVE  HandInv(th)'
    <2>1. /\ task' = task
          /\ \E l \in {"update", "lastUpdate", "idle", "off", "golive", "next"} : At(u, l)
      BY <1>10 DEF PublishStep, TakeSnapshot, UpdateCache, Threads
    <2>2. QED
      BY <1>8, <2>1 DEF At, Labels
  <1>11. CASE HandleLive
    <2>1. task' = task /\ (At("live", "publish") \/ pc' = pc)
      BY <1>11 DEF HandleLive
    <2>2. QED
      BY <1>2, <1>8, <2>1 DEF At, Labels, Threads
  <1>12. CASE StopLiveStream \/ Die
    <2>1. (task'[th] = task[th] /\ pc'[th] = pc[th]) \/ pc'[th] = "off"
      BY <1>1, <1>12 DEF StopLiveStream, Die, Restarted
    <2>2. QED
      BY <1>1, <2>1, HandKept
  <1>13. QED
    <2>1. \/ (pc' = pc /\ task' = task) \/ FetchPage \/ AcceptPage \/ FetchOlder \/ NextPage
          \/ EndRun \/ StartLiveStream \/ RequestBackfillOlder \/ BeginBackfill \/ LeaveLoop
          \/ Widen \/ GiveUp \/ Boot \/ HandleLive \/ StopLiveStream \/ Die
          \/ (\E u \in Rest : RestStep(u)) \/ (\E u \in Threads : PublishStep(u))
      BY DEF SyncNext, Tick, Push, Connect, Disconnect, Stop, IgnoreLive, WorkerStep, syncVars
    <2>2. QED
      BY <1>2, <1>3, <1>4, <1>5, <1>6, <1>7, <1>9, <1>10, <1>11, <1>12, <2>1

SourcedInv == SourceInv /\ \A th \in Rest : HandInv(th)

(* Pages in hand and updates in flight come from the exchange, and whoever *)
(* is about to append has something to append, in every interleaving.      *)
THEOREM SourcedInductive == SyncSpec => []SourcedInv
  <1>1. SyncInit => SourcedInv
    BY SourceStarts, HandStarts DEF SourcedInv
  <1>2. SyncInv /\ SourcedInv /\ [SyncNext]_syncVars => SourcedInv'
    <2>1. ASSUME SyncInv, SourcedInv, [SyncNext]_syncVars
          PROVE  SourcedInv'
      <3>1. SourceInv' /\ \A th \in Rest : HandInv(th)'
        BY <2>1, SourceStep, HandStep DEF SourcedInv
      <3>2. QED
        BY <3>1 DEF SourcedInv
    <2>2. QED
      BY <2>1
  <1>3. QED
    BY <1>1, <1>2, SyncInductive, PTL DEF SyncSpec

(***************************************************************************)
(* The repository's specification is all the orchestrator does to it       *)
(***************************************************************************)
LEMMA SentIsSubmitted ==
    ASSUME SourceInv, Listed..MaxNow \subseteq Times, NEW c \in Sent(now)
    PROVE  c \in Submitted
  <1>1. c \in Candle /\ c.open \in Nat /\ Listed <= c.open /\ c.open <= now
    BY DEF Sent, Candle
  <1>2. Listed \in Nat /\ MaxNow \in Nat /\ now \in Nat /\ now <= MaxNow
    BY SyncAssumption DEF SourceInv, OnGrid
  <1>3. c.open \in Listed..MaxNow
    BY <1>1, <1>2
  <1>4. QED
    BY <1>1, <1>3 DEF Candle, Submitted

LEMMA InHandIsSubmitted ==
    ASSUME SyncInv, SourcedInv, Listed..MaxNow \subseteq Times, NEW c \in InHand
    PROVE  c \in Submitted
  <1>1. CASE \E th \in Rest : pc[th] \in {"append", "fill", "retry"} /\ c = Head(task[th].todo)
    <2>1. PICK th \in Rest : /\ pc[th] \in {"append", "fill", "retry"}
                             /\ c = Head(task[th].todo)
      BY <1>1
    <2>2. task[th].todo # <<>> /\ task[th].todo \in Seq(Sent(now)) /\ SourceInv
      BY <2>1 DEF SourcedInv, SourceInv, HandInv
    <2>3. c \in Sent(now)
      BY <2>1, <2>2, TailElements
    <2>4. QED
      BY <2>2, <2>3, SentIsSubmitted
  <1>2. CASE feed # <<>> /\ c = Head(feed)
    <2>1. feed \in Seq(Sent(now)) /\ SourceInv
      BY DEF SourcedInv, SourceInv
    <2>2. c \in Sent(now)
      BY <1>2, <2>1, TailElements
    <2>3. QED
      BY <2>1, <2>2, SentIsSubmitted
  <1>3. QED
    BY <1>1, <1>2 DEF InHand

LEMMA RepositoryStep ==
    ASSUME SyncInv, SourcedInv, Listed..MaxNow \subseteq Times, [SyncNext]_syncVars
    PROVE  [Next]_vars
  <1>1. CASE UNCHANGED repoVars
    BY <1>1 DEF repoVars, vars
  <1>2. CASE Boot
    BY <1>2 DEF Boot, Next
  <1>3. ASSUME NEW c \in Sent(now), AppendOrReplace(c)
        PROVE  Next
    <2>1. c \in Submitted
      BY SentIsSubmitted DEF SourcedInv
    <2>2. QED
      BY <1>3, <2>1 DEF Next
  <1>4. ASSUME NEW th \in Rest, RestStep(th), ~Repair(th)
        PROVE  Next
    <2>1. task[th].todo # <<>> /\ AppendOrReplace(Head(task[th].todo))
      BY <1>4 DEF RestStep, AppendPage, Fill, Retry, AppendHead
    <2>2. task[th].todo \in Seq(Sent(now))
      BY DEF SourcedInv, SourceInv
    <2>3. Head(task[th].todo) \in Sent(now)
      BY <2>1, <2>2, TailElements
    <2>4. QED
      BY <1>3, <2>1, <2>3
  <1>5. CASE HandleLive
    <2>1. feed # <<>> /\ AppendOrReplace(Head(feed))
      BY <1>5 DEF HandleLive
    <2>2. feed \in Seq(Sent(now))
      BY DEF SourcedInv, SourceInv
    <2>3. Head(feed) \in Sent(now)
      BY <2>1, <2>2, TailElements
    <2>4. QED
      BY <1>3, <2>1, <2>3
  <1>6. CASE Die
    <2>1. Crash \/ \E c \in InHand : CrashBetweenWrites(c)
      BY <1>6 DEF Die
    <2>2. QED
      BY <2>1, InHandIsSubmitted DEF Next
  <1>7. QED
    <2>1. \/ UNCHANGED repoVars \/ Boot \/ HandleLive \/ Die
          \/ \E th \in Rest : RestStep(th) /\ ~Repair(th)
      BY DEF SyncNext, Tick, Push, Connect, Disconnect, Stop, WorkerStep, LeaveLoop, GiveUp,
             AcceptPage, Widen, BeginBackfill, FetchPage, NextPage, EndRun, StartLiveStream,
             StopLiveStream, RestStep, Repair, PublishStep, TakeSnapshot, UpdateCache,
             IgnoreLive, RequestBackfillOlder, FetchOlder, syncVars
    <2>2. QED
      BY <1>1, <1>2, <1>4, <1>5, <1>6, <2>1

(* Whatever the orchestrator's threads do, in whatever interleaving and    *)
(* wherever the process dies, the repository only ever sees its own calls: *)
(* every orchestrator behaviour is a behaviour of the repository, whether  *)
(* or not writes fail.                                                     *)
THEOREM OrchestratorRefinesRepository ==
    ASSUME Listed..MaxNow \subseteq Times
    PROVE  SyncSpec => Spec
  <1>1. SyncInit => Init
    BY DEF SyncInit
  <1>2. SyncInv /\ SourcedInv /\ [SyncNext]_syncVars => [Next]_vars
    BY RepositoryStep
  <1>3. QED
    BY <1>1, <1>2, SyncInductive, SourcedInductive, PTL DEF SyncSpec, Spec

(* So for the whole orchestrator the series has no hole and an open candle *)
(* at its end only, a backfill resumes from what the disk holds, and a gap *)
(* answer names the whole gap.                                             *)
THEOREM OrchestratorSeriesSound ==
    ASSUME Listed..MaxNow \subseteq Times, DiskMayFail = FALSE
    PROVE  SyncSpec => [](/\ SeriesContiguous /\ OnlyTailOpen
                          /\ ResumePointIsDurable /\ GapAnswerIsExact)
  BY OrchestratorRefinesRepository, SeriesSound, ResumePointDurable, GapAnswersExact, PTL

(* And a candle that a newer one has followed is changed by no thread.     *)
THEOREM OrchestratorKeepsFollowed ==
    ASSUME Listed..MaxNow \subseteq Times, DiskMayFail = FALSE
    PROVE  SyncSpec => FollowedCandlesAreFinal
  BY OrchestratorRefinesRepository, FollowedFinal, PTL

(* The orchestrator with its threads, its cache and its repository         *)
(* implements the abstract candle log, crashes included.                   *)
THEOREM OrchestratorImplementsLog ==
    ASSUME Listed..MaxNow \subseteq Times, DiskMayFail = FALSE
    PROVE  SyncSpec => ImplementsCandleLog
  BY OrchestratorRefinesRepository, RefinesCandleLog, PTL

(***************************************************************************)
(* Final values                                                            *)
(***************************************************************************)
TailOpen == LastOf(candles).open
Ordered(s) == \A i, j \in 1..Len(s) : i < j => s[i].open < s[j].open

(* An update in flight is of a candle later than every one whose final     *)
(* update was handled, and not of one before the series' last.             *)
FlightAt(c, n, handled, cs) ==
    /\ c.closed => c.val = Final /\ c.open < n
    /\ \A t \in handled : t < c.open
    /\ cs # <<>> => LastOf(cs).open <= c.open
InFlight(c) == FlightAt(c, now, finals, candles)
InFlightNext(c) == FlightAt(c, now', finals', candles')
Before(a, b) == a.open <= b.open /\ (a.closed => a.open < b.open)
FeedInv ==
    /\ pc["live"] = "off" => ~connected /\ feed = <<>>
    /\ \A i \in 1..Len(feed) : InFlight(feed[i])
    /\ \A i, j \in 1..Len(feed) : i < j => Before(feed[i], feed[j])

FinalsInv == \A t \in finals : t < now

(* What is kept has its final value if that was handled.                   *)
Kept(c) == Listed <= c.open /\ c.open <= now /\ (c.open \in finals => c.val = Final)
StoreInv ==
    /\ \A i \in 1..Len(candles) :
          Kept(candles[i]) /\ (candles[i].open \in finals => candles[i].closed)
    /\ \A i \in 1..Len(file) : Kept(file[i])

(* The worker's page is in order, and not behind the live updates: none is *)
(* handled while the worker has a page in hand.                            *)
Dated == {c \in Candle : c.closed /\ (c.open \in finals => c.val = Final)}
WorkerInv ==
    LET t == task["worker"]
    IN  /\ t.batch \in Seq(Dated) /\ Ordered(t.batch)
        /\ t.todo \in Seq(Dated) /\ Ordered(t.todo)
        /\ pc["worker"] = "live" => t.batch = <<>> /\ t.todo = <<>>

(* While the worker repairs a gap, the series ends before the candle that  *)
(* was refused, and then before every candle that is tried again.          *)
RepairInv ==
    LET t == task["worker"]
    IN  /\ pc["worker"] \in {"repair", "fill"} =>
              candles # <<>> /\ t.gap[1].to \in Nat /\ TailOpen < t.gap[1].to
        /\ pc["worker"] = "fill" => \A i \in 1..Len(t.todo) : t.todo[i].open < t.gap[1].to
        /\ pc["worker"] = "retry" =>
              candles # <<>> /\ \A i \in 1..Len(t.todo) : TailOpen < t.todo[i].open

(* The paging thread's page lies before the last candle, so that none of   *)
(* it is taken, and none refused.                                          *)
PagerInv ==
    LET t == task["pager"]
    IN  /\ pc["pager"] \in {"off", "request", "append", "publish", "update"}
        /\ pc["pager"] = "request" =>
              candles # <<>> /\ t.from + PageBars * Interval <= TailOpen
        /\ pc["pager"] = "append" =>
              candles # <<>> /\ \A i \in 1..Len(t.todo) : t.todo[i].open < TailOpen

(* The chart shows candles the exchange has, up to the last of the series. *)
Seen == {c \in Candle : Listed <= c.open /\ candles # <<>> /\ c.open <= TailOpen}
SeenInv == cache \in Seq(Seen) /\ \A th \in Threads : snapshot[th] \in Seq(Seen)

FinalInv ==
    FinalsInv /\ FeedInv /\ StoreInv /\ WorkerInv /\ RepairInv /\ PagerInv /\ SeenInv

(***************************************************************************)
(* Order within a page                                                     *)
(***************************************************************************)
LEMMA OrderedPart ==
    ASSUME NEW S, NEW s \in Seq(S), Ordered(s), NEW I, I \subseteq 1..Len(s)
    PROVE  Ordered(Part(s, I))
  <1> DEFINE at == Ascending(I)
             u == [k \in 1..Len(at) |-> s[at[k]]]
  <1>1. Len(s) \in Nat
    BY LenProperties
  <1>2. IsFiniteSet(I) /\ I \subseteq Int
    <2>1. IsFiniteSet(1..Len(s)) /\ I \in SUBSET (1..Len(s))
      BY <1>1, FS_Interval
    <2>2. IsFiniteSet(I)
      BY <2>1, FS_Subset
    <2>3. QED
      BY <1>1, <2>2
  <1>3. at \in Seq(I) /\ \A i, j \in 1..Len(at) : i < j => at[i] < at[j]
    BY <1>2, AscendingElements, AscendingOrder
  <1> HIDE DEF at
  <1>4. Len(at) \in Nat /\ \A i \in 1..Len(at) : at[i] \in 1..Len(s)
    BY <1>3, LenProperties, ElementOfSeq
  <1>5. Len(u) = Len(at) /\ \A i \in 1..Len(at) : u[i] = s[at[i]]
    BY <1>4
  <1> HIDE DEF u
  <1>6. Ordered(u)
    BY <1>3, <1>4, <1>5 DEF Ordered
  <1>7. QED
    BY <1>6 DEF Part, u, at

LEMMA OrderedTail ==
    ASSUME NEW S, NEW s \in Seq(S), Ordered(s), s # <<>>
    PROVE  Ordered(Tail(s)) /\ \A i \in 1..Len(Tail(s)) : Head(s).open < Tail(s)[i].open
  <1>1. /\ Len(s) \in Nat \ {0} /\ Len(Tail(s)) = Len(s) - 1 /\ Head(s) = s[1]
        /\ \A i \in 1..Len(Tail(s)) : i + 1 \in 1..Len(s) /\ Tail(s)[i] = s[i + 1]
        /\ 1 \in 1..Len(s)
    BY TailElements
  <1>2. ASSUME NEW i \in 1..Len(Tail(s)), NEW j \in 1..Len(Tail(s)), i < j
        PROVE  Tail(s)[i].open < Tail(s)[j].open
    <2>1. i + 1 < j + 1
      BY <1>1, <1>2
    <2>2. QED
      BY <1>1, <2>1 DEF Ordered
  <1>3. ASSUME NEW i \in 1..Len(Tail(s))
        PROVE  Head(s).open < Tail(s)[i].open
    <2>1. 1 < i + 1
      BY <1>1
    <2>2. QED
      BY <1>1, <2>1 DEF Ordered
  <1>4. QED
    BY <1>2, <1>3 DEF Ordered

LEMMA KlinesOrdered ==
    ASSUME now \in Nat, NEW from, NEW to, NEW limit \in Int
    PROVE  Ordered(Klines(from, to, limit))
  <1> DEFINE opens == {t \in Listed..now : t % Interval = 0 /\ t \notin Holes
                                            /\ from <= t /\ t <= to}
             all == Ascending(opens)
             n == IF Len(all) < limit THEN Len(all) ELSE limit
  <1>1. Listed \in Nat /\ opens \subseteq Int
    BY SyncAssumption
  <1>2. IsFiniteSet(opens)
    <2>1. IsFiniteSet(Listed..now) /\ opens \in SUBSET (Listed..now)
      BY <1>1, FS_Interval
    <2>2. QED
      BY <2>1, FS_Subset
  <1> HIDE DEF opens
  <1>3. all \in Seq(opens) /\ \A i, j \in 1..Len(all) : i < j => all[i] < all[j]
    BY <1>1, <1>2, AscendingElements, AscendingOrder
  <1>4. Klines(from, to, limit) = [i \in 1..n |-> Kline(all[i])]
    BY DEF Klines, opens
  <1> HIDE DEF all
  <1>5. Len(all) \in Nat
    BY <1>3, LenProperties
  <1>6. n \in Int /\ n <= Len(all)
    BY <1>5
  <1> HIDE DEF n
  <1> DEFINE page == [i \in 1..n |-> Kline(all[i])]
  <1>7. \A i \in 1..n : page[i].open = all[i]
    BY DEF Kline
  <1>8. 1..Len(page) \subseteq 1..n
    <2>1. CASE n \in Nat
      <3>1. Len(page) = n
        BY <2>1
      <3>2. QED
        BY <3>1
    <2>2. CASE n \notin Nat
      <3>1. 1..n = {}
        BY <1>6, <2>2
      <3>2. page = <<>>
        BY <3>1
      <3> HIDE DEF page
      <3>3. Len(page) = 0
        BY <3>2, EmptySeq
      <3>4. QED
        BY <3>1, <3>3
    <2>3. QED
      BY <2>1, <2>2
  <1>9. 1..n \subseteq 1..Len(all)
    BY <1>5, <1>6
  <1> HIDE DEF page
  <1>10. Ordered(page)
    BY <1>3, <1>7, <1>8, <1>9 DEF Ordered
  <1>11. QED
    BY <1>4, <1>10 DEF page

LEMMA AnswersOrdered ==
    ASSUME now \in Nat, faults \in 0..MaxFaults, NEW from, NEW to, NEW limit \in Int,
           NEW got \in FetchRange(from, to, limit)
    PROVE  Ordered(got.page)
  <1>1. Klines(from, to, limit) \in Seq(Candle) /\ Ordered(Klines(from, to, limit))
    BY KlinesAreCandles, KlinesOrdered
  <1>2. \/ got.page = Klines(from, to, limit)
        \/ \E I \in SUBSET (1..Len(Klines(from, to, limit))) :
              got.page = Part(Klines(from, to, limit), I)
    BY <1>1, AnswersAreFrom
  <1>3. QED
    BY <1>1, <1>2, OrderedPart

LEMMA RetriedOrdered ==
    ASSUME NEW th \in Rest, NEW S, task[th].batch \in Seq(S), Ordered(task[th].batch)
    PROVE  Ordered(Retried(th))
  <1> DEFINE I == {i \in 1..Len(task[th].batch) :
                     AlignDown(task[th].batch[i].open, Interval) >= task[th].gap[1].to}
  <1>1. I \subseteq 1..Len(task[th].batch) /\ Retried(th) = Part(task[th].batch, I)
    BY DEF Retried
  <1> HIDE DEF I
  <1>2. QED
    BY <1>1, OrderedPart

(* What is tried again is not before the refused candle.                   *)
LEMMA RetriedLate ==
    ASSUME NEW th \in Rest, now \in Nat, task[th].batch \in Seq(Sent(now))
    PROVE  \A i \in 1..Len(Retried(th)) : Retried(th)[i].open >= task[th].gap[1].to
  <1> DEFINE batch == task[th].batch
             I == {i \in 1..Len(batch) :
                     AlignDown(batch[i].open, Interval) >= task[th].gap[1].to}
             at == Ascending(I)
             Late == {c \in Sent(now) : c.open >= task[th].gap[1].to}
  <1>1. Len(batch) \in Nat /\ \A i \in 1..Len(batch) : batch[i] \in Sent(now)
    BY LenProperties, ElementOfSeq
  <1>2. \A i \in I : batch[i] \in Late
    BY <1>1 DEF Sent, OnGrid
  <1>3. I \subseteq 1..Len(batch) /\ I \subseteq Int
    BY <1>1
  <1>4. Retried(th) = [k \in 1..Len(at) |-> batch[at[k]]]
    BY DEF Retried, Part
  <1> HIDE DEF batch, I, Late
  <1>5. IsFiniteSet(I)
    <2>1. IsFiniteSet(1..Len(batch)) /\ I \in SUBSET (1..Len(batch))
      BY <1>1, <1>3, FS_Interval
    <2>2. QED
      BY <2>1, FS_Subset
  <1>6. at \in Seq(I)
    BY <1>3, <1>5, AscendingElements
  <1> HIDE DEF at
  <1>7. Len(at) \in Nat /\ \A k \in 1..Len(at) : at[k] \in I
    BY <1>6, LenProperties, ElementOfSeq
  <1>8. /\ Len([k \in 1..Len(at) |-> batch[at[k]]]) = Len(at)
        /\ \A k \in 1..Len(at) : [m \in 1..Len(at) |-> batch[at[m]]][k] \in Late
    BY <1>2, <1>7
  <1>9. QED
    BY <1>4, <1>8 DEF Late

(***************************************************************************)
(* One append of a candle of the exchange                                  *)
(***************************************************************************)
LEMMA BelowLast ==
    ASSUME NEW S, NEW s \in Seq(S), Rises(s)
    PROVE  /\ \A i \in 1..(Len(s) - 1) : s[i].open < LastOf(s).open
           /\ \A i \in 1..Len(s) : s[i].open <= LastOf(s).open
  <1> DEFINE n == Len(s)
             T == {d \in Nat : d >= 1 /\ n - d >= 1 /\ ~(s[n - d].open < s[n].open)}
  <1>1. /\ n \in Nat /\ \A i \in 1..n : s[i].open \in Nat
        /\ \A i \in 1..(n - 1) : s[i].open < s[i + 1].open
    BY LenProperties DEF Rises, OnGrid
  <1> HIDE DEF n
  <1>2. T = {}
    <2>1. SUFFICES ASSUME T # {} PROVE FALSE
      OBVIOUS
    <2>2. PICK d \in T : \A y \in T : d <= y
      <3>1. T \subseteq Nat
        OBVIOUS
      <3> HIDE DEF T
      <3>2. QED
        BY <2>1, <3>1, SmallestExists
    <2>3. /\ d \in Nat /\ d >= 1 /\ n - d \in 1..(n - 1) /\ n - d \in 1..n /\ n - d + 1 \in 1..n
          /\ n \in 1..n /\ ~(s[n - d].open < s[n].open)
      BY <1>1
    <2>4. s[n - d].open < s[n - d + 1].open
      BY <1>1, <2>3
    <2>5. CASE d = 1
      BY <1>1, <2>3, <2>4, <2>5
    <2>6. CASE d # 1
      <3>1. d - 1 \in Nat /\ d - 1 >= 1 /\ n - (d - 1) >= 1 /\ n - (d - 1) = n - d + 1
        BY <1>1, <2>3, <2>6
      <3>2. d - 1 \notin T
        <4>1. ~(d <= d - 1)
          BY <2>3
        <4> HIDE DEF T
        <4>2. QED
          BY <2>2, <4>1
      <3>3. s[n - d + 1].open < s[n].open
        BY <3>1, <3>2
      <3>4. QED
        BY <1>1, <2>3, <2>4, <3>3
    <2>7. QED
      BY <2>5, <2>6
  <1>3. ASSUME NEW i \in 1..(n - 1)
        PROVE  s[i].open < s[n].open
    <2>1. n - i \in Nat /\ n - i >= 1 /\ n - (n - i) = i /\ i >= 1
      BY <1>1
    <2>2. QED
      BY <1>2, <2>1
  <1>4. \A i \in 1..n : s[i].open <= s[n].open
    <2>1. \A i \in 1..n : i \in 1..(n - 1) \/ i = n
      BY <1>1
    <2>2. n \in 1..n => s[n].open <= s[n].open
      BY <1>1
    <2>3. QED
      BY <1>1, <1>3, <2>1, <2>2
  <1>5. QED
    BY <1>3, <1>4 DEF n, LastOf

LEMMA TailIs ==
    ASSUME SyncInv, candles # <<>>
    PROVE  /\ TailOpen \in Nat /\ OnGrid(TailOpen) /\ Len(candles) \in 1..Len(candles)
           /\ TailOpen = candles[Len(candles)].open /\ Len(candles) \in Nat
           /\ \A i \in 1..(Len(candles) - 1) : candles[i].open < TailOpen
           /\ \A i \in 1..Len(candles) : candles[i].open <= TailOpen
  <1>1. candles \in Seq(Candle) /\ Rises(candles)
    BY DEF SyncInv, FaultInv
  <1>2. QED
    BY <1>1, BelowLast, RisingTail, LenProperties DEF TailOpen

(* c keeps of d what closing d keeps.                                      *)
Same(c, d) == c.open = d.open /\ c.val = d.val /\ (d.closed => c.closed)

(* c is what became of a candle there was.                                 *)
Old(c) == \E j \in 1..Len(candles) : Same(c, candles[j])

LEMMA AppendEffect ==
    ASSUME SyncInv, now \in Nat, NEW c \in Sent(now), AppendOrReplace(c)
    PROVE  /\ candles' # <<>> /\ TailOpen' \in {c.open, TailOpen}
           /\ candles # <<>> => TailOpen <= TailOpen'
           /\ candles = <<>> => TailOpen' = c.open
           /\ \A i \in 1..Len(candles') :
                 \/ candles'[i] = c
                 \/ /\ Old(candles'[i])
                    /\ c.closed /\ (candles # <<>> => TailOpen <= c.open)
                         => candles'[i].open # c.open
           /\ candles # <<>> /\ c.open < TailOpen => UNCHANGED candles /\ ~Refused
           /\ (candles # <<>> => TailOpen < c.open) /\ ~Refused
                => hasGap' = FALSE /\ TailOpen' = c.open
           /\ Refused => UNCHANGED candles /\ candles # <<>> /\ answer'.to > TailOpen
  <1>1. c \in Candle /\ OnGrid(c.open) /\ c.open \in Nat /\ c.closed \in BOOLEAN
    BY DEF Sent, OnGrid, Candle
  <1>2. NormalizeCandle(c) = c
    BY <1>1 DEF NormalizeCandle, OnGrid, Candle
  <1>3. IsValidRecord(ToPriceData(c))
    BY <1>1 DEF IsValidRecord, ToPriceData, OnGrid
  <1>4. \/ AppendFirst(c) \/ KeepClosedTail(c) \/ ReplaceTail(c)
        \/ IgnoreOlder(c) \/ ReportGap(c) \/ AppendNext(c)
    BY <1>2, <1>3 DEF AppendOrReplace, IgnoreInvalid
  <1>5. candles \in Seq(Candle) /\ Len(candles) \in Nat
    BY PlanFields, LenProperties
  <1>6. candles # <<>> =>
           /\ TailOpen \in Nat /\ OnGrid(TailOpen) /\ Len(candles) \in 1..Len(candles)
           /\ TailOpen = candles[Len(candles)].open
           /\ \A i \in 1..(Len(candles) - 1) : candles[i].open < TailOpen
           /\ \A i \in 1..Len(candles) : candles[i].open <= TailOpen
    BY TailIs
  <1>7. candles # <<>> /\ TailOpen < c.open => Expected <= c.open
    BY <1>1, <1>6, GridSteps DEF Expected, TailOpen
  <1>8. candles # <<>> => Expected = TailOpen + Interval /\ Interval \in Nat \ {0}
    BY IntervalAssumption DEF Expected, TailOpen
  <1>9. \A i \in 1..Len(candles) : Old(candles[i])
    BY DEF Old, Same
  <1> DEFINE Goal ==
        /\ candles' # <<>> /\ TailOpen' \in {c.open, TailOpen}
        /\ candles # <<>> => TailOpen <= TailOpen'
        /\ candles = <<>> => TailOpen' = c.open
        /\ \A i \in 1..Len(candles') :
              \/ candles'[i] = c
              \/ /\ Old(candles'[i])
                 /\ c.closed /\ (candles # <<>> => TailOpen <= c.open)
                      => candles'[i].open # c.open
        /\ candles # <<>> /\ c.open < TailOpen => UNCHANGED candles /\ ~Refused
        /\ (candles # <<>> => TailOpen < c.open) /\ ~Refused
             => hasGap' = FALSE /\ TailOpen' = c.open
        /\ Refused => UNCHANGED candles /\ candles # <<>> /\ answer'.to > TailOpen
  <1>10. CASE AppendFirst(c)
    <2>1. candles = <<>> /\ candles' = <<c>> /\ hasGap' = FALSE /\ ~Refused
      BY <1>10 DEF AppendFirst, Answered, Refused
    <2>2. candles' # <<>> /\ TailOpen' = c.open /\ \A i \in 1..Len(candles') : candles'[i] = c
      BY <2>1 DEF TailOpen, LastOf
    <2>3. QED
      BY <2>1, <2>2
  <1>11. CASE KeepClosedTail(c)
    <2>1. /\ candles # <<>> /\ candles' = candles /\ c.open = TailOpen /\ ~c.closed /\ ~Refused
      BY <1>11 DEF KeepClosedTail, Answered, Refused, TailOpen
    <2>2. TailOpen' = TailOpen
      BY <2>1 DEF TailOpen
    <2>3. QED
      BY <1>1, <1>6, <1>9, <2>1, <2>2
  <1>12. CASE ReplaceTail(c)
    <2>1. /\ candles # <<>> /\ candles' = ReplaceLast(candles, c) /\ c.open = TailOpen
          /\ ~Refused
      BY <1>12 DEF ReplaceTail, Answered, Refused, TailOpen
    <2>2. /\ candles' # <<>> /\ LastOf(candles') = c /\ Len(candles') = Len(candles)
          /\ \A i \in 1..Len(candles) :
                candles'[i] = IF i = Len(candles) THEN c ELSE candles[i]
      <3> DEFINE u == ReplaceLast(candles, c)
      <3>1. candles \in Seq(Candle) /\ candles # <<>> /\ c \in Candle
        BY <1>1, <1>5, <2>1
      <3>2. /\ Len(u) = Len(candles) /\ u # <<>>
            /\ \A i \in 1..Len(candles) : u[i] = IF i = Len(candles) THEN c ELSE candles[i]
        BY <3>1, ReplaceLastProperties
      <3>3. LastOf(u) = c
        BY <3>1, LastReplaced
      <3>4. candles' = u
        BY <2>1
      <3> HIDE DEF u
      <3>5. QED
        BY <3>2, <3>3, <3>4
    <2>3. TailOpen' = c.open
      BY <2>2 DEF TailOpen
    <2>4. ASSUME NEW i \in 1..Len(candles')
          PROVE  \/ candles'[i] = c
                 \/ Old(candles'[i]) /\ candles'[i].open # c.open
      <3>1. CASE i = Len(candles)
        BY <2>2, <2>4, <3>1
      <3>2. CASE i # Len(candles)
        <4>1. i \in 1..(Len(candles) - 1) /\ i \in 1..Len(candles) /\ candles'[i] = candles[i]
          BY <1>5, <2>2, <2>4, <3>2
        <4>2. candles[i].open < TailOpen
          BY <1>6, <2>1, <4>1
        <4>3. candles[i].open # c.open
          BY <1>1, <2>1, <4>2
        <4>4. QED
          BY <1>9, <4>1, <4>3
      <3>3. QED
        BY <3>1, <3>2
    <2>5. QED
      BY <1>1, <2>1, <2>2, <2>3, <2>4
  <1>13. CASE IgnoreOlder(c)
    <2>1. /\ candles # <<>> /\ candles' = candles /\ c.open # TailOpen /\ c.open < Expected
          /\ ~Refused
      BY <1>13 DEF IgnoreOlder, Answered, Refused, TailOpen
    <2>2. TailOpen' = TailOpen
      BY <2>1 DEF TailOpen
    <2>3. c.open < TailOpen
      BY <1>1, <1>6, <1>7, <1>8, <2>1
    <2>4. QED
      BY <1>1, <1>6, <1>9, <2>1, <2>2, <2>3
  <1>14. CASE ReportGap(c)
    <2>1. /\ candles # <<>> /\ candles' = candles /\ c.open > Expected /\ answer'.to = c.open
          /\ Refused
      BY <1>14 DEF ReportGap, Refused
    <2>2. TailOpen' = TailOpen
      BY <2>1 DEF TailOpen
    <2>3. TailOpen < c.open
      BY <1>1, <1>6, <1>8, <2>1
    <2>4. \A i \in 1..Len(candles) : candles[i].open # c.open
      BY <1>1, <1>5, <1>6, <2>1, <2>3
    <2>5. QED
      BY <1>1, <1>6, <1>9, <2>1, <2>2, <2>3, <2>4
  <1>15. CASE AppendNext(c)
    <2> DEFINE cs == SealedSeries(candles)
    <2>1. /\ candles # <<>> /\ candles' = Append(cs, c) /\ c.open = Expected
          /\ hasGap' = FALSE /\ ~Refused
      BY <1>15 DEF AppendNext, Answered, Refused, SealedSeries, Sealed
    <2>2. /\ LastOf(candles) \in Candle /\ Sealed(LastOf(candles)) \in Candle
          /\ Same(Sealed(LastOf(candles)), LastOf(candles))
          /\ LastOf(candles) = candles[Len(candles)]
      <3>1. LastOf(candles) \in Candle /\ LastOf(candles) = candles[Len(candles)]
        BY <1>5, <2>1, LastInSeq
      <3>2. QED
        BY <3>1, SealedProperties DEF Same, Sealed, Candle
    <2>3. /\ cs \in Seq(Candle) /\ Len(cs) = Len(candles)
          /\ \A i \in 1..Len(candles) :
                cs[i] = IF i = Len(candles) THEN Sealed(LastOf(candles)) ELSE candles[i]
      BY <1>5, <2>1, <2>2, ReplaceLastProperties DEF SealedSeries
    <2> HIDE DEF cs
    <2>4. /\ Len(candles') = Len(candles) + 1 /\ candles'[Len(candles) + 1] = c
          /\ \A i \in 1..Len(candles) : candles'[i] = cs[i]
      BY <1>1, <2>1, <2>3, AppendProperties
    <2>5. candles' # <<>> /\ TailOpen' = c.open
      BY <1>5, <2>4, EmptySeq DEF TailOpen, LastOf
    <2>6. TailOpen < c.open
      BY <1>1, <1>6, <1>8, <2>1
    <2>7. ASSUME NEW i \in 1..Len(candles')
          PROVE  \/ candles'[i] = c
                 \/ Old(candles'[i]) /\ candles'[i].open # c.open
      <3>1. CASE i = Len(candles) + 1
        BY <2>4, <3>1
      <3>2. CASE i # Len(candles) + 1
        <4>1. i \in 1..Len(candles) /\ Same(candles'[i], candles[i])
          BY <1>5, <2>2, <2>3, <2>4, <2>7, <3>2 DEF Same
        <4>2. candles'[i].open # c.open
          BY <1>1, <1>6, <2>1, <2>6, <4>1 DEF Same
        <4>3. QED
          BY <4>1, <4>2 DEF Old
      <3>3. QED
        BY <3>1, <3>2
    <2>8. QED
      BY <1>1, <1>6, <2>1, <2>5, <2>6, <2>7
  <1>16. QED
    BY <1>4, <1>10, <1>11, <1>12, <1>13, <1>14, <1>15

(***************************************************************************)
(* Which appends there are                                                 *)
(***************************************************************************)
(* A thread of REST pages appends the first candle left of its page; the   *)
(* paging thread's changes nothing, and the worker's is of the exchange's  *)
(* last word on it.                                                        *)
LEMMA RestAppend ==
    ASSUME SyncInv, SourcedInv, FinalInv, NEW th \in Rest, RestStep(th), ~Repair(th)
    PROVE  LET c == Head(task[th].todo)
           IN  /\ c \in Sent(now) /\ AppendOrReplace(c)
               /\ UNCHANGED <<now, feed, connected, cache, snapshot, finals>>
               /\ pc[th] \in {"append", "fill", "retry"}
               /\ th = "worker" => c \in Dated
               /\ th = "pager" => AppendPage(th) /\ candles # <<>> /\ c.open < TailOpen
  <1> DEFINE todo == task[th].todo
  <1>1. /\ todo # <<>> /\ AppendOrReplace(Head(todo)) /\ pc[th] \in {"append", "fill", "retry"}
        /\ UNCHANGED <<now, feed, connected, cache, snapshot, finals>>
    BY DEF RestStep, AppendPage, Fill, Retry, AppendHead, exchangeVars, publishVars, liveVars
  <1>2. todo \in Seq(Sent(now)) /\ (th = "worker" => todo \in Seq(Dated))
    BY DEF SourcedInv, SourceInv, FinalInv, WorkerInv
  <1> HIDE DEF todo
  <1>3. /\ Head(todo) \in Sent(now) /\ (th = "worker" => Head(todo) \in Dated)
        /\ Head(todo) = todo[1] /\ 1 \in 1..Len(todo)
    BY <1>1, <1>2, TailElements
  <1>4. ASSUME th = "pager"
        PROVE  AppendPage(th) /\ candles # <<>> /\ Head(todo).open < TailOpen
    <2>1. pc["pager"] = "append"
      BY <1>1, <1>4 DEF FinalInv, PagerInv
    <2>2. AppendPage(th)
      BY <1>4, <2>1 DEF RestStep, Fill, Retry
    <2>3. candles # <<>> /\ todo[1].open < TailOpen
      BY <1>3, <1>4, <2>1 DEF FinalInv, PagerInv, todo
    <2>4. QED
      BY <1>3, <2>2, <2>3
  <1>5. QED
    BY <1>1, <1>3, <1>4 DEF todo

(* The live thread's update is the last word of the exchange, or of a      *)
(* candle whose last word was not handled.                                 *)
LEMMA LiveAppend ==
    ASSUME SyncInv, SourcedInv, FinalInv, HandleLive
    PROVE  LET c == Head(feed)
           IN  /\ c \in Sent(now) /\ AppendOrReplace(c) /\ feed # <<>> /\ feed' = Tail(feed)
               /\ UNCHANGED <<now, connected, cache, snapshot, task>>
               /\ finals' = IF c.closed THEN finals \union {c.open} ELSE finals
               /\ InFlight(c) /\ \A i \in 1..Len(feed') : Before(c, feed'[i])
               /\ pc["live"] = "idle" /\ pc["worker"] = "live" /\ pc'["worker"] = "live"
               /\ pc'["live"] # "off" /\ pc'["pager"] = pc["pager"]
  <1>1. /\ feed # <<>> /\ AppendOrReplace(Head(feed)) /\ feed' = Tail(feed)
        /\ UNCHANGED <<now, connected, cache, snapshot, task>>
        /\ finals' = (IF Head(feed).closed THEN finals \union {Head(feed).open} ELSE finals)
        /\ pc["live"] = "idle" /\ (At("live", "publish") \/ pc' = pc)
    BY DEF HandleLive, publishVars
  <1>2. /\ feed \in Seq(Sent(now)) /\ \A i \in 1..Len(feed) : InFlight(feed[i])
        /\ \A i, j \in 1..Len(feed) : i < j => Before(feed[i], feed[j])
    BY DEF SourcedInv, SourceInv, FinalInv, FeedInv
  <1>3. /\ Head(feed) \in Sent(now) /\ Head(feed) = feed[1] /\ 1 \in 1..Len(feed)
        /\ \A i \in 1..Len(feed') : i + 1 \in 1..Len(feed) /\ feed'[i] = feed[i + 1]
        /\ Len(feed') \in Nat
    BY <1>1, <1>2, TailElements
  <1>4. InFlight(Head(feed))
    BY <1>2, <1>3
  <1>5. ASSUME NEW i \in 1..Len(feed')
        PROVE  Before(Head(feed), feed'[i])
    <2>1. 1 < i + 1
      BY <1>3
    <2>2. QED
      BY <1>2, <1>3, <2>1
  <1>6. pc \in [Threads -> Labels] /\ pc["worker"] = "live"
    BY <1>1, PlanFields DEF SyncInv, PhaseInv
  <1>7. pc'["worker"] = "live" /\ pc'["live"] # "off" /\ pc'["pager"] = pc["pager"]
    BY <1>1, <1>6 DEF At, Threads
  <1>8. QED
    BY <1>1, <1>3, <1>4, <1>5, <1>6, <1>7

(* The other steps leave the series and the file, or open or forget it.    *)
LEMMA RepositoryCalls ==
    ASSUME [SyncNext]_syncVars
    PROVE  \/ UNCHANGED repoVars \/ Boot \/ HandleLive \/ Die
           \/ \E th \in Rest : RestStep(th) /\ ~Repair(th)
  BY DEF SyncNext, Tick, Push, Connect, Disconnect, Stop, WorkerStep, LeaveLoop, GiveUp,
         AcceptPage, Widen, BeginBackfill, FetchPage, NextPage, EndRun, StartLiveStream,
         StopLiveStream, RestStep, Repair, PublishStep, TakeSnapshot, UpdateCache,
         IgnoreLive, RequestBackfillOlder, FetchOlder, syncVars

(* The last candle never goes back while the process lives.                *)
LEMMA TailGrows ==
    ASSUME SyncInv, SourcedInv, FinalInv, [SyncNext]_syncVars, ~Die
    PROVE  candles # <<>> => candles' # <<>> /\ TailOpen <= TailOpen'
  <1>1. now \in Nat
    BY PlanFields
  <1>2. ASSUME NEW c \in Sent(now), AppendOrReplace(c)
        PROVE  candles # <<>> => candles' # <<>> /\ TailOpen <= TailOpen'
    BY <1>1, <1>2, AppendEffect
  <1>3. CASE UNCHANGED repoVars
    <2>1. candles' = candles
      BY <1>3 DEF repoVars
    <2>2. candles # <<>> => TailOpen \in Nat
      BY TailIs
    <2>3. QED
      BY <2>1, <2>2 DEF TailOpen
  <1>4. CASE Boot
    BY <1>4 DEF Boot, Open, SyncInv, FaultInv
  <1>5. CASE HandleLive
    BY <1>2, <1>5, LiveAppend
  <1>6. ASSUME NEW th \in Rest, RestStep(th), ~Repair(th)
        PROVE  candles # <<>> => candles' # <<>> /\ TailOpen <= TailOpen'
    BY <1>2, <1>6, RestAppend
  <1>7. QED
    BY <1>3, <1>4, <1>5, <1>6, RepositoryCalls

(* Only the worker's and the live thread's appends change the series.      *)
LEMMA SeriesChanges ==
    ASSUME SyncInv, SourcedInv, FinalInv, [SyncNext]_syncVars
    PROVE  \/ candles' = candles \/ Boot \/ HandleLive \/ Die
           \/ RestStep("worker") /\ ~Repair("worker")
  <1>1. ASSUME NEW th \in Rest, RestStep(th), ~Repair(th), th # "worker"
        PROVE  candles' = candles
    <2>1. th = "pager"
      BY <1>1 DEF Rest
    <2>2. now \in Nat
      BY PlanFields
    <2>3. /\ Head(task[th].todo) \in Sent(now) /\ AppendOrReplace(Head(task[th].todo))
          /\ candles # <<>> /\ Head(task[th].todo).open < TailOpen
      BY <1>1, <2>1, RestAppend
    <2>4. QED
      BY <2>2, <2>3, AppendEffect
  <1>2. QED
    BY <1>1, RepositoryCalls DEF repoVars

(***************************************************************************)
(* The steps, part by part                                                 *)
(***************************************************************************)
LEMMA FinalsStep ==
    ASSUME SyncInv, SourcedInv, FinalInv, [SyncNext]_syncVars
    PROVE  FinalsInv'
  <1>1. now \in Nat /\ \A t \in finals : t < now
    BY PlanFields DEF FinalInv, FinalsInv
  <1>2. finals \subseteq Nat
    BY DEF SyncInv, SyncTypes, SyncTypeOK
  <1>3. CASE now' = now + Interval /\ finals' = finals
    BY <1>1, <1>2, <1>3, IntervalAssumption DEF FinalsInv
  <1>4. CASE HandleLive
    <2> DEFINE c == Head(feed)
    <2>1. /\ now' = now /\ finals' = (IF c.closed THEN finals \union {c.open} ELSE finals)
          /\ c.closed => c.open < now
      BY <1>4, LiveAppend DEF InFlight, FlightAt, TailOpen
    <2> HIDE DEF c
    <2>2. QED
      BY <1>1, <2>1 DEF FinalsInv
  <1>5. CASE now' = now /\ finals' = finals
    BY <1>1, <1>5 DEF FinalsInv
  <1>6. QED
    <2>1. \/ (now' = now + Interval /\ finals' = finals) \/ HandleLive
          \/ now' = now /\ finals' = finals
      BY DEF SyncNext, Tick, Push, Connect, Disconnect, Stop, Boot, Die, WorkerStep, LeaveLoop,
             GiveUp, AcceptPage, Widen, BeginBackfill, FetchPage, NextPage, EndRun,
             StartLiveStream, StopLiveStream, RestStep, AppendPage, Repair, Fill, Retry,
             PublishStep, TakeSnapshot, UpdateCache, IgnoreLive, RequestBackfillOlder,
             FetchOlder, syncVars, exchangeVars, liveVars
    <2>2. QED
      BY <1>3, <1>4, <1>5, <2>1

LEMMA Grows ==
    ASSUME [SyncNext]_syncVars, now \in Nat
    PROVE  /\ now' \in Nat /\ now <= now' /\ finals \subseteq finals'
           /\ ~HandleLive => finals' = finals
           /\ ~Tick => now' = now
  <1>1. now' = now \/ (Tick /\ now' = now + Interval)
    BY DEF SyncNext, Tick, Push, Connect, Disconnect, Stop, Boot, Die, WorkerStep, LeaveLoop,
           GiveUp, AcceptPage, Widen, BeginBackfill, FetchPage, NextPage, EndRun,
           StartLiveStream, StopLiveStream, RestStep, AppendPage, Repair, Fill, Retry,
           PublishStep, TakeSnapshot, UpdateCache, IgnoreLive, HandleLive,
           RequestBackfillOlder, FetchOlder, syncVars, exchangeVars, liveVars
  <1>2. finals' = finals \/ (HandleLive /\ finals \subseteq finals')
    BY DEF SyncNext, Tick, Push, Connect, Disconnect, Stop, Boot, Die, WorkerStep, LeaveLoop,
           GiveUp, AcceptPage, Widen, BeginBackfill, FetchPage, NextPage, EndRun,
           StartLiveStream, StopLiveStream, RestStep, AppendPage, Repair, Fill, Retry,
           PublishStep, TakeSnapshot, UpdateCache, IgnoreLive, HandleLive,
           RequestBackfillOlder, FetchOlder, syncVars, exchangeVars, liveVars
  <1>3. QED
    BY <1>1, <1>2, IntervalAssumption

(* What the series must keep for its file to keep it.                      *)
Holds(c) == Kept(c) /\ (c.open \in finals => c.closed)

LEMMA StoreFromSeries ==
    ASSUME IInv', opened', \A i \in 1..Len(candles') : Holds(candles[i])'
    PROVE  StoreInv'
  <1>1. Mirrors(candles', file') /\ file' \in Seq(Record)
    BY DEF IInv, TypeOK
  <1>2. ASSUME NEW i \in 1..Len(file')
        PROVE  Kept(file[i])'
    <2>1. Len(file') \in Nat
      BY <1>1, LenProperties
    <2>2. /\ i \in 1..Len(candles')
          /\ candles'[i].open = file'[i].open /\ candles'[i].val = file'[i].val
      BY <1>1, <2>1 DEF Mirrors, SameCandle
    <2>3. QED
      BY <2>2 DEF Holds, Kept
  <1>3. QED
    BY <1>2 DEF StoreInv, Holds, Kept

LEMMA AppendHolds ==
    ASSUME SyncInv, SourcedInv, FinalInv, now \in Nat, now' = now,
           NEW c \in Sent(now), AppendOrReplace(c),
           \/ finals' = finals /\ (c.open \in finals => c.closed /\ c.val = Final)
           \/ /\ finals' = finals \union {c.open} /\ c.closed /\ c.val = Final
              /\ candles # <<>> => TailOpen <= c.open
    PROVE  \A i \in 1..Len(candles') : Holds(candles[i])'
  <1>1. ASSUME NEW i \in 1..Len(candles')
        PROVE  Holds(candles[i])'
    <2>1. \/ candles'[i] = c
          \/ /\ Old(candles'[i])
             /\ c.closed /\ (candles # <<>> => TailOpen <= c.open) => candles'[i].open # c.open
      BY AppendEffect
    <2>2. CASE candles'[i] = c
      <3>1. Listed <= c.open /\ c.open <= now
        BY DEF Sent
      <3>2. c.open \in finals' => c.closed /\ c.val = Final
        OBVIOUS
      <3>3. QED
        BY <2>2, <3>1, <3>2 DEF Holds, Kept
    <2>3. CASE /\ Old(candles'[i])
               /\ c.closed /\ (candles # <<>> => TailOpen <= c.open) => candles'[i].open # c.open
      <3>1. PICK j \in 1..Len(candles) : Same(candles'[i], candles[j])
        BY <2>3 DEF Old
      <3>2. Kept(candles[j]) /\ (candles[j].open \in finals => candles[j].closed)
        BY DEF FinalInv, StoreInv
      <3>3. candles'[i].open \in finals' => candles'[i].open \in finals
        BY <2>3
      <3>4. QED
        BY <3>1, <3>2, <3>3 DEF Same, Holds, Kept
    <2>4. QED
      BY <2>1, <2>2, <2>3
  <1>2. QED
    BY <1>1

LEMMA BootHolds ==
    ASSUME SyncInv, FinalInv, DiskMayFail = FALSE, Boot, now' = now, finals' = finals
    PROVE  \A i \in 1..Len(candles') : Holds(candles[i])'
  <1>1. /\ file \in Seq(Record) /\ Rises(file) /\ Len(file) \in Nat
        /\ \A i \in 1..Len(file) : file[i] \in Record /\ OnGrid(file[i].open)
    BY LenProperties, ElementOfSeq DEF SyncInv, FaultInv, Rises
  <1>2. InOrder(file)
    BY <1>1 DEF InOrder, IsValidRecord, OnGrid, Rises
  <1>3. candles' = [i \in 1..Len(file) |-> ToCandle(file[i])]
    BY <1>1, <1>2, OpensSoundFile DEF Boot, LoadHistorical
  <1>4. ASSUME NEW i \in 1..Len(candles')
        PROVE  Holds(candles[i])'
    <2>1. i \in 1..Len(file) /\ candles'[i] = ToCandle(file[i])
      BY <1>1, <1>3
    <2>2. /\ candles'[i].open = file[i].open /\ candles'[i].val = file[i].val
          /\ candles'[i].closed
      BY <1>1, <2>1 DEF ToCandle, OnGrid
    <2>3. Kept(file[i])
      BY <2>1 DEF FinalInv, StoreInv
    <2>4. QED
      BY <2>2, <2>3 DEF Holds, Kept
  <1>5. QED
    BY <1>4

(* The process dies, perhaps after it sealed the tail: a sealed tail has   *)
(* not got its final update, or it would be closed.                        *)
LEMMA DieStore ==
    ASSUME SyncInv, IInv, FinalInv, DiskMayFail = FALSE, Die
    PROVE  StoreInv'
  <1>1. now' = now /\ finals' = finals /\ candles' = <<>>
    BY DEF Die, Crash, CrashBetweenWrites, Forget
  <1>2. Len(candles') = 0
    BY <1>1, EmptySeq
  <1>3. \/ file' = file
        \/ /\ opened /\ candles # <<>> /\ file' = SealedFile(candles, file)
    BY DEF Die, Crash, CrashBetweenWrites, WriteOutcome, SealedFile, Sealed
  <1>4. ASSUME NEW i \in 1..Len(file')
        PROVE  Kept(file'[i])
    <2>1. CASE file' = file
      BY <2>1 DEF FinalInv, StoreInv
    <2>2. CASE opened /\ candles # <<>> /\ file' = SealedFile(candles, file)
      <3> DEFINE ds == SealedSeries(candles)
      <3>1. /\ candles \in Seq(Candle) /\ file \in Seq(Record) /\ FileChain(file)
            /\ Mirrors(candles, file)
        BY <2>2 DEF IInv, TypeOK
      <3>2. Mirrors(ds, file') /\ Len(ds) = Len(file')
        BY <2>2, <3>1, SealTail
      <3>3. /\ LastOf(candles) \in Candle /\ LastOf(candles) = candles[Len(candles)]
            /\ Len(candles) \in 1..Len(candles)
        BY <2>2, <3>1, LastInSeq
      <3>4. Sealed(LastOf(candles)) \in Candle
        BY <3>3, SealedProperties
      <3>5. /\ Len(ds) = Len(candles)
            /\ \A j \in 1..Len(candles) :
                  ds[j] = IF j = Len(candles) THEN Sealed(LastOf(candles)) ELSE candles[j]
        BY <2>2, <3>1, <3>4, ReplaceLastProperties DEF SealedSeries
      <3> HIDE DEF ds
      <3>6. i \in 1..Len(candles) /\ ds[i].open = file'[i].open /\ ds[i].val = file'[i].val
        BY <3>2, <3>5 DEF Mirrors, SameCandle
      <3>7. ds[i].open = candles[i].open /\ ds[i].val = candles[i].val
        BY <3>3, <3>5, <3>6 DEF Sealed, Candle
      <3>8. Kept(candles[i])
        BY <3>6 DEF FinalInv, StoreInv
      <3>9. QED
        BY <3>6, <3>7, <3>8 DEF Kept
    <2>3. QED
      BY <1>3, <2>1, <2>2
  <1>5. QED
    BY <1>1, <1>2, <1>4 DEF StoreInv, Kept

LEMMA StoreStep ==
    ASSUME SyncInv, SourcedInv, IInv, IInv', FinalInv, DiskMayFail = FALSE,
           [SyncNext]_syncVars
    PROVE  StoreInv'
  <1>1. now \in Nat /\ now' \in Nat /\ now <= now' /\ (~HandleLive => finals' = finals)
        /\ (~Tick => now' = now)
    BY PlanFields, Grows
  <1>2. CASE UNCHANGED repoVars /\ ~HandleLive
    <2>1. candles' = candles /\ file' = file /\ finals' = finals
      BY <1>1, <1>2 DEF repoVars
    <2>2. \A c \in Candle \union Record : Kept(c) => Kept(c)'
      BY <1>1, <2>1 DEF Kept, Candle, Record
    <2>3. /\ \A i \in 1..Len(candles) : candles[i] \in Candle
          /\ \A i \in 1..Len(file) : file[i] \in Record
      BY ElementOfSeq DEF IInv, TypeOK
    <2>4. QED
      BY <2>1, <2>2, <2>3 DEF FinalInv, StoreInv, Kept
  <1>3. ASSUME ~Die, opened', \A i \in 1..Len(candles') : Holds(candles[i])'
        PROVE  StoreInv'
    BY <1>3, StoreFromSeries
  <1>4. CASE Boot
    <2>1. now' = now /\ finals' = finals /\ opened' /\ ~Die
      BY <1>4 DEF Boot, Open, exchangeVars, liveVars, Die, Crash, CrashBetweenWrites
    <2>2. QED
      BY <1>3, <1>4, <2>1, BootHolds
  <1>5. CASE HandleLive
    <2> DEFINE c == Head(feed)
    <2>1. /\ c \in Sent(now) /\ AppendOrReplace(c) /\ now' = now
          /\ finals' = (IF c.closed THEN finals \union {c.open} ELSE finals)
          /\ InFlight(c)
      BY <1>5, LiveAppend
    <2> HIDE DEF c
    <2>2. c.open \in Nat /\ c.closed \in BOOLEAN /\ finals \subseteq Nat
      BY <2>1 DEF Sent, Candle, SyncInv, SyncTypes, SyncTypeOK
    <2>3. c.open \notin finals
      BY <2>1, <2>2 DEF InFlight, FlightAt, TailOpen
    <2>4. \A i \in 1..Len(candles') : Holds(candles[i])'
      BY <1>1, <2>1, <2>2, <2>3, AppendHolds DEF InFlight, FlightAt, TailOpen
    <2>5. opened' /\ ~Die
      BY <2>1 DEF AppendOrReplace, Die, Crash, CrashBetweenWrites, Forget
    <2>6. QED
      BY <1>3, <2>4, <2>5
  <1>6. CASE Die
    BY <1>6, DieStore
  <1>7. ASSUME NEW th \in Rest, RestStep(th), ~Repair(th)
        PROVE  StoreInv'
    <2> DEFINE c == Head(task[th].todo)
    <2>1. /\ c \in Sent(now) /\ AppendOrReplace(c) /\ now' = now /\ finals' = finals
          /\ th = "worker" => c \in Dated
          /\ th = "pager" => candles # <<>> /\ c.open < TailOpen
      BY <1>7, RestAppend
    <2> HIDE DEF c
    <2>2. opened' /\ ~Die
      BY <2>1 DEF AppendOrReplace, Die, Crash, CrashBetweenWrites, Forget
    <2>3. \A i \in 1..Len(candles') : Holds(candles[i])'
      <3>1. CASE th = "worker"
        BY <1>1, <2>1, <3>1, AppendHolds DEF Dated
      <3>2. CASE th = "pager"
        <4>1. candles' = candles
          BY <1>1, <2>1, <3>2, AppendEffect
        <4>2. QED
          BY <2>1, <4>1 DEF FinalInv, StoreInv, Holds, Kept
      <3>3. QED
        BY <3>1, <3>2 DEF Rest
    <2>4. QED
      BY <1>3, <2>2, <2>3
  <1>8. QED
    <2>1. UNCHANGED repoVars /\ HandleLive => StoreInv'
      BY <1>5
    <2>2. QED
      BY <1>2, <1>4, <1>5, <1>6, <1>7, RepositoryCalls

(* An update that was in flight still is, and comes after the handled ones.*)
LEMMA FlightKept ==
    ASSUME SyncInv, now \in Nat, now' \in Nat, now <= now', finals' = finals,
           candles' = candles, NEW c \in Candle, InFlight(c)
    PROVE  InFlightNext(c)
  BY DEF InFlightNext, InFlight, FlightAt, Candle

LEMMA FeedKept ==
    ASSUME SyncInv, SourcedInv, FinalInv, now' \in Nat, now <= now', finals' = finals,
           candles' = candles, feed' = feed,
           pc'["live"] = "off" => ~connected' /\ feed' = <<>>
    PROVE  FeedInv'
  <1>1. /\ now \in Nat /\ \A i \in 1..Len(feed) : InFlight(feed[i])
        /\ \A i, j \in 1..Len(feed) : i < j => Before(feed[i], feed[j])
        /\ \A i \in 1..Len(feed) : feed[i] \in Candle
    BY PlanFields, ElementOfSeq DEF FinalInv, FeedInv
  <1>2. \A i \in 1..Len(feed) : InFlightNext(feed[i])
    BY <1>1, FlightKept
  <1>3. QED
    BY <1>1, <1>2 DEF FeedInv, InFlightNext, InFlight, FlightAt, Before

LEMMA FeedEmpty ==
    ASSUME feed' = <<>>, pc'["live"] = "off" => ~connected'
    PROVE  FeedInv'
  <1>1. Len(feed') = 0
    BY EmptySeq
  <1>2. QED
    BY <1>1 DEF FeedInv

(* The exchange sends a live update of its candle in progress.             *)
LEMMA FeedGrows ==
    ASSUME SyncInv, SourcedInv, FinalInv, NEW final \in BOOLEAN,
           now' \in Nat, now <= now', final => now < now',
           feed' = Append(feed, Update(now, final)), connected,
           UNCHANGED <<finals, candles, connected, pc>>
    PROVE  FeedInv'
  <1> DEFINE u == Update(now, final)
  <1>1. /\ now \in Nat /\ \A i \in 1..Len(feed) : InFlight(feed[i]) /\ feed[i] \in Candle
        /\ \A i, j \in 1..Len(feed) : i < j => Before(feed[i], feed[j])
        /\ \A i \in 1..Len(feed) : feed[i].open \in Nat /\ feed[i].open <= now
        /\ feed \in Seq(Candle) /\ pc["live"] # "off" /\ \A t \in finals : t < now
    <2>1. feed \in Seq(Candle) /\ feed \in Seq(Sent(now)) /\ now \in Nat
      BY PlanFields DEF SourcedInv, SourceInv
    <2>2. \A i \in 1..Len(feed) : feed[i] \in Candle /\ feed[i] \in Sent(now)
      BY <2>1, ElementOfSeq
    <2>3. QED
      BY <2>1, <2>2 DEF FinalInv, FeedInv, FinalsInv, Sent, Candle
  <1>2. /\ u \in Candle /\ u.open = now /\ u.closed = final
        /\ u.val = IF final THEN Final ELSE Partial
    BY <1>1, UpdateIsCandle DEF Update
  <1>3. candles # <<>> => TailOpen <= now
    <2>1. candles # <<>> => Kept(candles[Len(candles)]) /\ TailOpen = candles[Len(candles)].open
      BY TailIs DEF FinalInv, StoreInv
    <2>2. QED
      BY <2>1 DEF Kept
  <1>4. InFlightNext(u)
    BY <1>1, <1>2, <1>3 DEF InFlightNext, FlightAt, TailOpen
  <1>5. \A i \in 1..Len(feed) : InFlightNext(feed[i])
    BY <1>1, FlightKept
  <1>6. \A i \in 1..Len(feed) : Before(feed[i], u)
    BY <1>1, <1>2 DEF Before, InFlight, FlightAt
  <1> HIDE DEF u
  <1>7. /\ Len(feed') = Len(feed) + 1 /\ feed'[Len(feed) + 1] = u /\ Len(feed) \in Nat
        /\ \A i \in 1..Len(feed) : feed'[i] = feed[i]
    <2>1. feed' = Append(feed, u)
      BY DEF u
    <2>2. QED
      BY <1>1, <1>2, <2>1, AppendProperties, LenProperties
  <1>8. \A i \in 1..Len(feed') : i \in 1..Len(feed) \/ i = Len(feed) + 1
    BY <1>7
  <1>9. \A i \in 1..Len(feed') : InFlightNext(feed'[i])
    BY <1>4, <1>5, <1>7, <1>8
  <1>10. ASSUME NEW i \in 1..Len(feed'), NEW j \in 1..Len(feed'), i < j
         PROVE  Before(feed'[i], feed'[j])
    <2>1. i \in 1..Len(feed)
      BY <1>7, <1>10
    <2>2. CASE j = Len(feed) + 1
      BY <1>6, <1>7, <2>1, <2>2
    <2>3. CASE j # Len(feed) + 1
      BY <1>1, <1>7, <1>8, <1>10, <2>1, <2>3
    <2>4. QED
      BY <2>2, <2>3
  <1>11. QED
    BY <1>1, <1>9, <1>10 DEF FeedInv, InFlightNext, InFlight, FlightAt, Before

(* The live thread takes an update.                                        *)
LEMMA FeedTaken ==
    ASSUME SyncInv, SourcedInv, FinalInv, IgnoreLive \/ HandleLive
    PROVE  FeedInv'
  <1>1. /\ feed # <<>> /\ feed' = Tail(feed) /\ now' = now /\ pc["live"] = "idle"
        /\ pc'["live"] # "off"
    <2>1. feed # <<>> /\ feed' = Tail(feed) /\ now' = now /\ pc["live"] = "idle"
          /\ (pc' = pc \/ At("live", "publish"))
      BY DEF IgnoreLive, HandleLive
    <2>2. pc \in [Threads -> Labels]
      BY PlanFields
    <2>3. QED
      BY <2>1, <2>2 DEF At, Threads
  <1>2. /\ now \in Nat /\ feed \in Seq(Candle) /\ feed \in Seq(Sent(now))
        /\ \A i \in 1..Len(feed) : InFlight(feed[i])
        /\ \A i, j \in 1..Len(feed) : i < j => Before(feed[i], feed[j])
    BY PlanFields DEF SourcedInv, SourceInv, FinalInv, FeedInv
  <1>3. /\ \A i \in 1..Len(feed') : i + 1 \in 1..Len(feed) /\ feed'[i] = feed[i + 1]
        /\ Head(feed) = feed[1] /\ 1 \in 1..Len(feed) /\ Len(feed') \in Nat
    BY <1>1, <1>2, TailElements
  <1>4. \A i, j \in 1..Len(feed') : i < j => Before(feed'[i], feed'[j])
    <2>1. ASSUME NEW i \in 1..Len(feed'), NEW j \in 1..Len(feed'), i < j
          PROVE  Before(feed'[i], feed'[j])
      <3>1. i + 1 < j + 1
        BY <1>3, <2>1
      <3>2. QED
        BY <1>2, <1>3, <3>1
    <2>2. QED
      BY <2>1
  <1>5. ASSUME NEW i \in 1..Len(feed')
        PROVE  InFlightNext(feed'[i])
    <2>1. InFlight(feed'[i]) /\ feed'[i] \in Candle
      BY <1>2, <1>3, ElementOfSeq
    <2>2. CASE IgnoreLive
      <3>1. candles' = candles /\ finals' = finals
        BY <2>2 DEF IgnoreLive, repoVars, liveVars
      <3>2. QED
        BY <1>1, <2>1, <3>1 DEF InFlightNext, InFlight, FlightAt, TailOpen
    <2>3. CASE HandleLive
      <3> DEFINE c == Head(feed)
      <3>1. /\ c \in Sent(now) /\ AppendOrReplace(c) /\ InFlight(c) /\ Before(c, feed'[i])
            /\ finals' = (IF c.closed THEN finals \union {c.open} ELSE finals)
        BY <2>3, LiveAppend
      <3> HIDE DEF c
      <3>2. TailOpen' \in {c.open, TailOpen} /\ (candles = <<>> => TailOpen' = c.open)
        BY <1>2, <3>1, AppendEffect
      <3>3. c.open \in Nat /\ c.open <= feed'[i].open
        BY <3>1 DEF Sent, Candle, Before
      <3>4. candles' # <<>> => TailOpen' <= feed'[i].open
        BY <2>1, <3>2, <3>3 DEF InFlight, FlightAt, TailOpen
      <3>5. \A t \in finals' : t < feed'[i].open
        BY <2>1, <3>1 DEF InFlight, FlightAt, Before
      <3>6. QED
        BY <1>1, <2>1, <3>4, <3>5 DEF InFlightNext, InFlight, FlightAt, TailOpen
    <2>4. QED
      BY <2>2, <2>3
  <1>6. QED
    BY <1>1, <1>4, <1>5 DEF FeedInv, InFlightNext, InFlight, FlightAt, Before

(* The worker appends when no live update is in flight.                    *)
LEMMA FeedOff ==
    ASSUME SyncInv, FinalInv, UNCHANGED <<feed, connected>>,
           pc["worker"] # "live", pc'["live"] = pc["live"]
    PROVE  FeedInv'
  <1>1. pc["live"] = "off" /\ feed = <<>> /\ ~connected
    BY DEF SyncInv, PhaseInv, FinalInv, FeedInv
  <1>2. QED
    BY <1>1, FeedEmpty

LEMMA FeedStep ==
    ASSUME SyncInv, SourcedInv, FinalInv, [SyncNext]_syncVars
    PROVE  FeedInv'
  <1>1. /\ now \in Nat /\ now' \in Nat /\ now <= now' /\ (~HandleLive => finals' = finals)
        /\ pc \in [Threads -> Labels] /\ (pc["live"] = "off" => ~connected /\ feed = <<>>)
    BY PlanFields, Grows DEF FinalInv, FeedInv
  <1>2. CASE Tick
    <2>1. UNCHANGED <<finals, candles, connected, pc>> /\ now' = now + Interval
      BY <1>2 DEF Tick, liveVars, repoVars
    <2>2. now < now'
      BY <1>1, <2>1, IntervalAssumption
    <2>3. (connected /\ feed' = Append(feed, Update(now, TRUE))) \/ feed' = feed
      BY <1>2 DEF Tick
    <2>4. QED
      BY <1>1, <2>1, <2>2, <2>3, FeedGrows, FeedKept
  <1>3. CASE Push
    <2>1. UNCHANGED <<finals, candles, connected, pc>> /\ connected
          /\ feed' = Append(feed, Update(now, FALSE))
      BY <1>3 DEF Push, liveVars, repoVars
    <2>2. QED
      BY <1>1, <2>1, FeedGrows
  <1>4. CASE IgnoreLive \/ HandleLive
    BY <1>4, FeedTaken
  <1>5. CASE Disconnect \/ StopLiveStream \/ Die
    BY <1>5, FeedEmpty DEF Disconnect, StopLiveStream, Die, Restarted
  <1>6. ASSUME candles' = candles, feed' = feed, finals' = finals, connected' = connected,
               pc'["live"] = "off" => pc["live"] = "off"
        PROVE  FeedInv'
    BY <1>1, <1>6, FeedKept
  <1>7. CASE Connect
    BY <1>1, <1>7, FeedKept DEF Connect, repoVars, liveVars
  <1>8. CASE Boot
    <2>1. pc["worker"] = "off" /\ pc'["live"] = pc["live"] /\ UNCHANGED <<feed, connected>>
      BY <1>1, <1>8 DEF Boot, Open, At, SyncInv, PhaseInv, Threads, exchangeVars
    <2>2. QED
      BY <2>1, FeedOff
  <1>9. ASSUME NEW th \in Rest, RestStep(th)
        PROVE  FeedInv'
    <2>1. UNCHANGED <<feed, connected, finals>> /\ pc'["live"] = pc["live"]
          /\ pc[th] \in {"append", "repair", "fill", "retry"}
      BY <1>1, <1>9 DEF RestStep, AppendPage, Repair, Fill, Retry, At, exchangeVars, liveVars,
                        Threads, Rest
    <2>2. CASE candles' = candles
      BY <1>6, <2>1, <2>2
    <2>3. CASE RestStep("worker") /\ ~Repair("worker")
      <3>1. pc["worker"] # "live"
        BY <2>3 DEF RestStep, AppendPage, Fill, Retry
      <3>2. QED
        BY <2>1, <3>1, FeedOff
    <2>4. CASE Boot \/ HandleLive \/ Die
      BY <1>4, <1>5, <1>8, <2>4
    <2>5. QED
      BY <2>2, <2>3, <2>4, SeriesChanges
  <1>10. ASSUME NEW th \in Threads, PublishStep(th)
         PROVE  FeedInv'
    <2>1. UNCHANGED <<candles, feed, connected, finals>>
      BY <1>10 DEF PublishStep, TakeSnapshot, UpdateCache, repoVars, exchangeVars, liveVars
    <2>2. pc'["live"] = "off" => pc["live"] = "off"
      <3>1. \E l \in Labels : At(th, l) /\ (th = "live" => l # "off")
        BY <1>10 DEF PublishStep, TakeSnapshot, UpdateCache, Labels, Threads
      <3>2. QED
        BY <1>1, <3>1 DEF At, Threads
    <2>3. QED
      BY <1>6, <2>1, <2>2
  <1>11. CASE UNCHANGED <<repoVars, feed, connected, finals>>
              /\ (pc'["live"] = "off" => pc["live"] = "off")
    BY <1>6, <1>11 DEF repoVars
  <1>12. QED
    <2>1. \/ Stop \/ LeaveLoop \/ GiveUp \/ AcceptPage \/ Widen \/ BeginBackfill \/ FetchPage
          \/ NextPage \/ EndRun \/ StartLiveStream \/ RequestBackfillOlder \/ FetchOlder
          \/ UNCHANGED syncVars
          => /\ UNCHANGED <<repoVars, feed, connected, finals>>
             /\ pc'["live"] = "off" => pc["live"] = "off"
      BY <1>1 DEF Stop, LeaveLoop, GiveUp, AcceptPage, Widen, BeginBackfill, FetchPage, NextPage,
                  EndRun, StartLiveStream, RequestBackfillOlder, FetchOlder, syncVars, At,
                  Threads, exchangeVars, liveVars
    <2>2. QED
      BY <1>2, <1>3, <1>4, <1>5, <1>7, <1>8, <1>9, <1>10, <1>11, <2>1 DEF SyncNext, WorkerStep

(* A REST answer has the final value of every candle it may matter for:    *)
(* such a candle is over.                                                  *)
LEMMA AnswersAreDated ==
    ASSUME now \in Nat, faults \in 0..MaxFaults, FinalsInv,
           NEW from, NEW to, NEW limit \in Int, NEW got \in FetchRange(from, to, limit)
    PROVE  got.page \in Seq(Dated)
  <1>1. ASSUME NEW t \in Listed..now
        PROVE  Kline(t) \in Dated
    <2>1. Kline(t) \in Candle /\ Kline(t).open = t /\ Kline(t).closed
          /\ (t < now => Kline(t).val = Final)
      BY <1>1, SyncAssumption DEF Kline, Candle
    <2>2. t \in finals => t < now
      BY DEF FinalsInv
    <2>3. QED
      BY <2>1, <2>2 DEF Dated
  <1>2. Klines(from, to, limit) \in Seq(Dated)
    BY <1>1, KlinesAreFrom
  <1>3. QED
    BY <1>2, AnswersAreFrom

LEMMA RestStepOrdered ==
    ASSUME SyncInv, FinalInv, RestStep("worker")
    PROVE  Ordered(task'["worker"].batch) /\ Ordered(task'["worker"].todo)
  <1> DEFINE t == task["worker"]
  <1>1. /\ task \in [Rest -> Page] /\ "worker" \in Rest
        /\ t.batch \in Seq(Dated) /\ t.todo \in Seq(Dated) /\ Ordered(t.batch) /\ Ordered(t.todo)
        /\ now \in Nat /\ faults \in 0..MaxFaults
    BY PlanFields DEF FinalInv, WorkerInv, Rest
  <1>2. /\ t.todo # <<>> => Ordered(Tail(t.todo))
        /\ Ordered(Retried("worker")) /\ Ordered(<<>>)
    <2>1. t.todo # <<>> => Ordered(Tail(t.todo))
      BY <1>1, OrderedTail
    <2>2. Ordered(Retried("worker"))
      BY <1>1, RetriedOrdered
    <2>3. QED
      BY <2>1, <2>2 DEF Ordered
  <1>3. CASE AppendPage("worker")
    <2>1. t.todo # <<>>
      BY <1>3 DEF AppendPage, AppendHead
    <2>2. QED
      BY <1>1, <1>2, <1>3, <2>1, AppendTask
  <1>4. CASE Fill("worker") \/ Retry("worker")
    <2>1. t.todo # <<>>
      BY <1>4 DEF Fill, Retry, AppendHead
    <2>2. PICK todo : task' = [task EXCEPT !["worker"].todo = todo] /\ Ordered(todo)
      BY <1>2, <1>4, <2>1 DEF Fill, Retry
    <2>3. QED
      BY <1>1, <2>2, TodoSet
  <1>5. CASE Repair("worker")
    <2> DEFINE gap == task["worker"].gap[1]
               limit == (gap.to - gap.from + Interval - 1) \div Interval
    <2>1. limit \in Int
      BY <1>1, <1>5, RepairLimit
    <2>2. \/ task' = task
          \/ \E missing \in FetchRange(gap.from, gap.to - 1, limit) :
                task' = [task EXCEPT !["worker"].todo =
                           IF missing.page = <<>> THEN Retried("worker") ELSE missing.page]
      BY <1>5 DEF Repair
    <2> HIDE DEF gap, limit
    <2>3. CASE task' = task
      BY <1>1, <2>3
    <2>4. ASSUME NEW missing \in FetchRange(gap.from, gap.to - 1, limit),
                 task' = [task EXCEPT !["worker"].todo =
                           IF missing.page = <<>> THEN Retried("worker") ELSE missing.page]
          PROVE  Ordered(task'["worker"].batch) /\ Ordered(task'["worker"].todo)
      <3>1. Ordered(missing.page)
        BY <1>1, <2>1, AnswersOrdered
      <3>2. PICK todo : task' = [task EXCEPT !["worker"].todo = todo] /\ Ordered(todo)
        BY <1>2, <2>4, <3>1
      <3>3. QED
        BY <1>1, <3>2, TodoSet
    <2>5. QED
      BY <2>2, <2>3, <2>4
  <1>6. QED
    BY <1>3, <1>4, <1>5 DEF RestStep

(* No final update is handled while the worker has a page in hand.         *)
LEMMA WorkerPageStep ==
    ASSUME SyncInv, SourcedInv, FinalInv, [SyncNext]_syncVars
    PROVE  WorkerInv'
  <1> DEFINE t == task["worker"]
             u == task'["worker"]
  <1>1. /\ task \in [Rest -> Page] /\ pc \in [Threads -> Labels] /\ "worker" \in Rest
        /\ t.batch \in Seq(Dated) /\ t.todo \in Seq(Dated) /\ Ordered(t.batch) /\ Ordered(t.todo)
        /\ (pc["worker"] = "live" => t.batch = <<>> /\ t.todo = <<>>)
        /\ now \in Nat /\ faults \in 0..MaxFaults /\ (~HandleLive => finals' = finals)
    BY PlanFields, Grows DEF FinalInv, WorkerInv, Rest
  <1>2. ASSUME finals' = finals, u.batch \in Seq(Dated), u.todo \in Seq(Dated),
               Ordered(u.batch), Ordered(u.todo),
               pc'["worker"] # "live" \/ (u.batch = <<>> /\ u.todo = <<>>)
        PROVE  WorkerInv'
    <2>1. Dated' = Dated
      BY <1>2 DEF Dated
    <2>2. QED
      BY <1>2, <2>1 DEF WorkerInv, Ordered
  <1>3. ASSUME u.batch = <<>>, u.todo = <<>>
        PROVE  WorkerInv'
    <2>1. <<>> \in Seq(Dated')
      BY EmptySeq
    <2>2. Ordered(<<>>)
      BY DEF Ordered
    <2>3. QED
      BY <1>3, <2>1, <2>2 DEF WorkerInv, Ordered
  <1>4. CASE HandleLive
    <2>1. u = t /\ pc["worker"] = "live"
      BY <1>4, LiveAppend
    <2>2. QED
      BY <1>1, <1>3, <2>1
  <1>5. CASE RestStep("worker")
    <2>1. \A from, to, limit : limit \in Int
             => \A got \in FetchRange(from, to, limit) : got.page \in Seq(Dated)
      BY <1>1, AnswersAreDated DEF FinalInv
    <2>2. u.batch \in Seq(Dated) /\ u.todo \in Seq(Dated)
      BY <1>1, <1>5, <2>1, RestStepPages
    <2>3. Ordered(u.batch) /\ Ordered(u.todo)
      BY <1>1, <1>5, RestStepOrdered
    <2>4. finals' = finals /\ pc'["worker"] # "live"
      BY <1>1, <1>5 DEF RestStep, AppendPage, Repair, Fill, Retry, At, liveVars, Threads
    <2>5. QED
      BY <1>2, <2>2, <2>3, <2>4
  <1>6. CASE FetchPage
    <2>1. Batch \in Int
      BY SyncAssumption
    <2>2. PICK got \in FetchRange(plan.next, RequestEnd, Batch) :
              task' = [task EXCEPT !["worker"] = TaskOf(got.page)]
      BY <1>6 DEF FetchPage
    <2>3. got.page \in Seq(Dated) /\ Ordered(got.page)
      BY <1>1, <2>1, AnswersAreDated, AnswersOrdered DEF FinalInv
    <2>4. u.batch = got.page /\ u.todo = got.page
      BY <1>1, <2>2, PageSet
    <2>5. finals' = finals /\ pc'["worker"] # "live"
      BY <1>1, <1>6 DEF FetchPage, At, liveVars, Threads
    <2>6. QED
      BY <1>2, <2>3, <2>4, <2>5
  <1>7. CASE NextPage \/ EndRun \/ StartLiveStream \/ Die
    <2>1. u = NoTask
      BY <1>1, <1>7 DEF NextPage, EndRun, StartLiveStream, Die, Restarted
    <2>2. QED
      BY <1>3, <2>1 DEF NoTask, TaskOf
  <1>8. CASE RequestBackfillOlder \/ FetchOlder \/ RestStep("pager")
    <2>1. finals' = finals /\ pc'["worker"] = pc["worker"]
      BY <1>1, <1>8 DEF RequestBackfillOlder, FetchOlder, RestStep, AppendPage, Repair, Fill,
                        Retry, At, liveVars, Threads
    <2>2. u = t
      <3>1. CASE RequestBackfillOlder \/ FetchOlder
        BY <1>1, <3>1 DEF RequestBackfillOlder, FetchOlder
      <3>2. CASE RestStep("pager")
        <4>1. \/ task' = task \/ AppendPage("pager")
              \/ \E todo : task' = [task EXCEPT !["pager"].todo = todo]
          BY <3>2 DEF RestStep, Repair, Fill, Retry
        <4>2. "pager" \in Rest /\ "worker" # "pager"
          BY DEF Rest
        <4>3. QED
          BY <1>1, <4>1, <4>2, AppendTask, TodoSet
      <3>3. QED
        BY <1>8, <3>1, <3>2
    <2>3. QED
      BY <1>1, <1>2, <2>1, <2>2
  <1>9. CASE /\ finals' = finals /\ task' = task
             /\ pc'["worker"] = pc["worker"] \/ pc'["worker"] # "live"
    BY <1>1, <1>2, <1>9
  <1>10. ASSUME NEW th \in Threads, PublishStep(th)
         PROVE  WorkerInv'
    <2>1. finals' = finals /\ task' = task
          /\ \E l \in Labels \ {"live"} : At(th, l)
      BY <1>10 DEF PublishStep, TakeSnapshot, UpdateCache, liveVars, Labels, Threads
    <2>2. pc'["worker"] = pc["worker"] \/ pc'["worker"] # "live"
      BY <1>1, <2>1 DEF At, Threads
    <2>3. QED
      BY <1>9, <2>1, <2>2
  <1>11. QED
    <2>1. \/ Tick \/ Push \/ Connect \/ Disconnect \/ Boot \/ Stop \/ BeginBackfill
          \/ LeaveLoop \/ Widen \/ GiveUp \/ AcceptPage \/ StopLiveStream \/ IgnoreLive
          \/ UNCHANGED syncVars
          => /\ finals' = finals /\ task' = task
             /\ pc'["worker"] = pc["worker"] \/ pc'["worker"] # "live"
      BY <1>1 DEF Tick, Push, Connect, Disconnect, Boot, Stop, BeginBackfill, LeaveLoop, Widen,
                  GiveUp, AcceptPage, StopLiveStream, IgnoreLive, syncVars, liveVars, At,
                  Threads
    <2>2. QED
      BY <1>4, <1>5, <1>6, <1>7, <1>8, <1>9, <1>10, <2>1 DEF SyncNext, WorkerStep, Rest

(* A repair asks for what lies before the refused candle.                  *)
LEMMA AnswersAreBefore ==
    ASSUME now \in Nat, faults \in 0..MaxFaults, NEW from, NEW to \in Int, NEW limit \in Int,
           NEW got \in FetchRange(from, to - 1, limit)
    PROVE  \A i \in 1..Len(got.page) : got.page[i].open < to
  <1> DEFINE S == {c \in Candle : c.open < to}
  <1>1. ASSUME NEW t \in Listed..now, t <= to - 1
        PROVE  Kline(t) \in S
    <2>1. t \in Nat /\ t < to /\ Kline(t) \in Candle /\ Kline(t).open = t
      BY <1>1, SyncAssumption DEF Kline, Candle
    <2>2. QED
      BY <2>1
  <1> HIDE DEF S
  <1>2. Klines(from, to - 1, limit) \in Seq(S)
    BY <1>1, KlinesAreFrom
  <1>3. got.page \in Seq(S)
    BY <1>2, AnswersAreFrom
  <1>4. \A i \in 1..Len(got.page) : got.page[i] \in S
    BY <1>3, ElementOfSeq
  <1>5. QED
    BY <1>4 DEF S

LEMMA RepairKept ==
    ASSUME FinalInv, \/ candles' = candles /\ task'["worker"] = task["worker"]
                        /\ pc'["worker"] = pc["worker"]
                     \/ pc'["worker"] \notin {"repair", "fill", "retry"}
    PROVE  RepairInv'
  BY DEF FinalInv, RepairInv, TailOpen

LEMMA RestStepRepairs ==
    ASSUME SyncInv, SourcedInv, FinalInv, RestStep("worker")
    PROVE  RepairInv'
  <1> DEFINE t == task["worker"]
             c == Head(t.todo)
  <1>1. /\ task \in [Rest -> Page] /\ pc \in [Threads -> Labels] /\ "worker" \in Rest
        /\ "worker" \in Threads
        /\ t.todo \in Seq(Dated) /\ Ordered(t.todo) /\ t.batch \in Seq(Sent(now))
        /\ now \in Nat /\ faults \in 0..MaxFaults
    BY PlanFields DEF FinalInv, WorkerInv, Rest, Threads, SourcedInv, SourceInv
  <1>2. pc["worker"] \in {"repair", "fill"} =>
           candles # <<>> /\ t.gap[1].to \in Nat /\ TailOpen < t.gap[1].to
    BY DEF FinalInv, RepairInv
  <1>3. candles # <<>> => TailOpen \in Nat
    BY TailIs
  <1>4. t.todo # <<>> =>
           /\ \A i \in 1..Len(Tail(t.todo)) :
                 i + 1 \in 1..Len(t.todo) /\ Tail(t.todo)[i] = t.todo[i + 1]
           /\ c = t.todo[1] /\ 1 \in 1..Len(t.todo) /\ c \in Dated
           /\ \A i \in 1..Len(Tail(t.todo)) : c.open < Tail(t.todo)[i].open
    BY <1>1, TailElements, OrderedTail
  <1>5. \A i \in 1..Len(Retried("worker")) : Retried("worker")[i].open >= t.gap[1].to
    BY <1>1, RetriedLate
  <1>6. ASSUME ~Repair("worker")
        PROVE  c \in Sent(now) /\ AppendOrReplace(c) /\ c.open \in Nat
    BY <1>6, RestAppend DEF Sent, Candle, Rest
  <1>7. CASE AppendPage("worker")
    <2>1. /\ pc["worker"] = "append"
          /\ pc'["worker"] = IF Refused THEN "repair"
                             ELSE IF Len(t.todo) = 1 THEN "publish" ELSE "append"
      BY <1>1, <1>7 DEF AppendPage, At
    <2>2. task'["worker"].gap = (IF Refused THEN <<answer'>> ELSE t.gap)
      BY <1>1, <1>7, AppendTask
    <2>3. CASE Refused
      <3>1. c \in Sent(now) /\ AppendOrReplace(c)
        BY <1>6, <2>1 DEF Repair
      <3> HIDE DEF c
      <3>2. candles' = candles /\ candles # <<>> /\ answer'.to > TailOpen
        BY <1>1, <2>3, <3>1, AppendEffect
      <3>3. pc'["worker"] = "repair" /\ task'["worker"].gap[1] = answer'
        BY <2>1, <2>2, <2>3
      <3>4. TailOpen' = TailOpen
        BY <3>2 DEF TailOpen
      <3>5. answer'.to \in Nat
        <4>1. c \in Candle /\ OnGrid(c.open)
          BY <3>1 DEF Sent
        <4>2. answer'.to = AlignDown(c.open, Interval)
          BY <2>3, <3>1, <4>1, RefusedGap
        <4>3. QED
          BY <4>1, <4>2 DEF OnGrid
      <3>6. TailOpen < answer'.to
        BY <1>3, <3>2, <3>5
      <3>7. QED
        BY <3>2, <3>3, <3>4, <3>5, <3>6 DEF RepairInv
    <2>4. CASE ~Refused
      BY <2>1, <2>4, RepairKept
    <2>5. QED
      BY <2>3, <2>4
  <1>8. CASE Repair("worker")
    <2> DEFINE gap == t.gap[1]
               limit == (gap.to - gap.from + Interval - 1) \div Interval
    <2>1. limit \in Int /\ pc["worker"] = "repair" /\ candles' = candles
      BY <1>1, <1>8, RepairLimit DEF Repair, repoVars
    <2>2. gap.to \in Nat
      BY <1>2, <2>1
    <2>3. \/ pc'["worker"] = "publish"
          \/ \E missing \in FetchRange(gap.from, gap.to - 1, limit) :
                /\ task' = [task EXCEPT !["worker"].todo =
                              IF missing.page = <<>> THEN Retried("worker") ELSE missing.page]
                /\ pc'["worker"] = IF missing.page = <<>> THEN "retry" ELSE "fill"
      BY <1>1, <1>8 DEF Repair, At
    <2>4. CASE pc'["worker"] = "publish"
      BY <2>4, RepairKept
    <2>5. ASSUME NEW missing \in FetchRange(gap.from, gap.to - 1, limit),
                 task' = [task EXCEPT !["worker"].todo =
                            IF missing.page = <<>> THEN Retried("worker") ELSE missing.page],
                 pc'["worker"] = IF missing.page = <<>> THEN "retry" ELSE "fill"
          PROVE  RepairInv'
      <3>1. gap.to \in Int
        BY <2>2
      <3> HIDE DEF limit, gap
      <3>2. \A i \in 1..Len(missing.page) : missing.page[i].open < gap.to
        BY <1>1, <2>1, <2>5, <3>1, AnswersAreBefore
      <3> DEFINE todo == IF missing.page = <<>> THEN Retried("worker") ELSE missing.page
      <3>3. task'["worker"].todo = todo /\ task'["worker"].gap = t.gap
        BY <1>1, <2>5, TodoSet
      <3>4. candles # <<>> /\ TailOpen < gap.to /\ TailOpen' = TailOpen /\ candles' # <<>>
        BY <1>2, <2>1 DEF TailOpen, gap
      <3>5. CASE missing.page = <<>>
        <4>1. task'["worker"].todo = Retried("worker") /\ pc'["worker"] = "retry"
          BY <2>5, <3>3, <3>5
        <4>2. ASSUME NEW i \in 1..Len(Retried("worker"))
              PROVE  TailOpen' < Retried("worker")[i].open
          <5>1. Retried("worker")[i].open \in Nat /\ Retried("worker")[i].open >= gap.to
            <6>1. Retried("worker") \in Seq(Sent(now))
              BY <1>1, RetriedFrom
            <6>2. Retried("worker")[i] \in Sent(now)
              BY <6>1, ElementOfSeq
            <6>3. QED
              BY <1>5, <6>2 DEF Sent, Candle, gap
          <5>2. QED
            BY <1>3, <2>2, <3>4, <5>1
        <4>3. QED
          BY <3>4, <4>1, <4>2 DEF RepairInv
      <3>6. CASE missing.page # <<>>
        <4>1. task'["worker"].todo = missing.page /\ pc'["worker"] = "fill"
          BY <2>5, <3>3, <3>6
        <4>2. QED
          BY <2>2, <3>2, <3>3, <3>4, <4>1 DEF RepairInv, gap
      <3>7. QED
        BY <3>5, <3>6
    <2>6. QED
      BY <2>3, <2>4, <2>5
  <1>9. CASE Fill("worker")
    <2> DEFINE done == Refused \/ Len(t.todo) = 1
    <2>1. /\ pc["worker"] = "fill" /\ t.todo # <<>>
          /\ task' = [task EXCEPT !["worker"].todo =
                        IF done THEN Retried("worker") ELSE Tail(t.todo)]
          /\ pc'["worker"] = IF done THEN "retry" ELSE "fill"
      BY <1>1, <1>9 DEF Fill, AppendHead, At
    <2>2. c \in Sent(now) /\ AppendOrReplace(c) /\ c.open \in Nat
      BY <1>6, <2>1 DEF Repair
    <2>3. c.open < t.gap[1].to /\ \A i \in 1..Len(Tail(t.todo)) : Tail(t.todo)[i].open < t.gap[1].to
      BY <1>4, <2>1 DEF FinalInv, RepairInv
    <2>4. candles' # <<>> /\ TailOpen' < t.gap[1].to /\ TailOpen' \in Nat
      <3> HIDE DEF c
      <3>1. candles' # <<>> /\ TailOpen' \in {c.open, TailOpen}
        BY <1>1, <2>2, AppendEffect
      <3>2. QED
        BY <1>2, <1>3, <2>1, <2>2, <2>3, <3>1
    <2> HIDE DEF c
    <2>5. /\ task'["worker"].todo = (IF done THEN Retried("worker") ELSE Tail(t.todo))
          /\ task'["worker"].gap = t.gap
      BY <1>1, <2>1, TodoSet
    <2>6. CASE done
      <3>1. task'["worker"].todo = Retried("worker") /\ pc'["worker"] = "retry"
        BY <2>1, <2>5, <2>6
      <3>2. ASSUME NEW i \in 1..Len(Retried("worker"))
            PROVE  TailOpen' < Retried("worker")[i].open
        <4>1. Retried("worker") \in Seq(Sent(now))
          BY <1>1, RetriedFrom
        <4>2. Retried("worker")[i] \in Sent(now)
          BY <4>1, ElementOfSeq
        <4>3. Retried("worker")[i].open \in Nat /\ Retried("worker")[i].open >= t.gap[1].to
          BY <1>5, <4>2 DEF Sent, Candle
        <4>4. QED
          BY <1>2, <2>1, <2>4, <4>3
      <3>3. QED
        BY <2>4, <3>1, <3>2 DEF RepairInv
    <2>7. CASE ~done
      <3>1. task'["worker"].todo = Tail(t.todo) /\ pc'["worker"] = "fill"
        BY <2>1, <2>5, <2>7
      <3>2. QED
        BY <1>2, <2>1, <2>3, <2>4, <2>5, <3>1 DEF RepairInv
    <2>8. QED
      BY <2>6, <2>7
  <1>10. CASE Retry("worker")
    <2> DEFINE done == Refused \/ Len(t.todo) = 1
    <2>1. /\ pc["worker"] = "retry" /\ t.todo # <<>>
          /\ task' = [task EXCEPT !["worker"].todo = IF done THEN <<>> ELSE Tail(t.todo)]
          /\ pc'["worker"] = IF done THEN "publish" ELSE "retry"
      BY <1>1, <1>10 DEF Retry, AppendHead, At
    <2>2. CASE done
      <3>1. pc'["worker"] = "publish"
        BY <2>1, <2>2
      <3>2. QED
        BY <3>1, RepairKept
    <2>3. CASE ~done
      <3>1. pc'["worker"] = "retry" /\ task'["worker"].todo = Tail(t.todo)
        BY <1>1, <2>1, <2>3, TodoSet
      <3>2. c \in Sent(now) /\ AppendOrReplace(c) /\ c.open \in Nat
        BY <1>6, <2>1 DEF Repair
      <3>3. TailOpen < c.open /\ \A i \in 1..Len(Tail(t.todo)) : c.open < Tail(t.todo)[i].open
        BY <1>4, <2>1 DEF FinalInv, RepairInv
      <3> HIDE DEF c
      <3>4. candles' # <<>> /\ TailOpen' \in {c.open, TailOpen} /\ candles # <<>>
        BY <1>1, <2>1, <3>2, AppendEffect DEF FinalInv, RepairInv
      <3>5. ASSUME NEW i \in 1..Len(Tail(t.todo))
            PROVE  TailOpen' < Tail(t.todo)[i].open
        <4>1. Tail(t.todo)[i] \in Candle
          BY <1>1, <1>4, <2>1, ElementOfSeq DEF Dated
        <4>2. Tail(t.todo)[i].open \in Nat
          BY <4>1 DEF Candle
        <4>3. QED
          BY <1>3, <3>2, <3>3, <3>4, <4>2
      <3>6. QED
        BY <3>1, <3>4, <3>5 DEF RepairInv
    <2>4. QED
      BY <2>2, <2>3
  <1>11. QED
    BY <1>7, <1>8, <1>9, <1>10 DEF RestStep

(* The paging thread changes neither the series nor the worker's page.     *)
LEMMA OlderKeepsSeries ==
    ASSUME SyncInv, SourcedInv, FinalInv, RestStep("pager") \/ FetchOlder \/ RequestBackfillOlder
    PROVE  candles' = candles
  <1>1. "pager" \in Rest
    BY DEF Rest
  <1>2. CASE RestStep("pager")
    <2>1. CASE Repair("pager")
      BY <2>1 DEF Repair, repoVars
    <2>2. CASE ~Repair("pager")
      <3>1. /\ Head(task["pager"].todo) \in Sent(now)
            /\ AppendOrReplace(Head(task["pager"].todo))
            /\ candles # <<>> /\ Head(task["pager"].todo).open < TailOpen /\ now \in Nat
        BY <1>1, <1>2, <2>2, RestAppend, PlanFields
      <3>2. QED
        BY <3>1, AppendEffect
    <2>3. QED
      BY <2>1, <2>2
  <1>3. QED
    BY <1>2 DEF FetchOlder, RequestBackfillOlder, repoVars

LEMMA OlderKeepsWorker ==
    ASSUME SyncInv, RestStep("pager") \/ FetchOlder \/ RequestBackfillOlder
    PROVE  pc'["worker"] = pc["worker"] /\ task'["worker"] = task["worker"]
  <1>1. /\ task \in [Rest -> Page] /\ pc \in [Threads -> Labels]
        /\ "worker" \in Rest /\ "pager" \in Rest /\ "worker" \in Threads
    BY PlanFields DEF Rest, Threads
  <1>2. pc'["worker"] = pc["worker"]
    BY <1>1 DEF RestStep, AppendPage, Repair, Fill, Retry, FetchOlder,
                RequestBackfillOlder, At, Threads
  <1>3. CASE RequestBackfillOlder \/ FetchOlder
    BY <1>1, <1>2, <1>3 DEF RequestBackfillOlder, FetchOlder
  <1>4. CASE RestStep("pager")
    <2>1. \/ task' = task \/ AppendPage("pager")
          \/ \E todo : task' = [task EXCEPT !["pager"].todo = todo]
      BY <1>4 DEF RestStep, Repair, Fill, Retry
    <2>2. QED
      BY <1>1, <1>2, <2>1, AppendTask, TodoSet
  <1>5. QED
    BY <1>3, <1>4

LEMMA RepairPartStep ==
    ASSUME SyncInv, SourcedInv, FinalInv, [SyncNext]_syncVars
    PROVE  RepairInv'
  <1>1. /\ task \in [Rest -> Page] /\ pc \in [Threads -> Labels]
        /\ "worker" \in Rest /\ "pager" \in Rest /\ "worker" \in Threads
    BY PlanFields DEF Rest, Threads
  <1>2. CASE RestStep("worker")
    BY <1>2, RestStepRepairs
  <1>3. CASE HandleLive
    BY <1>3, LiveAppend, RepairKept
  <1>4. CASE Boot \/ Die
    <2>1. pc'["worker"] = "begin" \/ pc'["worker"] = "off"
      BY <1>1, <1>4 DEF Boot, Die, Restarted, At
    <2>2. QED
      BY <2>1, RepairKept
  <1>5. ASSUME candles' = candles, task' = task, NEW th \in Threads, NEW l \in Labels,
               At(th, l), l \notin {"repair", "fill", "retry"}
        PROVE  RepairInv'
    <2>1. pc'["worker"] = pc["worker"] \/ pc'["worker"] = l
      BY <1>1, <1>5 DEF At
    <2>2. QED
      BY <1>5, <2>1, RepairKept
  <1>6. ASSUME NEW th \in Threads, PublishStep(th)
        PROVE  RepairInv'
    <2>1. candles' = candles /\ task' = task
          /\ \E l \in Labels \ {"repair", "fill", "retry"} : At(th, l)
      BY <1>6 DEF PublishStep, TakeSnapshot, UpdateCache, repoVars, Labels
    <2>2. QED
      BY <1>5, <2>1
  <1>7. CASE RestStep("pager") \/ FetchOlder \/ RequestBackfillOlder
    BY <1>7, OlderKeepsSeries, OlderKeepsWorker, RepairKept
  <1>8. QED
    <2>1. \/ Tick \/ Push \/ Connect \/ Disconnect \/ Stop \/ IgnoreLive \/ UNCHANGED syncVars
          => candles' = candles /\ task' = task /\ pc' = pc
      BY DEF Tick, Push, Connect, Disconnect, Stop, IgnoreLive, syncVars, repoVars
    <2>2. WorkerStep => pc'["worker"] \notin {"repair", "fill", "retry"}
      BY <1>1 DEF WorkerStep, BeginBackfill, LeaveLoop, FetchPage, Widen, GiveUp, AcceptPage,
                  NextPage, EndRun, StartLiveStream, StopLiveStream, At
    <2>3. QED
      BY <1>2, <1>3, <1>4, <1>6, <1>7, <2>1, <2>2, RepairKept DEF SyncNext, Rest

(* The paging thread asks for what lies before the first candle shown.     *)
LEMMA PagerAsks ==
    ASSUME SyncInv, SourcedInv, FinalInv, RequestBackfillOlder, PageBars * Interval <= Listed
    PROVE  /\ candles # <<>> /\ task'["pager"].from + PageBars * Interval <= TailOpen
           /\ pc'["pager"] = "request"
  <1> DEFINE first == Shown[1].open
  <1>1. /\ task \in [Rest -> Page] /\ pc \in [Threads -> Labels]
        /\ "pager" \in Rest /\ "pager" \in Threads
    BY PlanFields DEF Rest, Threads
  <1>2. /\ Shown # <<>> /\ At("pager", "request")
        /\ task' = [task EXCEPT !["pager"].from = AtLeast0(first - PageBars * Interval)]
    BY DEF RequestBackfillOlder
  <1>3. first \in Nat /\ Listed <= first /\ candles # <<>> /\ first <= TailOpen
    <2>1. CASE cache # <<>>
      <3>1. Shown = cache /\ cache \in Seq(Seen)
        BY <2>1 DEF Shown, FinalInv, SeenInv
      <3>2. cache[1] \in Seen
        BY <2>1, <3>1, TailElements
      <3>3. QED
        BY <3>1, <3>2 DEF Seen, Candle
    <2>2. CASE cache = <<>>
      <3>1. Shown = candles /\ candles # <<>>
        BY <1>2, <2>2 DEF Shown
      <3>2. candles \in Seq(Candle)
        BY PlanFields
      <3>3. candles[1] \in Candle /\ 1 \in 1..Len(candles)
        BY <3>1, <3>2, TailElements
      <3>4. candles[1].open <= TailOpen /\ Kept(candles[1])
        BY <3>1, <3>3, TailIs DEF FinalInv, StoreInv
      <3>5. QED
        BY <3>1, <3>3, <3>4 DEF Kept, Candle
    <2>3. QED
      BY <2>1, <2>2
  <1> HIDE DEF first
  <1>4. PageBars * Interval \in Nat /\ Listed \in Nat
    BY SyncAssumption, IntervalAssumption
  <1>5. AtLeast0(first - PageBars * Interval) = first - PageBars * Interval
    BY <1>3, <1>4 DEF AtLeast0
  <1>6. task'["pager"].from = first - PageBars * Interval
    BY <1>1, <1>2, <1>5 DEF Page
  <1>7. QED
    BY <1>1, <1>2, <1>3, <1>4, <1>6 DEF At

LEMMA PagerKept ==
    ASSUME SyncInv, SourcedInv, FinalInv, [SyncNext]_syncVars, ~Die,
           task'["pager"] = task["pager"], pc'["pager"] = pc["pager"]
    PROVE  PagerInv'
  <1> DEFINE t == task["pager"]
  <1>1. candles # <<>> => candles' # <<>> /\ TailOpen <= TailOpen'
    BY TailGrows
  <1>2. candles # <<>> => TailOpen \in Nat
    BY TailIs
  <1>3. candles' # <<>> => TailOpen' \in Nat
    <2>1. candles' \in Seq(Candle)
      BY SyncStep DEF SyncInv, FaultInv
    <2>2. QED
      BY <2>1, NewestOpen DEF TailOpen
  <1>4. t \in Page /\ PageBars * Interval \in Nat
    BY PlanFields, SyncAssumption, IntervalAssumption DEF Rest
  <1>5. t.from + PageBars * Interval \in Nat
    BY <1>4 DEF Page
  <1>6. \A i \in 1..Len(t.todo) : t.todo[i].open \in Nat
    <2>1. t.todo \in Seq(Candle)
      BY <1>4 DEF Page
    <2>2. \A i \in 1..Len(t.todo) : t.todo[i] \in Candle
      BY <2>1, ElementOfSeq
    <2>3. QED
      BY <2>2 DEF Candle
  <1>7. /\ pc["pager"] \in {"off", "request", "append", "publish", "update"}
        /\ pc["pager"] = "request" =>
              candles # <<>> /\ t.from + PageBars * Interval <= TailOpen
        /\ pc["pager"] = "append" =>
              candles # <<>> /\ \A i \in 1..Len(t.todo) : t.todo[i].open < TailOpen
    BY DEF FinalInv, PagerInv
  <1>8. CASE pc["pager"] = "request"
    <2>1. candles' # <<>> /\ t.from + PageBars * Interval <= TailOpen'
      BY <1>1, <1>2, <1>3, <1>5, <1>7, <1>8
    <2>2. QED
      BY <1>8, <2>1 DEF PagerInv
  <1>9. CASE pc["pager"] = "append"
    <2>1. candles' # <<>> /\ \A i \in 1..Len(t.todo) : t.todo[i].open < TailOpen'
      BY <1>1, <1>2, <1>3, <1>6, <1>7, <1>9
    <2>2. QED
      BY <1>9, <2>1 DEF PagerInv
  <1>10. QED
    BY <1>7, <1>8, <1>9 DEF PagerInv

LEMMA PagerPartStep ==
    ASSUME SyncInv, SourcedInv, FinalInv, [SyncNext]_syncVars, PageBars * Interval <= Listed
    PROVE  PagerInv'
  <1> DEFINE t == task["pager"]
  <1>1. /\ task \in [Rest -> Page] /\ pc \in [Threads -> Labels]
        /\ "worker" \in Rest /\ "pager" \in Rest /\ "pager" \in Threads
        /\ t.todo \in Seq(Candle) /\ now \in Nat /\ faults \in 0..MaxFaults /\ t.from \in Nat
    BY PlanFields DEF Rest, Threads, Page
  <1>2. /\ pc["pager"] \in {"off", "request", "append", "publish", "update"}
        /\ pc["pager"] = "request" =>
              candles # <<>> /\ t.from + PageBars * Interval <= TailOpen
        /\ pc["pager"] = "append" =>
              candles # <<>> /\ \A i \in 1..Len(t.todo) : t.todo[i].open < TailOpen
    BY DEF FinalInv, PagerInv
  <1>3. CASE RequestBackfillOlder
    <2>1. /\ candles # <<>> /\ task'["pager"].from + PageBars * Interval <= TailOpen
          /\ pc'["pager"] = "request" /\ candles' = candles
      BY <1>3, PagerAsks DEF RequestBackfillOlder, repoVars
    <2>2. QED
      BY <2>1 DEF PagerInv, TailOpen
  <1>4. CASE FetchOlder
    <2> DEFINE end == t.from + PageBars * Interval
    <2>1. pc["pager"] = "request" /\ candles' = candles
      BY <1>4 DEF FetchOlder, repoVars
    <2>2. t.from + PageBars * Interval - 1 = end - 1
      BY <1>1, SyncAssumption, IntervalAssumption
    <2>3. PICK got \in FetchRange(t.from, end - 1, PageBars) :
              /\ task' = [task EXCEPT !["pager"] = TaskOf(got.page)]
              /\ At("pager", IF got.page = <<>> THEN "off" ELSE "append")
      <3> HIDE DEF end
      <3>1. QED
        BY <1>4, <2>2 DEF FetchOlder
    <2>4. pc'["pager"] = IF got.page = <<>> THEN "off" ELSE "append"
      BY <1>1, <2>3 DEF At
    <2>5. end \in Int /\ PageBars \in Int
      BY <1>1, SyncAssumption, IntervalAssumption
    <2>6. candles # <<>> /\ TailOpen \in Nat /\ end <= TailOpen
      BY <1>2, <2>1, TailIs
    <2> HIDE DEF end
    <2>7. \A i \in 1..Len(got.page) : got.page[i].open < end
      BY <1>1, <2>5, AnswersAreBefore
    <2>8. \A i \in 1..Len(got.page) : got.page[i].open \in Nat
      <3>1. got.page \in Seq(Candle)
        BY <1>1, <2>5, AnswersAreCandles
      <3>2. \A i \in 1..Len(got.page) : got.page[i] \in Candle
        BY <3>1, ElementOfSeq
      <3>3. QED
        BY <3>2 DEF Candle
    <2>9. task'["pager"].todo = got.page
      BY <1>1, <2>3, PageSet
    <2>10. \A i \in 1..Len(got.page) : got.page[i].open < TailOpen
      BY <2>5, <2>6, <2>7, <2>8
    <2>11. QED
      BY <2>1, <2>6, <2>9, <2>10, <2>4 DEF PagerInv, TailOpen
  <1>5. CASE RestStep("pager")
    <2>1. AppendPage("pager") /\ pc["pager"] = "append" /\ t.todo # <<>>
      BY <1>2, <1>5 DEF RestStep, AppendPage, AppendHead, Repair, Fill, Retry
    <2>2. /\ Head(t.todo) \in Sent(now) /\ AppendOrReplace(Head(t.todo))
          /\ candles # <<>> /\ Head(t.todo).open < TailOpen
      BY <1>1, <1>5, <2>1, RestAppend DEF AppendPage, Repair
    <2>3. candles' = candles /\ ~Refused
      BY <1>1, <2>2, AppendEffect
    <2>4. pc'["pager"] = IF Len(t.todo) = 1 THEN "publish" ELSE "append"
      BY <1>1, <2>1, <2>3 DEF AppendPage, At
    <2>5. task'["pager"].todo = Tail(t.todo)
      BY <1>1, <2>1, AppendTask
    <2>6. \A i \in 1..Len(Tail(t.todo)) : Tail(t.todo)[i].open < TailOpen
      <3>1. \A i \in 1..Len(Tail(t.todo)) :
               i + 1 \in 1..Len(t.todo) /\ Tail(t.todo)[i] = t.todo[i + 1]
        BY <1>1, <2>1, TailElements
      <3>2. QED
        BY <1>2, <2>1, <3>1
    <2>7. QED
      BY <2>2, <2>3, <2>4, <2>5, <2>6 DEF PagerInv, TailOpen
  <1>6. CASE Die
    <2>1. pc'["pager"] = "off"
      BY <1>6 DEF Die, Restarted, Threads
    <2>2. QED
      BY <2>1 DEF PagerInv
  <1>7. CASE PublishStep("pager")
    <2>1. pc'["pager"] \in {"update", "off"}
      BY <1>1, <1>2, <1>7 DEF PublishStep, TakeSnapshot, UpdateCache, At
    <2>2. QED
      BY <2>1 DEF PagerInv
  <1>8. CASE task'["pager"] = task["pager"] /\ pc'["pager"] = pc["pager"]
    BY <1>6, <1>8, PagerKept
  <1>9. CASE RestStep("worker")
    <2>1. pc'["pager"] = pc["pager"]
      BY <1>1, <1>9 DEF RestStep, AppendPage, Repair, Fill, Retry, At, Threads
    <2>2. task'["pager"] = task["pager"]
      <3>1. \/ task' = task \/ AppendPage("worker")
            \/ \E todo : task' = [task EXCEPT !["worker"].todo = todo]
        BY <1>9 DEF RestStep, Repair, Fill, Retry
      <3>2. QED
        BY <1>1, <3>1, AppendTask, TodoSet
    <2>3. QED
      BY <1>8, <2>1, <2>2
  <1>10. QED
    <2>1. \/ Tick \/ Push \/ Connect \/ Disconnect \/ Boot \/ Stop \/ IgnoreLive \/ HandleLive
          \/ UNCHANGED syncVars \/ PublishStep("worker") \/ PublishStep("live")
          => task' = task /\ pc'["pager"] = pc["pager"]
      BY <1>1 DEF Tick, Push, Connect, Disconnect, Boot, Stop, IgnoreLive, HandleLive, syncVars,
                  PublishStep, TakeSnapshot, UpdateCache, At
    <2>2. WorkerStep => task'["pager"] = task["pager"] /\ pc'["pager"] = pc["pager"]
      BY <1>1 DEF WorkerStep, BeginBackfill, LeaveLoop, FetchPage, Widen, GiveUp, AcceptPage,
                  NextPage, EndRun, StartLiveStream, StopLiveStream, At
    <2>3. QED
      BY <1>3, <1>4, <1>5, <1>6, <1>7, <1>8, <1>9, <2>1, <2>2 DEF SyncNext, Rest, Threads

LEMMA SeenGrows ==
    ASSUME SyncInv, SourcedInv, FinalInv, [SyncNext]_syncVars, ~Die
    PROVE  Seen \subseteq Seen'
  <1>1. candles # <<>> => candles' # <<>> /\ TailOpen <= TailOpen' /\ TailOpen \in Nat
    BY TailGrows, TailIs
  <1>2. candles' # <<>> => TailOpen' \in Nat
    <2>1. candles' \in Seq(Candle)
      BY SyncStep DEF SyncInv, FaultInv
    <2>2. QED
      BY <2>1, NewestOpen DEF TailOpen
  <1>3. QED
    BY <1>1, <1>2 DEF Seen, Candle

LEMMA SeriesIsSeen ==
    ASSUME SyncInv, FinalInv
    PROVE  GetLatest(candles, Published) \in Seq(Seen)
  <1>1. candles \in Seq(Candle) /\ Len(candles) \in Nat
    BY PlanFields, LenProperties
  <1>2. ASSUME NEW i \in 1..Len(candles)
        PROVE  candles[i] \in Seen
    <2>1. candles # <<>> /\ candles[i] \in Candle
      BY <1>1, ElementOfSeq, EmptySeq
    <2>2. candles[i].open <= TailOpen /\ Kept(candles[i])
      BY <2>1, TailIs DEF FinalInv, StoreInv
    <2>3. QED
      BY <2>1, <2>2 DEF Seen, Kept
  <1>3. candles \in Seq(Seen)
    <2>1. candles = [i \in 1..Len(candles) |-> candles[i]]
      BY <1>1, LenProperties
    <2>2. QED
      BY <1>1, <1>2, <2>1
  <1>4. Published \in Nat \ {0}
    BY SyncAssumption
  <1>5. QED
    BY <1>3, <1>4, GetLatestProperties

LEMMA SeenStep ==
    ASSUME SyncInv, SourcedInv, FinalInv, [SyncNext]_syncVars
    PROVE  SeenInv'
  <1>1. /\ cache \in Seq(Seen) /\ \A th \in Threads : snapshot[th] \in Seq(Seen)
        /\ snapshot \in [Threads -> Seq(Candle)]
    BY PlanFields DEF FinalInv, SeenInv
  <1>2. CASE Die
    <2>1. cache' = <<>> /\ \A th \in Threads : snapshot'[th] = <<>>
      BY <1>2 DEF Die, Restarted
    <2>2. <<>> \in Seq(Seen')
      BY EmptySeq
    <2>3. QED
      BY <2>1, <2>2 DEF SeenInv
  <1>3. ASSUME ~Die, cache' \in Seq(Seen), \A th \in Threads : snapshot'[th] \in Seq(Seen)
        PROVE  SeenInv'
    <2>1. Seen \subseteq Seen'
      BY <1>3, SeenGrows
    <2>2. cache' \in Seq(Seen') /\ \A th \in Threads : snapshot'[th] \in Seq(Seen')
      BY <1>3, <2>1, SeqWiden
    <2>3. QED
      BY <2>2 DEF SeenInv
  <1>4. ASSUME NEW th \in Threads, PublishStep(th), ~Die
        PROVE  SeenInv'
    <2>1. CASE TakeSnapshot(th)
      <3>1. cache' = cache
            /\ snapshot' = [snapshot EXCEPT ![th] = GetLatest(candles, Published)]
        BY <2>1 DEF TakeSnapshot
      <3>2. GetLatest(candles, Published) \in Seq(Seen)
        BY SeriesIsSeen
      <3>3. \A u \in Threads : snapshot'[u] \in Seq(Seen)
        BY <1>1, <3>1, <3>2
      <3>4. QED
        BY <1>1, <1>3, <1>4, <3>1, <3>3
    <2>2. CASE UpdateCache(th)
      <3>1. cache' = snapshot[th] /\ snapshot' = [snapshot EXCEPT ![th] = <<>>]
        BY <2>2 DEF UpdateCache
      <3>2. <<>> \in Seq(Seen)
        BY EmptySeq
      <3>3. \A u \in Threads : snapshot'[u] \in Seq(Seen)
        BY <1>1, <3>1, <3>2
      <3>4. QED
        BY <1>1, <1>3, <1>4, <3>1, <3>3
    <2>3. QED
      BY <1>4, <2>1, <2>2 DEF PublishStep
  <1>5. CASE UNCHANGED <<cache, snapshot>>
    BY <1>1, <1>2, <1>3, <1>5
  <1>6. QED
    <2>1. \/ UNCHANGED <<cache, snapshot>> \/ Die \/ \E th \in Threads : PublishStep(th)
      BY DEF SyncNext, Tick, Push, Connect, Disconnect, Boot, Stop, WorkerStep, BeginBackfill,
             LeaveLoop, FetchPage, Widen, GiveUp, AcceptPage, NextPage, EndRun,
             StartLiveStream, StopLiveStream, RestStep, AppendPage, Repair, Fill, Retry,
             IgnoreLive, HandleLive, RequestBackfillOlder, FetchOlder, syncVars, publishVars
    <2>2. QED
      BY <1>2, <1>4, <1>5, <2>1

(***************************************************************************)
(* Theorems                                                                *)
(***************************************************************************)
LEMMA FinalStarts ==
    ASSUME SyncInit
    PROVE  FinalInv
  <1>1. /\ candles = <<>> /\ file = <<>> /\ feed = <<>> /\ connected = FALSE /\ finals = {}
        /\ cache = <<>> /\ \A th \in Threads : pc[th] = "off" /\ snapshot[th] = <<>>
        /\ task["worker"].batch = <<>> /\ task["worker"].todo = <<>>
        /\ pc["worker"] = "off" /\ pc["pager"] = "off"
    BY DEF SyncInit, Init, Idle, NoTask, TaskOf, Rest, Threads
  <1>2. Len(<<>>) = 0 /\ Ordered(<<>>) /\ <<>> \in Seq(Dated) /\ <<>> \in Seq(Seen)
    BY EmptySeq DEF Ordered
  <1>3. FinalsInv /\ FeedInv /\ StoreInv
    BY <1>1, <1>2 DEF FinalsInv, FeedInv, StoreInv
  <1>4. WorkerInv /\ RepairInv /\ PagerInv /\ SeenInv
    BY <1>1, <1>2 DEF WorkerInv, RepairInv, PagerInv, SeenInv
  <1>5. QED
    BY <1>3, <1>4 DEF FinalInv

(* What the exchange said last of a candle is what is kept of it, and a    *)
(* repair tries again only what follows the series.  The repository and    *)
(* its file must not diverge (DiskMayFail), and the paging window must not *)
(* be cut off at time zero, or it might reach the last candle.             *)
THEOREM FinalInductive ==
    ASSUME Listed..MaxNow \subseteq Times, DiskMayFail = FALSE, PageBars * Interval <= Listed
    PROVE  SyncSpec => []FinalInv
  <1>1. SyncInit => FinalInv
    BY FinalStarts
  <1>2. /\ SyncInv /\ SourcedInv /\ IInv /\ IInv' /\ FinalInv
        /\ [SyncNext]_syncVars
        => FinalInv'
    BY FinalsStep, FeedStep, StoreStep, WorkerPageStep, RepairPartStep, PagerPartStep, SeenStep
       DEF FinalInv
  <1>3. Spec => []IInv
    BY Inductive, PTL DEF Spec
  <1>4. QED
    BY <1>1, <1>2, <1>3, SyncInductive, SourcedInductive, OrchestratorRefinesRepository, PTL
       DEF SyncSpec

(* Once the exchange's last update of a candle has been handled, no page   *)
(* fetched before it, no partial update after it and no restart gives the  *)
(* repository or its file another value for the candle.                    *)
THEOREM FinalValuesKept ==
    ASSUME Listed..MaxNow \subseteq Times, DiskMayFail = FALSE, PageBars * Interval <= Listed
    PROVE  SyncSpec => []FinalValuesStick
  <1>1. FinalInv => FinalValuesStick
    BY DEF FinalInv, StoreInv, Kept, FinalValuesStick
  <1>2. QED
    BY <1>1, FinalInductive, PTL

(***************************************************************************)
(* What a repaired gap spans                                               *)
(***************************************************************************)
(* The last of what is picked from S is the largest of it.                 *)
LEMMA AscendingLast ==
    ASSUME NEW S, S \subseteq Int, IsFiniteSet(S), NEW m \in S, \A y \in S : y <= m
    PROVE  Ascending(S) \in Seq(S) /\ Ascending(S) # <<>> /\ LastOf(Ascending(S)) = m
  <1> DEFINE n == Cardinality(S)
             nth(i) == CHOOSE x \in S : Cardinality({y \in S : y <= x}) = i
  <1>1. n \in Nat \ {0}
    BY FS_CardinalityType, FS_EmptySet
  <1>2. Ascending(S) \in Seq(S) /\ Len(Ascending(S)) = n
    BY AscendingElements
  <1>3. {y \in S : y <= m} = S
    OBVIOUS
  <1>4. nth(n) \in S /\ Cardinality({y \in S : y <= nth(n)}) = n
    BY <1>3
  <1>5. Ascending(S) = [i \in 1..n |-> nth(i)]
    BY DEF Ascending
  <1> HIDE DEF nth
  <1>6. Ascending(S)[n] = nth(n)
    BY <1>1, <1>5
  <1> DEFINE x == nth(n)
  <1>7. x \in S /\ Cardinality({y \in S : y <= x}) = Cardinality(S)
    BY <1>4
  <1> HIDE DEF x
  <1>8. {y \in S : y <= x} = S
    <2>1. {y \in S : y <= x} \in SUBSET S
      OBVIOUS
    <2>2. QED
      BY <1>7, <2>1, FS_Subset
  <1>9. x = m
    <2>1. m <= x /\ x <= m /\ x \in Int /\ m \in Int
      BY <1>7, <1>8
    <2>2. QED
      BY <2>1
  <1> HIDE DEF n
  <1>10. Ascending(S) # <<>>
    BY <1>1, <1>2, EmptySeq
  <1>11. QED
    BY <1>2, <1>6, <1>9, <1>10 DEF LastOf, x

LEMMA LastOfPart ==
    ASSUME NEW S, NEW s \in Seq(S), NEW I, I \subseteq 1..Len(s), Len(s) \in I
    PROVE  Part(s, I) # <<>> /\ LastOf(Part(s, I)) = LastOf(s)
  <1> DEFINE at == Ascending(I)
             u == [k \in 1..Len(at) |-> s[at[k]]]
  <1>1. Len(s) \in Nat
    BY LenProperties
  <1>2. IsFiniteSet(I) /\ I \subseteq Int /\ \A y \in I : y <= Len(s)
    <2>1. IsFiniteSet(1..Len(s)) /\ I \in SUBSET (1..Len(s))
      BY <1>1, FS_Interval
    <2>2. IsFiniteSet(I)
      BY <2>1, FS_Subset
    <2>3. QED
      BY <1>1, <2>2
  <1>3. at \in Seq(I) /\ at # <<>> /\ LastOf(at) = Len(s)
    BY <1>2, AscendingLast
  <1> HIDE DEF at
  <1>4. Len(at) \in Nat \ {0}
    BY <1>3, LenProperties, EmptySeq
  <1>5. Len(u) = Len(at) /\ u[Len(at)] = s[at[Len(at)]]
    BY <1>4
  <1> HIDE DEF u
  <1>6. LastOf(u) = LastOf(s)
    BY <1>3, <1>5 DEF LastOf
  <1>7. u # <<>>
    BY <1>4, <1>5, EmptySeq
  <1>8. QED
    BY <1>6, <1>7 DEF Part, u, at

LEMMA LastRetried ==
    ASSUME NEW th \in Rest, now \in Nat, task[th].batch \in Seq(Sent(now)),
           task[th].batch # <<>>, task[th].gap[1].to \in Nat,
           task[th].gap[1].to <= LastOf(task[th].batch).open
    PROVE  LastOf(Retried(th)) = LastOf(task[th].batch)
  <1> DEFINE batch == task[th].batch
             I == {i \in 1..Len(batch) :
                     AlignDown(batch[i].open, Interval) >= task[th].gap[1].to}
  <1>1. I \subseteq 1..Len(batch) /\ Retried(th) = Part(batch, I)
    BY DEF Retried
  <1>2. Len(batch) \in 1..Len(batch) /\ LastOf(batch) = batch[Len(batch)]
        /\ LastOf(batch) \in Sent(now)
    BY LastInSeq
  <1>3. /\ AlignDown(batch[Len(batch)].open, Interval) = batch[Len(batch)].open
        /\ batch[Len(batch)].open \in Nat
    BY <1>2 DEF Sent, OnGrid
  <1>4. task[th].gap[1].to <= batch[Len(batch)].open
    BY <1>2
  <1>5. Len(batch) \in I
    BY <1>2, <1>3, <1>4
  <1> HIDE DEF batch, I
  <1>6. QED
    BY <1>1, <1>5, LastOfPart DEF batch

LEMMA LastOfTail ==
    ASSUME NEW S, NEW s \in Seq(S), s # <<>>
    PROVE  /\ Len(s) = 1 => Head(s) = LastOf(s)
           /\ Len(s) # 1 => LastOf(Tail(s)) = LastOf(s)
  <1>1. /\ Tail(s) \in Seq(S) /\ Len(Tail(s)) = Len(s) - 1 /\ Len(s) \in Nat \ {0}
        /\ \A i \in 1..Len(Tail(s)) : i + 1 \in 1..Len(s) /\ Tail(s)[i] = s[i + 1]
        /\ Head(s) = s[1]
    BY TailElements
  <1>2. ASSUME Len(s) # 1
        PROVE  Tail(s)[Len(s) - 1] = s[Len(s)]
    <2>1. Len(s) - 1 \in 1..Len(Tail(s)) /\ Len(s) - 1 + 1 = Len(s)
      BY <1>1, <1>2
    <2>2. QED
      BY <1>1, <2>1
  <1>3. QED
    BY <1>1, <1>2 DEF LastOf

(* No append moves the first candle of the series.                         *)
LEMMA FirstStays ==
    ASSUME SyncInv, NEW c \in Candle, AppendOrReplace(c), candles # <<>>
    PROVE  candles' # <<>> /\ candles'[1].open = candles[1].open
  <1> DEFINE n == NormalizeCandle(c)
             sealed == [LastOf(candles) EXCEPT !.closed = TRUE]
  <1>1. \/ IgnoreInvalid(n) \/ AppendFirst(n) \/ KeepClosedTail(n)
        \/ ReplaceTail(n) \/ IgnoreOlder(n) \/ ReportGap(n) \/ AppendNext(n)
    BY DEF AppendOrReplace
  <1>2. /\ candles \in Seq(Candle) /\ LastOf(candles) \in Candle
        /\ LastOf(candles) = candles[Len(candles)] /\ Len(candles) \in Nat \ {0}
    BY PlanFields, LastInSeq
  <1>3. n \in Candle
    BY NormalisedCandle
  <1> HIDE DEF n
  <1>4. ASSUME NEW x \in Candle, x.open = LastOf(candles).open
        PROVE  /\ ReplaceLast(candles, x) \in Seq(Candle)
               /\ Len(ReplaceLast(candles, x)) = Len(candles)
               /\ ReplaceLast(candles, x)[1].open = candles[1].open
    <2>1. /\ ReplaceLast(candles, x) \in Seq(Candle)
          /\ Len(ReplaceLast(candles, x)) = Len(candles)
          /\ \A i \in 1..Len(candles) :
                ReplaceLast(candles, x)[i] = IF i = Len(candles) THEN x ELSE candles[i]
      BY <1>2, ReplaceLastProperties
    <2>2. 1 \in 1..Len(candles)
      BY <1>2
    <2>3. QED
      BY <1>2, <1>4, <2>1, <2>2
  <1>5. CASE ReplaceTail(n)
    <2>1. candles' = ReplaceLast(candles, n) /\ n.open = LastOf(candles).open
      BY <1>5 DEF ReplaceTail
    <2>2. Len(candles') \in Nat \ {0} /\ candles'[1].open = candles[1].open
      BY <1>2, <1>3, <1>4, <2>1
    <2>3. QED
      BY <2>2, EmptySeq
  <1>6. CASE AppendNext(n)
    <2>1. candles' = Append(ReplaceLast(candles, sealed), n)
      BY <1>6 DEF AppendNext
    <2>2. sealed \in Candle /\ sealed.open = LastOf(candles).open
      BY <1>2 DEF Candle
    <2> DEFINE cs == ReplaceLast(candles, sealed)
    <2>3. cs \in Seq(Candle) /\ Len(cs) = Len(candles) /\ cs[1].open = candles[1].open
      BY <1>4, <2>2
    <2> HIDE DEF cs
    <2>4. Append(cs, n) # <<>> /\ Append(cs, n)[1] = cs[1]
      <3>1. 1 \in 1..Len(cs)
        BY <1>2, <2>3
      <3>2. Len(Append(cs, n)) = Len(cs) + 1 /\ Append(cs, n)[1] = cs[1]
            /\ Append(cs, n) \in Seq(Candle)
        BY <1>3, <2>3, <3>1, AppendProperties
      <3>3. QED
        BY <1>2, <2>3, <3>2, EmptySeq
    <2>5. QED
      BY <2>1, <2>3, <2>4 DEF cs
  <1>7. QED
    BY <1>1, <1>5, <1>6 DEF IgnoreInvalid, AppendFirst, KeepClosedTail, IgnoreOlder, ReportGap

(* A series without holes has every grid time between its ends.            *)
LEMMA ContiguousCovers ==
    ASSUME NEW cs \in Seq(Candle), cs # <<>>, \A i \in 1..Len(cs) : OnGrid(cs[i].open),
           \A i \in 1..(Len(cs) - 1) : cs[i + 1].open = cs[i].open + Interval,
           NEW t, OnGrid(t), cs[1].open <= t, t <= LastOf(cs).open
    PROVE  \E i \in 1..Len(cs) : cs[i].open = t
  <1> DEFINE T == {i \in 1..Len(cs) : cs[i].open >= t}
  <1>1. Len(cs) \in Nat \ {0} /\ LastOf(cs) = cs[Len(cs)] /\ t \in Nat
        /\ \A i \in 1..Len(cs) : cs[i].open \in Nat
    BY LastInSeq DEF OnGrid
  <1>2. Len(cs) \in T /\ T \subseteq Nat
    BY <1>1
  <1>3. PICK i \in T : \A j \in T : i <= j
    BY <1>2, SmallestExists
  <1>4. CASE i = 1
    BY <1>1, <1>3, <1>4
  <1>5. CASE i # 1
    <2>1. i - 1 \in 1..(Len(cs) - 1) /\ i - 1 \in 1..Len(cs) /\ i - 1 + 1 = i
      BY <1>1, <1>3, <1>5
    <2>2. cs[i - 1].open < t /\ cs[i].open = cs[i - 1].open + Interval
      <3>1. i - 1 \notin T
        BY <1>1, <1>3, <2>1
      <3>2. QED
        BY <1>1, <2>1, <3>1
    <2>3. cs[i - 1].open + Interval <= t
      BY <2>1, <2>2, GridSteps
    <2>4. QED
      BY <1>1, <1>3, <2>2, <2>3
  <1>6. QED
    BY <1>4, <1>5

(* The gap that the worker repairs begins in or after the series and does  *)
(* not end after the page, and what is left to append ends the page.       *)
SpanInv ==
    LET t == task["worker"]
    IN  /\ pc["worker"] \in {"append", "retry"} =>
              t.batch # <<>> /\ LastOf(t.todo) = LastOf(t.batch)
        /\ pc["worker"] \in {"repair", "fill", "retry"} =>
              /\ candles # <<>> /\ t.batch # <<>>
              /\ candles[1].open <= t.gap[1].from
              /\ t.gap[1].from \in Nat /\ t.gap[1].to \in Nat
              /\ t.gap[1].to <= LastOf(t.batch).open

LEMMA SpanKept ==
    ASSUME SpanInv,
           \/ /\ task'["worker"] = task["worker"] /\ pc'["worker"] = pc["worker"]
              /\ candles # <<>> => candles' # <<>> /\ candles'[1].open = candles[1].open
           \/ pc'["worker"] \notin {"append", "repair", "fill", "retry"}
    PROVE  SpanInv'
  BY DEF SpanInv

LEMMA OrderedBelowLast ==
    ASSUME NEW s \in Seq(Candle), Ordered(s), NEW j \in 1..Len(s)
    PROVE  s # <<>> /\ s[j].open <= LastOf(s).open
  <1>1. Len(s) \in Nat /\ s # <<>> /\ Len(s) \in 1..Len(s)
    BY LenProperties, EmptySeq
  <1>2. s[j].open \in Nat /\ s[Len(s)].open \in Nat
    <2>1. s[j] \in Candle /\ s[Len(s)] \in Candle
      BY <1>1, ElementOfSeq
    <2>2. QED
      BY <2>1 DEF Candle
  <1>3. j < Len(s) => s[j].open < s[Len(s)].open
    BY <1>1 DEF Ordered
  <1>4. QED
    BY <1>1, <1>2, <1>3 DEF LastOf

LEMMA RestStepSpan ==
    ASSUME SyncInv, SourcedInv, FinalInv, SpanInv, RestStep("worker")
    PROVE  SpanInv'
  <1> DEFINE t == task["worker"]
             c == Head(t.todo)
  <1>1. /\ task \in [Rest -> Page] /\ pc \in [Threads -> Labels] /\ "worker" \in Rest
        /\ "worker" \in Threads /\ now \in Nat
        /\ t.todo \in Seq(Candle) /\ t.batch \in Seq(Candle) /\ Ordered(t.batch)
        /\ t.batch \in Seq(Sent(now)) /\ HandInv("worker")
    BY PlanFields DEF FinalInv, WorkerInv, Rest, Threads, SourcedInv, SourceInv, Page
  <1>2. pc["worker"] \in {"append", "retry"} =>
           t.batch # <<>> /\ LastOf(t.todo) = LastOf(t.batch)
    BY DEF SpanInv
  <1>3. pc["worker"] \in {"repair", "fill", "retry"} =>
           /\ candles # <<>> /\ t.batch # <<>>
           /\ candles[1].open <= t.gap[1].from
           /\ t.gap[1].from \in Nat /\ t.gap[1].to \in Nat
           /\ t.gap[1].to <= LastOf(t.batch).open
    BY DEF SpanInv
  <1>4. t.todo # <<>> =>
           /\ Len(t.todo) # 1 => LastOf(Tail(t.todo)) = LastOf(t.todo)
           /\ c = t.todo[1] /\ 1 \in 1..Len(t.todo)
    BY <1>1, TailElements, LastOfTail
  <1>5. pc["worker"] \in {"repair", "fill"} => LastOf(Retried("worker")) = LastOf(t.batch)
    BY <1>1, <1>3, LastRetried
  <1>6. ASSUME ~Repair("worker")
        PROVE  c \in Sent(now) /\ AppendOrReplace(c) /\ c \in Candle
    BY <1>1, <1>6, RestAppend DEF Sent
  <1>7. ASSUME ~Repair("worker"), candles # <<>>
        PROVE  candles' # <<>> /\ candles'[1].open = candles[1].open
    <2>1. c \in Candle /\ AppendOrReplace(c)
      BY <1>6, <1>7
    <2> HIDE DEF c
    <2>2. QED
      BY <1>7, <2>1, FirstStays
  <1>8. CASE AppendPage("worker")
    <2>1. /\ pc["worker"] = "append" /\ t.todo # <<>>
          /\ pc'["worker"] = IF Refused THEN "repair"
                             ELSE IF Len(t.todo) = 1 THEN "publish" ELSE "append"
      BY <1>1, <1>8 DEF AppendPage, AppendHead, At
    <2>2. /\ task'["worker"].todo = Tail(t.todo) /\ task'["worker"].batch = t.batch
          /\ task'["worker"].gap = (IF Refused THEN <<answer'>> ELSE t.gap)
      BY <1>1, <1>8, AppendTask
    <2>3. CASE Refused
      <3>1. c \in Sent(now) /\ AppendOrReplace(c) /\ c \in Candle
        BY <1>6, <2>1 DEF Repair
      <3>2. InPage(c, t.batch)
        BY <1>1, <1>4, <2>1 DEF HandInv
      <3> HIDE DEF c
      <3>3. /\ ReportGap(NormalizeCandle(c)) /\ answer'.to = AlignDown(c.open, Interval)
            /\ candles' = candles /\ candles # <<>>
        BY <2>3, <3>1, RefusedGap
      <3>4. answer'.to = c.open /\ answer'.from = TailOpen + Interval /\ c.open \in Nat
        BY <3>1, <3>3 DEF Sent, OnGrid, ReportGap, Expected, TailOpen
      <3>5. c.open <= LastOf(t.batch).open /\ t.batch # <<>>
        BY <1>1, <3>2, OrderedBelowLast DEF InPage
      <3>6. candles[1].open <= TailOpen /\ TailOpen \in Nat /\ candles[1].open \in Nat
        <4>1. candles \in Seq(Candle)
          BY PlanFields
        <4>2. candles[1] \in Candle /\ 1 \in 1..Len(candles)
          BY <3>3, <4>1, TailElements
        <4>3. QED
          BY <3>3, <4>2, TailIs DEF Candle
      <3>7. candles[1].open <= answer'.from /\ answer'.from \in Nat
        BY <3>4, <3>6, IntervalAssumption
      <3>8. pc'["worker"] = "repair" /\ task'["worker"].gap[1] = answer'
        BY <2>1, <2>2, <2>3
      <3>9. QED
        BY <2>2, <3>3, <3>4, <3>5, <3>7, <3>8 DEF SpanInv
    <2>4. CASE ~Refused /\ Len(t.todo) # 1
      <3>1. pc'["worker"] = "append"
        BY <2>1, <2>4
      <3>2. QED
        BY <1>2, <1>4, <2>1, <2>2, <2>4, <3>1 DEF SpanInv
    <2>5. CASE ~Refused /\ Len(t.todo) = 1
      BY <2>1, <2>5, SpanKept
    <2>6. QED
      BY <2>3, <2>4, <2>5
  <1>9. CASE Repair("worker")
    <2>1. pc["worker"] = "repair" /\ candles' = candles
      BY <1>9 DEF Repair, repoVars
    <2>2. CASE pc'["worker"] = "publish"
      BY <2>2, SpanKept
    <2>3. CASE pc'["worker"] # "publish"
      <3>1. PICK page : /\ task' = [task EXCEPT !["worker"].todo =
                                      IF page = <<>> THEN Retried("worker") ELSE page]
                        /\ pc'["worker"] = IF page = <<>> THEN "retry" ELSE "fill"
        BY <1>1, <1>9, <2>3 DEF Repair, At
      <3>2. /\ task'["worker"].todo = (IF page = <<>> THEN Retried("worker") ELSE page)
            /\ task'["worker"].batch = t.batch /\ task'["worker"].gap = t.gap
        BY <1>1, <3>1, TodoSet
      <3>3. QED
        BY <1>3, <1>5, <2>1, <3>1, <3>2 DEF SpanInv
    <2>4. QED
      BY <2>2, <2>3
  <1>10. CASE Fill("worker")
    <2> DEFINE done == Refused \/ Len(t.todo) = 1
    <2>1. /\ pc["worker"] = "fill"
          /\ task' = [task EXCEPT !["worker"].todo =
                        IF done THEN Retried("worker") ELSE Tail(t.todo)]
          /\ pc'["worker"] = IF done THEN "retry" ELSE "fill"
      BY <1>1, <1>10 DEF Fill, At
    <2>2. /\ task'["worker"].todo = (IF done THEN Retried("worker") ELSE Tail(t.todo))
          /\ task'["worker"].batch = t.batch /\ task'["worker"].gap = t.gap
      BY <1>1, <2>1, TodoSet
    <2>3. candles' # <<>> /\ candles'[1].open = candles[1].open
      BY <1>3, <1>7, <2>1 DEF Repair
    <2> HIDE DEF done
    <2>4. QED
      BY <1>3, <1>5, <2>1, <2>2, <2>3 DEF SpanInv
  <1>11. CASE Retry("worker")
    <2> DEFINE done == Refused \/ Len(t.todo) = 1
    <2>1. /\ pc["worker"] = "retry" /\ t.todo # <<>>
          /\ task' = [task EXCEPT !["worker"].todo = IF done THEN <<>> ELSE Tail(t.todo)]
          /\ pc'["worker"] = IF done THEN "publish" ELSE "retry"
      BY <1>1, <1>11 DEF Retry, AppendHead, At
    <2>2. CASE done
      <3>1. pc'["worker"] = "publish"
        BY <2>1, <2>2
      <3>2. QED
        BY <3>1, SpanKept
    <2>3. CASE ~done
      <3>1. pc'["worker"] = "retry" /\ task'["worker"].todo = Tail(t.todo)
            /\ task'["worker"].batch = t.batch /\ task'["worker"].gap = t.gap
        BY <1>1, <2>1, <2>3, TodoSet
      <3>2. candles' # <<>> /\ candles'[1].open = candles[1].open
        BY <1>3, <1>7, <2>1 DEF Repair
      <3>3. LastOf(Tail(t.todo)) = LastOf(t.batch)
        BY <1>2, <1>4, <2>1, <2>3
      <3>4. QED
        BY <1>3, <2>1, <3>1, <3>2, <3>3 DEF SpanInv
    <2>4. QED
      BY <2>2, <2>3
  <1>12. QED
    BY <1>8, <1>9, <1>10, <1>11 DEF RestStep

LEMMA SpanStep ==
    ASSUME SyncInv, SourcedInv, FinalInv, SpanInv, [SyncNext]_syncVars
    PROVE  SpanInv'
  <1>1. /\ task \in [Rest -> Page] /\ pc \in [Threads -> Labels]
        /\ "worker" \in Rest /\ "pager" \in Rest /\ "worker" \in Threads
    BY PlanFields DEF Rest, Threads
  <1>2. CASE RestStep("worker")
    BY <1>2, RestStepSpan
  <1>3. CASE HandleLive
    <2>1. Head(feed) \in Candle /\ AppendOrReplace(Head(feed)) /\ task' = task
      BY <1>3, LiveAppend DEF Sent
    <2>2. candles # <<>> => candles' # <<>> /\ candles'[1].open = candles[1].open
      BY <2>1, FirstStays
    <2>3. pc'["worker"] = pc["worker"]
      BY <1>1, <1>3 DEF HandleLive, At
    <2>4. QED
      BY <2>1, <2>2, <2>3, SpanKept
  <1>4. CASE Boot \/ Die
    <2>1. pc'["worker"] = "begin" \/ pc'["worker"] = "off"
      BY <1>1, <1>4 DEF Boot, Die, Restarted, At
    <2>2. QED
      BY <2>1, SpanKept
  <1>5. CASE AcceptPage
    <2>1. /\ pc["worker"] = "received" /\ task["worker"].batch # <<>> /\ task' = task
          /\ pc'["worker"] = "append"
      BY <1>1, <1>5 DEF AcceptPage, At
    <2>2. task["worker"].todo = task["worker"].batch
      BY <1>1, <2>1 DEF SourcedInv, HandInv
    <2>3. QED
      BY <2>1, <2>2 DEF SpanInv
  <1>6. ASSUME NEW th \in Threads, PublishStep(th)
        PROVE  SpanInv'
    <2>1. candles' = candles /\ task' = task
          /\ \E l \in {"update", "lastUpdate", "idle", "off", "golive", "next"} : At(th, l)
      BY <1>6 DEF PublishStep, TakeSnapshot, UpdateCache, repoVars, Threads
    <2>2. \/ pc'["worker"] = pc["worker"]
          \/ pc'["worker"] \notin {"append", "repair", "fill", "retry"}
      BY <1>1, <2>1 DEF At
    <2>3. QED
      BY <2>1, <2>2, SpanKept
  <1>7. CASE RestStep("pager") \/ FetchOlder \/ RequestBackfillOlder
    <2>1. candles' = candles
      BY <1>7, OlderKeepsSeries
    <2>2. pc'["worker"] = pc["worker"] /\ task'["worker"] = task["worker"]
      BY <1>7, OlderKeepsWorker
    <2>3. QED
      BY <2>1, <2>2, SpanKept
  <1>8. QED
    <2>1. \/ Tick \/ Push \/ Connect \/ Disconnect \/ Stop \/ IgnoreLive \/ UNCHANGED syncVars
          => candles' = candles /\ task' = task /\ pc' = pc
      BY DEF Tick, Push, Connect, Disconnect, Stop, IgnoreLive, syncVars, repoVars
    <2>2. WorkerStep => AcceptPage \/ pc'["worker"] \notin {"append", "repair", "fill", "retry"}
      BY <1>1 DEF WorkerStep, BeginBackfill, LeaveLoop, FetchPage, Widen, GiveUp,
                  NextPage, EndRun, StartLiveStream, StopLiveStream, At
    <2>3. QED
      BY <1>2, <1>3, <1>4, <1>5, <1>6, <1>7, <2>1, <2>2, SpanKept DEF SyncNext, Rest

(* Whenever the worker is at the repair of a gap, the gap lies between the *)
(* first candle of the series and the last of the page in hand.            *)
THEOREM SpanInductive ==
    ASSUME Listed..MaxNow \subseteq Times, DiskMayFail = FALSE, PageBars * Interval <= Listed
    PROVE  SyncSpec => []SpanInv
  <1>1. SyncInit => SpanInv
    <2>1. SyncInit => pc["worker"] = "off"
      BY DEF SyncInit, Idle, Threads
    <2>2. QED
      BY <2>1 DEF SpanInv
  <1>2. SyncInv /\ SourcedInv /\ FinalInv /\ SpanInv /\ [SyncNext]_syncVars => SpanInv'
    BY SpanStep
  <1>3. QED
    BY <1>1, <1>2, SyncInductive, SourcedInductive, FinalInductive, PTL DEF SyncSpec

(***************************************************************************)
(* The end of a repair                                                     *)
(***************************************************************************)
RepairReported ==
    \A th \in Rest : pc[th] = "retry" /\ pc'[th] = "publish" /\ ~Refused
                      => Restored(th) /\ ~hasGap'

LEMMA RepairedGapIsClosed ==
    ASSUME SyncInv, SyncInv', SourcedInv, FinalInv, SpanInv, SeriesContiguous', SyncNext
    PROVE  RepairReported
  <1>1. SUFFICES ASSUME NEW th \in Rest, pc[th] = "retry", pc'[th] = "publish", ~Refused
                 PROVE  Restored(th) /\ ~hasGap'
    BY DEF RepairReported
  <1>2. th = "worker" /\ pc \in [Threads -> Labels] /\ pc["worker"] # "live" /\ opened
        /\ pc["live"] = "off"
    <2>1. th = "worker" /\ pc \in [Threads -> Labels]
      BY <1>1, PlanFields DEF FinalInv, PagerInv, Rest
    <2>2. opened
      BY <1>1, <2>1 DEF SyncInv, PhaseInv, Threads
    <2>3. QED
      BY <1>1, <2>1, <2>2 DEF SyncInv, PhaseInv
  <1>3. Retry("worker")
    <2>1. ~WorkerStep
      BY <1>1, <1>2 DEF WorkerStep, BeginBackfill, LeaveLoop, FetchPage, Widen, GiveUp,
                        AcceptPage, NextPage, EndRun, StartLiveStream, StopLiveStream
    <2>2. /\ ~Tick /\ ~Push /\ ~Connect /\ ~Disconnect /\ ~Stop /\ ~IgnoreLive /\ ~HandleLive
          /\ ~Boot /\ ~Die
      BY <1>1, <1>2 DEF Tick, Push, Connect, Disconnect, Stop, IgnoreLive, HandleLive, Boot, Die,
                        Open, Restarted, Threads
    <2>3. ~RequestBackfillOlder /\ ~FetchOlder /\ ~RestStep("pager")
      BY <1>1, <1>2 DEF RequestBackfillOlder, FetchOlder, RestStep, AppendPage, Repair, Fill,
                        Retry, At, Threads
    <2>4. ~PublishStep("worker")
      BY <1>1, <1>2 DEF PublishStep, TakeSnapshot, UpdateCache
    <2>5. ASSUME NEW u \in Threads, PublishStep(u), u # "worker"
          PROVE  FALSE
      <3>1. PICK l : At(u, l)
        BY <2>5 DEF PublishStep, TakeSnapshot, UpdateCache
      <3>2. pc'["worker"] = pc["worker"]
        BY <1>2, <2>5, <3>1 DEF At, Threads
      <3>3. QED
        BY <1>1, <1>2, <3>2
    <2>6. RestStep("worker")
      BY <2>4, <2>1, <2>2, <2>3, <2>5 DEF SyncNext, Rest
    <2>7. QED
      BY <1>1, <1>2, <2>6 DEF RestStep, AppendPage, Repair, Fill
  <1>4. /\ Head(task["worker"].todo) \in Sent(now) /\ AppendOrReplace(Head(task["worker"].todo))
    BY <1>1, <1>2, <1>3, RestAppend DEF RestStep, Repair
  <1>5. candles # <<>> /\ TailOpen < Head(task["worker"].todo).open
    <2>1. /\ task["worker"].todo # <<>> /\ task["worker"].todo \in Seq(Dated)
          /\ candles # <<>>
          /\ \A i \in 1..Len(task["worker"].todo) : TailOpen < task["worker"].todo[i].open
      BY <1>1, <1>2, <1>3 DEF Retry, AppendHead, FinalInv, WorkerInv, RepairInv
    <2>2. Head(task["worker"].todo) = task["worker"].todo[1] /\ 1 \in 1..Len(task["worker"].todo)
      BY <2>1, TailElements
    <2>3. QED
      BY <2>1, <2>2
  <1>6. now \in Nat
    BY PlanFields
  <1> DEFINE t == task["worker"]
             c == Head(t.todo)
  <1>7. hasGap' = FALSE /\ LastOf(candles').open = c.open /\ candles' # <<>>
    <2> HIDE DEF c
    <2>1. c \in Sent(now) /\ AppendOrReplace(c) /\ candles # <<>> /\ TailOpen < c.open
      BY <1>4, <1>5 DEF c
    <2>2. QED
      BY <1>1, <1>6, <2>1, AppendEffect DEF TailOpen
  <1>8. c.open = LastOf(t.batch).open
    <2>1. t.todo # <<>> /\ t.todo \in Seq(Candle) /\ Len(t.todo) = 1
      <3>1. pc'["worker"] = IF Refused \/ Len(t.todo) = 1 THEN "publish" ELSE "retry"
        BY <1>2, <1>3 DEF Retry, At, Threads
      <3>2. QED
        BY <1>1, <1>2, <1>3, <3>1, PlanFields DEF Retry, AppendHead, Page, Rest
    <2>2. QED
      BY <1>1, <1>2, <2>1, LastOfTail DEF SpanInv
  <1>9. candles'[1].open = candles[1].open /\ candles[1].open <= t.gap[1].from
        /\ t.gap[1].from \in Nat
    <2>1. c \in Candle
      BY <1>4 DEF Sent
    <2>2. AppendOrReplace(c)
      BY <1>4
    <2> HIDE DEF c
    <2>3. QED
      BY <1>1, <1>2, <1>5, <2>1, <2>2, FirstStays DEF SpanInv
  <1>10. /\ candles' \in Seq(Candle)
         /\ \A i \in 1..Len(candles') : OnGrid(candles'[i].open)
         /\ \A i \in 1..(Len(candles') - 1) : candles'[i + 1].open = candles'[i].open + Interval
    BY DEF SyncInv, FaultInv, Rises, SeriesContiguous
  <1>11. ASSUME NEW s \in t.gap[1].from .. LastOf(t.batch).open, s % Interval = 0
         PROVE  \E i \in 1..Len(candles') : candles'[i].open = s
    <2>1. candles'[1].open \in Nat \ {0}
      <3>1. 1 \in 1..Len(candles')
        BY <1>7, <1>10, TailElements
      <3>2. QED
        BY <1>10, <3>1 DEF OnGrid
    <2>2. s \in Nat /\ s > 0 /\ candles'[1].open <= s /\ s <= LastOf(candles').open
      BY <1>7, <1>8, <1>9, <1>11, <2>1
    <2>3. OnGrid(s)
      BY <1>11, <2>2, OnGridTimes
    <2>4. QED
      BY <1>7, <1>10, <2>2, <2>3, ContiguousCovers
  <1>12. QED
    BY <1>2, <1>7, <1>11 DEF Restored

(* Whoever reports a gap repaired has closed it: from the first candle     *)
(* that was missing to the last of the page that was refused, none is      *)
(* missing from the series, whatever the repair's own fetch came back      *)
(* with, and the repository reports no gap.                                *)
THEOREM RepairedIsConsistent ==
    ASSUME Listed..MaxNow \subseteq Times, DiskMayFail = FALSE, PageBars * Interval <= Listed
    PROVE  SyncSpec => RepairedMeansConsistent
  <1>1. /\ SyncInv /\ SyncInv' /\ SourcedInv /\ FinalInv /\ SpanInv
        /\ SeriesContiguous' /\ [SyncNext]_syncVars
        => [RepairReported]_syncVars
    BY RepairedGapIsClosed
  <1>2. RepairedMeansConsistent <=> [][RepairReported]_syncVars
    BY DEF RepairedMeansConsistent, RepairReported
  <1>3. SyncSpec => []SeriesContiguous
    BY OrchestratorSeriesSound, PTL
  <1>4. QED
    BY <1>1, <1>2, <1>3, SyncInductive, SourcedInductive, FinalInductive, SpanInductive, PTL
       DEF SyncSpec
=============================================================================
