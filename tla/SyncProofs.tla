----------------------------- MODULE SyncProofs -----------------------------
(***************************************************************************)
(* What the orchestrator's threads keep, however they interleave: the      *)
(* repository stays in order whichever of them appends, and the chart gets *)
(* the newest state and never an older one.  No assumption is made on      *)
(* DiskMayFail.                                                            *)
(***************************************************************************)
EXTENDS SyncOrchestrator, RepositoryProofs, NumberSets

Summary == [minOpen : Nat, maxOpen : Nat, count : Nat]
Page == [from : Nat, batch : Seq(Candle), todo : Seq(Candle), gap : Seq(Answer)]

(***************************************************************************)
(* Sequences                                                               *)
(***************************************************************************)
LEMMA AscendingElements ==
    ASSUME NEW S, S \subseteq Int, IsFiniteSet(S)
    PROVE  /\ Ascending(S) \in Seq(S)
           /\ Len(Ascending(S)) = Cardinality(S)
  <1> DEFINE key == [x \in S |-> x]
             n == Cardinality(S)
             nth(i) == CHOOSE x \in S : Cardinality({y \in S : y <= x}) = i
  <1>1. n \in Nat
    BY FS_CardinalityType
  <1>2. \A i \in 1..n : \E r \in S : Cardinality(UpTo(S, key, r)) = i
    <2>1. key \in [S -> Int] /\ \A a, b \in S : key[a] = key[b] => a = b
      OBVIOUS
    <2> HIDE DEF key
    <2>2. QED
      BY <2>1, RankOnto
  <1>3. \A r \in S : UpTo(S, key, r) = {y \in S : y <= r}
    BY DEF UpTo
  <1> HIDE DEF key
  <1>4. \A i \in 1..n : \E r \in S : Cardinality({y \in S : y <= r}) = i
    BY <1>2, <1>3
  <1>5. \A i \in 1..n : nth(i) \in S
    BY <1>4
  <1>6. Ascending(S) = [i \in 1..n |-> nth(i)]
    BY DEF Ascending
  <1> HIDE DEF n, nth
  <1>7. [i \in 1..n |-> nth(i)] \in Seq(S) /\ Len([i \in 1..n |-> nth(i)]) = n
    BY <1>1, <1>5
  <1>8. QED
    BY <1>6, <1>7 DEF n

LEMMA AscendingOrder ==
    ASSUME NEW S, S \subseteq Int, IsFiniteSet(S)
    PROVE  \A i, j \in 1..Len(Ascending(S)) : i < j => Ascending(S)[i] < Ascending(S)[j]
  <1> DEFINE key == [x \in S |-> x]
             n == Cardinality(S)
             nth(i) == CHOOSE x \in S : Cardinality({y \in S : y <= x}) = i
  <1>1. n \in Nat /\ Len(Ascending(S)) = n
    BY FS_CardinalityType, AscendingElements
  <1>2. key \in [S -> Int] /\ \A a, b \in S : key[a] = key[b] => a = b
    OBVIOUS
  <1>3. \A r \in S : UpTo(S, key, r) = {y \in S : y <= r} /\ key[r] = r
    BY DEF UpTo
  <1> HIDE DEF key
  <1>4. \A i \in 1..n : \E r \in S : Cardinality({y \in S : y <= r}) = i
    <2>1. \A i \in 1..n : \E r \in S : Cardinality(UpTo(S, key, r)) = i
      BY <1>2, RankOnto
    <2>2. QED
      BY <1>3, <2>1
  <1>5. \A i \in 1..n : nth(i) \in S /\ Cardinality({y \in S : y <= nth(i)}) = i
    BY <1>4
  <1>6. Ascending(S) = [i \in 1..n |-> nth(i)]
    BY DEF Ascending
  <1> HIDE DEF n, nth
  <1>7. ASSUME NEW i \in 1..n, NEW j \in 1..n, i < j
        PROVE  nth(i) < nth(j)
    <2>1. nth(i) \in S /\ nth(j) \in S /\ nth(i) \in Int /\ nth(j) \in Int
      BY <1>5
    <2>2. /\ Cardinality(UpTo(S, key, nth(i))) = i
          /\ Cardinality(UpTo(S, key, nth(j))) = j
      BY <1>3, <1>5
    <2>3. key[nth(j)] <= key[nth(i)] => j <= i
      <3>1. \A a, b \in S : key[a] <= key[b]
               => Cardinality(UpTo(S, key, a)) <= Cardinality(UpTo(S, key, b))
        BY <1>2, RankMonotone
      <3>2. QED
        BY <2>1, <2>2, <3>1
    <2>4. QED
      BY <1>3, <1>7, <2>1, <2>3
  <1>8. QED
    BY <1>1, <1>6, <1>7

(* A part of a page, in the page's order.                                  *)
LEMMA PickedFromPage ==
    ASSUME NEW S, NEW s \in Seq(S), NEW I, I \subseteq 1..Len(s)
    PROVE  Part(s, I) \in Seq(S)
  <1> DEFINE at == Ascending(I)
  <1>1. Len(s) \in Nat
    BY LenProperties
  <1>2. IsFiniteSet(I)
    <2>1. IsFiniteSet(1..Len(s)) /\ I \in SUBSET (1..Len(s))
      BY <1>1, FS_Interval
    <2>2. QED
      BY <2>1, FS_Subset
  <1>3. I \subseteq Int
    BY <1>1
  <1>4. at \in Seq(I)
    BY <1>2, <1>3, AscendingElements
  <1> HIDE DEF at
  <1>5. Len(at) \in Nat /\ \A k \in 1..Len(at) : at[k] \in I
    BY <1>4, LenProperties, ElementOfSeq
  <1>6. \A k \in 1..Len(at) : s[at[k]] \in S
    BY <1>5, ElementOfSeq
  <1>7. [k \in 1..Len(at) |-> s[at[k]]] \in Seq(S)
    BY <1>5, <1>6
  <1>8. QED
    BY <1>7 DEF Part, at

LEMMA RetriedFrom ==
    ASSUME NEW th \in Rest, NEW S, task[th].batch \in Seq(S)
    PROVE  Retried(th) \in Seq(S)
  <1> DEFINE I == {i \in 1..Len(task[th].batch) :
                     AlignDown(task[th].batch[i].open, Interval) >= task[th].gap[1].to}
  <1>1. I \subseteq 1..Len(task[th].batch) /\ Retried(th) = Part(task[th].batch, I)
    BY DEF Retried
  <1> HIDE DEF I
  <1>2. QED
    BY <1>1, PickedFromPage

(***************************************************************************)
(* The exchange                                                            *)
(***************************************************************************)
(* Whatever every kline of the interval is, the answer is made of.         *)
LEMMA KlinesAreFrom ==
    ASSUME now \in Nat, NEW from, NEW to, NEW limit \in Int, NEW S,
           \A t \in Listed..now : t % Interval = 0 /\ from <= t /\ t <= to => Kline(t) \in S
    PROVE  Klines(from, to, limit) \in Seq(S)
  <1> DEFINE opens == {t \in Listed..now : t % Interval = 0 /\ t \notin Holes
                                            /\ from <= t /\ t <= to}
             all == Ascending(opens)
             n == IF Len(all) < limit THEN Len(all) ELSE limit
  <1>1. Listed \in Nat /\ opens \subseteq Int
    BY SyncAssumption
  <1>2. IsFiniteSet(opens)
    <2>1. IsFiniteSet(Listed..now) /\ opens \in SUBSET (Listed..now)
      BY <1>1, FS_Interval
    <2>2. QED
      BY <2>1, FS_Subset
  <1>3. \A t \in opens : Kline(t) \in S
    OBVIOUS
  <1> HIDE DEF opens
  <1>4. all \in Seq(opens)
    BY <1>1, <1>2, AscendingElements
  <1>5. Klines(from, to, limit) = [i \in 1..n |-> Kline(all[i])]
    BY DEF Klines, opens
  <1> HIDE DEF all
  <1>6. Len(all) \in Nat /\ \A i \in 1..Len(all) : all[i] \in opens
    BY <1>4, LenProperties, ElementOfSeq
  <1>7. n \in Int /\ n <= Len(all)
    BY <1>6
  <1>8. \A i \in 1..n : Kline(all[i]) \in S
    BY <1>3, <1>6, <1>7
  <1> HIDE DEF n
  <1>9. CASE n \in Nat
    BY <1>5, <1>8, <1>9
  <1>10. CASE n \notin Nat
    <2>1. 1..n = 1..0
      BY <1>7, <1>10
    <2>2. [i \in 1..0 |-> Kline(all[i])] \in Seq(S)
      OBVIOUS
    <2>3. QED
      BY <1>5, <2>1, <2>2
  <1>11. QED
    BY <1>9, <1>10

LEMMA KlinesAreCandles ==
    ASSUME now \in Nat, NEW from, NEW to, NEW limit \in Int
    PROVE  Klines(from, to, limit) \in Seq(Candle)
  <1>1. \A t \in Listed..now : Kline(t) \in Candle
    BY SyncAssumption DEF Kline, Candle
  <1>2. QED
    BY <1>1, KlinesAreFrom

(* A faulty answer is part of the complete one.                            *)
LEMMA AnswersAreFrom ==
    ASSUME faults \in 0..MaxFaults, NEW from, NEW to, NEW limit \in Int,
           NEW S, Klines(from, to, limit) \in Seq(S),
           NEW got \in FetchRange(from, to, limit)
    PROVE  /\ got.page \in Seq(S) /\ got.faults \in 0..MaxFaults
           /\ \/ got.page = Klines(from, to, limit)
              \/ \E I \in SUBSET (1..Len(Klines(from, to, limit))) :
                     got.page = Part(Klines(from, to, limit), I)
  <1> DEFINE all == Klines(from, to, limit)
             faulty == {Part(all, I) : I \in (SUBSET (1..Len(all))) \ {1..Len(all)}}
  <1>1. all \in Seq(S)
    OBVIOUS
  <1>2. /\ got \in {[page |-> all, faults |-> faults]} \union
                   (IF faults = MaxFaults \/ all = <<>> THEN {}
                    ELSE {[page |-> page, faults |-> faults + 1] : page \in faulty})
    BY DEF FetchRange
  <1> HIDE DEF all
  <1>4. \A I \in SUBSET (1..Len(all)) : Part(all, I) \in Seq(S)
    BY <1>1, PickedFromPage
  <1>5. \A page \in faulty : /\ page \in Seq(S)
                             /\ \E I \in SUBSET (1..Len(all)) : page = Part(all, I)
    BY <1>4
  <1> HIDE DEF faulty
  <1>6. \/ got.page = all /\ got.faults = faults
        \/ faults # MaxFaults /\ got.page \in faulty /\ got.faults = faults + 1
    BY <1>2
  <1>7. MaxFaults \in Nat
    BY SyncAssumption
  <1>8. QED
    BY <1>1, <1>5, <1>6, <1>7 DEF all

LEMMA AnswersAreCandles ==
    ASSUME now \in Nat, faults \in 0..MaxFaults, NEW from, NEW to, NEW limit \in Int,
           NEW got \in FetchRange(from, to, limit)
    PROVE  got.page \in Seq(Candle) /\ got.faults \in 0..MaxFaults
  BY KlinesAreCandles, AnswersAreFrom

LEMMA UpdateIsCandle ==
    ASSUME NEW t \in Nat, NEW final \in BOOLEAN
    PROVE  Update(t, final) \in Candle
  BY SyncAssumption DEF Update, Candle

(***************************************************************************)
(* What the chart is given                                                 *)
(***************************************************************************)
LEMMA GetLatestProperties ==
    ASSUME NEW S, NEW cs \in Seq(S), NEW n \in Nat \ {0}
    PROVE  /\ GetLatest(cs, n) \in Seq(S)
           /\ cs # <<>> => /\ GetLatest(cs, n) # <<>>
                           /\ LastOf(GetLatest(cs, n)) = LastOf(cs)
           /\ cs = <<>> => GetLatest(cs, n) = <<>>
  <1>1. Len(cs) \in Nat /\ (cs = <<>> => Len(cs) = 0)
    BY LenProperties, EmptySeq
  <1>2. CASE Len(cs) <= n
    BY <1>2 DEF GetLatest
  <1>3. CASE ~(Len(cs) <= n)
    <2> DEFINE m == Len(cs) - n + 1
               s == SubSeq(cs, m, Len(cs))
    <2>1. m \in 1..Len(cs) /\ m \in Int /\ Len(cs) - m + 1 = n /\ cs # <<>>
      BY <1>1, <1>3
    <2>2. \A i \in m..Len(cs) : cs[i] \in S
      BY <2>1, <1>1, ElementOfSeq
    <2>3. GetLatest(cs, n) = s
      BY <1>3 DEF GetLatest
    <2> HIDE DEF m
    <2>4. /\ s \in Seq(S) /\ Len(s) = IF m <= Len(cs) THEN Len(cs) - m + 1 ELSE 0
          /\ \A i \in 1..(Len(cs) - m + 1) : s[i] = cs[m + i - 1]
      BY <1>1, <2>1, <2>2, SubSeqProperties
    <2> HIDE DEF s
    <2>5. Len(s) = n /\ s[n] = cs[m + n - 1] /\ m + n - 1 = Len(cs)
      BY <1>1, <2>1, <2>4
    <2>6. s # <<>>
      BY <2>4, <2>5, EmptySeq
    <2>7. QED
      BY <2>1, <2>3, <2>4, <2>5, <2>6 DEF LastOf
  <1>4. QED
    BY <1>2, <1>3

LEMMA NewestOpen ==
    ASSUME NEW s \in Seq(Candle), s # <<>>
    PROVE  LastOf(s) \in Candle /\ LastOf(s).open \in Nat
  <1>1. LastOf(s) \in Candle
    BY LastInSeq
  <1>2. QED
    BY <1>1 DEF Candle

(* t shows at least as much as s.                                          *)
Behind(s, t) == s # <<>> => NotBack(s, t)

LEMMA BehindTransitive ==
    ASSUME NEW s \in Seq(Candle), NEW t \in Seq(Candle), NEW u \in Seq(Candle),
           Behind(s, t), Behind(t, u)
    PROVE  Behind(s, u)
  <1>1. CASE s = <<>>
    BY <1>1 DEF Behind
  <1>2. CASE s # <<>>
    <2>1. t # <<>> /\ u # <<>> /\ NotBack(s, t) /\ NotBack(t, u)
      BY <1>2 DEF Behind, NotBack
    <2>2. LastOf(s).open \in Nat /\ LastOf(t).open \in Nat /\ LastOf(u).open \in Nat
      BY <1>2, <2>1, NewestOpen
    <2>3. QED
      BY <2>1, <2>2 DEF Behind, NotBack
  <1>3. QED
    BY <1>1, <1>2

LEMMA BehindItself ==
    ASSUME NEW s \in Seq(Candle)
    PROVE  Behind(s, s)
  <1>1. s # <<>> => LastOf(s).open \in Nat
    BY NewestOpen
  <1>2. QED
    BY <1>1 DEF Behind, NotBack

LEMMA BehindLatest ==
    ASSUME NEW cs \in Seq(Candle)
    PROVE  /\ GetLatest(cs, Published) \in Seq(Candle)
           /\ \A s : Behind(s, cs) => Behind(s, GetLatest(cs, Published))
           /\ Behind(GetLatest(cs, Published), cs)
  <1>1. Published \in Nat \ {0}
    BY SyncAssumption
  <1>2. /\ GetLatest(cs, Published) \in Seq(Candle)
        /\ cs # <<>> => /\ GetLatest(cs, Published) # <<>>
                        /\ LastOf(GetLatest(cs, Published)) = LastOf(cs)
        /\ cs = <<>> => GetLatest(cs, Published) = <<>>
    BY <1>1, GetLatestProperties
  <1>3. cs # <<>> => LastOf(cs).open \in Nat
    BY NewestOpen
  <1>4. QED
    BY <1>2, <1>3 DEF Behind, NotBack

(***************************************************************************)
(* One append, by whichever thread                                         *)
(***************************************************************************)
LEMMA SummaryTyped ==
    ASSUME NEW cs \in Seq(Candle)
    PROVE  RefreshMetadata(cs) \in Summary
  <1> DEFINE closed == ClosedIndices(cs)
             first == CHOOSE i \in closed : \A j \in closed : i <= j
             final == CHOOSE i \in closed : \A j \in closed : i >= j
  <1>1. Len(cs) \in Nat /\ closed \subseteq 1..Len(cs) /\ closed \subseteq Int
    BY LenProperties DEF ClosedIndices
  <1>2. IsFiniteSet(closed) /\ Cardinality(closed) \in Nat
    <2>1. IsFiniteSet(1..Len(cs)) /\ closed \in SUBSET (1..Len(cs))
      BY <1>1, FS_Interval
    <2>2. QED
      BY <2>1, FS_Subset, FS_CardinalityType
  <1> HIDE DEF closed
  <1>3. CASE closed = {}
    BY <1>3 DEF RefreshMetadata, NoMetadata, Summary, closed
  <1>4. CASE closed # {}
    <2>1. /\ Min(closed) \in closed /\ \A j \in closed : Min(closed) <= j
          /\ Max(closed) \in closed /\ \A j \in closed : Max(closed) >= j
      BY <1>1, <1>2, <1>4, FiniteMinMax
    <2>2. first \in closed /\ final \in closed
      BY <2>1
    <2> HIDE DEF first, final
    <2>3. cs[first] \in Candle /\ cs[final] \in Candle
      BY <1>1, <2>2, ElementOfSeq
    <2>4. RefreshMetadata(cs) = [minOpen |-> cs[first].open, maxOpen |-> cs[final].open,
                                 count |-> Cardinality(closed)]
      BY <1>4 DEF RefreshMetadata, closed, first, final
    <2>5. QED
      BY <1>2, <2>3, <2>4 DEF Summary, Candle
  <1>5. QED
    BY <1>3, <1>4

LEMMA AppendAnswers ==
    ASSUME FaultInv, metadata \in Summary, NEW c \in Candle, AppendOrReplace(c)
    PROVE  /\ FaultInv' /\ metadata' \in Summary /\ answer' \in Answer
           /\ opened /\ opened' /\ Behind(candles, candles')
  <1> DEFINE n == NormalizeCandle(c)
  <1>1. n \in Candle
    BY NormalisedCandle
  <1>2. /\ opened /\ opened' = opened
        /\ \/ IgnoreInvalid(n) \/ AppendFirst(n) \/ KeepClosedTail(n)
           \/ ReplaceTail(n) \/ IgnoreOlder(n) \/ ReportGap(n) \/ AppendNext(n)
    BY DEF AppendOrReplace
  <1> HIDE DEF n
  <1>3. FaultInv'
    BY AppendFault
  <1>4. candles \in Seq(Candle) /\ candles' \in Seq(Candle)
    BY <1>3 DEF FaultInv
  <1>5. \/ metadata' = metadata \/ metadata' = RefreshMetadata(candles')
    BY <1>2 DEF IgnoreInvalid, AppendFirst, KeepClosedTail, ReplaceTail, IgnoreOlder,
                ReportGap, AppendNext
  <1>6. metadata' \in Summary
    BY <1>4, <1>5, SummaryTyped
  <1>7. n.open \in Nat /\ n.closed \in BOOLEAN
    BY <1>1 DEF Candle
  <1>8. candles # <<>> => /\ LastOf(candles) \in Candle /\ LastOf(candles).open \in Nat
                          /\ Expected \in Nat /\ Expected > LastOf(candles).open
    BY <1>4, NewestOpen, IntervalAssumption DEF Expected
  <1>9. answer' \in Answer
    <2>1. CASE ReportGap(n)
      BY <1>7, <1>8, <2>1 DEF ReportGap, Answer
    <2>2. CASE ~ReportGap(n)
      BY <1>2, <2>2 DEF IgnoreInvalid, AppendFirst, KeepClosedTail, ReplaceTail,
                        IgnoreOlder, AppendNext, Answer, Answered
    <2>3. QED
      BY <2>1, <2>2
  <1>10. Behind(candles, candles')
    <2>1. CASE IgnoreInvalid(n) \/ KeepClosedTail(n) \/ IgnoreOlder(n) \/ ReportGap(n)
      <3>1. candles' = candles
        BY <2>1 DEF IgnoreInvalid, KeepClosedTail, IgnoreOlder, ReportGap
      <3>2. QED
        BY <1>4, <3>1, BehindItself
    <2>2. CASE AppendFirst(n)
      BY <2>2 DEF AppendFirst, Behind
    <2>3. CASE ReplaceTail(n)
      <3>1. /\ candles # <<>> /\ candles' = ReplaceLast(candles, n)
            /\ n.open = LastOf(candles).open /\ (LastOf(candles).closed => n.closed)
        BY <2>3 DEF ReplaceTail
      <3>2. candles' # <<>> /\ LastOf(candles') = n
        BY <1>1, <1>4, <3>1, ReplaceLastProperties, LastReplaced
      <3>3. QED
        BY <1>7, <1>8, <3>1, <3>2 DEF Behind, NotBack
    <2>4. CASE AppendNext(n)
      <3>1. /\ candles # <<>> /\ n.open = Expected
            /\ candles' = Append(SealedSeries(candles), n)
        BY <2>4 DEF AppendNext, SealedSeries, Sealed
      <3>2. SealedSeries(candles) \in Seq(Candle)
        BY <1>4, <1>8, <3>1, SealedProperties, ReplaceLastProperties DEF SealedSeries
      <3>3. candles' # <<>> /\ LastOf(candles') = n
        BY <1>1, <3>1, <3>2, AppendProperties, LenProperties DEF LastOf
      <3>4. QED
        BY <1>7, <1>8, <3>1, <3>3 DEF Behind, NotBack
    <2>5. QED
      BY <1>2, <2>1, <2>2, <2>3, <2>4
  <1>11. QED
    BY <1>2, <1>3, <1>6, <1>9, <1>10

(***************************************************************************)
(* The inductive invariant                                                 *)
(***************************************************************************)
(* Inside publishMutex_; and between an append and the publication that    *)
(* follows it.                                                             *)
Publishing == {"update", "lastUpdate"}
Dirty == {"append", "repair", "fill", "retry", "publish", "lastPublish"}

SyncTypes ==
    /\ SyncTypeOK
    /\ metadata \in Summary
    /\ task \in [Rest -> Page]
    /\ snapshot \in [Threads -> Seq(Candle)]

MutexInv ==
    /\ mutex = {th \in Threads : pc[th] \in Publishing}
    /\ \A t, u \in mutex : t = u

PhaseInv ==
    /\ pc["worker"] # "live" => pc["live"] = "off"
    /\ paging = FALSE => pc["pager"] = "off"
    /\ \A th \in Rest : pc[th] = "repair" => task[th].gap # <<>>
    /\ ~opened => /\ cache = <<>> /\ seeded = FALSE
                  /\ pc = [th \in Threads |-> "off"]

(* The cache, what is about to replace it, and the repository never show   *)
(* less than the one before.                                               *)
ShowInv ==
    /\ Behind(cache, candles)
    /\ \A th \in mutex : Behind(cache, snapshot[th]) /\ Behind(snapshot[th], candles)

(* If no append waits for its publication, the chart, or the thread that   *)
(* is about to update it, has the newest candles.                          *)
Newest(s) == s = GetLatest(candles, Published)
CurrentInv ==
    skipped = FALSE /\ (\A u \in Threads : pc[u] \notin Dirty)
      => \/ mutex = {} /\ (seeded => Newest(cache))
         \/ \E th \in mutex : Newest(snapshot[th])

SyncInv == FaultInv /\ SyncTypes /\ MutexInv /\ PhaseInv /\ ShowInv /\ CurrentInv

LEMMA StepOf ==
    ASSUME pc \in [Threads -> Labels], NEW th \in Threads, NEW l \in Labels, At(th, l)
    PROVE  /\ pc' \in [Threads -> Labels] /\ pc'[th] = l
           /\ \A u \in Threads : u # th => pc'[u] = pc[u]
  BY DEF At

(* What a step that neither appends nor publishes must respect.            *)
Quiet ==
    /\ UNCHANGED <<repoVars, publishVars>> /\ (skipped' = skipped \/ skipped' = TRUE)
    /\ pc' \in [Threads -> Labels]
    /\ \A u \in Threads : pc'[u] # pc[u] =>
          /\ pc[u] \notin Publishing /\ pc'[u] \notin Publishing
          /\ pc[u] \in Dirty => pc'[u] \in Dirty

LEMMA QuietStep ==
    ASSUME SyncInv, Quiet
    PROVE  FaultInv' /\ MutexInv' /\ ShowInv' /\ CurrentInv'
  <1>1. UNCHANGED <<candles, metadata, hasGap, file, opened, answer>>
        /\ UNCHANGED <<mutex, snapshot, cache, seeded>>
    BY DEF Quiet, repoVars, publishVars
  <1>2. FaultInv'
    BY <1>1 DEF SyncInv, FaultInv, Rises, Covers, ClosedAt
  <1>3. \A u \in Threads : pc[u] \in Publishing <=> pc'[u] \in Publishing
    BY DEF Quiet
  <1>4. MutexInv'
    BY <1>1, <1>3 DEF SyncInv, MutexInv
  <1>5. ShowInv'
    BY <1>1 DEF SyncInv, ShowInv, Behind
  <1>6. (\A u \in Threads : pc'[u] \notin Dirty) => \A u \in Threads : pc[u] \notin Dirty
    BY DEF Quiet
  <1>7. skipped' = FALSE => skipped = FALSE
    BY DEF Quiet
  <1>8. CurrentInv'
    BY <1>1, <1>6, <1>7 DEF SyncInv, CurrentInv, Newest
  <1>9. QED
    BY <1>2, <1>4, <1>5, <1>8

(***************************************************************************)
(* The exchange, the connection and stop()                                 *)
(***************************************************************************)
LEMMA OutsideStep ==
    ASSUME SyncInv, Tick \/ Push \/ Connect \/ Disconnect \/ Stop \/ IgnoreLive
    PROVE  SyncInv'
  <1>1. UNCHANGED <<repoVars, backfilling, paging, repairing, publishVars, liveVars,
                    pc, task, plan, faults>>
    BY DEF Tick, Push, Connect, Disconnect, Stop, IgnoreLive, flagVars, exchangeVars
  <1>2. UNCHANGED <<candles, metadata, hasGap, file, opened, answer>>
        /\ UNCHANGED <<mutex, snapshot, cache, seeded>> /\ UNCHANGED <<fresh, skipped, finals>>
    BY <1>1 DEF repoVars, publishVars, liveVars
  <1>3. pc' \in [Threads -> Labels] /\ Quiet
    BY <1>1, <1>2 DEF SyncInv, SyncTypes, SyncTypeOK, Quiet
  <1>4. FaultInv' /\ MutexInv' /\ ShowInv' /\ CurrentInv'
    BY <1>3, QuietStep
  <1>5. now \in Nat /\ feed \in Seq(Candle) /\ connected \in BOOLEAN
    BY DEF SyncInv, SyncTypes, SyncTypeOK
  <1>6. now' \in Nat /\ connected' \in BOOLEAN
    <2>1. now' = now \/ now' = now + Interval
      BY DEF Tick, Push, Connect, Disconnect, Stop, IgnoreLive, exchangeVars
    <2>2. connected' = connected \/ connected' = TRUE \/ connected' = FALSE
      BY DEF Tick, Push, Connect, Disconnect, Stop, IgnoreLive, exchangeVars
    <2>3. now' \in Nat
      BY <1>5, <2>1, IntervalAssumption
    <2>4. connected' \in BOOLEAN
      BY <1>5, <2>2, Zenon
    <2>5. QED
      BY <2>3, <2>4
  <1>7. feed' \in Seq(Candle)
    <2>1. Append(feed, Update(now, TRUE)) \in Seq(Candle)
          /\ Append(feed, Update(now, FALSE)) \in Seq(Candle)
      BY <1>5, UpdateIsCandle, AppendProperties
    <2>2. feed # <<>> => Tail(feed) \in Seq(Candle)
      BY <1>5, HeadTailProperties
    <2>3. <<>> \in Seq(Candle)
      BY EmptySeq
    <2>4. QED
      BY <1>5, <2>1, <2>2, <2>3
         DEF Tick, Push, Connect, Disconnect, Stop, IgnoreLive, exchangeVars
  <1>8. running' = running \/ running' = FALSE
    BY DEF Tick, Push, Connect, Disconnect, Stop, IgnoreLive, flagVars
  <1>9. SyncTypes'
    BY <1>1, <1>2, <1>6, <1>7, <1>8 DEF SyncInv, SyncTypes, SyncTypeOK
  <1>10. PhaseInv'
    BY <1>1, <1>2 DEF SyncInv, PhaseInv
  <1>11. QED
    BY <1>4, <1>9, <1>10 DEF SyncInv

(***************************************************************************)
(* The worker between appends and publications                             *)
(***************************************************************************)
LEMMA PlanFields ==
    ASSUME SyncInv
    PROVE  /\ now \in Nat /\ faults \in 0..MaxFaults
           /\ pc \in [Threads -> Labels] /\ metadata \in Summary
           /\ task \in [Rest -> Page] /\ snapshot \in [Threads -> Seq(Candle)]
           /\ feed \in Seq(Candle) /\ cache \in Seq(Candle) /\ candles \in Seq(Candle)
           /\ plan \in [next : Nat, seeding : BOOLEAN, seedEnd : Nat,
                        fetchedAny : BOOLEAN, widenedOnce : BOOLEAN]
  BY DEF SyncInv, SyncTypes, SyncTypeOK, FaultInv

LEMMA NoTaskTyped ==
    /\ NoTask \in Page
    /\ \A page \in Seq(Candle) : TaskOf(page) \in Page
  <1>1. <<>> \in Seq(Candle) /\ <<>> \in Seq(Answer)
    BY EmptySeq
  <1>2. QED
    BY <1>1 DEF NoTask, TaskOf, Page

LEMMA WorkerMoves ==
    ASSUME SyncInv, NEW l \in Labels \ {"repair"}, At("worker", l),
           UNCHANGED <<repoVars, publishVars>>, skipped' = skipped \/ skipped' = TRUE,
           pc["worker"] \notin Publishing \union {"live", "off"}, l \notin Publishing,
           pc["worker"] \in Dirty => l \in Dirty,
           paging' = paging, l # "live",
           task' \in [Rest -> Page], task'["pager"] = task["pager"]
    PROVE  FaultInv' /\ MutexInv' /\ ShowInv' /\ CurrentInv' /\ PhaseInv'
           /\ pc' \in [Threads -> Labels]
  <1>1. /\ pc' \in [Threads -> Labels] /\ pc'["worker"] = l
        /\ \A u \in Threads : u # "worker" => pc'[u] = pc[u]
    BY PlanFields, StepOf DEF Threads
  <1>2. Quiet
    BY <1>1 DEF Quiet
  <1>3. UNCHANGED <<opened, cache, seeded>>
    BY DEF repoVars, publishVars
  <1>4. pc # [th \in Threads |-> "off"]
    BY DEF Threads
  <1>5. PhaseInv'
    BY <1>1, <1>3, <1>4 DEF SyncInv, PhaseInv, Threads, Rest
  <1>6. QED
    BY <1>1, <1>2, <1>5, QuietStep

Plans == [next : Nat, seeding : BOOLEAN, seedEnd : Nat,
          fetchedAny : BOOLEAN, widenedOnce : BOOLEAN]

(* The state types once the parts a worker step touches are known.         *)
LEMMA WorkerTypes ==
    ASSUME SyncInv, UNCHANGED <<repoVars, publishVars, now, connected, feed, running,
                                paging, repairing, liveVars>>,
           pc' \in [Threads -> Labels], task' \in [Rest -> Page], plan' \in Plans,
           faults' \in 0..MaxFaults, backfilling' \in BOOLEAN
    PROVE  SyncTypes'
  <1>1. UNCHANGED <<metadata, mutex, snapshot, cache, seeded, fresh, skipped, finals>>
    BY DEF repoVars, publishVars, liveVars
  <1>2. \A th \in Rest : task'[th].todo \in Seq(Candle) /\ task'[th].batch \in Seq(Candle)
    BY DEF Page
  <1>3. {running, backfilling, paging, repairing, fresh, seeded, skipped}' \subseteq BOOLEAN
    BY <1>1 DEF SyncInv, SyncTypes, SyncTypeOK
  <1>4. QED
    BY <1>1, <1>2, <1>3 DEF SyncInv, SyncTypes, SyncTypeOK, Plans

LEMMA WorkerStays ==
    ASSUME SyncInv,
           LeaveLoop \/ GiveUp \/ AcceptPage \/ Widen \/ BeginBackfill \/ FetchPage
             \/ NextPage \/ EndRun
    PROVE  SyncInv'
  <1>1. /\ UNCHANGED <<repoVars, publishVars, now, connected, feed, running, paging,
                       repairing, liveVars>>
    BY DEF LeaveLoop, GiveUp, AcceptPage, Widen, BeginBackfill, FetchPage, NextPage, EndRun,
           exchangeVars, flagVars
  <1>2. paging' = paging /\ skipped' = skipped
    BY <1>1 DEF liveVars
  <1>3. /\ now \in Nat /\ faults \in 0..MaxFaults /\ task \in [Rest -> Page]
        /\ metadata \in Summary /\ plan \in Plans /\ pc \in [Threads -> Labels]
    BY PlanFields DEF Plans
  <1>4. /\ Interval \in Nat \ {0} /\ SeedSpan \in Nat
        /\ \A x \in Int : AtLeast0(x) \in Nat
    BY IntervalAssumption, SyncAssumption DEF SeedSpan, AtLeast0
  <1>5. plan' \in Plans
    <2>1. CASE BeginBackfill
      <3>1. AlignDown(now, Interval) \in Nat
        BY <1>3, <1>4, AlignDownIsMultiple
      <3>2. metadata.maxOpen \in Nat
        BY <1>3 DEF Summary
      <3>3. /\ AtLeast0(AlignDown(now, Interval) - SeedSpan) \in Nat
            /\ metadata.maxOpen + Interval \in Nat
        BY <1>4, <3>1, <3>2
      <3>4. RepoEmpty \in BOOLEAN
        BY DEF RepoEmpty
      <3>5. QED
        BY <2>1, <3>1, <3>3, <3>4 DEF BeginBackfill, Plans
    <2>2. CASE Widen
      <3>1. AtLeast0(plan.next - SeedSpan) \in Nat
        BY <1>3, <1>4 DEF Plans
      <3>2. QED
        BY <1>3, <2>2, <3>1 DEF Widen, Plans
    <2>3. CASE NextPage
      <3>1. metadata.maxOpen + Interval \in Nat
        BY <1>3, <1>4 DEF Summary
      <3>2. QED
        BY <1>3, <2>3, <3>1 DEF NextPage, Plans
    <2>4. CASE AcceptPage
      BY <1>3, <2>4 DEF AcceptPage, Plans
    <2>5. CASE EndRun
      BY <2>5 DEF EndRun, NoPlan, Plans
    <2>6. CASE LeaveLoop \/ GiveUp \/ FetchPage
      BY <1>3, <2>6 DEF LeaveLoop, GiveUp, FetchPage
    <2>7. QED
      BY <2>1, <2>2, <2>3, <2>4, <2>5, <2>6
  <1>6. /\ task' \in [Rest -> Page] /\ task'["pager"] = task["pager"]
        /\ faults' \in 0..MaxFaults
    <2>1. CASE FetchPage
      <3>1. Batch \in Int
        BY SyncAssumption
      <3>2. PICK got \in FetchRange(plan.next, RequestEnd, Batch) :
                faults' = got.faults /\ task' = [task EXCEPT !["worker"] = TaskOf(got.page)]
        BY <2>1 DEF FetchPage
      <3>3. got.page \in Seq(Candle) /\ got.faults \in 0..MaxFaults
        BY <1>3, <3>1, AnswersAreCandles
      <3>4. QED
        BY <1>3, <3>2, <3>3, NoTaskTyped DEF Rest
    <2>2. CASE ~FetchPage
      <3>1. task' = task \/ task' = [task EXCEPT !["worker"] = NoTask]
        BY <2>2 DEF LeaveLoop, GiveUp, AcceptPage, Widen, BeginBackfill, NextPage, EndRun
      <3>2. faults' = faults
        BY <2>2 DEF LeaveLoop, GiveUp, AcceptPage, Widen, BeginBackfill, NextPage, EndRun,
                    exchangeVars
      <3>3. QED
        BY <1>3, <3>1, <3>2, NoTaskTyped DEF Rest
    <2>3. QED
      BY <2>1, <2>2
  <1>7. backfilling' \in BOOLEAN
    <2>1. backfilling \in BOOLEAN
      BY DEF SyncInv, SyncTypes, SyncTypeOK
    <2>2. backfilling' = backfilling \/ backfilling' = TRUE \/ backfilling' = FALSE
      BY DEF LeaveLoop, GiveUp, AcceptPage, Widen, BeginBackfill, FetchPage, NextPage, EndRun,
             flagVars
    <2>3. QED
      BY <2>1, <2>2, Zenon
  <1>8. PICK l \in {"request", "received", "append", "lastPublish", "off"} :
            /\ At("worker", l)
            /\ pc["worker"] \in {"begin", "request", "received", "next", "golive"}
    BY DEF LeaveLoop, GiveUp, AcceptPage, Widen, BeginBackfill, FetchPage, NextPage, EndRun
  <1>9. /\ l \in Labels \ {"repair"} /\ l \notin Publishing /\ l # "live"
        /\ pc["worker"] \notin Publishing \union {"live", "off"} /\ pc["worker"] \notin Dirty
    BY <1>8 DEF Labels, Publishing, Dirty
  <1>10. UNCHANGED <<repoVars, publishVars>>
    BY <1>1
  <1>11. /\ FaultInv' /\ MutexInv' /\ ShowInv' /\ CurrentInv' /\ PhaseInv'
         /\ pc' \in [Threads -> Labels]
    BY <1>2, <1>6, <1>8, <1>9, <1>10, WorkerMoves
  <1>12. SyncTypes'
    BY <1>1, <1>5, <1>6, <1>7, <1>11, WorkerTypes
  <1>13. QED
    BY <1>11, <1>12 DEF SyncInv

(* The live session comes and goes with the worker's live phase.           *)
LEMMA LivePhase ==
    ASSUME SyncInv, StartLiveStream \/ StopLiveStream
    PROVE  SyncInv'
  <1>1. /\ pc \in [Threads -> Labels] /\ task \in [Rest -> Page] /\ plan \in Plans
        /\ faults \in 0..MaxFaults /\ now \in Nat /\ feed \in Seq(Candle)
        /\ <<>> \in Seq(Candle)
    BY PlanFields, EmptySeq DEF Plans
  <1>2. /\ UNCHANGED <<repoVars, publishVars, now, faults, running, paging, repairing,
                       skipped, finals>>
    BY DEF StartLiveStream, StopLiveStream, exchangeVars, flagVars
  <1>3. UNCHANGED <<metadata, mutex, snapshot, cache, seeded, opened>>
    BY <1>2 DEF repoVars, publishVars
  <1>4. /\ pc' \in [Threads -> Labels] /\ pc'["pager"] = pc["pager"]
        /\ \/ /\ pc["worker"] = "golive" /\ pc'["worker"] = "live" /\ pc'["live"] = "idle"
           \/ /\ pc["worker"] = "live" /\ pc["live"] = "idle"
              /\ pc'["worker"] = "off" /\ pc'["live"] = "off"
    BY <1>1 DEF StartLiveStream, StopLiveStream, Threads, Labels
  <1>5. pc["worker"] = "golive" => pc["live"] = "off"
    BY DEF SyncInv, PhaseInv
  <1>6. Quiet
    BY <1>2, <1>4, <1>5 DEF Quiet, Threads, Publishing, Dirty
  <1>7. FaultInv' /\ MutexInv' /\ ShowInv' /\ CurrentInv'
    BY <1>6, QuietStep
  <1>8. task' \in [Rest -> Page] /\ task'["pager"] = task["pager"]
    <2>1. task' = task \/ task' = [task EXCEPT !["worker"] = NoTask]
      BY DEF StartLiveStream, StopLiveStream
    <2>2. QED
      BY <1>1, <2>1, NoTaskTyped DEF Rest
  <1>9. plan' \in Plans
    <2>1. NoPlan \in Plans
      BY DEF NoPlan, Plans
    <2>2. plan' = plan \/ plan' = NoPlan
      BY DEF StartLiveStream, StopLiveStream
    <2>3. QED
      BY <1>1, <2>1, <2>2
  <1>10. feed' \in Seq(Candle)
    BY <1>1 DEF StartLiveStream, StopLiveStream, exchangeVars
  <1>11. connected' \in BOOLEAN /\ backfilling' \in BOOLEAN /\ fresh' \in BOOLEAN
    <2>1. connected \in BOOLEAN /\ backfilling \in BOOLEAN
      BY DEF SyncInv, SyncTypes, SyncTypeOK
    <2>2. /\ connected' = connected \/ connected' = FALSE
          /\ backfilling' = backfilling \/ backfilling' = FALSE
          /\ fresh' = TRUE \/ fresh' = FALSE
      BY DEF StartLiveStream, StopLiveStream, exchangeVars, flagVars
    <2>3. QED
      BY <2>1, <2>2, Zenon
  <1>12. SyncTypes'
    <2>1. {running, backfilling, paging, repairing, fresh, seeded, skipped}' \subseteq BOOLEAN
      BY <1>2, <1>3, <1>11 DEF SyncInv, SyncTypes, SyncTypeOK
    <2>2. \A th \in Rest : task'[th].todo \in Seq(Candle) /\ task'[th].batch \in Seq(Candle)
      BY <1>8 DEF Page
    <2>3. QED
      BY <1>1, <1>2, <1>3, <1>4, <1>8, <1>9, <1>10, <1>11, <2>1, <2>2
         DEF SyncInv, SyncTypes, SyncTypeOK, Plans
  <1>13. PhaseInv'
    <2>1. opened
      BY <1>4 DEF SyncInv, PhaseInv, Threads
    <2>2. QED
      BY <1>2, <1>3, <1>4, <1>8, <2>1 DEF SyncInv, PhaseInv, Rest
  <1>14. QED
    BY <1>7, <1>12, <1>13 DEF SyncInv

(***************************************************************************)
(* The paging thread, and the request of a repair                          *)
(***************************************************************************)
(* The state types once the parts a REST step touches are known.           *)
LEMMA RestTypes ==
    ASSUME SyncInv, UNCHANGED <<repoVars, publishVars, now, connected, feed, running,
                                backfilling, liveVars, plan>>,
           pc' \in [Threads -> Labels], task' \in [Rest -> Page],
           faults' \in 0..MaxFaults, paging' \in BOOLEAN, repairing' \in BOOLEAN
    PROVE  SyncTypes'
  <1>1. UNCHANGED <<metadata, mutex, snapshot, cache, seeded, fresh, skipped, finals>>
    BY DEF repoVars, publishVars, liveVars
  <1>2. \A th \in Rest : task'[th].todo \in Seq(Candle) /\ task'[th].batch \in Seq(Candle)
    BY DEF Page
  <1>3. {running, backfilling, paging, repairing, fresh, seeded, skipped}' \subseteq BOOLEAN
    BY <1>1 DEF SyncInv, SyncTypes, SyncTypeOK
  <1>4. QED
    BY <1>1, <1>2, <1>3 DEF SyncInv, SyncTypes, SyncTypeOK

LEMMA RequestOlder ==
    ASSUME SyncInv, RequestBackfillOlder
    PROVE  SyncInv'
  <1> DEFINE start == AtLeast0(Shown[1].open - PageBars * Interval)
  <1>1. /\ pc \in [Threads -> Labels] /\ task \in [Rest -> Page]
        /\ cache \in Seq(Candle) /\ candles \in Seq(Candle) /\ faults \in 0..MaxFaults
    BY PlanFields
  <1>2. /\ opened /\ Shown # <<>> /\ paging = FALSE /\ paging' = TRUE
        /\ task' = [task EXCEPT !["pager"].from = start] /\ At("pager", "request")
        /\ UNCHANGED <<repoVars, exchangeVars, running, backfilling, repairing,
                       publishVars, liveVars, plan>>
    BY DEF RequestBackfillOlder, AcceptsRequest, SyncInv, SyncTypes, SyncTypeOK
  <1>3. start \in Nat
    <2>1. Shown \in Seq(Candle)
      BY <1>1 DEF Shown
    <2>2. Shown[1] \in Candle
      BY <1>2, <2>1, EmptySeq, ElementOfSeq
    <2>3. Shown[1].open \in Nat /\ PageBars * Interval \in Nat
      BY <2>2, SyncAssumption, IntervalAssumption DEF Candle
    <2>4. QED
      BY <2>3 DEF AtLeast0
  <1> HIDE DEF start
  <1>4. task' \in [Rest -> Page] /\ task'["worker"] = task["worker"]
    BY <1>1, <1>2, <1>3 DEF Rest, Page
  <1>5. pc["pager"] = "off"
    BY <1>2 DEF SyncInv, PhaseInv
  <1>6. /\ pc' \in [Threads -> Labels] /\ pc'["pager"] = "request"
        /\ \A u \in Threads : u # "pager" => pc'[u] = pc[u]
    BY <1>1, <1>2, StepOf DEF Threads, Labels
  <1>7. UNCHANGED <<now, connected, feed, faults, skipped, opened, cache, seeded>>
    BY <1>2 DEF exchangeVars, liveVars, repoVars, publishVars
  <1>8. Quiet
    BY <1>2, <1>5, <1>6, <1>7 DEF Quiet, Threads, Publishing, Dirty
  <1>9. FaultInv' /\ MutexInv' /\ ShowInv' /\ CurrentInv'
    BY <1>8, QuietStep
  <1>10. paging' \in BOOLEAN /\ repairing' \in BOOLEAN
    BY <1>2 DEF SyncInv, SyncTypes, SyncTypeOK
  <1>11. SyncTypes'
    BY <1>1, <1>2, <1>4, <1>6, <1>7, <1>10, RestTypes
  <1>12. PhaseInv'
    BY <1>2, <1>4, <1>6, <1>7 DEF SyncInv, PhaseInv, Threads, Rest
  <1>13. QED
    BY <1>9, <1>11, <1>12 DEF SyncInv

LEMMA FetchOlderStep ==
    ASSUME SyncInv, FetchOlder
    PROVE  SyncInv'
  <1>1. /\ pc \in [Threads -> Labels] /\ task \in [Rest -> Page] /\ now \in Nat
        /\ faults \in 0..MaxFaults /\ PageBars \in Int
    BY PlanFields, SyncAssumption
  <1> DEFINE from == task["pager"].from
             to == from + PageBars * Interval - 1
  <1>2. PICK got \in FetchRange(from, to, PageBars) :
           /\ faults' = got.faults
           /\ task' = [task EXCEPT !["pager"] = TaskOf(got.page)]
           /\ paging' = (got.page # <<>>)
           /\ At("pager", IF got.page = <<>> THEN "off" ELSE "append")
    BY DEF FetchOlder
  <1> HIDE DEF from, to
  <1>3. got.page \in Seq(Candle) /\ got.faults \in 0..MaxFaults
    BY <1>1, AnswersAreCandles
  <1>4. /\ pc["pager"] = "request"
        /\ UNCHANGED <<repoVars, now, connected, feed, running, backfilling, repairing,
                       publishVars, liveVars, plan>>
    BY DEF FetchOlder
  <1>5. /\ task' \in [Rest -> Page] /\ task'["worker"] = task["worker"]
        /\ faults' \in 0..MaxFaults
    BY <1>1, <1>2, <1>3, NoTaskTyped DEF Rest
  <1>6. PICK l \in {"off", "append"} : At("pager", l) /\ (paging' = FALSE => l = "off")
    BY <1>2
  <1>7. /\ pc' \in [Threads -> Labels] /\ pc'["pager"] = l
        /\ \A u \in Threads : u # "pager" => pc'[u] = pc[u]
    BY <1>1, <1>6, StepOf DEF Threads, Labels
  <1>8. UNCHANGED <<skipped, opened, cache, seeded>>
    BY <1>4 DEF liveVars, repoVars, publishVars
  <1>9. Quiet
    BY <1>4, <1>6, <1>7, <1>8 DEF Quiet, Threads, Publishing, Dirty
  <1>10. FaultInv' /\ MutexInv' /\ ShowInv' /\ CurrentInv'
    BY <1>9, QuietStep
  <1>11. paging' \in BOOLEAN /\ repairing' \in BOOLEAN
    BY <1>2, <1>4 DEF SyncInv, SyncTypes, SyncTypeOK
  <1>12. SyncTypes'
    BY <1>4, <1>5, <1>7, <1>11, RestTypes
  <1>13. opened
    BY <1>4 DEF SyncInv, PhaseInv, Threads
  <1>14. PhaseInv'
    BY <1>5, <1>6, <1>7, <1>8, <1>13 DEF SyncInv, PhaseInv, Threads, Rest
  <1>15. QED
    BY <1>10, <1>12, <1>14 DEF SyncInv

LEMMA TaskSplit ==
    ASSUME task \in [Rest -> Page], NEW th \in Rest, NEW todo \in Seq(Candle),
           task' = [task EXCEPT ![th].todo = todo]
    PROVE  /\ task' \in [Rest -> Page]
           /\ \A u \in Rest : task'[u].gap = task[u].gap
  <1> DEFINE mine == [task[th] EXCEPT !.todo = todo]
  <1>1. task[th] \in Page
    OBVIOUS
  <1>2. mine \in Page /\ mine.gap = task[th].gap
    BY <1>1 DEF Page
  <1>3. task' = [task EXCEPT ![th] = mine]
    OBVIOUS
  <1> HIDE DEF mine
  <1>4. \A u \in Rest : task'[u] = IF u = th THEN mine ELSE task[u]
    BY <1>3
  <1>5. QED
    BY <1>2, <1>3, <1>4

(* What repairGap asks for, or that it leaves a repair to another thread.  *)
LEMMA RepairStep ==
    ASSUME SyncInv, NEW th \in Rest, Repair(th)
    PROVE  SyncInv'
  <1> DEFINE gap == task[th].gap[1]
             limit == (gap.to - gap.from + Interval - 1) \div Interval
  <1>1. /\ pc \in [Threads -> Labels] /\ task \in [Rest -> Page] /\ now \in Nat
        /\ faults \in 0..MaxFaults /\ task[th] \in Page /\ th \in Threads
    BY PlanFields DEF Rest, Threads
  <1>2. /\ pc[th] = "repair"
        /\ UNCHANGED <<repoVars, now, connected, feed, running, backfilling, paging,
                       publishVars, liveVars, plan>>
        /\ \/ repairing /\ At(th, "publish") /\ UNCHANGED <<faults, repairing, task>>
           \/ /\ repairing' = TRUE
              /\ \E missing \in FetchRange(gap.from, gap.to - 1, limit) :
                    /\ faults' = missing.faults
                    /\ task' = [task EXCEPT ![th].todo =
                          IF missing.page = <<>> THEN Retried(th) ELSE missing.page]
                    /\ At(th, IF missing.page = <<>> THEN "retry" ELSE "fill")
    BY DEF Repair
  <1>3. limit \in Int
    <2>1. task[th].gap # <<>>
      BY <1>2 DEF SyncInv, PhaseInv
    <2>2. task[th].gap \in Seq(Answer)
      BY <1>1 DEF Page
    <2>3. gap \in Answer
      BY <2>1, <2>2, EmptySeq, ElementOfSeq
    <2>4. gap.to \in Int /\ gap.from \in Int
      BY <2>3 DEF Answer
    <2>5. gap.to - gap.from + Interval - 1 \in Int /\ Interval \in Nat \ {0}
      BY <2>4, IntervalAssumption
    <2>6. QED
      BY <2>5
  <1> HIDE DEF gap, limit
  <1>4. /\ task' \in [Rest -> Page] /\ faults' \in 0..MaxFaults
        /\ \A u \in Rest : task'[u].gap = task[u].gap
    <2>1. CASE task' = task /\ faults' = faults
      BY <1>1, <2>1
    <2>2. ASSUME NEW missing \in FetchRange(gap.from, gap.to - 1, limit),
                 faults' = missing.faults,
                 task' = [task EXCEPT ![th].todo =
                            IF missing.page = <<>> THEN Retried(th) ELSE missing.page]
          PROVE  /\ task' \in [Rest -> Page] /\ faults' \in 0..MaxFaults
                 /\ \A u \in Rest : task'[u].gap = task[u].gap
      <3>1. missing.page \in Seq(Candle) /\ missing.faults \in 0..MaxFaults
        BY <1>1, <1>3, AnswersAreCandles
      <3>2. Retried(th) \in Seq(Candle)
        BY <1>1, RetriedFrom DEF Page
      <3>3. PICK todo \in Seq(Candle) : task' = [task EXCEPT ![th].todo = todo]
        BY <2>2, <3>1, <3>2
      <3>4. task' \in [Rest -> Page] /\ \A u \in Rest : task'[u].gap = task[u].gap
        BY <1>1, <3>3, TaskSplit
      <3>5. QED
        BY <2>2, <3>1, <3>4
    <2>3. QED
      BY <1>2, <2>1, <2>2
  <1>5. PICK l \in {"publish", "retry", "fill"} : At(th, l)
    BY <1>2
  <1>6. /\ pc' \in [Threads -> Labels] /\ pc'[th] = l
        /\ \A u \in Threads : u # th => pc'[u] = pc[u]
    BY <1>1, <1>5, StepOf DEF Labels
  <1>7. UNCHANGED <<skipped, opened, cache, seeded>>
    BY <1>2 DEF liveVars, repoVars, publishVars
  <1>8. Quiet
    BY <1>1, <1>2, <1>6, <1>7 DEF Quiet, Publishing, Dirty
  <1>9. FaultInv' /\ MutexInv' /\ ShowInv' /\ CurrentInv'
    BY <1>8, QuietStep
  <1>10. paging' \in BOOLEAN /\ repairing' \in BOOLEAN
    BY <1>2 DEF SyncInv, SyncTypes, SyncTypeOK
  <1>11. SyncTypes'
    BY <1>2, <1>4, <1>6, <1>10, RestTypes
  <1>12. opened
    BY <1>1, <1>2 DEF SyncInv, PhaseInv
  <1>13. PhaseInv'
    BY <1>1, <1>2, <1>4, <1>6, <1>7, <1>12 DEF SyncInv, PhaseInv, Threads, Rest
  <1>14. QED
    BY <1>9, <1>11, <1>13 DEF SyncInv

(***************************************************************************)
(* Appends: whoever appends will publish, or the throttle has dropped the  *)
(* update                                                                  *)
(***************************************************************************)
LEMMA AppendShows ==
    ASSUME SyncInv, NEW c \in Candle, AppendOrReplace(c), UNCHANGED publishVars,
           NEW th \in Threads, pc' \in [Threads -> Labels],
           \A u \in Threads : u # th => pc'[u] = pc[u],
           pc[th] \notin Publishing, pc'[th] \notin Publishing,
           pc'[th] \in Dirty \/ skipped' = TRUE
    PROVE  /\ FaultInv' /\ metadata' \in Summary /\ answer' \in Answer
           /\ opened /\ opened' /\ MutexInv' /\ ShowInv' /\ CurrentInv'
  <1>1. UNCHANGED <<mutex, snapshot, cache, seeded>>
    BY DEF publishVars
  <1>2. /\ FaultInv' /\ metadata' \in Summary /\ answer' \in Answer
        /\ opened /\ opened' /\ Behind(candles, candles')
    BY AppendAnswers, PlanFields DEF SyncInv
  <1>3. /\ candles \in Seq(Candle) /\ candles' \in Seq(Candle)
        /\ cache \in Seq(Candle) /\ mutex \subseteq Threads
        /\ \A u \in Threads : snapshot[u] \in Seq(Candle)
    BY <1>2, PlanFields DEF FaultInv, SyncInv, MutexInv
  <1>4. \A u \in Threads : pc[u] \in Publishing <=> pc'[u] \in Publishing
    OBVIOUS
  <1>5. MutexInv'
    BY <1>1, <1>4 DEF SyncInv, MutexInv
  <1>6. ShowInv'
    <2>1. Behind(cache, candles')
      BY <1>2, <1>3, BehindTransitive DEF SyncInv, ShowInv
    <2>2. \A u \in mutex : Behind(cache, snapshot[u]) /\ Behind(snapshot[u], candles')
      BY <1>2, <1>3, BehindTransitive DEF SyncInv, ShowInv
    <2>3. QED
      BY <1>1, <2>1, <2>2 DEF ShowInv
  <1>7. CurrentInv'
    BY DEF CurrentInv
  <1>8. QED
    BY <1>2, <1>5, <1>6, <1>7

LEMMA NextTodo ==
    ASSUME SyncInv, NEW th \in Rest, task[th].todo # <<>>
    PROVE  Head(task[th].todo) \in Candle /\ Tail(task[th].todo) \in Seq(Candle)
  <1>1. task[th].todo \in Seq(Candle)
    BY PlanFields DEF Page
  <1>2. QED
    BY <1>1, HeadTailProperties

LEMMA RestAppends ==
    ASSUME SyncInv, NEW th \in Rest, AppendPage(th) \/ Fill(th) \/ Retry(th)
    PROVE  SyncInv'
  <1>1. /\ pc \in [Threads -> Labels] /\ task \in [Rest -> Page] /\ now \in Nat
        /\ faults \in 0..MaxFaults /\ task[th] \in Page /\ th \in Threads
        /\ plan \in Plans /\ feed \in Seq(Candle)
    BY PlanFields DEF Rest, Threads, Plans
  <1>2. /\ pc[th] \in {"append", "fill", "retry"} /\ AppendHead(th)
        /\ UNCHANGED <<exchangeVars, running, backfilling, paging, publishVars, liveVars, plan>>
    BY DEF AppendPage, Fill, Retry, flagVars
  <1>3. /\ Head(task[th].todo) \in Candle /\ Tail(task[th].todo) \in Seq(Candle)
        /\ AppendOrReplace(Head(task[th].todo))
    BY <1>2, NextTodo DEF AppendHead
  <1>4. PICK l \in Dirty : At(th, l) /\ (l = "repair" => AppendPage(th) /\ Refused)
    BY DEF AppendPage, Fill, Retry, Dirty
  <1>5. l \in Labels /\ l \notin Publishing
    BY <1>4 DEF Dirty, Labels, Publishing
  <1>6. /\ pc' \in [Threads -> Labels] /\ pc'[th] = l
        /\ \A u \in Threads : u # th => pc'[u] = pc[u]
    BY <1>1, <1>4, <1>5, StepOf
  <1>7. /\ FaultInv' /\ metadata' \in Summary /\ answer' \in Answer
        /\ opened /\ opened' /\ MutexInv' /\ ShowInv' /\ CurrentInv'
    <2>1. pc[th] \notin Publishing
      BY <1>2 DEF Publishing
    <2>2. QED
      BY <1>1, <1>2, <1>3, <1>4, <1>5, <1>6, <2>1, AppendShows
  <1>8. /\ task' \in [Rest -> Page]
        /\ \A u \in Rest : task'[u].gap = task[u].gap \/ task'[u].gap = <<answer'>>
        /\ l = "repair" => task'[th].gap = <<answer'>>
    <2> DEFINE rest == Tail(task[th].todo)
    <2>1. rest \in Seq(Candle) /\ Retried(th) \in Seq(Candle) /\ <<>> \in Seq(Candle)
      BY <1>1, <1>3, RetriedFrom, EmptySeq DEF Page
    <2>2. CASE AppendPage(th)
      <3> DEFINE gap == IF Refused THEN <<answer'>> ELSE task[th].gap
                 mine == [[task[th] EXCEPT !.todo = rest] EXCEPT !.gap = gap]
      <3>1. <<answer'>> \in Seq(Answer)
        BY <1>7
      <3>2. gap \in Seq(Answer)
        BY <1>1, <3>1 DEF Page
      <3>3. task' = [task EXCEPT ![th] = mine]
        BY <1>1, <2>2 DEF AppendPage, Page
      <3> HIDE DEF rest
      <3>4. /\ mine \in Page /\ mine.gap = gap
        BY <1>1, <2>1, <3>2 DEF Page
      <3> HIDE DEF mine
      <3>5. \A u \in Rest : task'[u] = IF u = th THEN mine ELSE task[u]
        BY <1>1, <3>3
      <3>6. task' \in [Rest -> Page]
        BY <1>1, <3>3, <3>4
      <3>7. \A u \in Rest : task'[u].gap = task[u].gap \/ task'[u].gap = <<answer'>>
        BY <3>4, <3>5
      <3>8. l = "repair" => task'[th].gap = <<answer'>>
        BY <1>4, <3>4, <3>5
      <3>9. QED
        BY <3>6, <3>7, <3>8
    <2>3. CASE (Fill(th) \/ Retry(th)) /\ ~AppendPage(th)
      <3>1. PICK todo \in Seq(Candle) : task' = [task EXCEPT ![th].todo = todo]
        BY <2>1, <2>3 DEF Fill, Retry
      <3>2. QED
        BY <1>1, <1>4, <2>3, <3>1, TaskSplit
    <2>4. QED
      BY <2>2, <2>3
  <1>9. repairing' \in BOOLEAN
    <2>1. repairing \in BOOLEAN
      BY DEF SyncInv, SyncTypes, SyncTypeOK
    <2>2. repairing' = repairing \/ repairing' = TRUE \/ repairing' = FALSE
      BY DEF AppendPage, Fill, Retry, flagVars
    <2>3. QED
      BY <2>1, <2>2, Zenon
  <1>10. UNCHANGED <<now, faults, connected, feed, mutex, snapshot, cache, seeded,
                     fresh, skipped, finals>>
    BY <1>2 DEF exchangeVars, publishVars, liveVars
  <1>11. SyncTypes'
    <2>1. \A u \in Rest : task'[u].todo \in Seq(Candle) /\ task'[u].batch \in Seq(Candle)
      BY <1>8 DEF Page
    <2>2. {running, backfilling, paging, repairing, fresh, seeded, skipped}' \subseteq BOOLEAN
      BY <1>2, <1>9, <1>10 DEF SyncInv, SyncTypes, SyncTypeOK
    <2>3. QED
      BY <1>2, <1>6, <1>7, <1>8, <1>10, <2>1, <2>2 DEF SyncInv, SyncTypes, SyncTypeOK
  <1>12. PhaseInv'
    <2>1. <<answer'>> # <<>>
      OBVIOUS
    <2>2. \A u \in Rest : pc'[u] = "repair" => task'[u].gap # <<>>
      BY <1>6, <1>8, <2>1 DEF SyncInv, PhaseInv, Rest, Threads
    <2>3. th # "live"
      BY DEF Rest
    <2>4. QED
      BY <1>1, <1>2, <1>6, <1>7, <2>2, <2>3 DEF SyncInv, PhaseInv, Threads, Rest
  <1>13. QED
    BY <1>7, <1>11, <1>12 DEF SyncInv

LEMMA LiveAppends ==
    ASSUME SyncInv, HandleLive
    PROVE  SyncInv'
  <1> DEFINE update == Head(feed)
  <1>1. /\ pc \in [Threads -> Labels] /\ task \in [Rest -> Page] /\ now \in Nat
        /\ faults \in 0..MaxFaults /\ plan \in Plans /\ feed \in Seq(Candle)
    BY PlanFields DEF Plans
  <1>2. /\ pc["live"] = "idle" /\ feed # <<>> /\ feed' = Tail(feed)
        /\ AppendOrReplace(update)
        /\ finals' = IF update.closed THEN finals \union {update.open} ELSE finals
        /\ \/ At("live", "publish") /\ fresh' = FALSE /\ skipped' = skipped
           \/ skipped' = TRUE /\ pc' = pc /\ fresh' = fresh
        /\ UNCHANGED <<now, faults, connected, flagVars, publishVars, task, plan>>
    BY DEF HandleLive
  <1>3. update \in Candle /\ feed' \in Seq(Candle)
    BY <1>1, <1>2, HeadTailProperties
  <1> HIDE DEF update
  <1>4. /\ pc' \in [Threads -> Labels] /\ pc'["live"] \in {"idle", "publish"}
        /\ pc'["live"] = "publish" \/ skipped' = TRUE
        /\ \A u \in Threads : u # "live" => pc'[u] = pc[u]
    <2>1. CASE At("live", "publish") /\ fresh' = FALSE /\ skipped' = skipped
      BY <1>1, <2>1, StepOf DEF Threads, Labels
    <2>2. CASE skipped' = TRUE /\ pc' = pc
      BY <1>1, <1>2, <2>2
    <2>3. QED
      BY <1>2, <2>1, <2>2
  <1>5. /\ FaultInv' /\ metadata' \in Summary
        /\ opened /\ opened' /\ MutexInv' /\ ShowInv' /\ CurrentInv'
    <2>1. /\ "live" \in Threads /\ pc["live"] \notin Publishing
          /\ pc'["live"] \notin Publishing /\ (pc'["live"] \in Dirty \/ skipped' = TRUE)
      BY <1>2, <1>4 DEF Threads, Publishing, Dirty
    <2>2. UNCHANGED publishVars
      BY <1>2
    <2>3. QED
      BY <1>2, <1>3, <1>4, <2>1, <2>2, AppendShows
  <1>6. finals' \subseteq Nat
    BY <1>2, <1>3 DEF SyncInv, SyncTypes, SyncTypeOK, Candle
  <1>7. fresh' \in BOOLEAN /\ skipped' \in BOOLEAN
    <2>1. fresh \in BOOLEAN /\ skipped \in BOOLEAN
      BY DEF SyncInv, SyncTypes, SyncTypeOK
    <2>2. /\ fresh' = fresh \/ fresh' = FALSE
          /\ skipped' = skipped \/ skipped' = TRUE
      BY <1>2
    <2>3. QED
      BY <2>1, <2>2, Zenon
  <1>8. UNCHANGED <<running, backfilling, paging, repairing, mutex, snapshot, cache, seeded>>
    BY <1>2 DEF flagVars, publishVars
  <1>9. SyncTypes'
    <2>1. {running, backfilling, paging, repairing, fresh, seeded, skipped}' \subseteq BOOLEAN
      BY <1>7, <1>8 DEF SyncInv, SyncTypes, SyncTypeOK
    <2>2. QED
      BY <1>2, <1>3, <1>4, <1>5, <1>6, <1>8, <2>1 DEF SyncInv, SyncTypes, SyncTypeOK
  <1>10. PhaseInv'
    BY <1>2, <1>4, <1>5, <1>8 DEF SyncInv, PhaseInv, Threads, Rest
  <1>11. QED
    BY <1>5, <1>9, <1>10 DEF SyncInv

(***************************************************************************)
(* publishSnapshot                                                         *)
(***************************************************************************)
LEMMA SnapshotStep ==
    ASSUME SyncInv, NEW th \in Threads, TakeSnapshot(th)
    PROVE  SyncInv'
  <1> DEFINE now_ == GetLatest(candles, Published)
  <1>1. /\ pc \in [Threads -> Labels] /\ snapshot \in [Threads -> Seq(Candle)]
        /\ candles \in Seq(Candle) /\ cache \in Seq(Candle)
    BY PlanFields
  <1>2. /\ pc[th] \in {"publish", "lastPublish"} /\ mutex = {} /\ mutex' = {th}
        /\ snapshot' = [snapshot EXCEPT ![th] = now_]
        /\ skipped' = FALSE
        /\ At(th, IF pc[th] = "publish" THEN "update" ELSE "lastUpdate")
        /\ UNCHANGED <<repoVars, exchangeVars, flagVars, cache, seeded, fresh, finals, task, plan>>
    BY DEF TakeSnapshot, EnterPublish
  <1>3. /\ now_ \in Seq(Candle) /\ Behind(now_, candles)
        /\ \A s : Behind(s, candles) => Behind(s, now_)
    BY <1>1, BehindLatest
  <1>4. PICK l \in {"update", "lastUpdate"} : At(th, l)
    BY <1>2
  <1>5. /\ pc' \in [Threads -> Labels] /\ pc'[th] = l
        /\ \A u \in Threads : u # th => pc'[u] = pc[u]
    BY <1>1, <1>4, StepOf DEF Labels
  <1>6. /\ snapshot' \in [Threads -> Seq(Candle)] /\ snapshot'[th] = now_
    BY <1>1, <1>2, <1>3
  <1>7. /\ UNCHANGED <<candles, metadata, hasGap, file, opened, answer>>
        /\ UNCHANGED <<now, faults, connected, feed>>
        /\ UNCHANGED <<running, backfilling, paging, repairing>>
        /\ UNCHANGED <<cache, seeded, fresh, finals, task, plan>>
    BY <1>2 DEF repoVars, exchangeVars, flagVars
  <1>8. FaultInv'
    BY <1>7 DEF SyncInv, FaultInv, Rises, Covers, ClosedAt
  <1>9. MutexInv'
    <2>1. \A u \in Threads : pc[u] \notin Publishing
      BY <1>2 DEF SyncInv, MutexInv
    <2>2. \A u \in Threads : pc'[u] \in Publishing <=> u = th
      BY <1>4, <1>5, <2>1 DEF Publishing
    <2>3. QED
      BY <1>2, <2>2 DEF MutexInv
  <1>10. ShowInv'
    BY <1>2, <1>3, <1>6, <1>7 DEF SyncInv, ShowInv
  <1>11. CurrentInv'
    BY <1>2, <1>6, <1>7 DEF CurrentInv, Newest
  <1> HIDE DEF now_
  <1>12. SyncTypes'
    <2>1. {running, backfilling, paging, repairing, fresh, seeded, skipped}' \subseteq BOOLEAN
      BY <1>2, <1>7 DEF SyncInv, SyncTypes, SyncTypeOK
    <2>2. mutex' \subseteq Threads
      BY <1>2
    <2>3. QED
      BY <1>5, <1>6, <1>7, <2>1, <2>2 DEF SyncInv, SyncTypes, SyncTypeOK
  <1>13. opened
    BY <1>2 DEF SyncInv, PhaseInv
  <1>14. PhaseInv'
    BY <1>2, <1>4, <1>5, <1>7, <1>13 DEF SyncInv, PhaseInv, Threads, Rest
  <1>15. QED
    BY <1>8, <1>9, <1>10, <1>11, <1>12, <1>14 DEF SyncInv

LEMMA UpdateStep ==
    ASSUME SyncInv, NEW th \in Threads, UpdateCache(th)
    PROVE  SyncInv'
  <1>1. /\ pc \in [Threads -> Labels] /\ snapshot \in [Threads -> Seq(Candle)]
        /\ candles \in Seq(Candle) /\ cache \in Seq(Candle) /\ <<>> \in Seq(Candle)
    BY PlanFields, EmptySeq
  <1>2. /\ pc[th] \in Publishing
        /\ cache' = snapshot[th] /\ seeded' = TRUE /\ mutex' = mutex \ {th}
        /\ snapshot' = [snapshot EXCEPT ![th] = <<>>]
        /\ At(th, IF th = "live" THEN "idle"
                  ELSE IF th = "pager" THEN "off"
                  ELSE IF pc[th] = "lastUpdate" THEN "golive" ELSE "next")
        /\ paging' = IF th = "pager" THEN FALSE ELSE paging
        /\ UNCHANGED <<repoVars, exchangeVars, running, backfilling, repairing, liveVars,
                       task, plan>>
    BY DEF UpdateCache, LeavePublish, Publishing
  <1>3. PICK l \in {"idle", "off", "golive", "next"} :
            /\ At(th, l) /\ (th = "live" => l = "idle") /\ (th = "pager" => l = "off")
            /\ th = "worker" => l \in {"golive", "next"}
    <2>1. CASE th = "live"
      BY <1>2, <2>1
    <2>2. CASE th = "pager"
      BY <1>2, <2>2
    <2>3. CASE th = "worker" /\ pc[th] = "lastUpdate"
      BY <1>2, <2>3
    <2>4. CASE th = "worker" /\ pc[th] # "lastUpdate"
      BY <1>2, <2>4
    <2>5. QED
      BY <2>1, <2>2, <2>3, <2>4 DEF Threads
  <1>4. /\ pc' \in [Threads -> Labels] /\ pc'[th] = l
        /\ \A u \in Threads : u # th => pc'[u] = pc[u]
    BY <1>1, <1>3, StepOf DEF Labels
  <1>5. mutex = {th} /\ mutex' = {}
    <2>1. th \in mutex /\ \A u \in mutex : u = th
      BY <1>2 DEF SyncInv, MutexInv
    <2>2. QED
      BY <1>2, <2>1
  <1>6. snapshot' \in [Threads -> Seq(Candle)] /\ cache' \in Seq(Candle)
    BY <1>1, <1>2
  <1>7. /\ UNCHANGED <<candles, metadata, hasGap, file, opened, answer>>
        /\ UNCHANGED <<now, faults, connected, feed>>
        /\ UNCHANGED <<running, backfilling, repairing>>
        /\ UNCHANGED <<fresh, skipped, finals, task, plan>>
    BY <1>2 DEF repoVars, exchangeVars, liveVars
  <1>8. FaultInv'
    BY <1>7 DEF SyncInv, FaultInv, Rises, Covers, ClosedAt
  <1>9. MutexInv'
    <2>1. \A u \in Threads : u # th => pc[u] \notin Publishing
      BY <1>5 DEF SyncInv, MutexInv
    <2>2. \A u \in Threads : pc'[u] \notin Publishing
      BY <1>3, <1>4, <2>1 DEF Publishing
    <2>3. QED
      BY <1>5, <2>2 DEF MutexInv
  <1>10. ShowInv'
    BY <1>2, <1>5, <1>7 DEF SyncInv, ShowInv
  <1>11. CurrentInv'
    <2>1. SUFFICES ASSUME skipped' = FALSE, \A u \in Threads : pc'[u] \notin Dirty
                   PROVE  Newest(cache)'
      BY <1>5 DEF CurrentInv
    <2>2. \A u \in Threads : pc[u] \notin Dirty
      BY <1>2, <1>4, <2>1 DEF Publishing, Dirty
    <2>3. QED
      BY <1>2, <1>5, <1>7, <2>1, <2>2 DEF SyncInv, CurrentInv, Newest
  <1>12. paging' \in BOOLEAN /\ (paging' = FALSE => pc'["pager"] = "off")
    BY <1>2, <1>3, <1>4 DEF SyncInv, PhaseInv, SyncTypes, SyncTypeOK, Threads
  <1>13. SyncTypes'
    <2>1. {running, backfilling, paging, repairing, fresh, seeded, skipped}' \subseteq BOOLEAN
      BY <1>2, <1>7, <1>12 DEF SyncInv, SyncTypes, SyncTypeOK
    <2>2. QED
      BY <1>4, <1>5, <1>6, <1>7, <2>1 DEF SyncInv, SyncTypes, SyncTypeOK
  <1>14. opened
    BY <1>2 DEF SyncInv, PhaseInv, Publishing
  <1>15. PhaseInv'
    <2>1. \A u \in Rest : pc'[u] = "repair" => task'[u].gap # <<>>
      BY <1>3, <1>4, <1>7 DEF SyncInv, PhaseInv, Threads, Rest
    <2>2. pc'["worker"] # "live" => pc'["live"] = "off"
      BY <1>2, <1>3, <1>4 DEF SyncInv, PhaseInv, Threads, Publishing
    <2>3. QED
      BY <1>7, <1>12, <1>14, <2>1, <2>2 DEF PhaseInv
  <1>16. QED
    BY <1>8, <1>9, <1>10, <1>11, <1>13, <1>15 DEF SyncInv

(***************************************************************************)
(* The process                                                             *)
(***************************************************************************)
LEMMA BootStep ==
    ASSUME SyncInv, Boot
    PROVE  SyncInv'
  <1>1. /\ pc = [th \in Threads |-> "off"] /\ cache = <<>> /\ seeded = FALSE
        /\ task \in [Rest -> Page] /\ snapshot \in [Threads -> Seq(Candle)]
        /\ pc \in [Threads -> Labels]
    BY PlanFields DEF Boot, Open, SyncInv, PhaseInv
  <1>2. /\ Open /\ running' = TRUE /\ At("worker", "begin")
        /\ UNCHANGED <<now, faults, connected, feed>>
        /\ UNCHANGED <<backfilling, paging, repairing>>
        /\ UNCHANGED <<mutex, snapshot, cache, seeded>>
        /\ UNCHANGED <<fresh, skipped, finals>> /\ UNCHANGED <<task, plan>>
    BY DEF Boot, exchangeVars, publishVars, liveVars
  <1>3. FaultInv'
    BY <1>2, OpenFault DEF SyncInv
  <1>4. metadata' \in Summary
    BY <1>2, <1>3, SummaryTyped DEF Open, FaultInv
  <1>5. /\ pc' \in [Threads -> Labels] /\ pc'["worker"] = "begin"
        /\ \A u \in Threads : u # "worker" => pc'[u] = "off"
    BY <1>1, <1>2, StepOf DEF Threads, Labels
  <1>6. mutex = {}
    BY <1>1 DEF SyncInv, MutexInv, Publishing
  <1>7. MutexInv'
    BY <1>2, <1>5, <1>6 DEF MutexInv, Publishing
  <1>8. ShowInv'
    BY <1>1, <1>2, <1>6 DEF ShowInv, Behind
  <1>9. CurrentInv'
    BY <1>1, <1>2, <1>6 DEF CurrentInv
  <1>10. SyncTypes'
    <2>1. {running, backfilling, paging, repairing, fresh, seeded, skipped}' \subseteq BOOLEAN
      BY <1>2 DEF SyncInv, SyncTypes, SyncTypeOK
    <2>2. QED
      BY <1>2, <1>4, <1>5, <2>1 DEF SyncInv, SyncTypes, SyncTypeOK
  <1>11. PhaseInv'
    BY <1>2, <1>5 DEF Open, PhaseInv, Threads, Rest
  <1>12. QED
    BY <1>3, <1>7, <1>8, <1>9, <1>10, <1>11 DEF SyncInv

(* What a process that has not started shares with one that has died.      *)
LEMMA IdleTypes ==
    /\ [th \in Threads |-> "off"] \in [Threads -> Labels]
    /\ [th \in Rest |-> NoTask] \in [Rest -> Page]
    /\ [th \in Threads |-> <<>>] \in [Threads -> Seq(Candle)]
    /\ NoPlan \in Plans /\ NoMetadata \in Summary /\ <<>> \in Seq(Candle)
  <1>1. <<>> \in Seq(Candle)
    BY EmptySeq
  <1>2. [th \in Threads |-> <<>>] \in [Threads -> Seq(Candle)]
    BY <1>1
  <1>3. [th \in Rest |-> NoTask] \in [Rest -> Page]
    BY NoTaskTyped
  <1>4. [th \in Threads |-> "off"] \in [Threads -> Labels]
    BY DEF Labels
  <1>5. NoPlan \in Plans /\ NoMetadata \in Summary
    BY DEF NoPlan, Plans, NoMetadata, Summary
  <1>6. QED
    BY <1>1, <1>2, <1>3, <1>4, <1>5

LEMMA DieStep ==
    ASSUME SyncInv, Die
    PROVE  SyncInv'
  <1>1. /\ Forget /\ FaultInv'
    BY CrashFault DEF Die, SyncInv, Crash, CrashBetweenWrites
  <1>2. Restarted /\ UNCHANGED <<now, faults, finals>>
    BY DEF Die
  <1>3. MutexInv'
    <2>1. \A th \in Threads : pc'[th] = "off"
      BY <1>2 DEF Restarted
    <2>2. QED
      BY <1>2, <2>1 DEF Restarted, MutexInv, Publishing
  <1>4. ShowInv' /\ CurrentInv'
    BY <1>2 DEF Restarted, ShowInv, Behind, CurrentInv
  <1>5. PhaseInv'
    BY <1>2 DEF Restarted, PhaseInv, Threads, Rest
  <1>6. SyncTypes'
    <2>1. {running, backfilling, paging, repairing, fresh, seeded, skipped}' \subseteq BOOLEAN
      BY <1>2 DEF Restarted
    <2>2. \A th \in Rest : task'[th] \in Page
      BY <1>2, IdleTypes DEF Restarted
    <2>3. \A th \in Rest : task'[th].todo \in Seq(Candle) /\ task'[th].batch \in Seq(Candle)
      BY <2>2 DEF Page
    <2>4. /\ pc' \in [Threads -> Labels] /\ task' \in [Rest -> Page]
          /\ snapshot' \in [Threads -> Seq(Candle)] /\ plan' \in Plans
          /\ feed' \in Seq(Candle) /\ cache' \in Seq(Candle)
      BY <1>2, IdleTypes DEF Restarted
    <2>5. metadata' \in Summary
      BY <1>1, IdleTypes DEF Forget
    <2>6. /\ connected' \in BOOLEAN /\ mutex' \subseteq Threads
      BY <1>2 DEF Restarted
    <2>7. QED
      BY <1>2, <2>1, <2>3, <2>4, <2>5, <2>6 DEF SyncInv, SyncTypes, SyncTypeOK, Plans
  <1>7. QED
    BY <1>1, <1>3, <1>4, <1>5, <1>6 DEF SyncInv

LEMMA SyncStarts ==
    ASSUME SyncInit
    PROVE  SyncInv
  <1>1. Init /\ Idle /\ now = FirstNow /\ faults = 0 /\ finals = {}
    BY DEF SyncInit
  <1>2. FaultInv
    BY <1>1, FaultStarts
  <1>3. MutexInv
    <2>1. \A th \in Threads : pc[th] = "off"
      BY <1>1 DEF Idle
    <2>2. QED
      BY <1>1, <2>1 DEF Idle, MutexInv, Publishing
  <1>4. ShowInv /\ CurrentInv
    BY <1>1 DEF Idle, ShowInv, Behind, CurrentInv
  <1>5. PhaseInv
    BY <1>1 DEF Idle, PhaseInv, Threads, Rest
  <1>6. SyncTypes
    <2>1. {running, backfilling, paging, repairing, fresh, seeded, skipped} \subseteq BOOLEAN
      BY <1>1 DEF Idle
    <2>2. \A th \in Rest : task[th] \in Page
      BY <1>1, IdleTypes DEF Idle
    <2>3. \A th \in Rest : task[th].todo \in Seq(Candle) /\ task[th].batch \in Seq(Candle)
      BY <2>2 DEF Page
    <2>4. /\ pc \in [Threads -> Labels] /\ task \in [Rest -> Page]
          /\ snapshot \in [Threads -> Seq(Candle)] /\ plan \in Plans
          /\ feed \in Seq(Candle) /\ cache \in Seq(Candle) /\ metadata \in Summary
      BY <1>1, IdleTypes DEF Idle, Init
    <2>5. /\ connected \in BOOLEAN /\ mutex \subseteq Threads /\ finals \subseteq Nat
      BY <1>1 DEF Idle
    <2>6. now \in Nat /\ faults \in 0..MaxFaults
      BY <1>1, SyncAssumption
    <2>7. QED
      BY <2>1, <2>3, <2>4, <2>5, <2>6 DEF SyncTypes, SyncTypeOK, Plans
  <1>7. QED
    BY <1>2, <1>3, <1>4, <1>5, <1>6 DEF SyncInv

(***************************************************************************)
(* Theorems                                                                *)
(***************************************************************************)
LEMMA SyncStep ==
    ASSUME SyncInv, [SyncNext]_syncVars
    PROVE  SyncInv'
  <1>1. CASE Tick \/ Push \/ Connect \/ Disconnect \/ Stop \/ IgnoreLive
    BY <1>1, OutsideStep
  <1>2. CASE Boot
    BY <1>2, BootStep
  <1>3. CASE Die
    BY <1>3, DieStep
  <1>4. CASE WorkerStep
    BY <1>4, WorkerStays, LivePhase DEF WorkerStep
  <1>5. ASSUME NEW th \in Rest, RestStep(th)
        PROVE  SyncInv'
    BY <1>5, RestAppends, RepairStep DEF RestStep
  <1>6. ASSUME NEW th \in Threads, PublishStep(th)
        PROVE  SyncInv'
    BY <1>6, SnapshotStep, UpdateStep DEF PublishStep
  <1>7. CASE HandleLive
    BY <1>7, LiveAppends
  <1>8. CASE RequestBackfillOlder \/ FetchOlder
    BY <1>8, RequestOlder, FetchOlderStep
  <1>9. CASE UNCHANGED syncVars
    BY <1>9 DEF syncVars, repoVars, exchangeVars, flagVars, publishVars, liveVars, SyncInv,
                FaultInv, Rises, Covers, ClosedAt, SyncTypes, SyncTypeOK, MutexInv, PhaseInv,
                ShowInv, Behind, CurrentInv, Newest
  <1>10. QED
    BY <1>1, <1>2, <1>3, <1>4, <1>5, <1>6, <1>7, <1>8, <1>9 DEF SyncNext

(* The invariant of the orchestrator, whichever threads interleave and     *)
(* whichever writes fail.                                                  *)
THEOREM SyncInductive == SyncSpec => []SyncInv
  BY SyncStarts, SyncStep, PTL DEF SyncSpec

(* Every variable of the orchestrator stays in its type.                   *)
THEOREM SyncTypeCorrect == SyncSpec => []SyncTypeOK
  <1>1. SyncInv => SyncTypeOK
    BY DEF SyncInv, SyncTypes
  <1>2. QED
    BY <1>1, SyncInductive, PTL

(* Once every append has been published, the chart has exactly the newest  *)
(* candles of the repository.                                              *)
THEOREM CacheStaysCurrent == SyncSpec => []CacheIsCurrent
  <1>1. ASSUME SyncInv
        PROVE  CacheIsCurrent
    <2>1. SUFFICES ASSUME \A th \in Threads : Settled(th), seeded, ~skipped
                   PROVE  cache = GetLatest(candles, Published)
      BY DEF CacheIsCurrent
    <2>2. \A th \in Threads : pc[th] \notin Dirty /\ pc[th] \notin Publishing
      BY <2>1 DEF Settled, Dirty, Publishing
    <2>3. mutex = {}
      BY <1>1, <2>2 DEF SyncInv, MutexInv
    <2>4. skipped = FALSE
      BY <1>1, <2>1 DEF SyncInv, SyncTypes, SyncTypeOK
    <2>5. QED
      BY <1>1, <2>1, <2>2, <2>3, <2>4 DEF SyncInv, CurrentInv, Newest
  <1>2. QED
    BY <1>1, SyncInductive, PTL

(* No publication is ever replaced by an older one of another thread.      *)
THEOREM ChartGoesForward == SyncSpec => ChartNeverGoesBack
  <1> DEFINE Forward == cache # <<>> /\ opened' => NotBack(cache, cache')
  <1>1. ASSUME SyncInv, [SyncNext]_syncVars
        PROVE  Forward
    <2>1. cache \in Seq(Candle)
      BY <1>1, PlanFields
    <2>2. \/ cache' = cache \/ (\E th \in Threads : UpdateCache(th)) \/ Die
      BY <1>1 DEF SyncNext, Tick, Push, Connect, Disconnect, Boot, Stop, WorkerStep, LeaveLoop,
                  GiveUp, AcceptPage, Widen, BeginBackfill, FetchPage, NextPage, EndRun,
                  StartLiveStream, StopLiveStream, RestStep, AppendPage, Repair, Fill, Retry,
                  PublishStep, TakeSnapshot, IgnoreLive, HandleLive, RequestBackfillOlder,
                  FetchOlder, syncVars, publishVars
    <2>3. CASE cache' = cache
      BY <2>1, <2>3, BehindItself DEF Behind
    <2>4. ASSUME NEW th \in Threads, UpdateCache(th)
          PROVE  Forward
      <3>1. th \in mutex /\ cache' = snapshot[th]
        BY <1>1, <2>4 DEF UpdateCache, SyncInv, MutexInv, Publishing
      <3>2. QED
        BY <1>1, <3>1 DEF SyncInv, ShowInv, Behind
    <2>5. CASE Die
      BY <2>5 DEF Die, Crash, CrashBetweenWrites, Forget
    <2>6. QED
      BY <2>2, <2>3, <2>4, <2>5
  <1>2. QED
    BY <1>1, SyncInductive, PTL DEF SyncSpec, ChartNeverGoesBack

(* The orchestrator's threads leave the repository in order and the disk   *)
(* within memory, as every single caller does.                             *)
THEOREM SyncKeepsOrder == SyncSpec => [](StrictlyIncreasing /\ DiskWithinMemory)
  <1>1. SyncInv => StrictlyIncreasing /\ DiskWithinMemory
    BY DEF SyncInv, FaultInv, Rises, Covers, ClosedAt, StrictlyIncreasing, DiskWithinMemory
  <1>2. QED
    BY <1>1, SyncInductive, PTL
=============================================================================
