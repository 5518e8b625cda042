----------------------------- MODULE Repository -----------------------------
(***************************************************************************)
(* The candle store of one symbol and interval: the in-memory series of    *)
(* PriceDataTimeSeriesRepository and the binary file that its              *)
(* PriceDataManager keeps.  Every public method runs under mutex_, so each *)
(* is one action; the process may die between two file writes of a method. *)
(***************************************************************************)
EXTENDS Integers, Sequences, FiniteSets

CONSTANTS
    Interval,     \* intervalMs_, in ticks
    Minute,       \* kMillisPerMinute in ticks: the file's resolution
    Times,        \* open times (ticks) callers submit, aligned or not
    Vals,         \* what a candle carries besides its time: OHLCV and trades
    DiskMayFail   \* whether opening the file to look for or update it may fail

(* A whole number of minutes: 1m, 5m, 1h, 1d.                              *)
ASSUME IntervalAssumption ==
    /\ Minute \in Nat \ {0}
    /\ Interval \in Nat \ {0}
    /\ \E k \in 1..Interval : Interval = k * Minute

ASSUME InputAssumption == Times \subseteq Nat /\ DiskMayFail \in BOOLEAN

VARIABLES
    candles,    \* candles_
    metadata,   \* metadata_: a cached summary of the closed candles
    hasGap,     \* hasGap_
    file,       \* the records on disk, in file order
    opened,     \* a repository object exists
    answer      \* what the last append returned

vars == <<candles, metadata, hasGap, file, opened, answer>>

Candle == [open : Nat, closed : BOOLEAN, val : Vals]
Record == [open : Nat, val : Vals]
(* Mutant: -1 instead of 0 as the "no candles" mark.                       *)
NoMetadataSentinel == [minOpen |-> -1, maxOpen |-> -1, count |-> 0]
NoMetadata == [minOpen |-> 0, maxOpen |-> 0, count |-> 0]
Answer == [state : {"Ok", "Replaced", "Overlap", "Gap"}, from : Nat, to : Nat]
Answered(s) == [state |-> s, from |-> 0, to |-> 0]

LastOf(s) == s[Len(s)]
(* Mutant: front() for back().                                             *)
ReplaceFirst(s, x) == [s EXCEPT ![1] = x]
ReplaceLast(s, x) == [s EXCEPT ![Len(s)] = x]

(***************************************************************************)
(* Time and record conversions                                             *)
(***************************************************************************)
AlignDown(t, step) == (t \div step) * step

NormalizeCandle(c) == [c EXCEPT !.open = AlignDown(c.open, Interval)]
ToPriceData(c) == [open |-> AlignDown(c.open, Interval), val |-> c.val]
ToCandle(r) ==
    [open |-> AlignDown(r.open, Interval), closed |-> TRUE, val |-> r.val]
NormalizeRecord(r) == [r EXCEPT !.open = AlignDown(r.open, Minute)]
IsValidRecord(r) == r.open > 0

(***************************************************************************)
(* The file.  saveRecords reads the last record and overwrites it, appends *)
(* after it, or drops what is older; the caller never learns of a failure. *)
(***************************************************************************)
(* Mutants: append always; never rewrite the last record.                  *)
SaveRecordAppends(f, raw) ==
    LET r == NormalizeRecord(raw) IN IF IsValidRecord(r) THEN Append(f, r) ELSE f
SaveRecordOnce(f, raw) ==
    LET r == NormalizeRecord(raw)
    IN  IF IsValidRecord(r) /\ (f # <<>> => r.open > LastOf(f).open) THEN Append(f, r)
        ELSE f

SaveRecord(f, raw) ==
    LET r == NormalizeRecord(raw)
        hasLast == f # <<>> /\ IsValidRecord(LastOf(f))
    IN  IF ~IsValidRecord(r) THEN f
        ELSE IF hasLast /\ r.open = LastOf(f).open THEN ReplaceLast(f, r)
        ELSE IF hasLast => r.open > LastOf(f).open THEN Append(f, r)
        ELSE f

(* What the opens before a write come to.  When the file cannot be opened  *)
(* in|out it is opened out, which empties it or fails as well, and then    *)
(* in|out again, without which nothing is written.  The last record is     *)
(* read from a file just opened; that this third open fails is left out.   *)
Outcome == [emptied : BOOLEAN, written : BOOLEAN]
Sound == [emptied |-> FALSE, written |-> TRUE]
WriteOutcome == IF DiskMayFail THEN Outcome ELSE {Sound}

Opened(f, o) == IF o.emptied THEN <<>> ELSE f
Saved(f, raw, o) == IF o.written THEN SaveRecord(Opened(f, o), raw) ELSE Opened(f, o)

(* Mutant: candles still open are written too.                             *)
PersistAny(f, c, o) == Saved(f, ToPriceData(c), o)

PersistClosed(f, c, o) == IF c.closed THEN Saved(f, ToPriceData(c), o) ELSE f

(* readAllRecords, the invalid ones skipped, then sorted by open time.     *)
EarlierOpen(a, b) == a.open < b.open
InOrder(f) == /\ \A i \in 1..Len(f) : IsValidRecord(f[i])
              /\ \A i \in 1..(Len(f) - 1) : f[i].open < f[i + 1].open
Sorting(f) == CHOOSE p \in [1..Len(f) -> 1..Len(f)] :
    /\ \A i, j \in 1..Len(f) : i # j => p[i] # p[j]
    /\ \A i \in 1..(Len(f) - 1) : ~EarlierOpen(f[p[i + 1]], f[p[i]])
LoadHistorical(f) ==
    LET valid == IF InOrder(f) THEN f ELSE SelectSeq(f, IsValidRecord)
        order == IF InOrder(f) THEN [i \in 1..Len(f) |-> i] ELSE Sorting(valid)
    IN  [i \in 1..Len(valid) |-> ToCandle(valid[order[i]])]

(***************************************************************************)
(* The metadata cache                                                      *)
(***************************************************************************)
ClosedIndices(cs) == {i \in 1..Len(cs) : cs[i].closed}

RefreshMetadata(cs) ==
    LET closed == ClosedIndices(cs)
        first == CHOOSE i \in closed : \A j \in closed : i <= j
        final == CHOOSE i \in closed : \A j \in closed : i >= j
    IN  IF closed = {} THEN NoMetadata
        ELSE [minOpen |-> cs[first].open, maxOpen |-> cs[final].open,
              count |-> Cardinality(closed)]

(***************************************************************************)
(* appendOrReplace, one disjunct per way through it; n is normalised       *)
(***************************************************************************)
Expected == LastOf(candles).open + Interval

IgnoreInvalid(n) ==
    /\ ~IsValidRecord(ToPriceData(n))
    /\ answer' = Answered("Ok")
    /\ UNCHANGED <<candles, metadata, hasGap, file>>

AppendFirst(n) ==
    /\ IsValidRecord(ToPriceData(n)) /\ candles = <<>>
    /\ candles' = <<n>>
    /\ \E o \in WriteOutcome : file' = PersistClosed(file, n, o)
    /\ metadata' = IF n.closed THEN RefreshMetadata(candles') ELSE metadata
    /\ hasGap' = FALSE
    /\ answer' = Answered("Ok")

KeepClosedTail(n) ==
    /\ IsValidRecord(ToPriceData(n)) /\ candles # <<>>
    /\ n.open = LastOf(candles).open
    /\ LastOf(candles).closed /\ ~n.closed
    /\ answer' = Answered("Overlap")
    /\ UNCHANGED <<candles, metadata, hasGap, file>>

(* Mutant: the metadata cache is refreshed on appends only.                *)
ReplaceTailStale(n) ==
    /\ IsValidRecord(ToPriceData(n)) /\ candles # <<>>
    /\ n.open = LastOf(candles).open
    /\ LastOf(candles).closed => n.closed
    /\ candles' = ReplaceLast(candles, n)
    /\ \E o \in WriteOutcome : file' = PersistClosed(file, n, o)
    /\ hasGap' = FALSE
    /\ answer' = Answered("Replaced")
    /\ UNCHANGED metadata

ReplaceTail(n) ==
    /\ IsValidRecord(ToPriceData(n)) /\ candles # <<>>
    /\ n.open = LastOf(candles).open
    /\ LastOf(candles).closed => n.closed
    /\ candles' = ReplaceLast(candles, n)
    /\ \E o \in WriteOutcome : file' = PersistClosed(file, n, o)
    /\ metadata' = IF n.closed THEN RefreshMetadata(candles') ELSE metadata
    /\ hasGap' = FALSE
    /\ answer' = Answered("Replaced")

IgnoreOlder(n) ==
    /\ IsValidRecord(ToPriceData(n)) /\ candles # <<>>
    /\ n.open # LastOf(candles).open /\ n.open < Expected
    /\ answer' = Answered("Overlap")
    /\ UNCHANGED <<candles, metadata, hasGap, file>>

(* Mutants: the gap is reported but the candle appended all the same; the  *)
(* gap is said to start at the last candle.                                *)
ReportGapAppends(n) ==
    /\ IsValidRecord(ToPriceData(n)) /\ candles # <<>>
    /\ n.open > Expected
    /\ hasGap' = TRUE
    /\ answer' = [state |-> "Gap", from |-> Expected, to |-> n.open]
    /\ candles' = Append(candles, n)
    /\ UNCHANGED <<metadata, file>>
ReportGapFromTail(n) ==
    /\ IsValidRecord(ToPriceData(n)) /\ candles # <<>>
    /\ n.open > Expected
    /\ hasGap' = TRUE
    /\ answer' = [state |-> "Gap", from |-> LastOf(candles).open, to |-> n.open]
    /\ UNCHANGED <<candles, metadata, file>>

ReportGap(n) ==
    /\ IsValidRecord(ToPriceData(n)) /\ candles # <<>>
    /\ n.open > Expected
    /\ hasGap' = TRUE
    /\ answer' = [state |-> "Gap", from |-> Expected, to |-> n.open]
    /\ UNCHANGED <<candles, metadata, file>>

(* Mutants: the tail is not sealed; the gap flag is not cleared.           *)
AppendNextUnsealed(n) ==
    /\ IsValidRecord(ToPriceData(n)) /\ candles # <<>>
    /\ n.open = Expected
    /\ candles' = Append(candles, n)
    /\ file' = PersistClosed(file, n, Sound)
    /\ metadata' = RefreshMetadata(candles')
    /\ hasGap' = FALSE
    /\ answer' = Answered("Ok")
AppendNextKeepsGap(n) ==
    /\ IsValidRecord(ToPriceData(n)) /\ candles # <<>>
    /\ n.open = Expected /\ LastOf(candles).closed
    /\ candles' = Append(candles, n)
    /\ file' = PersistClosed(file, n, Sound)
    /\ metadata' = RefreshMetadata(candles')
    /\ UNCHANGED hasGap
    /\ answer' = Answered("Ok")

(* An open tail is sealed and written first, then the new candle.          *)
AppendNext(n) ==
    LET tail == LastOf(candles)
        sealed == [tail EXCEPT !.closed = TRUE]
    IN  /\ IsValidRecord(ToPriceData(n)) /\ candles # <<>>
        /\ n.open = Expected
        /\ candles' = Append(ReplaceLast(candles, sealed), n)
        /\ \E o1, o2 \in WriteOutcome :
              file' = PersistClosed(
                        IF tail.closed THEN file ELSE PersistClosed(file, sealed, o1),
                        n, o2)
        /\ metadata' = IF ~tail.closed \/ n.closed THEN RefreshMetadata(candles')
                       ELSE metadata
        /\ hasGap' = FALSE
        /\ answer' = Answered("Ok")

AppendOrReplace(c) ==
    LET n == NormalizeCandle(c)
    IN  /\ opened
        /\ \/ IgnoreInvalid(n) \/ AppendFirst(n)
           \/ KeepClosedTail(n) \/ ReplaceTail(n)
           \/ IgnoreOlder(n) \/ ReportGap(n) \/ AppendNext(n)
        /\ UNCHANGED opened

SealOpenTailIfAny ==
    LET sealed == [LastOf(candles) EXCEPT !.closed = TRUE]
    IN  /\ opened
        /\ candles # <<>> /\ ~LastOf(candles).closed
        /\ candles' = ReplaceLast(candles, sealed)
        /\ \E o \in WriteOutcome : file' = PersistClosed(file, sealed, o)
        /\ metadata' = RefreshMetadata(candles')
        /\ answer' = Answered("Replaced")
        /\ UNCHANGED <<hasGap, opened>>

(***************************************************************************)
(* Construction, and the death of the process                              *)
(***************************************************************************)
(* A file that the constructor cannot open to look whether it exists is    *)
(* created, which empties it.  Reading it afterwards succeeds: a load that *)
(* fails, leaving memory without what the file has, is left out.           *)
Open ==
    /\ ~opened
    /\ opened' = TRUE
    /\ \E o \in WriteOutcome : file' = Opened(file, o)
    /\ candles' = LoadHistorical(file')
    /\ metadata' = RefreshMetadata(candles')
    /\ hasGap' = FALSE
    /\ answer' = Answered("Ok")

Forget ==
    /\ opened' = FALSE
    /\ candles' = <<>>
    /\ metadata' = NoMetadata
    /\ hasGap' = FALSE
    /\ answer' = Answered("Ok")

Crash == opened /\ Forget /\ UNCHANGED file

(* The process dies inside AppendNext, after the sealed tail was written   *)
(* and before the new candle was.                                          *)
CrashBetweenWrites(c) ==
    LET n == NormalizeCandle(c)
        sealed == [LastOf(candles) EXCEPT !.closed = TRUE]
    IN  /\ opened
        /\ IsValidRecord(ToPriceData(n)) /\ candles # <<>>
        /\ n.open = Expected /\ ~LastOf(candles).closed
        /\ \E o \in WriteOutcome : file' = PersistClosed(file, sealed, o)
        /\ Forget

Init ==
    /\ candles = <<>>
    /\ metadata = NoMetadata
    /\ hasGap = FALSE
    /\ file = <<>>
    /\ opened = FALSE
    /\ answer = Answered("Ok")

Submitted == [open : Times, closed : BOOLEAN, val : Vals]

Next ==
    \/ Open
    \/ \E c \in Submitted : AppendOrReplace(c)
    \/ SealOpenTailIfAny
    \/ \E c \in Submitted : CrashBetweenWrites(c)
    \/ Crash

Spec == Init /\ [][Next]_vars
-----------------------------------------------------------------------------
(***************************************************************************)
(* Properties                                                              *)
(***************************************************************************)

(* Every variable stays in its type; a closed object holds nothing.        *)
TypeOK ==
    /\ candles \in Seq(Candle)
    /\ metadata \in [minOpen : Nat, maxOpen : Nat, count : Nat]
    /\ hasGap \in BOOLEAN
    /\ file \in Seq(Record)
    /\ opened \in BOOLEAN
    /\ answer \in Answer

(* The series a reader gets has no hole and no duplicate, whatever mixture *)
(* of late, early, repeated and unaligned candles was submitted and        *)
(* wherever the process died: appendOrReplaceLocked refuses what does not  *)
(* follow, and the file never holds a candle without its predecessor.      *)
SeriesContiguous ==
    \A i \in 1..(Len(candles) - 1) : candles[i + 1].open = candles[i].open + Interval

(* Only the newest candle may still be forming: EMA, metadata and the file *)
(* all assume the rest is final.                                           *)
OnlyTailOpen == \A i \in 1..(Len(candles) - 1) : candles[i].closed

(* The point a backfill resumes from (metadata: oldest, newest and number  *)
(* of closed candles) is exactly what survives a crash, at every return of *)
(* a method, although the cache is refreshed on some paths only.           *)
ResumePointIsDurable ==
    opened => /\ metadata.count = Len(file)
              /\ file # <<>> => /\ metadata.minOpen = file[1].open
                                /\ metadata.maxOpen = LastOf(file).open

(* A gap answer names the whole hole and nothing else: its first missing   *)
(* candle is the one that would now be accepted, the store is as the       *)
(* caller last saw it, and at least one candle is missing.                 *)
GapAnswerIsExact ==
    answer.state = "Gap" => /\ hasGap /\ candles # <<>>
                            /\ answer.from = Expected
                            /\ answer.from + Interval <= answer.to

(* With opens that fail, records missing from the file and the file        *)
(* emptied by its own reopening, holes reach the disk, but reading order   *)
(* survives: open times still increase strictly in memory and on disk, so  *)
(* no candle is ever shown twice or out of order.                          *)
StrictlyIncreasing ==
    /\ \A i \in 1..(Len(candles) - 1) : candles[i].open < candles[i + 1].open
    /\ \A i \in 1..(Len(file) - 1) : file[i].open < file[i + 1].open

(* Even with opens that fail or empty the file, a record on disk is never  *)
(* ahead of, or different in time from, the closed candles of the running  *)
(* process: the file can fall behind the memory and never the reverse.     *)
DiskWithinMemory ==
    opened => \A i \in 1..Len(file) :
        \E j \in 1..Len(candles) : /\ candles[j].open = file[i].open
                                   /\ candles[j].closed

(* While a process runs, a candle that a newer one has followed is final:  *)
(* it is neither changed nor dropped by any later call.                    *)
FollowedCandlesAreFinal ==
    [][opened /\ opened' =>
          /\ Len(candles') >= Len(candles)
          /\ \A i \in 1..(Len(candles) - 1) : candles'[i] = candles[i]]_vars

(* The repository implements the gap-free candle log: the file is the log  *)
(* and an open tail is the candle being formed, so that a crash loses that *)
(* candle only.                                                            *)
Log == INSTANCE CandleLog WITH
    Opens <- {AlignDown(t, Interval) : t \in Times},
    log <- file,
    forming <- IF candles # <<>> /\ ~LastOf(candles).closed
               THEN <<[open |-> LastOf(candles).open, val |-> LastOf(candles).val]>>
               ELSE <<>>
ImplementsCandleLog == Log!LogSpec
=============================================================================
