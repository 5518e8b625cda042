-------------------------- MODULE RepositoryProofs --------------------------
(***************************************************************************)
(* Proofs about Repository for every interval, set of open times and set   *)
(* of values.                                                              *)
(***************************************************************************)
EXTENDS Repository, SequenceTheorems, FiniteSetTheorems, TLAPS

(* An open time as the store keeps it: positive and moved by neither of    *)
(* the two roundings, to the interval and to the file's minute.            *)
OnGrid(t) ==
    /\ t \in Nat /\ t > 0
    /\ AlignDown(t, Interval) = t
    /\ AlignDown(t, Minute) = t

(***************************************************************************)
(* Arithmetic of the roundings                                             *)
(***************************************************************************)
(* Rounding down yields a multiple not above its argument.                 *)
LEMMA AlignDownIsMultiple ==
    ASSUME NEW t \in Nat, NEW s \in Nat \ {0}
    PROVE  /\ t \div s \in Nat
           /\ AlignDown(t, s) = (t \div s) * s
           /\ AlignDown(t, s) \in Nat
  <1>1. t \div s \in Nat
    BY SMT
  <1>2. QED
    BY <1>1, SMT DEF AlignDown

(* A multiple is not moved by rounding.                                    *)
LEMMA AlignDownOfMultiple ==
    ASSUME NEW k \in Nat, NEW s \in Nat \ {0}
    PROVE  AlignDown(k * s, s) = k * s
  <1>1. (k * s) \div s = k
    BY SMT
  <1>2. QED
    BY <1>1 DEF AlignDown

(* Rounding to the interval gives a time the file's rounding keeps, since  *)
(* the interval is a whole number of minutes.                              *)
LEMMA AlignDownOnGrid ==
    ASSUME NEW t \in Nat, AlignDown(t, Interval) > 0
    PROVE  OnGrid(AlignDown(t, Interval))
  <1>1. PICK m \in 1..Interval : Interval = m * Minute
    BY IntervalAssumption
  <1> DEFINE k == t \div Interval
  <1>2. k \in Nat /\ AlignDown(t, Interval) = k * Interval /\ k * Interval \in Nat
    BY AlignDownIsMultiple, IntervalAssumption
  <1>3. AlignDown(k * Interval, Interval) = k * Interval
    BY <1>2, AlignDownOfMultiple, IntervalAssumption
  <1>4. k * m \in Nat /\ k * Interval = (k * m) * Minute
    BY <1>1, <1>2, IntervalAssumption, SMT
  <1>5. AlignDown((k * m) * Minute, Minute) = (k * m) * Minute
    BY <1>4, AlignDownOfMultiple, IntervalAssumption
  <1>6. QED
    BY <1>2, <1>3, <1>4, <1>5 DEF OnGrid

(* Two grid times in order are at least an interval apart.                 *)
LEMMA GridSpacing ==
    ASSUME NEW s \in Nat, OnGrid(s), NEW t, OnGrid(t), t > s + Interval
    PROVE  t >= s + Interval + Interval
  <1> DEFINE j == s \div Interval
             k == t \div Interval
  <1>1. /\ j \in Nat /\ k \in Nat /\ s = j * Interval /\ t = k * Interval
        /\ Interval \in Nat \ {0}
    BY AlignDownIsMultiple, IntervalAssumption DEF OnGrid
  <1> HIDE DEF j, k
  <1>2. k > j + 1
    BY <1>1, SMT
  <1>3. k * Interval >= (j + 2) * Interval
    BY <1>1, <1>2, SMT
  <1>4. QED
    BY <1>1, <1>3, SMT

(***************************************************************************)
(* Sequences                                                               *)
(***************************************************************************)
LEMMA LastInSeq ==
    ASSUME NEW S, NEW s \in Seq(S), s # <<>>
    PROVE  Len(s) \in Nat \ {0} /\ LastOf(s) \in S /\ LastOf(s) = s[Len(s)]
  BY EmptySeq, ElementOfSeq DEF LastOf

LEMMA ReplaceLastProperties ==
    ASSUME NEW S, NEW s \in Seq(S), s # <<>>, NEW x \in S
    PROVE  /\ ReplaceLast(s, x) \in Seq(S)
           /\ Len(ReplaceLast(s, x)) = Len(s)
           /\ \A i \in 1..Len(s) : ReplaceLast(s, x)[i] = IF i = Len(s) THEN x ELSE s[i]
           /\ ReplaceLast(s, x) # <<>>
  <1>1. Len(s) \in 1..Len(s)
    BY LastInSeq
  <1>2. QED
    BY <1>1, ExceptSeq, EmptySeq, LastInSeq DEF ReplaceLast

LEMMA LastReplaced ==
    ASSUME NEW S, NEW s \in Seq(S), s # <<>>, NEW x \in S
    PROVE  LastOf(ReplaceLast(s, x)) = x
  <1>1. Len(s) \in 1..Len(s) /\ Len(ReplaceLast(s, x)) = Len(s)
    BY LastInSeq, ReplaceLastProperties
  <1>2. ReplaceLast(s, x)[Len(s)] = x
    <2>1. \A i \in 1..Len(s) : ReplaceLast(s, x)[i] = IF i = Len(s) THEN x ELSE s[i]
      BY ReplaceLastProperties
    <2>2. QED
      BY <1>1, <2>1, Zenon
  <1>3. QED
    BY <1>1, <1>2 DEF LastOf

(***************************************************************************)
(* The inductive invariant: memory and file mirror each other              *)
(***************************************************************************)
RecordOf(c) == [open |-> c.open, val |-> c.val]
SameCandle(c, r) == c.closed /\ c.open = r.open /\ c.val = r.val

(* The records of a file are on the grid and follow one another.           *)
FileChain(f) ==
    /\ \A i \in 1..Len(f) : OnGrid(f[i].open)
    /\ \A i \in 1..(Len(f) - 1) : f[i + 1].open = f[i].open + Interval

(* The series cs is the file f as closed candles, and at most one open     *)
(* candle that follows them.                                               *)
Mirrors(cs, f) ==
    /\ Len(cs) = Len(f) \/ Len(cs) = Len(f) + 1
    /\ \A i \in 1..Len(f) : SameCandle(cs[i], f[i])
    /\ Len(cs) = Len(f) + 1 => ~cs[Len(cs)].closed
    /\ \A i \in 1..Len(cs) : OnGrid(cs[i].open)
    /\ \A i \in 1..(Len(cs) - 1) : cs[i + 1].open = cs[i].open + Interval

(* What RefreshMetadata must find in a series that mirrors f.              *)
SummaryOf(f) ==
    IF Len(f) = 0 THEN NoMetadata
    ELSE [minOpen |-> f[1].open, maxOpen |-> f[Len(f)].open, count |-> Len(f)]

IInv ==
    /\ TypeOK
    /\ FileChain(file)
    /\ opened => Mirrors(candles, file) /\ metadata = SummaryOf(file)
    /\ ~opened => candles = <<>> /\ answer.state = "Ok"
    /\ GapAnswerIsExact

(* The closed candles of a mirroring series are its first Len(f), so the   *)
(* refreshed metadata summarises the file.                                 *)
LEMMA RefreshOfMirror ==
    ASSUME NEW cs \in Seq(Candle), NEW f \in Seq(Record), Mirrors(cs, f)
    PROVE  RefreshMetadata(cs) = SummaryOf(f)
  <1> DEFINE n == Len(f)
             closed == ClosedIndices(cs)
             first == CHOOSE i \in closed : \A j \in closed : i <= j
             final == CHOOSE i \in closed : \A j \in closed : i >= j
  <1>1. n \in Nat /\ Len(cs) \in Nat /\ Len(cs) \in {n, n + 1}
    BY EmptySeq, LenProperties DEF Mirrors
  <1>2. closed = 1..n
    <2>1. \A i \in 1..n : cs[i].closed
      BY DEF Mirrors, SameCandle
    <2>2. \A i \in 1..Len(cs) : i \notin 1..n => ~cs[i].closed
      BY <1>1 DEF Mirrors
    <2>3. QED
      BY <1>1, <2>1, <2>2 DEF ClosedIndices
  <1>3. CASE n = 0
    BY <1>1, <1>2, <1>3 DEF RefreshMetadata, SummaryOf
  <1>4. CASE n > 0
    <2>1. first = 1
      <3>1. 1 \in closed /\ \A j \in closed : 1 <= j
        BY <1>1, <1>2, <1>4
      <3>2. \A i \in closed : (\A j \in closed : i <= j) => i = 1
        BY <1>1, <1>2, <3>1
      <3>3. QED
        BY <3>1, <3>2
    <2>2. final = n
      <3>1. n \in closed /\ \A j \in closed : n >= j
        BY <1>1, <1>2, <1>4
      <3>2. \A i \in closed : (\A j \in closed : i >= j) => i = n
        BY <1>1, <1>2, <3>1
      <3>3. QED
        BY <3>1, <3>2
    <2>3. Cardinality(closed) = n
      BY <1>1, <1>2, <1>4, FS_Interval
    <2>4. closed # {}
      BY <1>1, <1>2, <1>4
    <2>5. cs[1].open = f[1].open /\ cs[n].open = f[n].open
      BY <1>1, <1>4 DEF Mirrors, SameCandle
    <2>6. RefreshMetadata(cs) =
            [minOpen |-> cs[first].open, maxOpen |-> cs[final].open,
             count |-> Cardinality(closed)]
      BY <2>4 DEF RefreshMetadata
    <2> HIDE DEF closed, first, final
    <2>7. QED
      BY <1>1, <1>4, <2>1, <2>2, <2>3, <2>5, <2>6 DEF SummaryOf
  <1>5. QED
    BY <1>1, <1>3, <1>4

(***************************************************************************)
(* What a write does to a chained file                                     *)
(***************************************************************************)
LEMMA PersistNewer ==
    ASSUME NEW f \in Seq(Record), FileChain(f), NEW c \in Candle, c.closed,
           OnGrid(c.open), f # <<>> => c.open > LastOf(f).open
    PROVE  PersistClosed(f, c, Sound) = Append(f, RecordOf(c))
  <1>1. NormalizeRecord(ToPriceData(c)) = RecordOf(c)
    BY DEF NormalizeRecord, ToPriceData, RecordOf, OnGrid, Candle
  <1>2. IsValidRecord(RecordOf(c))
    BY DEF IsValidRecord, RecordOf, OnGrid
  <1>3. f # <<>> => LastOf(f).open \in Nat
    <2>1. f # <<>> => LastOf(f) \in Record
      BY LastInSeq
    <2>2. QED
      BY <2>1 DEF Record
  <1>4. QED
    BY <1>1, <1>2, <1>3 DEF PersistClosed, Saved, Opened, Sound, SaveRecord, OnGrid, RecordOf

LEMMA PersistSame ==
    ASSUME NEW f \in Seq(Record), FileChain(f), NEW c \in Candle, c.closed,
           OnGrid(c.open), f # <<>>, c.open = LastOf(f).open
    PROVE  PersistClosed(f, c, Sound) = ReplaceLast(f, RecordOf(c))
  <1>1. NormalizeRecord(ToPriceData(c)) = RecordOf(c)
    BY DEF NormalizeRecord, ToPriceData, RecordOf, OnGrid, Candle
  <1>2. IsValidRecord(RecordOf(c)) /\ RecordOf(c).open = LastOf(f).open
    BY DEF IsValidRecord, RecordOf, OnGrid
  <1>3. IsValidRecord(LastOf(f))
    BY <1>2 DEF IsValidRecord, RecordOf
  <1>4. QED
    BY <1>1, <1>2, <1>3 DEF PersistClosed, Saved, Opened, Sound, SaveRecord

(* A candle that is not closed is not written.                             *)
LEMMA PersistOpen ==
    ASSUME NEW f, NEW c, ~c.closed, NEW o
    PROVE  PersistClosed(f, c, o) = f
  BY DEF PersistClosed

(* Where opens do not fail, the constructor finds the file as it was.      *)
LEMMA OpensSoundFile ==
    ASSUME DiskMayFail = FALSE, Open
    PROVE  file' = file /\ candles' = LoadHistorical(file)
  <1>1. file' = Opened(file, Sound)
    BY DEF Open, WriteOutcome
  <1>2. file' = file
    BY <1>1 DEF Opened, Sound
  <1>3. QED
    BY <1>2 DEF Open

(* Whatever its open time, a candle is normalised to one whose open time   *)
(* is on the grid, unless its record is invalid.                           *)
LEMMA NormalisedCandle ==
    ASSUME NEW c \in Candle
    PROVE  /\ NormalizeCandle(c) \in Candle
           /\ IsValidRecord(ToPriceData(NormalizeCandle(c)))
                => OnGrid(NormalizeCandle(c).open)
  <1> DEFINE n == NormalizeCandle(c)
  <1>1. c.open \in Nat
    BY DEF Candle
  <1>2. n.open = AlignDown(c.open, Interval) /\ n.open \in Nat
    BY <1>1, AlignDownIsMultiple, IntervalAssumption DEF NormalizeCandle, Candle
  <1>3. n \in Candle
    BY <1>2 DEF NormalizeCandle, Candle
  <1>4. CASE n.open > 0
    BY <1>1, <1>2, <1>3, <1>4, AlignDownOnGrid
  <1>5. CASE n.open = 0
    <2>1. AlignDown(n.open, Interval) = 0
      BY <1>5, AlignDownOfMultiple, IntervalAssumption
    <2>2. QED
      BY <1>3, <2>1 DEF IsValidRecord, ToPriceData
  <1>6. QED
    BY <1>2, <1>3, <1>4, <1>5

LEMMA Normalised ==
    ASSUME NEW c \in Submitted
    PROVE  /\ NormalizeCandle(c) \in Candle
           /\ IsValidRecord(ToPriceData(NormalizeCandle(c)))
                => OnGrid(NormalizeCandle(c).open)
  <1>1. c \in Candle
    BY InputAssumption DEF Submitted, Candle
  <1>2. QED
    BY <1>1, NormalisedCandle

(***************************************************************************)
(* How a mirroring pair of series and file moves                           *)
(***************************************************************************)
(* Where the newest candle of the series stands relative to the file.      *)
LEMMA TailPosition ==
    ASSUME NEW cs \in Seq(Candle), NEW f \in Seq(Record), Mirrors(cs, f),
           FileChain(f), cs # <<>>
    PROVE  /\ LastOf(cs) \in Candle /\ OnGrid(LastOf(cs).open)
           /\ Len(cs) \in Nat \ {0} /\ Len(f) \in Nat
           /\ LastOf(cs).closed => /\ Len(cs) = Len(f) /\ f # <<>>
                                   /\ LastOf(cs).open = LastOf(f).open
           /\ ~LastOf(cs).closed => /\ Len(cs) = Len(f) + 1
                                    /\ f # <<>> => LastOf(cs).open
                                                   = LastOf(f).open + Interval
  <1>1. /\ Len(cs) \in Nat \ {0} /\ Len(f) \in Nat
        /\ LastOf(cs) = cs[Len(cs)] /\ LastOf(cs) \in Candle
        /\ f # <<>> => Len(f) > 0 /\ LastOf(f) = f[Len(f)]
        /\ f = <<>> => Len(f) = 0
    BY LastInSeq, EmptySeq, LenProperties
  <1>2. OnGrid(LastOf(cs).open)
    BY <1>1 DEF Mirrors
  <1>3. ASSUME LastOf(cs).closed
        PROVE  Len(cs) = Len(f) /\ f # <<>> /\ LastOf(cs).open = LastOf(f).open
    BY <1>1, <1>3 DEF Mirrors, SameCandle
  <1>4. ASSUME ~LastOf(cs).closed
        PROVE  /\ Len(cs) = Len(f) + 1
               /\ f # <<>> => LastOf(cs).open = LastOf(f).open + Interval
    <2>1. Len(cs) = Len(f) + 1
      BY <1>1, <1>4 DEF Mirrors, SameCandle
    <2>2. ASSUME f # <<>>
          PROVE  LastOf(cs).open = LastOf(f).open + Interval
      <3>1. /\ cs[Len(f) + 1].open = cs[Len(f)].open + Interval
            /\ SameCandle(cs[Len(f)], f[Len(f)])
        BY <1>1, <2>1, <2>2 DEF Mirrors
      <3>2. QED
        BY <1>1, <2>1, <2>2, <3>1 DEF SameCandle
    <2>3. QED
      BY <2>1, <2>2
  <1>5. QED
    BY <1>1, <1>2, <1>3, <1>4

LEMMA AppendToFile ==
    ASSUME NEW f \in Seq(Record), FileChain(f), NEW c \in Candle, OnGrid(c.open),
           f # <<>> => c.open = LastOf(f).open + Interval
    PROVE  /\ Append(f, RecordOf(c)) \in Seq(Record)
           /\ FileChain(Append(f, RecordOf(c)))
  <1> DEFINE g == Append(f, RecordOf(c))
  <1>1. RecordOf(c) \in Record /\ RecordOf(c).open = c.open
    BY DEF RecordOf, Record, Candle
  <1>2. /\ g \in Seq(Record) /\ Len(f) \in Nat /\ Len(g) = Len(f) + 1
        /\ \A i \in 1..Len(f) : g[i] = f[i]
        /\ g[Len(f) + 1] = RecordOf(c)
        /\ f # <<>> => LastOf(f) = f[Len(f)] /\ Len(f) > 0
        /\ f = <<>> => Len(f) = 0
    BY <1>1, AppendProperties, EmptySeq, LenProperties, LastInSeq
  <1> HIDE DEF g
  <1>3. \A i \in 1..Len(g) : OnGrid(g[i].open)
    BY <1>1, <1>2 DEF FileChain
  <1>4. ASSUME NEW i \in 1..(Len(g) - 1)
        PROVE  g[i + 1].open = g[i].open + Interval
    <2>1. CASE i < Len(f)
      BY <1>2, <2>1 DEF FileChain
    <2>2. CASE i = Len(f)
      <3>1. f # <<>>
        BY <1>2, <2>2
      <3>2. QED
        BY <1>1, <1>2, <2>2, <3>1
    <2>3. QED
      BY <1>2, <2>1, <2>2
  <1>5. QED
    BY <1>2, <1>3, <1>4 DEF FileChain, g

(* The newest record is corrected in place.                                *)
LEMMA CorrectFile ==
    ASSUME NEW f \in Seq(Record), FileChain(f), f # <<>>, NEW c \in Candle,
           OnGrid(c.open), c.open = LastOf(f).open
    PROVE  /\ ReplaceLast(f, RecordOf(c)) \in Seq(Record)
           /\ FileChain(ReplaceLast(f, RecordOf(c)))
  <1> DEFINE g == ReplaceLast(f, RecordOf(c))
  <1>1. RecordOf(c) \in Record /\ RecordOf(c).open = c.open
    BY DEF RecordOf, Record, Candle
  <1>2. /\ g \in Seq(Record) /\ Len(g) = Len(f) /\ Len(f) \in Nat \ {0}
        /\ \A i \in 1..Len(f) : g[i] = IF i = Len(f) THEN RecordOf(c) ELSE f[i]
        /\ LastOf(f) = f[Len(f)]
    BY <1>1, ReplaceLastProperties, LastInSeq
  <1> HIDE DEF g
  <1>3. \A i \in 1..Len(f) : g[i].open = f[i].open
    BY <1>1, <1>2
  <1>4. QED
    BY <1>2, <1>3 DEF FileChain, g

(* A candle that follows the series is pushed; it is written if closed.    *)
LEMMA PushCandle ==
    ASSUME NEW cs \in Seq(Candle), NEW f \in Seq(Record), Mirrors(cs, f),
           FileChain(f), Len(cs) = Len(f), NEW c \in Candle, OnGrid(c.open),
           cs # <<>> => c.open = LastOf(cs).open + Interval
    PROVE  /\ Append(cs, c) \in Seq(Candle)
           /\ c.closed => Mirrors(Append(cs, c), Append(f, RecordOf(c)))
           /\ ~c.closed => Mirrors(Append(cs, c), f)
  <1> DEFINE ds == Append(cs, c)
             g == Append(f, RecordOf(c))
  <1>1. RecordOf(c) \in Record /\ (c.closed => SameCandle(c, RecordOf(c)))
    BY DEF RecordOf, Record, Candle, SameCandle
  <1>2. /\ ds \in Seq(Candle) /\ Len(cs) \in Nat /\ Len(ds) = Len(cs) + 1
        /\ \A i \in 1..Len(cs) : ds[i] = cs[i]
        /\ ds[Len(cs) + 1] = c
        /\ cs # <<>> => LastOf(cs) = cs[Len(cs)] /\ Len(cs) > 0
        /\ cs = <<>> => Len(cs) = 0
    BY AppendProperties, EmptySeq, LenProperties, LastInSeq
  <1>3. /\ Len(g) = Len(f) + 1
        /\ \A i \in 1..Len(f) : g[i] = f[i]
        /\ g[Len(f) + 1] = RecordOf(c)
    BY <1>1, AppendProperties, LenProperties
  <1> HIDE DEF ds, g
  <1>4. \A i \in 1..Len(ds) : OnGrid(ds[i].open)
    BY <1>2 DEF Mirrors
  <1>5. ASSUME NEW i \in 1..(Len(ds) - 1)
        PROVE  ds[i + 1].open = ds[i].open + Interval
    <2>1. CASE i < Len(cs)
      BY <1>2, <2>1 DEF Mirrors
    <2>2. CASE i = Len(cs)
      <3>1. cs # <<>>
        BY <1>2, <2>2
      <3>2. QED
        BY <1>2, <2>2, <3>1
    <2>3. QED
      BY <1>2, <2>1, <2>2
  <1>6. \A i \in 1..Len(f) : SameCandle(ds[i], f[i])
    BY <1>2 DEF Mirrors
  <1>7. ASSUME c.closed
        PROVE  \A i \in 1..Len(g) : SameCandle(ds[i], g[i])
    BY <1>1, <1>2, <1>3, <1>6, <1>7
  <1>8. c.closed => Mirrors(ds, g)
    BY <1>2, <1>3, <1>4, <1>5, <1>7 DEF Mirrors
  <1>9. ~c.closed => Mirrors(ds, f)
    BY <1>2, <1>4, <1>5, <1>6 DEF Mirrors
  <1>10. QED
    BY <1>2, <1>8, <1>9 DEF ds, g

(* The newest candle is replaced by x with the same open time: an open one *)
(* by an open or (sealing it) a closed one, a closed one by a closed one.  *)
LEMMA RenewTail ==
    ASSUME NEW cs \in Seq(Candle), NEW f \in Seq(Record), Mirrors(cs, f),
           FileChain(f), cs # <<>>, NEW x \in Candle, OnGrid(x.open),
           x.open = LastOf(cs).open
    PROVE  /\ ReplaceLast(cs, x) \in Seq(Candle) /\ ReplaceLast(cs, x) # <<>>
           /\ Len(ReplaceLast(cs, x)) = Len(cs)
           /\ LastOf(ReplaceLast(cs, x)) = x
           /\ ~LastOf(cs).closed /\ x.closed
                => Mirrors(ReplaceLast(cs, x), Append(f, RecordOf(x)))
           /\ ~LastOf(cs).closed /\ ~x.closed => Mirrors(ReplaceLast(cs, x), f)
           /\ LastOf(cs).closed /\ x.closed
                => Mirrors(ReplaceLast(cs, x), ReplaceLast(f, RecordOf(x)))
  <1> DEFINE ds == ReplaceLast(cs, x)
  <1>1. RecordOf(x) \in Record /\ (x.closed => SameCandle(x, RecordOf(x)))
    BY DEF RecordOf, Record, Candle, SameCandle
  <1>2. /\ ds \in Seq(Candle) /\ Len(ds) = Len(cs) /\ Len(cs) \in Nat \ {0}
        /\ ds # <<>>
        /\ \A i \in 1..Len(cs) : ds[i] = IF i = Len(cs) THEN x ELSE cs[i]
        /\ LastOf(cs) = cs[Len(cs)] /\ LastOf(ds) = ds[Len(ds)]
    BY ReplaceLastProperties, LastInSeq DEF LastOf
  <1> HIDE DEF ds
  <1>3. LastOf(ds) = x
    BY <1>2
  <1>4. /\ \A i \in 1..Len(ds) : OnGrid(ds[i].open)
        /\ \A i \in 1..Len(cs) : ds[i].open = cs[i].open
    BY <1>2 DEF Mirrors
  <1>5. \A i \in 1..(Len(ds) - 1) : ds[i + 1].open = ds[i].open + Interval
    BY <1>2, <1>4 DEF Mirrors
  <1>6. ASSUME ~LastOf(cs).closed
        PROVE  /\ Len(cs) = Len(f) + 1 /\ Len(f) \in Nat
               /\ \A i \in 1..Len(f) : SameCandle(ds[i], f[i])
    <2>1. Len(cs) = Len(f) + 1 /\ Len(f) \in Nat
      BY <1>6, TailPosition
    <2>2. QED
      BY <1>2, <2>1 DEF Mirrors
  <1>7. ASSUME ~LastOf(cs).closed, x.closed
        PROVE  Mirrors(ds, Append(f, RecordOf(x)))
    <2> DEFINE g == Append(f, RecordOf(x))
    <2>1. /\ Len(g) = Len(f) + 1
          /\ \A i \in 1..Len(f) : g[i] = f[i]
          /\ g[Len(f) + 1] = RecordOf(x)
      BY <1>1, AppendProperties
    <2> HIDE DEF g
    <2>2. \A i \in 1..Len(g) : SameCandle(ds[i], g[i])
      BY <1>1, <1>2, <1>6, <1>7, <2>1
    <2>3. Mirrors(ds, g)
      BY <1>2, <1>4, <1>5, <1>6, <1>7, <2>1, <2>2 DEF Mirrors
    <2>4. QED
      BY <2>3 DEF g
  <1>8. ASSUME ~LastOf(cs).closed, ~x.closed
        PROVE  Mirrors(ds, f)
    BY <1>2, <1>3, <1>4, <1>5, <1>6, <1>8 DEF Mirrors
  <1>9. ASSUME LastOf(cs).closed, x.closed
        PROVE  Mirrors(ds, ReplaceLast(f, RecordOf(x)))
    <2> DEFINE g == ReplaceLast(f, RecordOf(x))
    <2>1. Len(cs) = Len(f) /\ f # <<>>
      BY <1>9, TailPosition
    <2>2. /\ Len(g) = Len(f)
          /\ \A i \in 1..Len(f) : g[i] = IF i = Len(f) THEN RecordOf(x) ELSE f[i]
      <3>1. f # <<>> /\ RecordOf(x) \in Record
        BY <1>1, <2>1
      <3>2. QED
        BY <3>1, ReplaceLastProperties
    <2> HIDE DEF g
    <2>3. \A i \in 1..Len(g) : SameCandle(ds[i], g[i])
      BY <1>1, <1>2, <1>9, <2>1, <2>2 DEF Mirrors
    <2>4. Mirrors(ds, g)
      BY <1>2, <1>4, <1>5, <2>1, <2>2, <2>3 DEF Mirrors
    <2>5. QED
      BY <2>4 DEF g
  <1>10. QED
    BY <1>2, <1>3, <1>7, <1>8, <1>9 DEF ds

(***************************************************************************)
(* The invariant is inductive when writes succeed                          *)
(***************************************************************************)
(* What a method must have established at its return.                      *)
LEMMA SettledStep ==
    ASSUME IInv,
           candles' \in Seq(Candle), file' \in Seq(Record), FileChain(file'),
           Mirrors(candles', file'), metadata' = SummaryOf(file'),
           hasGap' = FALSE, opened' = TRUE,
           answer' = Answered("Ok") \/ answer' = Answered("Replaced")
    PROVE  IInv'
  <1>1. answer' \in Answer /\ answer'.state # "Gap"
    BY DEF Answer, Answered
  <1>2. metadata' \in [minOpen : Nat, maxOpen : Nat, count : Nat]
    <2>1. Len(file') \in Nat /\ \A i \in 1..Len(file') : file'[i].open \in Nat
      BY LenProperties DEF FileChain, OnGrid
    <2>2. QED
      BY <2>1 DEF SummaryOf, NoMetadata
  <1>3. QED
    BY <1>1, <1>2 DEF IInv, TypeOK, GapAnswerIsExact

(* A method that leaves the store alone and does not report a gap.         *)
LEMMA UntouchedStep ==
    ASSUME IInv, UNCHANGED <<candles, metadata, hasGap, file, opened>>, opened,
           answer' = Answered("Ok") \/ answer' = Answered("Overlap")
    PROVE  IInv'
  <1>1. answer' \in Answer /\ answer'.state # "Gap"
    BY DEF Answer, Answered
  <1>2. QED
    BY <1>1 DEF IInv, TypeOK, GapAnswerIsExact, Mirrors, SameCandle, FileChain, SummaryOf

LEMMA AppendFirstStep ==
    ASSUME IInv, DiskMayFail = FALSE, opened, UNCHANGED opened,
           NEW n \in Candle, IsValidRecord(ToPriceData(n)) => OnGrid(n.open),
           AppendFirst(n)
    PROVE  IInv'
  <1>1. /\ candles = <<>> /\ candles' = <<n>> /\ OnGrid(n.open)
        /\ file' = PersistClosed(file, n, Sound)
        /\ metadata' = IF n.closed THEN RefreshMetadata(candles') ELSE metadata
        /\ hasGap' = FALSE /\ answer' = Answered("Ok")
    BY DEF AppendFirst, WriteOutcome
  <1>2. /\ candles \in Seq(Candle) /\ file \in Seq(Record) /\ FileChain(file)
        /\ Mirrors(candles, file) /\ metadata = SummaryOf(file)
    BY DEF IInv, TypeOK
  <1>3. file = <<>> /\ Len(candles) = Len(file)
    BY <1>1, <1>2, EmptySeq, LenProperties DEF Mirrors
  <1>4. candles' = Append(candles, n)
    BY <1>1
  <1>5. CASE n.closed
    <2>1. file' = Append(file, RecordOf(n))
      BY <1>1, <1>2, <1>3, <1>5, PersistNewer
    <2>2. file' \in Seq(Record) /\ FileChain(file')
      BY <1>1, <1>2, <1>3, <2>1, AppendToFile
    <2>3. candles' \in Seq(Candle) /\ Mirrors(candles', file')
      BY <1>1, <1>2, <1>3, <1>4, <1>5, <2>1, PushCandle
    <2>4. metadata' = SummaryOf(file')
      BY <1>1, <1>5, <2>2, <2>3, RefreshOfMirror
    <2>5. QED
      BY <1>1, <2>2, <2>3, <2>4, SettledStep
  <1>6. CASE ~n.closed
    <2>1. file' = file
      BY <1>1, <1>6, PersistOpen
    <2>2. candles' \in Seq(Candle) /\ Mirrors(candles', file')
      BY <1>1, <1>2, <1>3, <1>4, <1>6, <2>1, PushCandle
    <2>3. QED
      BY <1>1, <1>2, <1>6, <2>1, <2>2, SettledStep
  <1>7. QED
    BY <1>5, <1>6

LEMMA ReplaceTailStep ==
    ASSUME IInv, DiskMayFail = FALSE, opened, UNCHANGED opened,
           NEW n \in Candle, IsValidRecord(ToPriceData(n)) => OnGrid(n.open),
           ReplaceTail(n)
    PROVE  IInv'
  <1>1. /\ candles # <<>> /\ OnGrid(n.open) /\ n.open = LastOf(candles).open
        /\ LastOf(candles).closed => n.closed
        /\ candles' = ReplaceLast(candles, n)
        /\ file' = PersistClosed(file, n, Sound)
        /\ metadata' = IF n.closed THEN RefreshMetadata(candles') ELSE metadata
        /\ hasGap' = FALSE /\ answer' = Answered("Replaced")
    BY DEF ReplaceTail, WriteOutcome
  <1>2. /\ candles \in Seq(Candle) /\ file \in Seq(Record) /\ FileChain(file)
        /\ Mirrors(candles, file) /\ metadata = SummaryOf(file)
    BY DEF IInv, TypeOK
  <1>3. candles' \in Seq(Candle)
    BY <1>1, <1>2, RenewTail
  <1>4. CASE n.closed /\ LastOf(candles).closed
    <2>1. file # <<>> /\ n.open = LastOf(file).open
      BY <1>1, <1>2, <1>4, TailPosition
    <2>2. file' = ReplaceLast(file, RecordOf(n))
      BY <1>1, <1>2, <1>4, <2>1, PersistSame
    <2>3. file' \in Seq(Record) /\ FileChain(file')
      BY <1>1, <1>2, <2>1, <2>2, CorrectFile
    <2>4. Mirrors(candles', file')
      BY <1>1, <1>2, <1>4, <2>2, RenewTail
    <2>5. metadata' = SummaryOf(file')
      BY <1>1, <1>3, <1>4, <2>3, <2>4, RefreshOfMirror
    <2>6. QED
      BY <1>1, <1>3, <2>3, <2>4, <2>5, SettledStep
  <1>5. CASE n.closed /\ ~LastOf(candles).closed
    <2>1. file # <<>> => n.open = LastOf(file).open + Interval
      BY <1>1, <1>2, <1>5, TailPosition
    <2>2. file # <<>> => n.open > LastOf(file).open
      <3>1. file # <<>> => LastOf(file) \in Record
        BY <1>2, LastInSeq
      <3>2. QED
        BY <2>1, <3>1, IntervalAssumption DEF Record
    <2>3. file' = Append(file, RecordOf(n))
      BY <1>1, <1>2, <1>5, <2>2, PersistNewer
    <2>4. file' \in Seq(Record) /\ FileChain(file')
      BY <1>1, <1>2, <2>1, <2>3, AppendToFile
    <2>5. Mirrors(candles', file')
      <3>1. Mirrors(ReplaceLast(candles, n), Append(file, RecordOf(n)))
        BY <1>1, <1>2, <1>5, RenewTail
      <3>2. QED
        BY <1>1, <2>3, <3>1
    <2>6. metadata' = SummaryOf(file')
      BY <1>1, <1>3, <1>5, <2>4, <2>5, RefreshOfMirror
    <2>7. QED
      BY <1>1, <1>3, <2>4, <2>5, <2>6, SettledStep
  <1>6. CASE ~n.closed
    <2>1. file' = file /\ ~LastOf(candles).closed
      BY <1>1, <1>6, PersistOpen
    <2>2. Mirrors(candles', file')
      BY <1>1, <1>2, <1>6, <2>1, RenewTail
    <2>3. QED
      BY <1>1, <1>2, <1>3, <1>6, <2>1, <2>2, SettledStep
  <1>7. QED
    BY <1>4, <1>5, <1>6

Sealed(c) == [c EXCEPT !.closed = TRUE]
SealedSeries(cs) == ReplaceLast(cs, Sealed(LastOf(cs)))
SealedFile(cs, f) ==
    IF LastOf(cs).closed THEN f ELSE PersistClosed(f, Sealed(LastOf(cs)), Sound)

LEMMA SealedProperties ==
    ASSUME NEW c \in Candle
    PROVE  /\ Sealed(c) \in Candle /\ Sealed(c).closed /\ Sealed(c).open = c.open
           /\ RecordOf(Sealed(c)) = RecordOf(c)
           /\ c.closed => Sealed(c) = c
  BY DEF Sealed, Candle, RecordOf

(* Sealing the tail, if it is open, leaves a file of all candles.          *)
LEMMA SealTail ==
    ASSUME NEW cs \in Seq(Candle), NEW f \in Seq(Record), Mirrors(cs, f),
           FileChain(f), cs # <<>>
    PROVE  /\ SealedSeries(cs) \in Seq(Candle) /\ SealedSeries(cs) # <<>>
           /\ LastOf(SealedSeries(cs)).open = LastOf(cs).open
           /\ SealedFile(cs, f) \in Seq(Record) /\ SealedFile(cs, f) # <<>>
           /\ FileChain(SealedFile(cs, f))
           /\ Mirrors(SealedSeries(cs), SealedFile(cs, f))
           /\ Len(SealedSeries(cs)) = Len(SealedFile(cs, f))
           /\ LastOf(SealedFile(cs, f)).open = LastOf(cs).open
           /\ ~LastOf(cs).closed => SealedFile(cs, f) = Append(f, RecordOf(LastOf(cs)))
  <1> DEFINE tail == LastOf(cs)
             x == Sealed(tail)
             ds == SealedSeries(cs)
             g == SealedFile(cs, f)
  <1>1. /\ tail \in Candle /\ OnGrid(tail.open) /\ Len(cs) \in Nat \ {0}
        /\ tail.closed => Len(cs) = Len(f) /\ f # <<>> /\ tail.open = LastOf(f).open
        /\ ~tail.closed => /\ Len(cs) = Len(f) + 1
                           /\ f # <<>> => tail.open = LastOf(f).open + Interval
    BY TailPosition
  <1>2. /\ x \in Candle /\ x.closed /\ x.open = tail.open /\ RecordOf(x) = RecordOf(tail)
        /\ tail.closed => x = tail
    BY <1>1, SealedProperties
  <1>3. ds = ReplaceLast(cs, x)
    BY DEF SealedSeries
  <1>4. /\ tail.closed => g = f
        /\ ~tail.closed => g = PersistClosed(f, x, Sound)
    BY DEF SealedFile
  <1>5. tail = cs[Len(cs)]
    BY DEF LastOf
  <1> HIDE DEF tail, x, ds, g
  <1>6. tail = LastOf(cs)
    BY DEF tail
  <1>7. /\ ds \in Seq(Candle) /\ ds # <<>> /\ Len(ds) = Len(cs) /\ LastOf(ds) = x
        /\ ~tail.closed => Mirrors(ds, Append(f, RecordOf(x)))
    BY <1>1, <1>2, <1>3, <1>6, RenewTail
  <1>8. CASE tail.closed
    <2>1. ds = cs
      <3>1. \A i \in 1..Len(cs) : ReplaceLast(cs, x)[i] = IF i = Len(cs) THEN x ELSE cs[i]
        BY <1>2, ReplaceLastProperties
      <3>2. \A i \in 1..Len(cs) : ds[i] = cs[i]
        BY <1>2, <1>3, <1>5, <1>8, <3>1
      <3>3. QED
        BY <1>7, <3>2, SeqEqual
    <2>2. QED
      BY <1>1, <1>2, <1>4, <1>6, <1>7, <1>8, <2>1 DEF ds, g
  <1>9. CASE ~tail.closed
    <2>1. f # <<>> => x.open > LastOf(f).open
      <3>1. f # <<>> => LastOf(f) \in Record
        BY LastInSeq
      <3>2. f # <<>> => LastOf(f).open \in Nat
        BY <3>1 DEF Record
      <3>3. QED
        BY <1>1, <1>2, <1>9, <3>2, IntervalAssumption
    <2>2. g = Append(f, RecordOf(x))
      BY <1>1, <1>2, <1>4, <1>9, <2>1, PersistNewer
    <2>3. g \in Seq(Record) /\ FileChain(g)
      BY <1>1, <1>2, <1>9, <2>2, AppendToFile
    <2>4. Mirrors(ds, g)
      BY <1>7, <1>9, <2>2
    <2>5. Len(ds) = Len(g) /\ g # <<>> /\ LastOf(g).open = tail.open
      BY <1>2, <1>7, <2>3, <2>4, TailPosition
    <2>6. QED
      BY <1>2, <1>6, <1>7, <2>2, <2>3, <2>4, <2>5 DEF ds, g
  <1>10. QED
    BY <1>8, <1>9

LEMMA AppendNextStep ==
    ASSUME IInv, DiskMayFail = FALSE, opened, UNCHANGED opened,
           NEW n \in Candle, IsValidRecord(ToPriceData(n)) => OnGrid(n.open),
           AppendNext(n)
    PROVE  IInv'
  <1> DEFINE tail == LastOf(candles)
             cs == SealedSeries(candles)
             f == SealedFile(candles, file)
  <1>1. /\ candles # <<>> /\ OnGrid(n.open) /\ n.open = tail.open + Interval
        /\ candles' = Append(cs, n)
        /\ file' = PersistClosed(f, n, Sound)
        /\ metadata' = IF ~tail.closed \/ n.closed THEN RefreshMetadata(candles')
                       ELSE metadata
        /\ hasGap' = FALSE /\ answer' = Answered("Ok")
    BY DEF AppendNext, WriteOutcome, Sealed, SealedSeries, SealedFile, Expected
  <1>2. /\ candles \in Seq(Candle) /\ file \in Seq(Record) /\ FileChain(file)
        /\ Mirrors(candles, file) /\ metadata = SummaryOf(file)
    BY DEF IInv, TypeOK
  <1>3. /\ cs \in Seq(Candle) /\ cs # <<>> /\ LastOf(cs).open = tail.open
        /\ f \in Seq(Record) /\ f # <<>> /\ FileChain(f) /\ Mirrors(cs, f)
        /\ Len(cs) = Len(f) /\ LastOf(f).open = tail.open
    BY <1>1, <1>2, SealTail
  <1>4. tail.closed => f = file
    BY DEF SealedFile
  <1> HIDE DEF tail, cs, f
  <1>5. n.open = LastOf(f).open + Interval /\ n.open > LastOf(f).open
    <2>1. LastOf(f) \in Record
      BY <1>3, LastInSeq
    <2>2. LastOf(f).open \in Nat
      BY <2>1 DEF Record
    <2>3. QED
      BY <1>1, <1>3, <2>2, IntervalAssumption
  <1>6. CASE n.closed
    <2>1. file' = Append(f, RecordOf(n))
      BY <1>1, <1>3, <1>5, <1>6, PersistNewer
    <2>2. file' \in Seq(Record) /\ FileChain(file')
      BY <1>1, <1>3, <1>5, <2>1, AppendToFile
    <2>3. candles' \in Seq(Candle) /\ Mirrors(candles', file')
      BY <1>1, <1>3, <1>6, <2>1, PushCandle
    <2>4. metadata' = SummaryOf(file')
      BY <1>1, <1>6, <2>2, <2>3, RefreshOfMirror
    <2>5. QED
      BY <1>1, <2>2, <2>3, <2>4, SettledStep
  <1>7. CASE ~n.closed
    <2>1. file' = f
      BY <1>1, <1>7, PersistOpen
    <2>2. candles' \in Seq(Candle) /\ Mirrors(candles', file')
      BY <1>1, <1>3, <1>7, <2>1, PushCandle
    <2>3. metadata' = SummaryOf(file')
      BY <1>1, <1>2, <1>3, <1>4, <1>7, <2>1, <2>2, RefreshOfMirror
    <2>4. QED
      BY <1>1, <1>3, <2>1, <2>2, <2>3, SettledStep
  <1>8. QED
    BY <1>6, <1>7

LEMMA SealStep ==
    ASSUME IInv, DiskMayFail = FALSE, SealOpenTailIfAny
    PROVE  IInv'
  <1>1. /\ opened /\ opened' /\ candles # <<>> /\ ~LastOf(candles).closed
        /\ candles' = SealedSeries(candles)
        /\ file' = SealedFile(candles, file)
        /\ metadata' = RefreshMetadata(candles')
        /\ hasGap' = hasGap /\ answer' = Answered("Replaced")
    BY DEF SealOpenTailIfAny, WriteOutcome, Sealed, SealedSeries, SealedFile
  <1>2. /\ candles \in Seq(Candle) /\ file \in Seq(Record) /\ FileChain(file)
        /\ Mirrors(candles, file) /\ hasGap \in BOOLEAN /\ opened \in BOOLEAN
    BY <1>1 DEF IInv, TypeOK
  <1>3. /\ candles' \in Seq(Candle) /\ file' \in Seq(Record) /\ FileChain(file')
        /\ Mirrors(candles', file')
    BY <1>1, <1>2, SealTail
  <1>4. metadata' = SummaryOf(file')
    BY <1>1, <1>3, RefreshOfMirror
  <1>5. metadata' \in [minOpen : Nat, maxOpen : Nat, count : Nat]
    <2>1. Len(file') \in Nat /\ \A i \in 1..Len(file') : file'[i].open \in Nat
      BY <1>3, LenProperties DEF FileChain, OnGrid
    <2>2. QED
      BY <1>4, <2>1 DEF SummaryOf, NoMetadata
  <1>6. answer' \in Answer /\ answer'.state # "Gap" /\ opened' \in BOOLEAN
    BY <1>1, <1>2 DEF Answer, Answered, SealOpenTailIfAny
  <1>7. QED
    BY <1>1, <1>2, <1>3, <1>4, <1>5, <1>6 DEF IInv, TypeOK, GapAnswerIsExact

LEMMA ReportGapStep ==
    ASSUME IInv, opened, UNCHANGED opened,
           NEW n \in Candle, IsValidRecord(ToPriceData(n)) => OnGrid(n.open),
           ReportGap(n)
    PROVE  IInv'
  <1>1. /\ candles # <<>> /\ OnGrid(n.open) /\ n.open > Expected
        /\ UNCHANGED <<candles, metadata, file, opened>>
        /\ hasGap' = TRUE
        /\ answer' = [state |-> "Gap", from |-> Expected, to |-> n.open]
    BY DEF ReportGap
  <1>2. /\ candles \in Seq(Candle) /\ file \in Seq(Record) /\ FileChain(file)
        /\ Mirrors(candles, file)
    BY DEF IInv, TypeOK
  <1>3. /\ OnGrid(LastOf(candles).open)
        /\ Expected = LastOf(candles).open + Interval /\ Expected \in Nat
    <2>1. OnGrid(LastOf(candles).open)
      BY <1>1, <1>2, TailPosition
    <2>2. QED
      BY <2>1, IntervalAssumption DEF Expected, OnGrid
  <1>4. Expected + Interval <= n.open
    <2>1. /\ n.open \in Nat /\ LastOf(candles).open \in Nat
          /\ n.open > LastOf(candles).open + Interval
      BY <1>1, <1>3 DEF OnGrid
    <2>2. n.open >= LastOf(candles).open + Interval + Interval
      BY <1>1, <1>3, <2>1, GridSpacing
    <2>3. QED
      BY <1>3, <2>1, <2>2, IntervalAssumption
  <1>5. answer' \in Answer
    BY <1>1, <1>3 DEF Answer, OnGrid
  <1>6. GapAnswerIsExact'
    BY <1>1, <1>3, <1>4 DEF GapAnswerIsExact, Expected
  <1>7. QED
    BY <1>1, <1>5, <1>6 DEF IInv, TypeOK, Mirrors, SameCandle, FileChain, SummaryOf

LEMMA OpenStep ==
    ASSUME IInv, DiskMayFail = FALSE, Open
    PROVE  IInv'
  <1>0. file' = file /\ candles' = LoadHistorical(file)
    BY OpensSoundFile
  <1>1. /\ file \in Seq(Record) /\ FileChain(file) /\ Len(file) \in Nat
        /\ \A i \in 1..Len(file) : file[i] \in Record
    BY LenProperties, ElementOfSeq DEF IInv, TypeOK
  <1>2. InOrder(file)
    <2>1. \A i \in 1..Len(file) : file[i].open \in Nat /\ file[i].open > 0
      BY <1>1 DEF FileChain, OnGrid
    <2>2. ASSUME NEW i \in 1..(Len(file) - 1)
          PROVE  file[i].open < file[i + 1].open
      <3>1. file[i].open \in Nat /\ file[i + 1].open = file[i].open + Interval
        BY <1>1, <2>1 DEF FileChain
      <3>2. QED
        BY <3>1, IntervalAssumption
    <2>3. QED
      BY <2>1, <2>2 DEF InOrder, IsValidRecord
  <1>3. candles' = [i \in 1..Len(file) |-> ToCandle(file[i])]
    BY <1>0, <1>1, <1>2 DEF LoadHistorical
  <1>4. \A i \in 1..Len(file) : /\ ToCandle(file[i]) \in Candle
                                /\ SameCandle(ToCandle(file[i]), file[i])
    BY <1>1 DEF ToCandle, Candle, Record, SameCandle, FileChain, OnGrid
  <1>5. /\ candles' \in Seq(Candle) /\ Len(candles') = Len(file)
        /\ \A i \in 1..Len(file) : candles'[i] = ToCandle(file[i])
    BY <1>1, <1>3, <1>4
  <1>6. \A i \in 1..Len(file) : candles'[i].open = file[i].open
    BY <1>4, <1>5 DEF SameCandle
  <1>7. Mirrors(candles', file)
    BY <1>1, <1>4, <1>5, <1>6 DEF Mirrors, FileChain
  <1>8. metadata' = SummaryOf(file)
    BY <1>1, <1>5, <1>7, RefreshOfMirror DEF Open
  <1>9. QED
    BY <1>0, <1>1, <1>5, <1>7, <1>8, SettledStep DEF Open

(* The process dies: what is left is the file.                             *)
LEMMA ForgetStep ==
    ASSUME IInv, Forget, file' \in Seq(Record), FileChain(file')
    PROVE  IInv'
  <1>1. candles' \in Seq(Candle)
    BY EmptySeq DEF Forget
  <1>2. metadata' \in [minOpen : Nat, maxOpen : Nat, count : Nat]
    BY DEF Forget, NoMetadata
  <1>3. answer' \in Answer /\ answer'.state = "Ok"
    BY DEF Forget, Answer, Answered
  <1>4. QED
    BY <1>1, <1>2, <1>3 DEF IInv, TypeOK, Forget, GapAnswerIsExact

LEMMA CrashBetweenWritesStep ==
    ASSUME IInv, DiskMayFail = FALSE, NEW c \in Submitted, CrashBetweenWrites(c)
    PROVE  IInv'
  <1>1. /\ opened /\ candles # <<>> /\ ~LastOf(candles).closed /\ Forget
        /\ file' = SealedFile(candles, file)
    BY DEF CrashBetweenWrites, WriteOutcome, Sealed, SealedFile
  <1>2. /\ candles \in Seq(Candle) /\ file \in Seq(Record) /\ FileChain(file)
        /\ Mirrors(candles, file)
    BY <1>1 DEF IInv, TypeOK
  <1>3. file' \in Seq(Record) /\ FileChain(file')
    BY <1>1, <1>2, SealTail
  <1>4. QED
    BY <1>1, <1>3, ForgetStep

(***************************************************************************)
(* Theorems                                                                *)
(***************************************************************************)
(* The mirror invariant is inductive: initially empty memory mirrors an    *)
(* empty file, and every method and every death of the process keeps it.   *)
THEOREM Inductive ==
    ASSUME DiskMayFail = FALSE
    PROVE  /\ Init => IInv
           /\ IInv /\ [Next]_vars => IInv'
  <1>1. ASSUME Init
        PROVE  IInv
    <2>1. /\ candles \in Seq(Candle) /\ file \in Seq(Record)
          /\ candles = <<>> /\ Len(file) = 0 /\ opened = FALSE /\ hasGap = FALSE
      BY <1>1, EmptySeq DEF Init
    <2>2. answer \in Answer /\ answer.state = "Ok"
      BY <1>1 DEF Init, Answer, Answered
    <2>3. metadata \in [minOpen : Nat, maxOpen : Nat, count : Nat]
      BY <1>1 DEF Init, NoMetadata
    <2>4. FileChain(file)
      BY <2>1 DEF FileChain
    <2>5. QED
      BY <2>1, <2>2, <2>3, <2>4 DEF IInv, TypeOK, GapAnswerIsExact
  <1>2. ASSUME IInv, [Next]_vars
        PROVE  IInv'
    <2>1. CASE Open
      BY <1>2, <2>1, OpenStep
    <2>2. ASSUME NEW c \in Submitted, AppendOrReplace(c)
          PROVE  IInv'
      <3> DEFINE n == NormalizeCandle(c)
      <3>1. n \in Candle /\ (IsValidRecord(ToPriceData(n)) => OnGrid(n.open))
        BY Normalised
      <3>2. opened /\ UNCHANGED opened
        BY <2>2 DEF AppendOrReplace
      <3>3. \/ IgnoreInvalid(n) \/ AppendFirst(n) \/ KeepClosedTail(n)
            \/ ReplaceTail(n) \/ IgnoreOlder(n) \/ ReportGap(n) \/ AppendNext(n)
        BY <2>2 DEF AppendOrReplace
      <3> HIDE DEF n
      <3>4. CASE IgnoreInvalid(n) \/ KeepClosedTail(n) \/ IgnoreOlder(n)
        BY <1>2, <3>2, <3>4, UntouchedStep DEF IgnoreInvalid, KeepClosedTail, IgnoreOlder
      <3>5. CASE AppendFirst(n)
        BY <1>2, <3>1, <3>2, <3>5, AppendFirstStep
      <3>6. CASE ReplaceTail(n)
        BY <1>2, <3>1, <3>2, <3>6, ReplaceTailStep
      <3>7. CASE ReportGap(n)
        BY <1>2, <3>1, <3>2, <3>7, ReportGapStep
      <3>8. CASE AppendNext(n)
        BY <1>2, <3>1, <3>2, <3>8, AppendNextStep
      <3>9. QED
        BY <3>3, <3>4, <3>5, <3>6, <3>7, <3>8
    <2>3. CASE SealOpenTailIfAny
      BY <1>2, <2>3, SealStep
    <2>4. ASSUME NEW c \in Submitted, CrashBetweenWrites(c)
          PROVE  IInv'
      BY <1>2, <2>4, CrashBetweenWritesStep
    <2>5. CASE Crash
      BY <1>2, <2>5, ForgetStep DEF Crash, IInv, TypeOK
    <2>6. CASE UNCHANGED vars
      BY <1>2, <2>6 DEF vars, IInv, TypeOK, FileChain, Mirrors, SameCandle, SummaryOf,
                        GapAnswerIsExact, Expected
    <2>7. QED
      BY <1>2, <2>1, <2>2, <2>3, <2>4, <2>5, <2>6 DEF Next
  <1>3. QED
    BY <1>1, <1>2

(* Type correctness, for every interval, time set and value set.           *)
THEOREM TypeCorrect ==
    ASSUME DiskMayFail = FALSE
    PROVE  Spec => []TypeOK
  <1>1. IInv => TypeOK
    BY DEF IInv
  <1>2. QED
    BY <1>1, Inductive, PTL DEF Spec

(* No method and no crash ever leaves a hole or a duplicate in the series  *)
(* readers get, nor an open candle before its end.                         *)
THEOREM SeriesSound ==
    ASSUME DiskMayFail = FALSE
    PROVE  Spec => [](SeriesContiguous /\ OnlyTailOpen)
  <1>1. ASSUME IInv
        PROVE  SeriesContiguous /\ OnlyTailOpen
    <2>1. CASE opened
      <3>1. /\ Mirrors(candles, file) /\ Len(file) \in Nat /\ Len(candles) \in Nat
        BY <1>1, <2>1, LenProperties DEF IInv, TypeOK
      <3>2. QED
        BY <3>1 DEF Mirrors, SameCandle, SeriesContiguous, OnlyTailOpen
    <2>2. CASE ~opened
      BY <1>1, <2>2, EmptySeq DEF IInv, SeriesContiguous, OnlyTailOpen
    <2>3. QED
      BY <2>1, <2>2
  <1>2. QED
    BY <1>1, Inductive, PTL DEF Spec

(* Whatever is followed by another candle is closed.                       *)
THEOREM OnlyTailStaysOpen ==
    ASSUME DiskMayFail = FALSE
    PROVE  Spec => []OnlyTailOpen
  BY SeriesSound, PTL

(* The backfill's resume point is what the disk holds.                     *)
THEOREM ResumePointDurable ==
    ASSUME DiskMayFail = FALSE
    PROVE  Spec => []ResumePointIsDurable
  <1>1. ASSUME IInv
        PROVE  ResumePointIsDurable
    <2>1. /\ file \in Seq(Record)
          /\ opened => metadata = SummaryOf(file)
      BY <1>1 DEF IInv, TypeOK
    <2>2. /\ file = <<>> => Len(file) = 0
          /\ file # <<>> => Len(file) > 0 /\ Len(file) \in Nat
      BY <2>1, EmptySeq
    <2>3. QED
      BY <2>1, <2>2 DEF ResumePointIsDurable, SummaryOf, NoMetadata, LastOf
  <1>2. QED
    BY <1>1, Inductive, PTL DEF Spec

(* A gap answer names exactly the hole.                                    *)
THEOREM GapAnswersExact ==
    ASSUME DiskMayFail = FALSE
    PROVE  Spec => []GapAnswerIsExact
  <1>1. IInv => GapAnswerIsExact
    BY DEF IInv
  <1>2. QED
    BY <1>1, Inductive, PTL DEF Spec

LEMMA ReplaceLastKeeps ==
    ASSUME NEW cs \in Seq(Candle), cs # <<>>, NEW x \in Candle
    PROVE  /\ ReplaceLast(cs, x) \in Seq(Candle)
           /\ Len(ReplaceLast(cs, x)) = Len(cs)
           /\ \A i \in 1..(Len(cs) - 1) : ReplaceLast(cs, x)[i] = cs[i]
  <1>1. Len(cs) \in Nat \ {0}
    BY LastInSeq
  <1>2. /\ ReplaceLast(cs, x) \in Seq(Candle)
        /\ Len(ReplaceLast(cs, x)) = Len(cs)
        /\ \A i \in 1..Len(cs) : ReplaceLast(cs, x)[i] = IF i = Len(cs) THEN x ELSE cs[i]
    BY ReplaceLastProperties
  <1>3. QED
    BY <1>1, <1>2

(* While a process runs, no call changes or drops a candle that a newer    *)
(* one has followed.                                                       *)
THEOREM FollowedFinal ==
    ASSUME DiskMayFail = FALSE
    PROVE  Spec => FollowedCandlesAreFinal
  <1> DEFINE Final == opened /\ opened' =>
                        /\ Len(candles') >= Len(candles)
                        /\ \A i \in 1..(Len(candles) - 1) : candles'[i] = candles[i]
  <1>1. ASSUME IInv, [Next]_vars
        PROVE  Final
    <2>1. candles \in Seq(Candle) /\ Len(candles) \in Nat
      BY <1>1, LenProperties DEF IInv, TypeOK
    <2>2. CASE UNCHANGED candles
      BY <2>1, <2>2
    <2>3. ASSUME NEW x \in Candle, candles # <<>>, candles' = ReplaceLast(candles, x)
          PROVE  Final
      <3>1. /\ Len(ReplaceLast(candles, x)) = Len(candles)
            /\ \A i \in 1..(Len(candles) - 1) : ReplaceLast(candles, x)[i] = candles[i]
        BY <2>1, <2>3, ReplaceLastKeeps
      <3>2. QED
        BY <2>1, <2>3, <3>1
    <2>4. ASSUME NEW n \in Candle, AppendNext(n)
          PROVE  Final
      <3> DEFINE cs == SealedSeries(candles)
                 x == Sealed(LastOf(candles))
      <3>1. candles # <<>> /\ candles' = Append(cs, n)
        BY <2>4 DEF AppendNext, SealedSeries, Sealed
      <3>2. x \in Candle
        BY <2>1, <3>1, LastInSeq, SealedProperties
      <3>3. cs = ReplaceLast(candles, x)
        BY DEF SealedSeries
      <3> HIDE DEF cs, x
      <3>4. /\ cs \in Seq(Candle) /\ Len(cs) = Len(candles)
            /\ \A i \in 1..(Len(candles) - 1) : cs[i] = candles[i]
        <4>1. candles # <<>>
          BY <3>1
        <4>2. QED
          BY <2>1, <3>2, <3>3, <4>1, ReplaceLastKeeps
      <3>5. /\ Len(candles') = Len(cs) + 1
            /\ \A i \in 1..Len(cs) : candles'[i] = cs[i]
        BY <3>1, <3>4, AppendProperties
      <3>6. QED
        BY <2>1, <3>4, <3>5
    <2>5. ASSUME NEW c \in Submitted, AppendOrReplace(c)
          PROVE  Final
      <3> DEFINE n == NormalizeCandle(c)
      <3>1. n \in Candle
        BY Normalised
      <3>2. \/ UNCHANGED candles \/ AppendFirst(n) \/ ReplaceTail(n) \/ AppendNext(n)
        BY <2>5 DEF AppendOrReplace, IgnoreInvalid, KeepClosedTail, IgnoreOlder, ReportGap
      <3> HIDE DEF n
      <3>3. CASE AppendFirst(n)
        <4>1. candles = <<>> /\ candles' = <<n>>
          BY <3>3 DEF AppendFirst
        <4>2. QED
          BY <4>1
      <3>4. CASE ReplaceTail(n)
        BY <2>3, <3>1, <3>4 DEF ReplaceTail
      <3>5. QED
        BY <2>2, <2>4, <3>1, <3>2, <3>3, <3>4
    <2>6. CASE SealOpenTailIfAny
      <3>1. candles # <<>> /\ candles' = ReplaceLast(candles, Sealed(LastOf(candles)))
        BY <2>6 DEF SealOpenTailIfAny, Sealed
      <3>2. Sealed(LastOf(candles)) \in Candle
        BY <2>1, <3>1, LastInSeq, SealedProperties
      <3>3. QED
        BY <2>3, <3>1, <3>2
    <2>7. CASE Open \/ Crash \/ \E c \in Submitted : CrashBetweenWrites(c)
      BY <2>7 DEF Open, Crash, CrashBetweenWrites, Forget
    <2>8. CASE UNCHANGED vars
      BY <2>2, <2>8 DEF vars
    <2>9. QED
      BY <1>1, <2>5, <2>6, <2>7, <2>8 DEF Next
  <1>2. IInv /\ [Next]_vars => [Final]_vars
    BY <1>1
  <1>3. Spec => []IInv
    BY Inductive, PTL DEF Spec
  <1>4. QED
    BY <1>2, <1>3, PTL DEF Spec, FollowedCandlesAreFinal

(***************************************************************************)
(* Refinement                                                              *)
(***************************************************************************)
Forming == IF candles # <<>> /\ ~LastOf(candles).closed
           THEN <<RecordOf(LastOf(candles))>> ELSE <<>>

(* Where the log's end and the forming candle stand, in the terms of the   *)
(* log's guards.                                                           *)
LEMMA LogView ==
    ASSUME IInv, opened, candles # <<>>
    PROVE  /\ LastOf(candles).closed =>
                 /\ Forming = <<>> /\ file # <<>>
                 /\ LastOf(file).open = LastOf(candles).open
           /\ ~LastOf(candles).closed =>
                 /\ Forming = <<RecordOf(LastOf(candles))>>
                 /\ file # <<>> => LastOf(candles).open = LastOf(file).open + Interval
  BY TailPosition DEF IInv, TypeOK, Forming

LEMMA AppendFirstRefines ==
    ASSUME IInv, DiskMayFail = FALSE, opened,
           NEW n \in Candle, IsValidRecord(ToPriceData(n)) => OnGrid(n.open),
           AppendFirst(n)
    PROVE  Log!Stream(RecordOf(n)) \/ Log!Close(RecordOf(n))
  <1>1. /\ candles = <<>> /\ candles' = <<n>> /\ OnGrid(n.open)
        /\ file' = PersistClosed(file, n, Sound)
    BY DEF AppendFirst, WriteOutcome
  <1>2. /\ file \in Seq(Record) /\ FileChain(file) /\ file = <<>>
    BY <1>1, EmptySeq, LenProperties DEF IInv, TypeOK, Mirrors
  <1>3. Forming = <<>> /\ candles' # <<>> /\ LastOf(candles') = n
    BY <1>1 DEF Forming, LastOf
  <1>4. CASE n.closed
    <2>1. file' = Append(file, RecordOf(n)) /\ Forming' = <<>>
      BY <1>1, <1>2, <1>3, <1>4, PersistNewer DEF Forming
    <2>2. QED
      BY <1>2, <1>3, <2>1 DEF Log!Close, Log!AtEnd, Forming, RecordOf
  <1>5. CASE ~n.closed
    <2>1. file' = file /\ Forming' = <<RecordOf(n)>>
      BY <1>1, <1>3, <1>5, PersistOpen DEF Forming
    <2>2. QED
      BY <1>2, <1>3, <2>1 DEF Log!Stream, Log!AtEnd, Forming, RecordOf
  <1>6. QED
    BY <1>4, <1>5

LEMMA ReplaceTailRefines ==
    ASSUME IInv, DiskMayFail = FALSE, opened,
           NEW n \in Candle, IsValidRecord(ToPriceData(n)) => OnGrid(n.open),
           ReplaceTail(n)
    PROVE  \/ Log!Stream(RecordOf(n)) \/ Log!Close(RecordOf(n))
           \/ Log!Correct(RecordOf(n))
  <1> DEFINE tail == LastOf(candles)
  <1>1. /\ candles # <<>> /\ OnGrid(n.open) /\ n.open = tail.open
        /\ tail.closed => n.closed
        /\ candles' = ReplaceLast(candles, n)
        /\ file' = PersistClosed(file, n, Sound)
    BY DEF ReplaceTail, WriteOutcome
  <1>2. /\ candles \in Seq(Candle) /\ file \in Seq(Record) /\ FileChain(file)
        /\ Mirrors(candles, file)
    BY DEF IInv, TypeOK
  <1>3. candles' # <<>> /\ LastOf(candles') = n
    BY <1>1, <1>2, RenewTail
  <1>4. /\ n.closed => Forming' = <<>>
        /\ ~n.closed => Forming' = <<RecordOf(n)>>
    BY <1>3 DEF Forming
  <1>5. RecordOf(n).open = n.open /\ RecordOf(tail).open = tail.open
    BY DEF RecordOf
  <1>6. CASE tail.closed
    <2>1. Forming = <<>> /\ file # <<>> /\ n.open = LastOf(file).open
      BY <1>1, <1>6, LogView
    <2>2. file' = ReplaceLast(file, RecordOf(n)) /\ n.closed
      BY <1>1, <1>2, <1>6, <2>1, PersistSame
    <2>3. QED
      BY <1>4, <1>5, <2>1, <2>2
         DEF Log!Correct, Log!Newest, Forming, RecordOf, LastOf, ReplaceLast
  <1>7. CASE ~tail.closed
    <2>1. /\ Forming = <<RecordOf(tail)>>
          /\ file # <<>> => n.open = LastOf(file).open + Interval
      BY <1>1, <1>7, LogView
    <2>2. Log!AtEnd(RecordOf(n))
      BY <1>1, <1>5, <2>1 DEF Log!AtEnd, Log!Newest, Forming, RecordOf, LastOf
    <2>3. CASE n.closed
      <3>1. file # <<>> => n.open > LastOf(file).open
        <4>1. file # <<>> => LastOf(file) \in Record
          BY <1>2, LastInSeq
        <4>2. QED
          BY <2>1, <4>1, IntervalAssumption DEF Record
      <3>2. file' = Append(file, RecordOf(n))
        BY <1>1, <1>2, <2>3, <3>1, PersistNewer
      <3>3. QED
        BY <1>4, <2>2, <2>3, <3>2 DEF Log!Close, Forming, RecordOf
    <2>4. CASE ~n.closed
      <3>1. file' = file
        BY <1>1, <2>4, PersistOpen
      <3>2. QED
        BY <1>4, <2>2, <2>4, <3>1 DEF Log!Stream, Forming, RecordOf
    <2>5. QED
      BY <2>3, <2>4
  <1>8. QED
    BY <1>6, <1>7

LEMMA AppendNextRefines ==
    ASSUME IInv, DiskMayFail = FALSE, opened,
           NEW n \in Candle, IsValidRecord(ToPriceData(n)) => OnGrid(n.open),
           AppendNext(n)
    PROVE  \/ Log!Stream(RecordOf(n)) \/ Log!Close(RecordOf(n))
           \/ Log!SealThenStream(RecordOf(n)) \/ Log!SealThenClose(RecordOf(n))
  <1> DEFINE tail == LastOf(candles)
             cs == SealedSeries(candles)
             f == SealedFile(candles, file)
  <1>1. /\ candles # <<>> /\ OnGrid(n.open) /\ n.open = tail.open + Interval
        /\ candles' = Append(cs, n)
        /\ file' = PersistClosed(f, n, Sound)
    BY DEF AppendNext, WriteOutcome, Sealed, SealedSeries, SealedFile, Expected
  <1>2. /\ candles \in Seq(Candle) /\ file \in Seq(Record) /\ FileChain(file)
        /\ Mirrors(candles, file)
    BY DEF IInv, TypeOK
  <1>3. /\ cs \in Seq(Candle)
        /\ f \in Seq(Record) /\ f # <<>> /\ FileChain(f)
        /\ LastOf(f).open = tail.open
        /\ ~tail.closed => f = Append(file, RecordOf(tail))
    BY <1>1, <1>2, SealTail
  <1>4. tail.closed => f = file /\ f # <<>>
    BY <1>3 DEF SealedFile
  <1>5. n.open > LastOf(f).open
    <2>1. tail.open \in Nat
      BY <1>1, <1>2, TailPosition DEF OnGrid
    <2>2. QED
      BY <1>1, <1>3, <2>1, IntervalAssumption
  <1>6. ASSUME n.closed
        PROVE  file' = Append(f, RecordOf(n))
    BY <1>1, <1>3, <1>5, <1>6, PersistNewer
  <1>7. ~n.closed => file' = f
    BY <1>1, PersistOpen
  <1>8. candles' # <<>> /\ LastOf(candles') = n
    <2>1. /\ Append(cs, n) # <<>> /\ Len(Append(cs, n)) = Len(cs) + 1
          /\ Append(cs, n)[Len(cs) + 1] = n
      BY <1>3, AppendProperties
    <2>2. QED
      BY <1>1, <2>1 DEF LastOf
  <1>9. /\ n.closed => Forming' = <<>>
        /\ ~n.closed => Forming' = <<RecordOf(n)>>
    BY <1>8 DEF Forming
  <1>10. RecordOf(n).open = n.open /\ RecordOf(tail).open = tail.open
    BY DEF RecordOf
  <1>11. /\ tail.closed => Forming = <<>>
         /\ ~tail.closed => Forming = <<RecordOf(tail)>>
    BY <1>1, LogView
  <1> HIDE DEF tail, cs, f
  <1>12. CASE tail.closed
    <2>1. Log!AtEnd(RecordOf(n))
      BY <1>1, <1>3, <1>4, <1>10, <1>11, <1>12
         DEF Log!AtEnd, Log!Newest, Forming, RecordOf, LastOf
    <2>2. CASE n.closed
      BY <1>4, <1>6, <1>9, <1>12, <2>1, <2>2 DEF Log!Close, Forming, RecordOf
    <2>3. CASE ~n.closed
      BY <1>4, <1>7, <1>9, <1>12, <2>1, <2>3 DEF Log!Stream, Forming, RecordOf
    <2>4. QED
      BY <2>2, <2>3
  <1>13. CASE ~tail.closed
    <2>1. Log!AfterForming(RecordOf(n))
      BY <1>1, <1>10, <1>11, <1>13 DEF Log!AfterForming, Forming, RecordOf
    <2>2. f = Append(file, Forming[1])
      BY <1>3, <1>11, <1>13
    <2>3. CASE n.closed
      BY <1>6, <1>9, <2>1, <2>2, <2>3 DEF Log!SealThenClose, Forming, RecordOf
    <2>4. CASE ~n.closed
      BY <1>7, <1>9, <2>1, <2>2, <2>4 DEF Log!SealThenStream, Forming, RecordOf
    <2>5. QED
      BY <2>3, <2>4
  <1>14. QED
    BY <1>12, <1>13

LEMMA SealRefines ==
    ASSUME IInv, opened, candles # <<>>, ~LastOf(candles).closed,
           file' = SealedFile(candles, file), Forming' = <<>>
    PROVE  Log!Seal
  <1>1. /\ candles \in Seq(Candle) /\ file \in Seq(Record) /\ FileChain(file)
        /\ Mirrors(candles, file)
    BY DEF IInv, TypeOK
  <1>2. file' = Append(file, RecordOf(LastOf(candles)))
    BY <1>1, SealTail
  <1>3. Forming = <<RecordOf(LastOf(candles))>>
    BY LogView
  <1>4. QED
    BY <1>2, <1>3 DEF Log!Seal, Forming, RecordOf

(* The entries the log is instantiated with.                               *)
LEMMA NormalisedEntry ==
    ASSUME NEW c \in Submitted
    PROVE  RecordOf(NormalizeCandle(c)) \in Log!Entry
  <1>1. /\ NormalizeCandle(c).open = AlignDown(c.open, Interval)
        /\ NormalizeCandle(c).val = c.val
        /\ c.open \in Times /\ c.val \in Vals
    BY DEF NormalizeCandle, Submitted
  <1>2. QED
    BY <1>1 DEF Log!Entry, RecordOf

(* With a disk that takes its writes, the repository with its cache, its   *)
(* open tail and its file is a correct implementation of the abstract      *)
(* candle log, crashes included.                                           *)
THEOREM RefinesCandleLog ==
    ASSUME DiskMayFail = FALSE
    PROVE  Spec => ImplementsCandleLog
  <1>1. ASSUME Init
        PROVE  Log!LogInit
    BY <1>1 DEF Init, Log!LogInit
  <1>2. ASSUME IInv, [Next]_vars
        PROVE  Log!LogNext \/ UNCHANGED <<file, Forming>>
    <2>1. CASE Open
      <3>1. IInv'
        BY <1>2, Inductive
      <3>2. file' = file /\ candles = <<>> /\ opened'
        BY <1>2, <2>1, OpensSoundFile DEF Open, IInv
      <3>3. candles' = <<>> \/ LastOf(candles').closed
        <4>1. /\ file \in Seq(Record) /\ FileChain(file) /\ Len(file) \in Nat
          BY <1>2, LenProperties DEF IInv, TypeOK
        <4>2. \A i \in 1..Len(file) : file[i].open \in Nat /\ file[i].open > 0
          BY <4>1 DEF FileChain, OnGrid
        <4>3. \A i \in 1..(Len(file) - 1) : file[i].open < file[i + 1].open
          BY <4>1, <4>2, IntervalAssumption DEF FileChain
        <4>4. candles' = [i \in 1..Len(file) |-> ToCandle(file[i])]
          BY <2>1, <4>1, <4>2, <4>3, OpensSoundFile DEF LoadHistorical, InOrder, IsValidRecord
        <4>5. candles' \in Seq(Candle) /\ Len(candles') \in Nat
          BY <3>1, LenProperties DEF IInv, TypeOK
        <4>6. Len(candles') = Len(file)
          BY <4>1, <4>4
        <4>7. \A i \in 1..Len(file) : candles'[i].closed
          BY <4>4 DEF ToCandle
        <4>8. CASE Len(file) = 0
          BY <4>4, <4>8
        <4>9. CASE Len(file) > 0
          BY <4>1, <4>6, <4>7, <4>9 DEF LastOf
        <4>10. QED
          BY <4>1, <4>8, <4>9
      <3>4. Forming = <<>> /\ Forming' = <<>>
        BY <3>2, <3>3 DEF Forming
      <3>5. QED
        BY <3>2, <3>4
    <2>2. ASSUME NEW c \in Submitted, AppendOrReplace(c)
          PROVE  Log!LogNext \/ UNCHANGED <<file, Forming>>
      <3> DEFINE n == NormalizeCandle(c)
      <3>1. /\ n \in Candle /\ (IsValidRecord(ToPriceData(n)) => OnGrid(n.open))
            /\ RecordOf(n) \in Log!Entry
        BY Normalised, NormalisedEntry
      <3>2. opened
        BY <2>2 DEF AppendOrReplace
      <3>3. \/ IgnoreInvalid(n) \/ AppendFirst(n) \/ KeepClosedTail(n)
            \/ ReplaceTail(n) \/ IgnoreOlder(n) \/ ReportGap(n) \/ AppendNext(n)
        BY <2>2 DEF AppendOrReplace
      <3> HIDE DEF n
      <3>4. CASE IgnoreInvalid(n) \/ KeepClosedTail(n) \/ IgnoreOlder(n) \/ ReportGap(n)
        BY <3>4 DEF IgnoreInvalid, KeepClosedTail, IgnoreOlder, ReportGap, Forming
      <3>5. CASE AppendFirst(n)
        BY <1>2, <3>1, <3>2, <3>5, AppendFirstRefines DEF Log!LogNext
      <3>6. CASE ReplaceTail(n)
        BY <1>2, <3>1, <3>2, <3>6, ReplaceTailRefines DEF Log!LogNext
      <3>7. CASE AppendNext(n)
        BY <1>2, <3>1, <3>2, <3>7, AppendNextRefines DEF Log!LogNext
      <3>8. QED
        BY <3>3, <3>4, <3>5, <3>6, <3>7
    <2>3. CASE SealOpenTailIfAny
      <3>1. /\ opened /\ candles # <<>> /\ ~LastOf(candles).closed
            /\ candles' = ReplaceLast(candles, Sealed(LastOf(candles)))
            /\ file' = SealedFile(candles, file)
        BY <2>3 DEF SealOpenTailIfAny, WriteOutcome, Sealed, SealedFile
      <3>2. candles \in Seq(Candle) /\ Sealed(LastOf(candles)) \in Candle
        BY <1>2, <3>1, LastInSeq, SealedProperties DEF IInv, TypeOK
      <3>3. LastOf(candles') = Sealed(LastOf(candles))
        BY <3>1, <3>2, LastReplaced
      <3>4. Forming' = <<>>
        BY <3>3 DEF Forming, Sealed
      <3>5. QED
        BY <1>2, <3>1, <3>4, SealRefines DEF Log!LogNext
    <2>4. ASSUME NEW c \in Submitted, CrashBetweenWrites(c)
          PROVE  Log!LogNext
      <3>1. /\ opened /\ candles # <<>> /\ ~LastOf(candles).closed
            /\ file' = SealedFile(candles, file) /\ candles' = <<>>
        BY <2>4 DEF CrashBetweenWrites, WriteOutcome, Sealed, SealedFile, Forget
      <3>2. QED
        BY <1>2, <3>1, SealRefines DEF Log!LogNext, Forming
    <2>5. CASE Crash
      BY <2>5 DEF Crash, Forget, Forming, Log!LogNext, Log!LoseForming
    <2>6. CASE UNCHANGED vars
      BY <2>6 DEF vars, Forming
    <2>7. QED
      BY <1>2, <2>1, <2>2, <2>3, <2>4, <2>5, <2>6 DEF Next
  <1>3. IInv /\ [Next]_vars => [Log!LogNext]_(Log!logVars)
    BY <1>2 DEF Log!logVars, Forming, RecordOf
  <1>4. Spec => []IInv
    BY Inductive, PTL DEF Spec
  <1>5. QED
    BY <1>1, <1>3, <1>4, PTL DEF Spec, ImplementsCandleLog, Log!LogSpec

(***************************************************************************)
(* What is kept when the file may fail to open, for a record that is then  *)
(* not written or for a file that is then emptied: from here on nothing is *)
(* assumed of DiskMayFail.  Memory and file no longer mirror each other;   *)
(* what is left of it is that both rise and that the file is covered by    *)
(* closed candles in memory.                                               *)
(***************************************************************************)
(* Open times are on the grid and increase.  For candles and for records.  *)
Rises(s) ==
    /\ \A i \in 1..Len(s) : OnGrid(s[i].open)
    /\ \A i \in 1..(Len(s) - 1) : s[i].open < s[i + 1].open

ClosedAt(cs, t) == \E j \in 1..Len(cs) : cs[j].open = t /\ cs[j].closed

(* Every record of f has a closed candle of its open time in cs.           *)
Covers(cs, f) == \A i \in 1..Len(f) : ClosedAt(cs, f[i].open)

FaultInv ==
    /\ candles \in Seq(Candle) /\ file \in Seq(Record) /\ opened \in BOOLEAN
    /\ Rises(candles) /\ Rises(file)
    /\ opened => Covers(candles, file)
    /\ ~opened => candles = <<>>

(***************************************************************************)
(* Rising sequences                                                        *)
(***************************************************************************)
LEMMA RisesAppended ==
    ASSUME NEW S, NEW s \in Seq(S), Rises(s), NEW x \in S, OnGrid(x.open),
           s # <<>> => LastOf(s).open < x.open
    PROVE  Append(s, x) \in Seq(S) /\ Rises(Append(s, x))
  <1> DEFINE u == Append(s, x)
  <1>1. /\ u \in Seq(S) /\ Len(s) \in Nat /\ Len(u) = Len(s) + 1
        /\ \A i \in 1..Len(s) : u[i] = s[i]
        /\ u[Len(s) + 1] = x
    BY AppendProperties, LenProperties
  <1> HIDE DEF u
  <1>2. \A i \in 1..Len(u) : OnGrid(u[i].open)
    BY <1>1 DEF Rises
  <1>3. ASSUME NEW i \in 1..(Len(u) - 1)
        PROVE  u[i].open < u[i + 1].open
    <2>1. CASE i = Len(s)
      <3>1. s # <<>>
        BY <2>1, <1>3, EmptySeq
      <3>2. QED
        BY <1>1, <1>3, <2>1, <3>1 DEF LastOf
    <2>2. CASE i # Len(s)
      <3>1. i \in 1..(Len(s) - 1) /\ i \in 1..Len(s) /\ i + 1 \in 1..Len(s)
        BY <1>1, <1>3, <2>2
      <3>2. QED
        BY <1>1, <3>1 DEF Rises
    <2>3. QED
      BY <2>1, <2>2
  <1>4. QED
    BY <1>1, <1>2, <1>3 DEF Rises, u

LEMMA RisesReplaced ==
    ASSUME NEW S, NEW s \in Seq(S), Rises(s), s # <<>>, NEW x \in S,
           x.open = LastOf(s).open
    PROVE  ReplaceLast(s, x) \in Seq(S) /\ Rises(ReplaceLast(s, x))
  <1> DEFINE u == ReplaceLast(s, x)
  <1>1. /\ u \in Seq(S) /\ Len(u) = Len(s) /\ Len(s) \in Nat \ {0}
        /\ \A i \in 1..Len(s) : u[i] = IF i = Len(s) THEN x ELSE s[i]
    BY ReplaceLastProperties, LastInSeq
  <1> HIDE DEF u
  <1>2. \A i \in 1..Len(s) : u[i].open = s[i].open
    BY <1>1 DEF LastOf
  <1>3. QED
    BY <1>1, <1>2 DEF Rises, u

(***************************************************************************)
(* One write, and the opens before it                                      *)
(***************************************************************************)
(* What a record does to rising ones: g is what SaveRecord makes of f.     *)
LEMMA SaveRises ==
    ASSUME NEW f \in Seq(Record), Rises(f), NEW c \in Candle, OnGrid(c.open)
    PROVE  LET g == SaveRecord(f, ToPriceData(c))
           IN  /\ g \in Seq(Record) /\ Rises(g)
               /\ \A i \in 1..Len(g) : \/ \E k \in 1..Len(f) : g[i].open = f[k].open
                                       \/ g[i].open = c.open
  <1> DEFINE g == SaveRecord(f, ToPriceData(c))
             r == RecordOf(c)
  <1>1. /\ NormalizeRecord(ToPriceData(c)) = r /\ r \in Record
        /\ r.open = c.open /\ IsValidRecord(r)
    BY DEF NormalizeRecord, ToPriceData, RecordOf, OnGrid, Candle, Record, IsValidRecord
  <1>2. Len(f) \in Nat
    BY LenProperties
  <1>3. f # <<>> => /\ IsValidRecord(LastOf(f)) /\ LastOf(f).open \in Nat
                    /\ Len(f) \in 1..Len(f) /\ LastOf(f) = f[Len(f)]
    BY <1>2, LastInSeq DEF Rises, OnGrid, IsValidRecord
  <1>4. \/ g = f
        \/ f # <<>> /\ r.open = LastOf(f).open /\ g = ReplaceLast(f, r)
        \/ (f # <<>> => LastOf(f).open < r.open) /\ g = Append(f, r)
    BY <1>1, <1>3 DEF SaveRecord
  <1> HIDE DEF g, r
  <1>5. CASE g = f
    BY <1>2, <1>5 DEF g
  <1>6. CASE f # <<>> /\ r.open = LastOf(f).open /\ g = ReplaceLast(f, r)
    <2>1. g \in Seq(Record) /\ Rises(g)
      BY <1>1, <1>6, RisesReplaced
    <2> DEFINE u == ReplaceLast(f, r)
    <2>5. /\ Len(u) = Len(f)
          /\ \A i \in 1..Len(f) : u[i] = IF i = Len(f) THEN r ELSE f[i]
      <3>1. f # <<>> /\ r \in Record
        BY <1>1, <1>6
      <3>2. QED
        BY <3>1, ReplaceLastProperties
    <2> HIDE DEF u
    <2>2. /\ Len(g) = Len(f)
          /\ \A i \in 1..Len(f) : g[i] = IF i = Len(f) THEN r ELSE f[i]
      BY <1>6, <2>5 DEF u
    <2>3. \A i \in 1..Len(g) : (\E k \in 1..Len(f) : g[i].open = f[k].open) \/ g[i].open = c.open
      BY <1>1, <1>6, <2>2
    <2>4. QED
      BY <2>1, <2>3 DEF g
  <1>7. CASE (f # <<>> => LastOf(f).open < r.open) /\ g = Append(f, r)
    <2>1. g \in Seq(Record) /\ Rises(g)
      BY <1>1, <1>7, RisesAppended
    <2>2. /\ Len(g) = Len(f) + 1 /\ \A i \in 1..Len(f) : g[i] = f[i]
          /\ g[Len(f) + 1] = r
      BY <1>1, <1>7, AppendProperties
    <2>3. \A i \in 1..Len(g) : (\E k \in 1..Len(f) : g[i].open = f[k].open) \/ g[i].open = c.open
      BY <1>1, <1>2, <1>7, <2>2
    <2>4. QED
      BY <2>1, <2>3 DEF g
  <1>8. QED
    BY <1>4, <1>5, <1>6, <1>7

LEMMA OutcomesOfWrites == WriteOutcome \subseteq Outcome
  <1>1. Sound \in Outcome
    BY DEF Sound, Outcome
  <1>2. QED
    BY <1>1 DEF WriteOutcome

(* Emptied or not, the opened file rises and has no record it did not have.*)
LEMMA OpenedRises ==
    ASSUME NEW f \in Seq(Record), Rises(f), NEW o \in Outcome
    PROVE  /\ Opened(f, o) \in Seq(Record) /\ Rises(Opened(f, o))
           /\ \A i \in 1..Len(Opened(f, o)) :
                 i \in 1..Len(f) /\ Opened(f, o)[i] = f[i]
  <1>1. CASE o.emptied
    <2>1. Opened(f, o) = <<>> /\ Len(<<>>) = 0 /\ <<>> \in Seq(Record)
      BY <1>1, EmptySeq DEF Opened
    <2>2. QED
      BY <2>1 DEF Rises
  <1>2. CASE ~o.emptied
    BY <1>2 DEF Opened
  <1>3. QED
    BY <1>1, <1>2

(* The file after a write, whatever became of it.                          *)
LEMMA PersistRises ==
    ASSUME NEW f \in Seq(Record), Rises(f), NEW c \in Candle, OnGrid(c.open),
           NEW o \in Outcome
    PROVE  /\ PersistClosed(f, c, o) \in Seq(Record)
           /\ Rises(PersistClosed(f, c, o))
           /\ \A i \in 1..Len(PersistClosed(f, c, o)) :
                 \/ \E k \in 1..Len(f) : PersistClosed(f, c, o)[i].open = f[k].open
                 \/ c.closed /\ PersistClosed(f, c, o)[i].open = c.open
  <1> DEFINE g == PersistClosed(f, c, o)
             b == Opened(f, o)
             w == SaveRecord(b, ToPriceData(c))
  <1>1. /\ b \in Seq(Record) /\ Rises(b)
        /\ \A i \in 1..Len(b) : i \in 1..Len(f) /\ b[i] = f[i]
    BY OpenedRises
  <1>2. \/ g = f
        \/ g = b
        \/ c.closed /\ g = w
    BY DEF PersistClosed, Saved
  <1> HIDE DEF g, b
  <1>3. /\ w \in Seq(Record) /\ Rises(w)
        /\ \A i \in 1..Len(w) : (\E k \in 1..Len(b) : w[i].open = b[k].open) \/ w[i].open = c.open
    BY <1>1, SaveRises
  <1> HIDE DEF w
  <1>4. CASE g = f
    BY <1>4 DEF g
  <1>5. CASE g = b
    BY <1>1, <1>5 DEF g
  <1>6. CASE c.closed /\ g = w
    <2>1. \A i \in 1..Len(w) : (\E k \in 1..Len(f) : w[i].open = f[k].open) \/ w[i].open = c.open
      BY <1>1, <1>3
    <2>2. QED
      BY <1>3, <1>6, <2>1 DEF g
  <1>7. QED
    BY <1>2, <1>4, <1>5, <1>6

(* A write of a candle that memory holds closed leaves the file covered.   *)
LEMMA PersistCovered ==
    ASSUME NEW f \in Seq(Record), Rises(f), NEW c \in Candle, OnGrid(c.open),
           NEW o \in Outcome, NEW cs, Covers(cs, f),
           c.closed => ClosedAt(cs, c.open)
    PROVE  Covers(cs, PersistClosed(f, c, o))
  <1> DEFINE g == PersistClosed(f, c, o)
  <1>1. \A i \in 1..Len(g) : \/ \E k \in 1..Len(f) : g[i].open = f[k].open
                             \/ c.closed /\ g[i].open = c.open
    BY PersistRises
  <1> HIDE DEF g
  <1>2. QED
    BY <1>1 DEF Covers, g

(***************************************************************************)
(* The series keeps what it holds closed                                   *)
(***************************************************************************)
LEMMA KeepsAppended ==
    ASSUME NEW cs \in Seq(Candle), NEW c \in Candle
    PROVE  /\ \A t : ClosedAt(cs, t) => ClosedAt(Append(cs, c), t)
           /\ c.closed => ClosedAt(Append(cs, c), c.open)
  <1> DEFINE u == Append(cs, c)
  <1>1. /\ Len(cs) \in Nat /\ Len(u) = Len(cs) + 1
        /\ \A i \in 1..Len(cs) : u[i] = cs[i]
        /\ u[Len(cs) + 1] = c
    BY AppendProperties, LenProperties
  <1> HIDE DEF u
  <1>2. \A i \in 1..Len(cs) : i \in 1..Len(u)
    BY <1>1
  <1>3. Len(cs) + 1 \in 1..Len(u)
    BY <1>1
  <1>4. QED
    BY <1>1, <1>2, <1>3 DEF ClosedAt, u

LEMMA KeepsReplaced ==
    ASSUME NEW cs \in Seq(Candle), cs # <<>>, NEW c \in Candle,
           c.open = LastOf(cs).open, LastOf(cs).closed => c.closed
    PROVE  /\ \A t : ClosedAt(cs, t) => ClosedAt(ReplaceLast(cs, c), t)
           /\ c.closed => ClosedAt(ReplaceLast(cs, c), c.open)
  <1> DEFINE u == ReplaceLast(cs, c)
  <1>1. /\ Len(u) = Len(cs) /\ Len(cs) \in Nat \ {0}
        /\ \A i \in 1..Len(cs) : u[i] = IF i = Len(cs) THEN c ELSE cs[i]
    BY ReplaceLastProperties, LastInSeq
  <1> HIDE DEF u
  <1>2. Len(cs) \in 1..Len(u) /\ u[Len(cs)] = c
    BY <1>1
  <1>3. \A i \in 1..Len(cs) : cs[i].closed => u[i].closed /\ u[i].open = cs[i].open
    BY <1>1 DEF LastOf
  <1>4. QED
    BY <1>1, <1>2, <1>3 DEF ClosedAt, u

LEMMA CoversKept ==
    ASSUME NEW cs, NEW ds, NEW f, Covers(cs, f), \A t : ClosedAt(cs, t) => ClosedAt(ds, t)
    PROVE  Covers(ds, f)
  BY DEF Covers

(* The tail of a rising series, sealed or not.                             *)
LEMMA RisingTail ==
    ASSUME NEW cs \in Seq(Candle), Rises(cs), cs # <<>>
    PROVE  /\ LastOf(cs) \in Candle /\ OnGrid(LastOf(cs).open) /\ LastOf(cs).open \in Nat
           /\ Len(cs) \in 1..Len(cs) /\ LastOf(cs) = cs[Len(cs)]
           /\ Sealed(LastOf(cs)) \in Candle /\ Sealed(LastOf(cs)).closed
           /\ Sealed(LastOf(cs)).open = LastOf(cs).open
  <1>1. LastOf(cs) \in Candle /\ Len(cs) \in 1..Len(cs) /\ LastOf(cs) = cs[Len(cs)]
    BY LastInSeq
  <1>2. OnGrid(LastOf(cs).open)
    BY <1>1 DEF Rises
  <1>3. QED
    BY <1>1, <1>2, SealedProperties DEF OnGrid

(* Sealing the tail, and writing it whether or not that succeeds.          *)
LEMMA SealRises ==
    ASSUME FaultInv, opened, candles # <<>>, NEW o \in Outcome
    PROVE  /\ SealedSeries(candles) \in Seq(Candle) /\ SealedSeries(candles) # <<>>
           /\ Rises(SealedSeries(candles))
           /\ LastOf(SealedSeries(candles)).open = LastOf(candles).open
           /\ LET g == PersistClosed(file, Sealed(LastOf(candles)), o)
              IN  g \in Seq(Record) /\ Rises(g) /\ Covers(SealedSeries(candles), g)
           /\ Covers(SealedSeries(candles), file)
  <1> DEFINE tail == LastOf(candles)
             cs == SealedSeries(candles)
             g == PersistClosed(file, Sealed(tail), o)
  <1>1. /\ candles \in Seq(Candle) /\ file \in Seq(Record) /\ Rises(candles)
        /\ Rises(file) /\ Covers(candles, file)
    BY DEF FaultInv
  <1>2. /\ tail \in Candle /\ OnGrid(tail.open) /\ Sealed(tail) \in Candle
        /\ Sealed(tail).closed /\ Sealed(tail).open = tail.open
    BY <1>1, RisingTail
  <1>3. cs = ReplaceLast(candles, Sealed(tail))
    BY DEF SealedSeries
  <1> HIDE DEF tail, cs, g
  <1>4. cs \in Seq(Candle) /\ Rises(cs) /\ cs # <<>> /\ LastOf(cs) = Sealed(tail)
    BY <1>1, <1>2, <1>3, RisesReplaced, ReplaceLastProperties, LastReplaced DEF tail
  <1>5. /\ \A t : ClosedAt(candles, t) => ClosedAt(cs, t)
        /\ ClosedAt(cs, tail.open)
    BY <1>1, <1>2, <1>3, KeepsReplaced DEF tail
  <1>6. Covers(cs, file)
    BY <1>1, <1>5, CoversKept
  <1>7. g \in Seq(Record) /\ Rises(g)
    BY <1>1, <1>2, PersistRises DEF g
  <1>8. Covers(cs, g)
    BY <1>1, <1>2, <1>5, <1>6, PersistCovered DEF g
  <1>9. QED
    BY <1>2, <1>4, <1>6, <1>7, <1>8 DEF tail, cs, g

(***************************************************************************)
(* The steps                                                               *)
(***************************************************************************)
LEMMA AppendFirstFault ==
    ASSUME FaultInv, opened, UNCHANGED opened, NEW n \in Candle, OnGrid(n.open),
           AppendFirst(n)
    PROVE  FaultInv'
  <1>1. /\ candles = <<>> /\ candles' = <<n>> /\ file \in Seq(Record)
        /\ Rises(file) /\ Covers(candles, file)
    BY DEF AppendFirst, FaultInv
  <1>2. PICK o \in Outcome : file' = PersistClosed(file, n, o)
    BY DEF AppendFirst, WriteOutcome, Outcome, Sound
  <1>3. Append(candles, n) = <<n>> /\ candles \in Seq(Candle)
    BY <1>1, EmptySeq
  <1>4. /\ candles' \in Seq(Candle) /\ Len(candles') = 1 /\ candles'[1] = n
    BY <1>1
  <1>5. Rises(candles')
    BY <1>4 DEF Rises
  <1>6. /\ \A t : ClosedAt(candles, t) => ClosedAt(candles', t)
        /\ n.closed => ClosedAt(candles', n.open)
    BY <1>1, <1>4, EmptySeq DEF ClosedAt
  <1>7. Covers(candles', file)
    BY <1>1, <1>6, CoversKept
  <1>8. file' \in Seq(Record) /\ Rises(file')
    BY <1>1, <1>2, PersistRises
  <1>9. Covers(candles', file')
    BY <1>1, <1>2, <1>6, <1>7, PersistCovered
  <1>10. QED
    BY <1>4, <1>5, <1>8, <1>9 DEF FaultInv

LEMMA ReplaceTailFault ==
    ASSUME FaultInv, opened, UNCHANGED opened, NEW n \in Candle, OnGrid(n.open),
           ReplaceTail(n)
    PROVE  FaultInv'
  <1>1. /\ candles \in Seq(Candle) /\ Rises(candles) /\ file \in Seq(Record)
        /\ Rises(file) /\ Covers(candles, file)
        /\ candles # <<>> /\ n.open = LastOf(candles).open
        /\ LastOf(candles).closed => n.closed
        /\ candles' = ReplaceLast(candles, n)
    BY DEF ReplaceTail, FaultInv
  <1>2. PICK o \in Outcome : file' = PersistClosed(file, n, o)
    BY DEF ReplaceTail, WriteOutcome, Outcome, Sound
  <1>3. candles' \in Seq(Candle) /\ Rises(candles')
    BY <1>1, RisesReplaced
  <1>4. /\ \A t : ClosedAt(candles, t) => ClosedAt(candles', t)
        /\ n.closed => ClosedAt(candles', n.open)
    BY <1>1, KeepsReplaced
  <1>5. Covers(candles', file)
    BY <1>1, <1>4, CoversKept
  <1>6. file' \in Seq(Record) /\ Rises(file')
    BY <1>1, <1>2, PersistRises
  <1>7. Covers(candles', file')
    BY <1>1, <1>2, <1>4, <1>5, PersistCovered
  <1>8. QED
    BY <1>3, <1>6, <1>7 DEF FaultInv

LEMMA AppendNextFault ==
    ASSUME FaultInv, opened, UNCHANGED opened, NEW n \in Candle, OnGrid(n.open),
           AppendNext(n)
    PROVE  FaultInv'
  <1> DEFINE tail == LastOf(candles)
             cs == SealedSeries(candles)
  <1>1. /\ candles \in Seq(Candle) /\ Rises(candles) /\ file \in Seq(Record)
        /\ Rises(file) /\ candles # <<>> /\ n.open = tail.open + Interval
        /\ candles' = Append(cs, n)
    BY DEF AppendNext, Expected, FaultInv, SealedSeries, Sealed
  <1>2. PICK o1 \in WriteOutcome, o2 \in WriteOutcome :
            file' = PersistClosed(
                       IF tail.closed THEN file ELSE PersistClosed(file, Sealed(tail), o1),
                       n, o2)
    BY DEF AppendNext, Sealed
  <1>a. o1 \in Outcome /\ o2 \in Outcome
    BY OutcomesOfWrites
  <1> DEFINE g == IF tail.closed THEN file ELSE PersistClosed(file, Sealed(tail), o1)
  <1>3. tail.open \in Nat
    BY <1>1, RisingTail
  <1> HIDE DEF tail, cs
  <1>4. /\ cs \in Seq(Candle) /\ cs # <<>> /\ Rises(cs) /\ LastOf(cs).open = tail.open
        /\ g \in Seq(Record) /\ Rises(g) /\ Covers(cs, g)
    BY <1>1, <1>a, SealRises DEF cs, tail
  <1> HIDE DEF g
  <1>5. candles' \in Seq(Candle) /\ Rises(candles')
    BY <1>1, <1>3, <1>4, IntervalAssumption, RisesAppended
  <1>6. /\ \A t : ClosedAt(cs, t) => ClosedAt(candles', t)
        /\ n.closed => ClosedAt(candles', n.open)
    BY <1>1, <1>4, KeepsAppended
  <1>7. Covers(candles', g)
    BY <1>4, <1>6, CoversKept
  <1>8. file' = PersistClosed(g, n, o2)
    BY <1>2 DEF g
  <1>9. file' \in Seq(Record) /\ Rises(file') /\ Covers(candles', file')
    BY <1>a, <1>1, <1>4, <1>6, <1>7, <1>8, PersistRises, PersistCovered
  <1>10. QED
    BY <1>5, <1>9 DEF FaultInv

LEMMA AppendFault ==
    ASSUME FaultInv, NEW c \in Candle, AppendOrReplace(c)
    PROVE  FaultInv'
  <1> DEFINE n == NormalizeCandle(c)
  <1>1. n \in Candle /\ (IsValidRecord(ToPriceData(n)) => OnGrid(n.open))
    BY NormalisedCandle
  <1>2. opened /\ UNCHANGED opened
    BY DEF AppendOrReplace
  <1>3. \/ IgnoreInvalid(n) \/ AppendFirst(n) \/ KeepClosedTail(n)
        \/ ReplaceTail(n) \/ IgnoreOlder(n) \/ ReportGap(n) \/ AppendNext(n)
    BY DEF AppendOrReplace
  <1> HIDE DEF n
  <1>4. CASE \/ IgnoreInvalid(n) \/ KeepClosedTail(n)
             \/ IgnoreOlder(n) \/ ReportGap(n)
    <2>1. UNCHANGED <<candles, file, opened>>
      BY <1>2, <1>4 DEF IgnoreInvalid, KeepClosedTail, IgnoreOlder, ReportGap
    <2>2. QED
      BY <2>1 DEF FaultInv, Rises, Covers, ClosedAt
  <1>5. CASE AppendFirst(n)
    BY <1>1, <1>2, <1>5, AppendFirstFault DEF AppendFirst
  <1>6. CASE ReplaceTail(n)
    BY <1>1, <1>2, <1>6, ReplaceTailFault DEF ReplaceTail
  <1>7. CASE AppendNext(n)
    BY <1>1, <1>2, <1>7, AppendNextFault DEF AppendNext
  <1>8. QED
    BY <1>3, <1>4, <1>5, <1>6, <1>7

LEMMA SealFault ==
    ASSUME FaultInv, SealOpenTailIfAny
    PROVE  FaultInv'
  <1>1. /\ opened /\ UNCHANGED opened /\ candles # <<>>
        /\ candles' = SealedSeries(candles)
    BY DEF SealOpenTailIfAny, SealedSeries, Sealed
  <1>2. PICK o \in Outcome : file' = PersistClosed(file, Sealed(LastOf(candles)), o)
    BY DEF SealOpenTailIfAny, WriteOutcome, Outcome, Sound, Sealed
  <1>3. /\ candles' \in Seq(Candle) /\ Rises(candles')
        /\ file' \in Seq(Record) /\ Rises(file') /\ Covers(candles', file')
    BY <1>1, <1>2, SealRises
  <1>4. QED
    BY <1>1, <1>3 DEF FaultInv

(* What is loaded is the file, as opened, as closed candles.               *)
LEMMA OpenFault ==
    ASSUME FaultInv, Open
    PROVE  FaultInv'
  <1> DEFINE f == file'
  <1>0. PICK o \in Outcome : f = Opened(file, o)
    BY DEF Open, WriteOutcome, Outcome, Sound
  <1>1. /\ f \in Seq(Record) /\ Rises(f) /\ Len(f) \in Nat
        /\ \A i \in 1..Len(f) : f[i] \in Record /\ OnGrid(f[i].open)
    <2>1. f \in Seq(Record) /\ Rises(f)
      BY <1>0, OpenedRises DEF FaultInv
    <2>2. QED
      BY <2>1, LenProperties, ElementOfSeq DEF Rises
  <1>a. candles' = LoadHistorical(f) /\ opened' = TRUE
    BY DEF Open
  <1> HIDE DEF f
  <1>2. InOrder(f)
    BY <1>1 DEF InOrder, IsValidRecord, OnGrid, Rises
  <1>3. candles' = [i \in 1..Len(f) |-> ToCandle(f[i])]
    BY <1>a, <1>1, <1>2 DEF LoadHistorical
  <1>4. \A i \in 1..Len(f) : /\ ToCandle(f[i]) \in Candle
                             /\ ToCandle(f[i]).closed
                             /\ ToCandle(f[i]).open = f[i].open
    BY <1>1 DEF ToCandle, Candle, Record, OnGrid
  <1>5. /\ candles' \in Seq(Candle) /\ Len(candles') = Len(f)
        /\ \A i \in 1..Len(f) : candles'[i] = ToCandle(f[i])
    BY <1>1, <1>3, <1>4
  <1>6. \A i \in 1..Len(f) : candles'[i].open = f[i].open /\ candles'[i].closed
    BY <1>4, <1>5
  <1>7. Covers(candles', f)
    BY <1>1, <1>5, <1>6 DEF Covers, ClosedAt
  <1>8. ASSUME NEW i \in 1..(Len(f) - 1)
        PROVE  candles'[i].open < candles'[i + 1].open
    <2>1. i \in 1..Len(f) /\ i + 1 \in 1..Len(f)
      BY <1>1
    <2>2. QED
      BY <1>1, <1>6, <2>1 DEF Rises
  <1>9. Rises(candles')
    BY <1>1, <1>5, <1>6, <1>8 DEF Rises
  <1>10. QED
    BY <1>a, <1>1, <1>5, <1>7, <1>9 DEF FaultInv, f

LEMMA ForgetFault ==
    ASSUME Forget, file' \in Seq(Record), Rises(file')
    PROVE  FaultInv'
  <1>1. candles' = <<>> /\ candles' \in Seq(Candle) /\ Len(candles') = 0
    BY EmptySeq DEF Forget
  <1>2. Rises(candles')
    BY <1>1 DEF Rises
  <1>3. QED
    BY <1>1, <1>2 DEF Forget, FaultInv

(* Wherever the process dies.                                              *)
LEMMA CrashFault ==
    ASSUME FaultInv, Crash \/ \E c : CrashBetweenWrites(c)
    PROVE  FaultInv'
  <1>1. CASE Crash
    <2>1. Forget /\ file' \in Seq(Record) /\ Rises(file')
      BY <1>1 DEF Crash, FaultInv, Rises
    <2>2. QED
      BY <2>1, ForgetFault
  <1>2. ASSUME NEW c, CrashBetweenWrites(c)
        PROVE  FaultInv'
    <2>1. opened /\ candles # <<>> /\ Forget
      BY <1>2 DEF CrashBetweenWrites
    <2>2. PICK o \in Outcome : file' = PersistClosed(file, Sealed(LastOf(candles)), o)
      BY <1>2 DEF CrashBetweenWrites, WriteOutcome, Outcome, Sound, Sealed
    <2>3. file' \in Seq(Record) /\ Rises(file')
      BY <2>1, <2>2, SealRises
    <2>4. QED
      BY <2>1, <2>3, ForgetFault
  <1>3. QED
    BY <1>1, <1>2

LEMMA FaultStarts ==
    ASSUME Init
    PROVE  FaultInv
  <1>1. /\ candles \in Seq(Candle) /\ file \in Seq(Record)
        /\ Len(candles) = 0 /\ Len(file) = 0
    BY EmptySeq DEF Init
  <1>2. Rises(candles) /\ Rises(file)
    BY <1>1 DEF Rises
  <1>3. QED
    BY <1>1, <1>2 DEF Init, FaultInv

(* The invariant holds whichever opens fail or empty the file, and         *)
(* wherever the process dies.                                              *)
THEOREM FaultInductive ==
    Spec => []FaultInv
  <1>1. Init => FaultInv
    BY FaultStarts
  <1>2. ASSUME FaultInv, [Next]_vars
        PROVE  FaultInv'
    <2>1. CASE Open
      BY <1>2, <2>1, OpenFault
    <2>2. ASSUME NEW c \in Submitted, AppendOrReplace(c)
          PROVE  FaultInv'
      BY <1>2, <2>2, AppendFault, InputAssumption DEF Submitted, Candle
    <2>3. CASE SealOpenTailIfAny
      BY <1>2, <2>3, SealFault
    <2>4. ASSUME NEW c \in Submitted, CrashBetweenWrites(c)
          PROVE  FaultInv'
      BY <1>2, <2>4, CrashFault
    <2>5. CASE Crash
      BY <1>2, <2>5, CrashFault
    <2>6. CASE UNCHANGED vars
      BY <1>2, <2>6 DEF vars, FaultInv, Rises, Covers, ClosedAt
    <2>7. QED
      BY <1>2, <2>1, <2>2, <2>3, <2>4, <2>5, <2>6 DEF Next
  <1>3. QED
    BY <1>1, <1>2, PTL DEF Spec

(* No candle is ever shown twice or out of order, whichever updates of the *)
(* file fail or empty it, and wherever the process dies.                   *)
THEOREM OrderSurvivesFaults == Spec => []StrictlyIncreasing
  <1>1. FaultInv => StrictlyIncreasing
    BY DEF FaultInv, Rises, StrictlyIncreasing
  <1>2. QED
    BY <1>1, FaultInductive, PTL

(* Whichever updates fail or empty the file, the disk is never ahead of    *)
(* the closed candles in memory, nor off their open times.                 *)
THEOREM DiskStaysWithinMemory == Spec => []DiskWithinMemory
  <1>1. FaultInv => DiskWithinMemory
    BY DEF FaultInv, Covers, ClosedAt, DiskWithinMemory
  <1>2. QED
    BY <1>1, FaultInductive, PTL
=============================================================================
