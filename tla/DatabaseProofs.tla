---------------------------- MODULE DatabaseProofs ----------------------------
(***************************************************************************)
(* Proofs about DatabaseFeed for every exchange, cache size, page limit    *)
(* and file minute.                                                        *)
(***************************************************************************)
EXTENDS DatabaseFeed, NumberSets, SequenceTheorems

(***************************************************************************)
(* Sets of records with one record for each open time                      *)
(***************************************************************************)
(* Klines are Raw; what the engine keeps has been normalized.              *)
Raw == [open : 0..MaxNow, val : 0..2]
Times == {t \in 0..MaxNow : (t \div Minute) * Minute = t}
Rec == [open : Times, val : 0..2]
Distinct(rs) == \A r, s \in rs : r.open = s.open => r = s
Known(rs) == rs \subseteq Rec /\ IsFiniteSet(rs) /\ Distinct(rs)

(* InOrder is what the code's sorting by open time returns.                *)
LEMMA InOrderSorts ==
    ASSUME NEW S, S \subseteq Raw, NEW rs, rs \subseteq S, IsFiniteSet(rs), Distinct(rs)
    PROVE  /\ InOrder(rs) \in Seq(S)
           /\ OpensOf(InOrder(rs)) = Opens(rs)
  <1> DEFINE key == [r \in rs |-> r.open]
             n == Cardinality(rs)
  <1>1. rs \subseteq Raw /\ n \in Nat
    BY FS_CardinalityType
  <1>2. key \in [rs -> Int] /\ \A a, b \in rs : key[a] = key[b] => a = b
    BY <1>1 DEF Distinct, Raw
  <1>3. ASSUME NEW r \in rs
        PROVE  UpTo(rs, key, r) = {s \in rs : s.open <= r.open}
    BY DEF UpTo
  <1> HIDE DEF key
  <1>4. \A i \in 1..n : \E r \in rs : Cardinality({s \in rs : s.open <= r.open}) = i
    <2>1. \A i \in 1..n : \E r \in rs : Cardinality(UpTo(rs, key, r)) = i
      BY <1>1, <1>2, RankOnto
    <2>2. QED
      BY <1>3, <2>1
  <1>5. /\ InOrder(rs) \in [1..n -> rs]
        /\ \A i \in 1..n : LET r == InOrder(rs)[i]
                           IN  Cardinality({s \in rs : s.open <= r.open}) = i
    BY <1>4 DEF InOrder
  <1>6. InOrder(rs) \in [1..n -> S]
    BY <1>5
  <1>7. InOrder(rs) \in Seq(S) /\ Len(InOrder(rs)) = n
    BY <1>1, <1>6
  <1>8. ASSUME NEW r \in rs PROVE \E i \in 1..n : InOrder(rs)[i] = r
    <2> DEFINE i == Cardinality(UpTo(rs, key, r))
    <2>1. r \in UpTo(rs, key, r) /\ i # 0 /\ i \in Nat /\ i <= n
      <3>1. r \in UpTo(rs, key, r)
        BY <1>3, <1>1 DEF Raw
      <3>2. QED
        BY <1>1, <3>1, UpToFinite, FS_EmptySet
    <2>2. i \in 1..n
      BY <1>1, <2>1
    <2>3. Cardinality(UpTo(rs, key, InOrder(rs)[i])) = i /\ InOrder(rs)[i] \in rs
      BY <1>3, <1>5, <2>2
    <2> DEFINE q == InOrder(rs)[i]
    <2>4. ~(key[q] < key[r]) /\ ~(key[r] < key[q])
      BY <1>1, <1>2, <2>3, RankStrict
    <2>5. key[q] = key[r]
      BY <1>2, <2>3, <2>4
    <2>6. QED
      BY <1>2, <2>2, <2>3, <2>5
  <1>9. QED
    BY <1>5, <1>7, <1>8 DEF OpensOf, Opens

Newer(seq) == \A i, j \in 1..Len(seq) : i < j => seq[i].open > seq[j].open

(* NewestRecords takes the newest candles of the map, newest first, and no *)
(* more than the ring holds.                                               *)
LEMMA NewestRecordsSorted ==
    ASSUME NEW h, Known(h)
    PROVE  /\ NewestRecords(h) \in Seq(Rec)
           /\ Len(NewestRecords(h)) <= CacheSize
           /\ \A i \in 1..Len(NewestRecords(h)) : NewestRecords(h)[i] \in h
           /\ Newer(NewestRecords(h))
           /\ h # {} => NewestRecords(h) # <<>>
  <1> DEFINE key == [r \in h |-> -r.open]
             n == Min({CacheSize, Cardinality(h)})
             new == NewestRecords(h)
  <1>1. h \subseteq Rec /\ IsFiniteSet(h) /\ Cardinality(h) \in Nat
    BY FS_CardinalityType DEF Known
  <1>2. n \in Nat /\ n <= CacheSize /\ n <= Cardinality(h)
    BY <1>1, EngineAssumption, MinIsSmallest
  <1>3. key \in [h -> Int] /\ \A a, b \in h : key[a] = key[b] => a = b
    BY DEF Known, Distinct, Rec, Times
  <1>4. ASSUME NEW r \in h
        PROVE  UpTo(h, key, r) = {s \in h : s.open >= r.open}
    BY <1>1 DEF UpTo, Rec, Times
  <1> HIDE DEF key, n
  <1>5. \A i \in 1..n : \E r \in h : Cardinality({s \in h : s.open >= r.open}) = i
    <2>1. \A i \in 1..n : i \in 1..Cardinality(h)
      BY <1>1, <1>2
    <2>2. \A i \in 1..Cardinality(h) : \E r \in h : Cardinality(UpTo(h, key, r)) = i
      BY <1>1, <1>3, RankOnto
    <2>3. QED
      BY <1>4, <2>1, <2>2
  <1>6. /\ new \in [1..n -> h]
        /\ \A i \in 1..n : Cardinality({s \in h : s.open >= new[i].open}) = i
    BY <1>5 DEF NewestRecords, n
  <1> HIDE DEF new
  <1>7. new \in Seq(Rec) /\ Len(new) = n
    BY <1>1, <1>2, <1>6
  <1>8. ASSUME NEW i \in 1..n, NEW j \in 1..n, i < j
        PROVE  new[i].open > new[j].open
    <2>1. new[i] \in h /\ new[j] \in h
      BY <1>6
    <2>2. ~(key[new[j]] <= key[new[i]])
      BY <1>1, <1>3, <1>4, <1>6, <1>8, <2>1, RankMonotone
    <2>3. QED
      BY <1>1, <1>3, <2>1, <2>2 DEF key, Rec, Times
  <1>9. ASSUME h # {} PROVE Len(new) # 0
    <2>1. Cardinality(h) # 0
      BY <1>1, <1>9, FS_EmptySet
    <2>2. n \in {CacheSize, Cardinality(h)}
      BY <1>1, EngineAssumption, MinIsSmallest DEF n
    <2>3. QED
      BY <1>7, <2>1, <2>2, EngineAssumption
  <1>10. QED
    BY <1>2, <1>6, <1>7, <1>8, <1>9 DEF Newer, new

LEMMA FloorBelow ==
    ASSUME NEW t \in Nat, NEW m \in Nat \ {0}
    PROVE  (t \div m) * m \in Nat /\ (t \div m) * m <= t
  <1>1. t \div m \in Nat /\ m * (t \div m) <= t
    BY SMT
  <1>2. QED
    BY <1>1, SMT

LEMMA FloorTwice ==
    ASSUME NEW t \in Nat, NEW m \in Nat \ {0}
    PROVE  (((t \div m) * m) \div m) * m = (t \div m) * m
  <1> DEFINE q == t \div m
  <1>1. q \in Nat
    BY SMT
  <1> HIDE DEF q
  <1>2. (q * m) \div m = q
    BY <1>1, SMT
  <1>3. QED
    BY <1>2 DEF q

LEMMA NormalizeRec ==
    ASSUME NEW r \in Raw
    PROVE  Normalize(r) \in Rec
  <1> DEFINE t == (r.open \div Minute) * Minute
  <1>1. t \in Nat /\ t <= r.open
    BY FloorBelow, MinuteAssumption DEF Raw
  <1>2. t \in 0..MaxNow
    BY <1>1, FeedAssumption DEF Raw
  <1>3. (t \div Minute) * Minute = t
    BY FloorTwice, MinuteAssumption DEF Raw
  <1>4. Normalize(r) = [r EXCEPT !.open = t]
    BY DEF Normalize
  <1> HIDE DEF t
  <1>5. QED
    BY <1>2, <1>3, <1>4 DEF Raw, Rec, Times

(* What is normalized stays as it is.                                      *)
LEMMA NormalizeSame ==
    ASSUME NEW r \in Rec
    PROVE  r \in Raw /\ Normalize(r) = r
  BY DEF Raw, Rec, Times, Normalize

LEMMA RecSeqIsRaw ==
    ASSUME NEW s \in Seq(Rec)
    PROVE  s \in Seq(Raw)
  <1>1. Rec \subseteq Raw
    BY NormalizeSame
  <1>2. QED
    BY <1>1

(* normalizeRecords: what it returns has valid records, one for each open  *)
(* time, among them the last record given, if that is valid.               *)
LEMMA NormalizeRecordsKnown ==
    ASSUME NEW seq \in Seq(Raw)
    PROVE  /\ Known(NormalizeRecords(seq))
           /\ \A r \in NormalizeRecords(seq) : r.open > 0
           /\ seq # <<>> /\ IsValid(Normalize(seq[Len(seq)])) =>
                  Normalize(seq[Len(seq)]) \in NormalizeRecords(seq)
  <1> DEFINE n == [i \in 1..Len(seq) |-> Normalize(seq[i])]
             I == {k \in 1..Len(seq) : /\ IsValid(n[k])
                                       /\ \A j \in k + 1 .. Len(seq) : n[j].open # n[k].open}
  <1>1. Len(seq) \in Nat /\ \A i \in 1..Len(seq) : n[i] = Normalize(seq[i]) /\ n[i] \in Rec
    BY NormalizeRec
  <1>2. NormalizeRecords(seq) = {n[i] : i \in I}
    <2>1. Len(n) = Len(seq)
      BY <1>1
    <2> DEFINE T == {n[i] : i \in I}
    <2>2. \A r : r \in NormalizeRecords(seq) <=> r \in T
      BY <2>1 DEF NormalizeRecords
    <2> HIDE DEF T
    <2>3. NormalizeRecords(seq) = T
      BY <2>2
    <2>4. QED
      BY <2>3 DEF T
  <1>3. I \in SUBSET (1..Len(seq))
    OBVIOUS
  <1> DEFINE f == [i \in I |-> n[i]]
  <1>4. IsFiniteSet({n[i] : i \in I})
    <2>1. IsFiniteSet(I)
      <3>1. IsFiniteSet(1..Len(seq))
        BY <1>1, FS_Interval
      <3> HIDE DEF I
      <3>2. QED
        BY <1>3, <3>1, FS_Subset
    <2>2. {n[i] : i \in I} = {f[i] : i \in I} /\ DOMAIN f = I
      OBVIOUS
    <2> HIDE DEF f, I, n
    <2>3. IsFiniteSet({f[i] : i \in I})
      BY <2>1, <2>2, ImageFinite
    <2>4. QED
      BY <2>2, <2>3
  <1>5. ASSUME NEW i \in I, NEW k \in I, n[i].open = n[k].open
        PROVE  n[i] = n[k]
    <2>1. i \in 1..Len(seq) /\ k \in 1..Len(seq)
      BY <1>3
    <2>2. ASSUME i < k PROVE FALSE
      <3>1. k \in i + 1 .. Len(seq)
        BY <1>1, <2>1, <2>2
      <3>2. QED
        BY <1>5, <3>1
    <2>3. ASSUME k < i PROVE FALSE
      <3>1. i \in k + 1 .. Len(seq)
        BY <1>1, <2>1, <2>3
      <3>2. QED
        BY <1>5, <3>1
    <2>4. i = k
      BY <1>1, <2>1, <2>2, <2>3
    <2>5. QED
      BY <2>4
  <1>6. Known(NormalizeRecords(seq))
    <2>1. {n[i] : i \in I} \subseteq Rec
      BY <1>1, <1>3
    <2> HIDE DEF n, I
    <2>2. Distinct({n[i] : i \in I})
      BY <1>5 DEF Distinct
    <2>3. QED
      BY <1>2, <1>4, <2>1, <2>2 DEF Known
  <1>7. \A r \in NormalizeRecords(seq) : r.open > 0
    BY <1>2 DEF IsValid
  <1>8. ASSUME seq # <<>>, IsValid(Normalize(seq[Len(seq)]))
        PROVE  Normalize(seq[Len(seq)]) \in NormalizeRecords(seq)
    <2>1. Len(seq) \in 1..Len(seq) /\ n[Len(seq)] = Normalize(seq[Len(seq)])
      BY <1>1, <1>8, EmptySeq
    <2>2. Len(seq) \in I
      BY <1>1, <1>8, <2>1
    <2>3. QED
      BY <1>2, <2>1, <2>2
  <1>9. QED
    BY <1>6, <1>7, <1>8

(* What the file holds is normalized and valid.                            *)
Filed(f) == f \in Seq(Rec) /\ \A i \in 1..Len(f) : f[i].open > 0

LEMMA OpenedFiled ==
    ASSUME NEW f, Filed(f), NEW o \in Outcome
    PROVE  /\ Filed(Opened(f, o)) /\ OpensOf(Opened(f, o)) \subseteq OpensOf(f)
           /\ ~o.emptied => Opened(f, o) = f
  <1>1. CASE o.emptied
    BY <1>1 DEF Opened, Filed, OpensOf
  <1>2. CASE ~o.emptied
    BY <1>2 DEF Opened
  <1>3. QED
    BY <1>1, <1>2

(* Everything in the file is in the map that is loaded from it.            *)
LEMMA LoadedWhole ==
    ASSUME NEW f, Filed(f)
    PROVE  OpensOf(f) \subseteq Opens(NormalizeRecords(f))
  <1> DEFINE n == [i \in 1..Len(f) |-> Normalize(f[i])]
  <1>1. Len(f) \in Nat /\ \A i \in 1..Len(f) : f[i] \in Rec /\ n[i] = f[i] /\ IsValid(n[i])
    BY NormalizeSame DEF Filed, IsValid
  <1>2. Len(n) = Len(f)
    BY <1>1
  <1>3. ASSUME NEW i \in 1..Len(f) PROVE f[i].open \in Opens(NormalizeRecords(f))
    <2> DEFINE S == {k \in 1..Len(f) : f[k].open = f[i].open}
    <2>1. S \subseteq Int /\ i \in S /\ IsFiniteSet(S)
      <3>1. S \in SUBSET (1..Len(f)) /\ IsFiniteSet(1..Len(f))
        BY <1>1, FS_Interval
      <3> HIDE DEF S
      <3>2. IsFiniteSet(S)
        BY <3>1, FS_Subset
      <3>3. S \subseteq Int
        BY <1>1, <3>1
      <3>4. QED
        BY <3>2, <3>3 DEF S
    <2> DEFINE k == Max(S)
    <2>2. k \in S /\ \A m \in S : m <= k
      <3> HIDE DEF S
      <3>1. QED
        BY <2>1, FiniteMinMax
    <2> HIDE DEF k
    <2>3. k \in 1..Len(f) /\ f[k].open = f[i].open
      BY <2>2
    <2>4. ASSUME NEW m \in k + 1 .. Len(f) PROVE n[m].open # n[k].open
      <3>1. m \in 1..Len(f) /\ ~(m <= k)
        BY <1>1, <2>3, <2>4
      <3>2. m \notin S
        BY <2>2, <3>1
      <3>3. QED
        BY <1>1, <2>3, <3>1, <3>2
    <2>5. n[k] \in NormalizeRecords(f)
      <3> HIDE DEF n
      <3>1. \A l \in k + 1 .. Len(n) : n[l].open # n[k].open
        BY <1>2, <2>4
      <3>2. k \in 1..Len(n) /\ IsValid(n[k])
        BY <1>1, <1>2, <2>3
      <3>3. QED
        BY <3>1, <3>2 DEF NormalizeRecords, n
    <2>6. QED
      BY <1>1, <2>3, <2>5 DEF Opens
  <1>4. QED
    BY <1>3 DEF OpensOf

(* An append loses no open time of the file, and adds only its own.        *)
LEMMA SaveRecordKeeps ==
    ASSUME NEW f, Filed(f), NEW r \in Rec, NEW o \in Outcome
    PROVE  /\ Filed(SaveRecord(f, r, o))
           /\ OpensOf(f) \subseteq OpensOf(SaveRecord(f, r, o))
           /\ OpensOf(SaveRecord(f, r, o)) \subseteq OpensOf(f) \union {r.open}
  <1> DEFINE g == SaveRecord(f, r, o)
  <1>1. CASE o.written /\ IsValid(r)
    <2>1. g = Append(f, r) /\ f \in Seq(Rec)
      BY <1>1, NormalizeSame DEF SaveRecord, Filed
    <2> HIDE DEF g
    <2>2. /\ g \in Seq(Rec) /\ Len(g) = Len(f) + 1 /\ Len(f) \in Nat
          /\ \A i \in 1..Len(f) : g[i] = f[i]
          /\ g[Len(f) + 1] = r
      BY <2>1
    <2>3. \A i \in 1..Len(g) : i \in 1..Len(f) \/ i = Len(f) + 1
      BY <2>2
    <2>4. \A i \in 1..Len(f) : i \in 1..Len(g)
      BY <2>2
    <2>5. Filed(g)
      BY <1>1, <2>2, <2>3 DEF Filed, IsValid
    <2>6. OpensOf(f) \subseteq OpensOf(g) /\ OpensOf(g) \subseteq OpensOf(f) \union {r.open}
      BY <2>2, <2>3, <2>4 DEF OpensOf
    <2>7. QED
      BY <2>5, <2>6 DEF g
  <1>2. CASE ~(o.written /\ IsValid(r))
    BY <1>2, NormalizeSame DEF SaveRecord
  <1>3. QED
    BY <1>1, <1>2

(* Neither does a merge: what it drops the file never held.                *)
LEMMA MergeKeeps ==
    ASSUME NEW f, Filed(f), NEW page, Known(page), \A r \in page : r.open > 0
    PROVE  /\ Filed(Merge(f, page))
           /\ OpensOf(f) \subseteq OpensOf(Merge(f, page))
           /\ OpensOf(Merge(f, page)) \subseteq OpensOf(f) \union Opens(page)
  <1> DEFINE same == {r \in page : r.open = LastOpen(f)}
             newer == {r \in page : r.open > LastOpen(f)}
             g == IF same = {} THEN f ELSE [f EXCEPT ![Len(f)] = CHOOSE r \in same : TRUE]
  <1>1. Merge(f, page) = g \o InOrder(newer)
    BY DEF Merge
  <1>2. Known(newer)
    <2>1. newer \in SUBSET page
      OBVIOUS
    <2> HIDE DEF newer
    <2>2. IsFiniteSet(newer)
      BY <2>1, FS_Subset DEF Known
    <2>3. QED
      BY <2>1, <2>2 DEF Known, Distinct
  <1>3. InOrder(newer) \in Seq(Rec) /\ OpensOf(InOrder(newer)) = Opens(newer)
    <2> HIDE DEF newer
    <2>1. newer \subseteq Rec /\ IsFiniteSet(newer) /\ Distinct(newer) /\ Rec \subseteq Raw
      BY <1>2, NormalizeSame DEF Known
    <2>2. QED
      BY <2>1, InOrderSorts
  <1>4. /\ g \in Seq(Rec) /\ Len(g) = Len(f)
        /\ \A i \in 1..Len(f) : g[i].open = f[i].open
    <2>1. CASE same = {}
      BY <2>1 DEF Filed
    <2>2. CASE same # {}
      <3> DEFINE c == CHOOSE r \in same : TRUE
      <3>1. c \in same
        BY <2>2
      <3>2. c \in Rec /\ c.open = LastOpen(f)
        BY <3>1 DEF Known
      <3>3. g = [f EXCEPT ![Len(f)] = c]
        BY <2>2
      <3> HIDE DEF c, g
      <3>4. g \in Seq(Rec) /\ Len(g) = Len(f)
        <4>1. f \in [1..Len(f) -> Rec] /\ Len(f) \in Nat
          BY DEF Filed
        <4>2. g \in [1..Len(f) -> Rec]
          BY <3>2, <3>3, <4>1
        <4>3. QED
          BY <4>1, <4>2
      <3>5. ASSUME NEW i \in 1..Len(f) PROVE g[i].open = f[i].open
        <4>1. f # <<>>
          BY <3>5
        <4>2. QED
          BY <3>2, <3>3, <3>5, <4>1 DEF LastOpen
      <3>6. QED
        BY <3>4, <3>5
    <2>3. QED
      BY <2>1, <2>2
  <1>5. Opens(newer) \subseteq Opens(page) /\ \A t \in Opens(page) : t > 0
    BY DEF Opens
  <1> DEFINE tail == InOrder(newer)
             m == Merge(f, page)
  <1> HIDE DEF g, newer, tail, m
  <1>6. /\ m \in Seq(Rec) /\ Len(m) = Len(f) + Len(tail) /\ {Len(f), Len(tail)} \subseteq Nat
        /\ \A i \in 1..Len(f) : m[i] = g[i]
        /\ \A i \in 1..Len(m) : i \notin 1..Len(f) =>
               i - Len(f) \in 1..Len(tail) /\ m[i] = tail[i - Len(f)]
    <2>1. m = g \o tail /\ g \in Seq(Rec) /\ tail \in Seq(Rec) /\ Len(g) = Len(f)
      BY <1>1, <1>3, <1>4 DEF tail, m
    <2>2. /\ m \in Seq(Rec) /\ Len(m) = Len(g) + Len(tail) /\ {Len(g), Len(tail)} \subseteq Nat
          /\ \A i \in 1..Len(m) : m[i] = IF i <= Len(g) THEN g[i] ELSE tail[i - Len(g)]
      BY <2>1, ConcatProperties
    <2>3. QED
      BY <2>1, <2>2
  <1>7. \A i \in 1..Len(f) : i \in 1..Len(m) /\ m[i].open = f[i].open
    BY <1>4, <1>6
  <1>8. \A i \in 1..Len(m) : i \in 1..Len(f) \/ m[i].open \in Opens(page)
    <2>1. \A i \in 1..Len(tail) : tail[i].open \in Opens(page)
      BY <1>3, <1>5 DEF OpensOf, tail
    <2>2. QED
      BY <1>6, <2>1
  <1>9. Filed(m)
    BY <1>5, <1>6, <1>7, <1>8 DEF Filed
  <1>10. OpensOf(f) \subseteq OpensOf(m) /\ OpensOf(m) \subseteq OpensOf(f) \union Opens(page)
    BY <1>7, <1>8 DEF OpensOf
  <1>11. QED
    BY <1>9, <1>10 DEF m

(* Only an open that fails takes anything from the file.                   *)
LEMMA SaveRecordsKeeps ==
    ASSUME NEW f, Filed(f), NEW page, Known(page), \A r \in page : r.open > 0,
           NEW o \in Outcome
    PROVE  /\ Filed(SaveRecords(f, page, o))
           /\ ~o.emptied => OpensOf(f) \subseteq OpensOf(SaveRecords(f, page, o))
           /\ OpensOf(SaveRecords(f, page, o)) \subseteq OpensOf(f) \union Opens(page)
  <1> DEFINE e == Opened(f, o)
  <1>1. Filed(e) /\ OpensOf(e) \subseteq OpensOf(f) /\ (~o.emptied => e = f)
    BY OpenedFiled
  <1>2. SaveRecords(f, page, o) = IF o.written THEN Merge(e, page) ELSE e
    BY DEF SaveRecords
  <1> HIDE DEF e
  <1>3. QED
    BY <1>1, <1>2, MergeKeeps

(* The map keeps its open times and gains those put into it.               *)
LEMMA PutKnown ==
    ASSUME NEW h, Known(h), NEW rs, Known(rs)
    PROVE  /\ Known(Put(h, rs))
           /\ Opens(Put(h, rs)) = Opens(h) \union Opens(rs)
  <1> DEFINE old == {r \in h : r.open \notin Opens(rs)}
  <1>1. old \in SUBSET h /\ Put(h, rs) = old \union rs
    BY DEF Put
  <1>2. IsFiniteSet(Put(h, rs))
    <2> HIDE DEF old
    <2>1. QED
      BY <1>1, FS_Subset, FS_Union DEF Known
  <1>3. Put(h, rs) \subseteq Rec
    BY <1>1 DEF Known
  <1>4. Distinct(Put(h, rs))
    BY <1>1 DEF Known, Distinct, Opens
  <1>5. Opens(Put(h, rs)) = Opens(h) \union Opens(rs)
    BY <1>1 DEF Opens
  <1>6. QED
    BY <1>2, <1>3, <1>4, <1>5 DEF Known

(***************************************************************************)
(* The ring                                                                *)
(***************************************************************************)
Ring(seq) == seq \in Seq(Rec) /\ Len(seq) <= CacheSize /\ Newer(seq)
Pushed(r, c) == SubSeq(<<r>> \o c, 1, Min({CacheSize, Len(c) + 1}))
Replaced(r, c) == <<r>> \o Tail(c)
(* r in front, and behind it nothing that was not in c.                    *)
InFront(r, c, s) ==
    s # <<>> /\ s[1] = r /\ \A i \in 1..Len(s) : s[i] = r \/ \E k \in 1..Len(c) : s[i] = c[k]

LEMMA PushedRing ==
    ASSUME NEW c, Ring(c), c # <<>>, NEW r \in Rec, r.open > c[1].open
    PROVE  Ring(Pushed(r, c)) /\ InFront(r, c, Pushed(r, c))
  <1> DEFINE n == Min({CacheSize, Len(c) + 1})
             all == <<r>> \o c
             s == Pushed(r, c)
  <1>1. c \in Seq(Rec) /\ Len(c) \in Nat
    BY DEF Ring
  <1>2. n \in 1..CacheSize /\ n \in 1..(Len(c) + 1)
    BY <1>1, EngineAssumption, MinIsSmallest
  <1>3. /\ all \in Seq(Rec) /\ Len(all) = Len(c) + 1
        /\ all[1] = r /\ \A i \in 2..Len(all) : i - 1 \in 1..Len(c) /\ all[i] = c[i - 1]
    BY <1>1
  <1> HIDE DEF n, all
  <1>4. s \in Seq(Rec) /\ Len(s) = n /\ \A i \in 1..n : s[i] = all[i]
    <2>1. s = SubSeq(all, 1, n)
      BY DEF Pushed, n, all
    <2>2. n \in Nat /\ n <= Len(all) /\ 1 <= n
      BY <1>1, <1>2, <1>3
    <2> HIDE DEF s
    <2>3. QED
      BY <1>3, <2>1, <2>2, SubSeqProperties
  <1> HIDE DEF s
  <1>5. \A i \in 1..n : i # 1 => i - 1 \in 1..Len(c) /\ s[i] = c[i - 1]
    <2>1. ASSUME NEW i \in 1..n, i # 1 PROVE i \in 2..Len(all)
      BY <1>1, <1>2, <1>3, <2>1
    <2>2. QED
      BY <1>3, <1>4, <2>1
  <1>6. s[1] = r
    BY <1>2, <1>3, <1>4
  <1>7. \A k \in 1..Len(c) : c[k].open <= c[1].open /\ c[k].open \in Nat /\ c[1].open \in Nat
    <2>1. \A k \in 1..Len(c) : c[k] \in Rec
      BY <1>1
    <2>2. \A k \in 1..Len(c) : c[k].open \in Nat
      BY <2>1 DEF Rec, Times
    <2>3. 1 \in 1..Len(c)
      BY <1>1
    <2>4. \A k \in 1..Len(c) : k # 1 => c[1].open > c[k].open
      BY <1>1, <2>3 DEF Ring, Newer
    <2>5. QED
      BY <2>2, <2>3, <2>4
  <1>8. Newer(s)
    <2>1. ASSUME NEW i \in 1..n, NEW j \in 1..n, i < j PROVE s[i].open > s[j].open
      <3>1. j # 1 /\ j - 1 \in 1..Len(c) /\ s[j] = c[j - 1]
        BY <1>2, <1>5, <2>1
      <3>2. CASE i = 1
        BY <1>6, <1>7, <3>1, <3>2 DEF Rec, Times
      <3>3. CASE i # 1
        <4>1. i - 1 \in 1..Len(c) /\ s[i] = c[i - 1] /\ i - 1 < j - 1
          BY <1>2, <1>5, <2>1, <3>3
        <4>2. QED
          BY <3>1, <4>1 DEF Ring, Newer
      <3>4. QED
        BY <3>2, <3>3
    <2>2. QED
      BY <1>4, <2>1 DEF Newer
  <1>9. Ring(s)
    BY <1>2, <1>4, <1>8, EngineAssumption DEF Ring
  <1>10. InFront(r, c, s)
    BY <1>2, <1>4, <1>5, <1>6 DEF InFront
  <1>11. QED
    BY <1>9, <1>10 DEF s

LEMMA ReplacedRing ==
    ASSUME NEW c, Ring(c), c # <<>>, NEW r \in Rec, r.open = c[1].open
    PROVE  Ring(Replaced(r, c)) /\ InFront(r, c, Replaced(r, c))
  <1> DEFINE s == Replaced(r, c)
  <1>1. c \in Seq(Rec) /\ Len(c) \in Nat /\ 1 \in 1..Len(c)
    BY DEF Ring
  <1>2. /\ s \in Seq(Rec) /\ Len(s) = Len(c) /\ s[1] = r
        /\ \A i \in 2..Len(c) : s[i] = c[i]
    BY <1>1 DEF Replaced
  <1> HIDE DEF s
  <1>3. \A i \in 1..Len(c) : s[i].open = c[i].open
    BY <1>1, <1>2
  <1>4. Ring(s)
    BY <1>1, <1>2, <1>3 DEF Ring, Newer
  <1>5. InFront(r, c, s)
    BY <1>1, <1>2 DEF InFront
  <1>6. QED
    BY <1>4, <1>5 DEF s

LEMMA OneRing ==
    ASSUME NEW r \in Rec
    PROVE  Ring(<<r>>) /\ InFront(r, <<>>, <<r>>)
  BY EngineAssumption DEF Ring, Newer, InFront

(* The map's newest candles are a ring of the map's candles.               *)
LEMMA NewestRing ==
    ASSUME NEW h, Known(h)
    PROVE  /\ Ring(NewestRecords(h)) /\ OpensOf(NewestRecords(h)) \subseteq Opens(h)
           /\ NewestRecords(h) = <<>> <=> h = {}
  <1>1. Ring(NewestRecords(h))
    BY NewestRecordsSorted DEF Ring
  <1>2. OpensOf(NewestRecords(h)) \subseteq Opens(h)
    BY NewestRecordsSorted DEF OpensOf, Opens
  <1>3. ASSUME h = {} PROVE NewestRecords(h) = <<>>
    <2>1. ~(1 \in 1..Len(NewestRecords(h)))
      BY <1>3, NewestRecordsSorted
    <2>2. QED
      BY <1>1, <2>1 DEF Ring
  <1>4. QED
    BY <1>1, <1>2, <1>3, NewestRecordsSorted

(* Limits of a ring contain its candles.                                   *)
Covered(seq, lim) ==
    \A i \in 1..Len(seq) : High(seq[i]) <= lim.max /\ lim.min <= Low(seq[i])
Limits == [max : -Extreme..Extreme, min : -Extreme..Extreme]

(* No price is beyond the limits of an empty ring.                         *)
LEMMA PriceRange ==
    ASSUME NEW r \in Rec
    PROVE  High(r) \in -Extreme..Extreme /\ Low(r) \in -Extreme..Extreme
  BY EngineAssumption, FeedAssumption DEF Rec, Times, High, Low

LEMMA LimitsOfCovers ==
    ASSUME NEW c \in Seq(Rec), c # <<>>
    PROVE  LimitsOf(c) \in Limits /\ Covered(c, LimitsOf(c))
  <1> DEFINE hi == [i \in 1..Len(c) |-> High(c[i])]
             lo == [i \in 1..Len(c) |-> Low(c[i])]
             H == {hi[i] : i \in 1..Len(c)}
             L == {lo[i] : i \in 1..Len(c)}
  <1>1. Len(c) \in Nat /\ 1 \in 1..Len(c) /\ IsFiniteSet(1..Len(c))
    BY FS_Interval
  <1>2. \A i \in 1..Len(c) : High(c[i]) \in -Extreme..Extreme /\ Low(c[i]) \in -Extreme..Extreme
    <2>1. \A i \in 1..Len(c) : c[i] \in Rec
      OBVIOUS
    <2>2. QED
      BY <2>1, PriceRange
  <1>3. H \subseteq -Extreme..Extreme /\ L \subseteq -Extreme..Extreme /\ H # {} /\ L # {}
    BY <1>1, <1>2
  <1>4. LimitsOf(c) = [max |-> Max(H), min |-> Min(L)]
    <2>1. H = {High(c[i]) : i \in 1..Len(c)} /\ L = {Low(c[i]) : i \in 1..Len(c)}
      OBVIOUS
    <2> HIDE DEF H, L
    <2>2. QED
      BY <2>1 DEF LimitsOf
  <1>5. \A i \in 1..Len(c) : High(c[i]) \in H /\ Low(c[i]) \in L
    OBVIOUS
  <1>6. IsFiniteSet(H) /\ IsFiniteSet(L)
    <2>1. DOMAIN hi = 1..Len(c) /\ DOMAIN lo = 1..Len(c)
      OBVIOUS
    <2> HIDE DEF hi, lo
    <2>2. QED
      BY <1>1, <2>1, ImageFinite
  <1> HIDE DEF H, L
  <1>7. /\ Max(H) \in -Extreme..Extreme /\ \A y \in H : Max(H) >= y
        /\ Min(L) \in -Extreme..Extreme /\ \A y \in L : Min(L) <= y
    <2>1. H \subseteq Int /\ L \subseteq Int
      BY <1>3
    <2>2. /\ Max(H) \in H /\ \A y \in H : Max(H) >= y
          /\ Min(L) \in L /\ \A y \in L : Min(L) <= y
      BY <1>3, <1>6, <2>1, FiniteMinMax
    <2>3. QED
      BY <1>3, <2>2
  <1>8. QED
    BY <1>2, <1>4, <1>5, <1>7 DEF Limits, Covered

(* Widening for the candle in front covers what was covered, and it.       *)
LEMMA WidenedCovers ==
    ASSUME limits \in Limits, NEW c, Covered(c, limits), c \in Seq(Rec), NEW r \in Rec,
           NEW s, InFront(r, c, s)
    PROVE  Widened(r) \in Limits /\ Covered(s, Widened(r))
  <1> DEFINE H == {limits.max, High(r)}
             L == {limits.min, Low(r)}
  <1>1. /\ H \subseteq -Extreme..Extreme /\ L \subseteq -Extreme..Extreme
        /\ H \subseteq Int /\ L \subseteq Int /\ H # {} /\ L # {}
        /\ IsFiniteSet(H) /\ IsFiniteSet(L)
    <2>1. /\ H \subseteq -Extreme..Extreme /\ L \subseteq -Extreme..Extreme
          /\ H # {} /\ L # {}
      BY PriceRange DEF Limits
    <2>2. ASSUME NEW a, NEW b PROVE IsFiniteSet({a, b})
      <3>1. {a, b} = {a} \union {b}
        OBVIOUS
      <3>2. IsFiniteSet({a}) /\ IsFiniteSet({b})
        BY FS_Singleton
      <3>3. IsFiniteSet({a} \union {b})
        BY <3>2, FS_Union
      <3>4. QED
        BY <3>1, <3>3
    <2>3. IsFiniteSet(H) /\ IsFiniteSet(L)
      BY <2>2
    <2> HIDE DEF H, L
    <2>4. H \subseteq Int /\ L \subseteq Int
      BY <2>1
    <2>5. QED
      BY <2>1, <2>3, <2>4
  <1>2. /\ Max(H) \in -Extreme..Extreme /\ Max(H) >= limits.max /\ Max(H) >= High(r)
        /\ Min(L) \in -Extreme..Extreme /\ Min(L) <= limits.min /\ Min(L) <= Low(r)
    <2>1. limits.max \in H /\ High(r) \in H /\ limits.min \in L /\ Low(r) \in L
      OBVIOUS
    <2> HIDE DEF H, L
    <2>2. QED
      BY <1>1, <2>1, FiniteMinMax
  <1>3. Widened(r) = [max |-> Max(H), min |-> Min(L)]
    BY DEF Widened
  <1> HIDE DEF H, L
  <1>4. Widened(r) \in Limits
    BY <1>2, <1>3 DEF Limits
  <1>5. ASSUME NEW i \in 1..Len(s)
        PROVE  High(s[i]) <= Widened(r).max /\ Widened(r).min <= Low(s[i])
    <2>1. CASE s[i] = r
      BY <1>2, <1>3, <2>1
    <2>2. CASE \E k \in 1..Len(c) : s[i] = c[k]
      <3>1. PICK k \in 1..Len(c) : s[i] = c[k]
        BY <2>2
      <3>2. High(s[i]) \in Int /\ Low(s[i]) \in Int
        <4>1. s[i] \in Rec
          BY <3>1
        <4>2. QED
          BY <4>1 DEF High, Low, Rec, Times
      <3>3. High(s[i]) <= limits.max /\ limits.min <= Low(s[i])
        BY <3>1 DEF Covered
      <3>4. limits.max \in Int /\ limits.min \in Int
        BY DEF Limits
      <3>5. QED
        BY <1>2, <1>3, <3>2, <3>3, <3>4
    <2>3. QED
      BY <2>1, <2>2 DEF InFront
  <1>6. QED
    BY <1>4, <1>5 DEF Covered

(***************************************************************************)
(* The engine's invariant                                                  *)
(***************************************************************************)
FileInv == Filed(file)
StoreInv == Known(history) /\ SummariesMatchHistory
RingInv == Ring(cache) /\ limits \in Limits /\ Covered(cache, limits) /\ cursor \in Nat
WarmPcs == {"off", "fetch", "answer", "save", "cursor", "ingest", "copy", "replace", "done"}
TickPcs == {"idle", "save", "ingest"}
WarmShape == [pc : WarmPcs, from : Nat, page : SUBSET Rec, copy : Seq(Rec), last : BOOLEAN]
WarmInv ==
    /\ warm \in WarmShape /\ Known(warm.page) /\ Ring(warm.copy)
    /\ \A r \in warm.page : r.open > 0
    /\ warm.pc \in {"off", "fetch", "answer", "done"} => warm.page = {}
    /\ warm.pc \in {"save", "cursor", "ingest"} => warm.page # {}
(* What the thread has ingested is in the map, and so is what it copied.   *)
WarmKnown ==
    /\ warm.pc \in {"copy", "replace"} => Opens(warm.page) \subseteq Opens(history)
    /\ warm.pc = "replace" => OpensOf(warm.copy) \subseteq Opens(history)
TickInv ==
    /\ tick \in [pc : TickPcs, data : Rec, closed : Seq(Rec)]
    /\ tick.pc = "save" => tick.closed # <<>>
(* The candle that a tick closed is in the map, or will be with the page.  *)
ClosedKnown ==
    tick.pc = "save" => tick.closed[1].open \in Opens(history) \union Opens(warm.page)
EngineInv ==
    /\ FileInv /\ StoreInv /\ RingInv /\ WarmInv /\ WarmKnown /\ TickInv
    /\ ClosedKnown /\ CacheIsBacked

LEMMA SameFile == FileInv /\ UNCHANGED file => FileInv'
  BY DEF FileInv

LEMMA SameStore == StoreInv /\ UNCHANGED storeVars => StoreInv'
  BY DEF StoreInv, SummariesMatchHistory, storeVars

LEMMA SameRing == RingInv /\ UNCHANGED cacheVars => RingInv'
  BY DEF RingInv, cacheVars

LEMMA SameWarm == WarmInv /\ UNCHANGED warm => WarmInv'
  BY DEF WarmInv

LEMMA SameTick == TickInv /\ UNCHANGED tick => TickInv'
  BY DEF TickInv

LEMMA SameClosed ==
    ASSUME ClosedKnown, UNCHANGED tick, Opens(history) \subseteq Opens(history'),
           Opens(warm.page) \subseteq Opens(warm'.page) \union Opens(history')
    PROVE  ClosedKnown'
  BY DEF ClosedKnown

LEMMA SameEngine == EngineInv /\ UNCHANGED dbVars => EngineInv'
  <1>1. EngineInv /\ UNCHANGED dbVars => WarmKnown' /\ CacheIsBacked' /\ ClosedKnown'
    BY DEF EngineInv, dbVars, storeVars, cacheVars, WarmKnown, CacheIsBacked, InHand,
       ClosedKnown
  <1>2. QED
    BY <1>1, SameFile, SameStore, SameRing, SameWarm, SameTick DEF EngineInv, dbVars

(* A warm-up thread or a tick that is idle.                                *)
LEMMA Idle ==
    /\ {} \subseteq Rec /\ Known({}) /\ Ring(<<>>)
    /\ IdleWarm \in WarmShape /\ NoRecord \in Rec
    /\ IdleTick \in [pc : TickPcs, data : Rec, closed : Seq(Rec)]
  <1>1. Known({})
    BY FS_EmptySet DEF Known, Distinct
  <1>2. Ring(<<>>)
    BY EngineAssumption DEF Ring, Newer
  <1>3. NoRecord \in Rec
    <2>1. (0 \div Minute) * Minute = 0
      BY MinuteAssumption, SMT
    <2>2. QED
      BY <2>1, FeedAssumption DEF NoRecord, Rec, Times
  <1>4. IdleWarm \in WarmShape
    <2>1. ASSUME NEW S, <<>> \in S
          PROVE  IdleWarm \in [pc : WarmPcs, from : Nat, page : SUBSET Rec,
                               copy : S, last : BOOLEAN]
      BY <2>1 DEF IdleWarm, WarmPcs
    <2>2. <<>> \in Seq(Rec)
      OBVIOUS
    <2>3. QED
      BY <2>1, <2>2 DEF WarmShape
  <1>5. IdleTick \in [pc : TickPcs, data : Rec, closed : Seq(Rec)]
    <2>1. ASSUME NEW S, <<>> \in S PROVE IdleTick \in [pc : TickPcs, data : Rec, closed : S]
      BY <1>3, <2>1 DEF IdleTick, TickPcs
    <2>2. <<>> \in Seq(Rec)
      OBVIOUS
    <2>3. QED
      BY <2>1, <2>2
  <1>6. QED
    BY <1>1, <1>2, <1>3, <1>4, <1>5

(* Ingest, whole, by either thread.                                        *)
LEMMA IngestStore ==
    ASSUME StoreInv, NEW rs, Known(rs), Ingest(rs)
    PROVE  StoreInv' /\ Opens(history') = Opens(history) \union Opens(rs)
  <1>1. CASE rs = {}
    <2>1. Opens(rs) = {} /\ UNCHANGED storeVars
      BY <1>1 DEF Opens, Ingest
    <2>2. QED
      BY <2>1, SameStore DEF storeVars
  <1>2. CASE rs # {}
    <2>1. /\ history' = Put(history, rs)
          /\ bounds' = [min |-> OldestOpen(history'), max |-> NewestOpen(history')]
          /\ ready' = HasLatestSpan(history', Warm)
          /\ anchor' = IF ready' THEN NewestOpen(history') ELSE 0
      BY <1>2 DEF Ingest
    <2>2. Known(history') /\ Opens(history') = Opens(history) \union Opens(rs)
      BY <2>1, PutKnown DEF StoreInv
    <2>3. history' # {}
      BY <1>2, <2>1 DEF Put
    <2>4. QED
      BY <2>1, <2>2, <2>3 DEF StoreInv, SummariesMatchHistory, OldestOpen
  <1>3. QED
    BY <1>1, <1>2

(***************************************************************************)
(* The steps of the two threads                                            *)
(***************************************************************************)
(* What is known stays known, and nothing unknown gets into the file;      *)
(* unless the disk fails, what has been written stays there.               *)
Knows ==
    /\ Opens(history) \subseteq Opens(history')
    /\ InHand \subseteq Opens(history') \union InHand'
    /\ OpensOf(file') \subseteq OpensOf(file) \union Opens(history) \union InHand
Keeps == Knows /\ OpensOf(file) \subseteq OpensOf(file')

LEMMA LoadStep ==
    ASSUME FileInv, NEW o \in Outcome, Load(o)
    PROVE  /\ EngineInv' /\ OpensOf(file') \subseteq Opens(history')
           /\ ~o.emptied => OpensOf(file) \subseteq OpensOf(file')
  <1> DEFINE h == NormalizeRecords(file')
  <1>1. FileInv' /\ (~o.emptied => file' = file)
    BY OpenedFiled DEF Load, FileInv
  <1>2. Known(h) /\ file' \in Seq(Rec) /\ file' \in Seq(Raw)
    BY <1>1, NormalizeRecordsKnown, RecSeqIsRaw DEF FileInv, Filed
  <1>3. /\ history' = h /\ ready' = HasLatestSpan(h, Warm)
        /\ bounds' = IF h = {} THEN NoBounds ELSE [min |-> OldestOpen(h), max |-> NewestOpen(h)]
        /\ anchor' = IF ready' THEN NewestOpen(h) ELSE 0
        /\ cache' = NewestRecords(h)
        /\ limits' = IF h = {} THEN NoLimits ELSE LimitsOf(cache')
        /\ cursor' = (LastOpen(file') \div Minute) * Minute
        /\ warm' = IdleWarm /\ tick' = IdleTick
    BY DEF Load
  <1>4. StoreInv'
    BY <1>2, <1>3 DEF StoreInv, SummariesMatchHistory, OldestOpen
  <1>5. /\ Ring(cache') /\ OpensOf(cache') \subseteq Opens(history')
        /\ cache' = <<>> <=> h = {}
    BY <1>2, <1>3, NewestRing
  <1>6. cursor' \in Nat /\ (cursor' = 0 \/ cursor' \in Opens(history'))
    <2>1. CASE file' = <<>>
      <3>1. cursor' = (0 \div Minute) * Minute
        BY <1>3, <2>1 DEF LastOpen
      <3>2. QED
        BY <3>1, MinuteAssumption, SMT
    <2>2. CASE file' # <<>>
      <3> DEFINE r == file'[Len(file')]
      <3>1. r \in Rec
        BY <1>2, <2>2
      <3>2. Normalize(r) \in Rec
        BY <3>1, NormalizeSame
      <3>3. Normalize(r).open = cursor'
        BY <1>3, <2>2, <3>1 DEF LastOpen, Normalize, Rec, Times
      <3>4. cursor' \in Nat
        BY <3>2, <3>3 DEF Rec, Times
      <3>5. cursor' # 0 => Normalize(r) \in h
        <4>1. cursor' # 0 => IsValid(Normalize(r))
          BY <3>3, <3>4 DEF IsValid
        <4> HIDE DEF h
        <4>2. QED
          BY <1>2, <2>2, <4>1, NormalizeRecordsKnown DEF h
      <3>6. QED
        BY <1>3, <3>3, <3>4, <3>5 DEF Opens
    <2>3. QED
      BY <2>1, <2>2
  <1>7. limits' \in Limits /\ Covered(cache', limits')
    <2>1. CASE h = {}
      <3>1. limits' = NoLimits /\ cache' = <<>>
        BY <1>3, <1>5, <2>1
      <3>2. NoLimits \in Limits
        BY EngineAssumption DEF NoLimits, Limits
      <3>3. QED
        BY <3>1, <3>2 DEF Covered
    <2>2. CASE h # {}
      BY <1>3, <1>5, <2>2, LimitsOfCovers DEF Ring
    <2>3. QED
      BY <2>1, <2>2
  <1>8. WarmInv' /\ TickInv' /\ WarmKnown' /\ ClosedKnown'
    BY <1>3, Idle DEF WarmInv, TickInv, WarmKnown, ClosedKnown, IdleWarm, IdleTick
  <1>9. CacheIsBacked'
    BY <1>5, <1>6 DEF CacheIsBacked
  <1>10. RingInv'
    BY <1>5, <1>6, <1>7 DEF RingInv
  <1>11. OpensOf(file') \subseteq Opens(history')
    BY <1>1, <1>3, LoadedWhole DEF FileInv
  <1>12. QED
    BY <1>1, <1>4, <1>8, <1>9, <1>10, <1>11 DEF EngineInv

LEMMA UnloadStep ==
    ASSUME FileInv, Unload, UNCHANGED file
    PROVE  EngineInv' /\ OpensOf(file) \subseteq OpensOf(file')
  <1>1. /\ FileInv' /\ history' = {} /\ bounds' = NoBounds /\ ready' = FALSE /\ anchor' = 0
        /\ cache' = <<>> /\ limits' = NoLimits /\ cursor' = 0
        /\ warm' = IdleWarm /\ tick' = IdleTick
    BY SameFile DEF Unload
  <1>2. StoreInv'
    BY <1>1, Idle DEF StoreInv, SummariesMatchHistory, HasLatestSpan
  <1>3. RingInv'
    BY <1>1, Idle, EngineAssumption DEF RingInv, NoLimits, Limits, Covered
  <1>4. WarmInv' /\ TickInv' /\ WarmKnown' /\ ClosedKnown'
    BY <1>1, Idle DEF WarmInv, TickInv, WarmKnown, ClosedKnown, IdleWarm, IdleTick
  <1>5. CacheIsBacked'
    BY <1>1 DEF CacheIsBacked, OpensOf
  <1>6. QED
    BY <1>1, <1>2, <1>3, <1>4, <1>5 DEF EngineInv

(* A step of the warm-up thread that only changes what it has at hand.     *)
LEMMA WarmOnly ==
    ASSUME EngineInv, UNCHANGED <<file, storeVars, cacheVars, tick>>,
           WarmInv', WarmKnown',
           Opens(warm.page) \subseteq Opens(warm'.page) \union Opens(history)
    PROVE  EngineInv' /\ Keeps
  <1>1. CacheIsBacked'
    BY DEF EngineInv, CacheIsBacked, InHand, storeVars, cacheVars
  <1>2. Keeps /\ ClosedKnown'
    BY SameClosed DEF EngineInv, Keeps, Knows, InHand, storeVars
  <1>3. QED
    BY <1>1, <1>2, SameFile, SameStore, SameRing, SameTick DEF EngineInv, storeVars

LEMMA WarmupAsyncStep == EngineInv /\ WarmupAsync => EngineInv' /\ Keeps
  <1> SUFFICES ASSUME EngineInv, WarmupAsync PROVE EngineInv' /\ Keeps
    OBVIOUS
  <1>1. /\ warm.page = {} /\ Opens(warm.page) = {}
        /\ UNCHANGED <<file, storeVars, cacheVars, tick>>
    BY DEF WarmupAsync, EngineInv, WarmInv, Opens
  <1>2. /\ warm'.pc = "fetch" /\ warm'.page = {} /\ warm'.copy = <<>> /\ warm' \in WarmShape
    BY Idle DEF WarmupAsync, IdleWarm, WarmShape, WarmPcs
  <1>3. WarmInv' /\ WarmKnown'
    BY <1>2, Idle DEF WarmInv, WarmKnown
  <1>4. QED
    BY <1>1, <1>3, WarmOnly

LEMMA SendRequestStep == EngineInv /\ SendRequest => EngineInv' /\ Keeps
  <1> SUFFICES ASSUME EngineInv, SendRequest PROVE EngineInv' /\ Keeps
    OBVIOUS
  <1>1. /\ warm.page = {} /\ Ring(warm.copy)
        /\ UNCHANGED <<file, storeVars, cacheVars, tick>>
    BY DEF SendRequest, EngineInv, WarmInv
  <1>2. /\ warm'.pc = "answer" /\ warm'.page = warm.page /\ warm'.copy = warm.copy
        /\ warm' \in WarmShape
    BY DEF SendRequest, EngineInv, WarmInv, RingInv, WarmShape, WarmPcs
  <1>3. WarmInv' /\ WarmKnown'
    BY <1>1, <1>2, Idle DEF WarmInv, WarmKnown
  <1>4. QED
    BY <1>1, <1>2, <1>3, WarmOnly

LEMMA AnswerStep ==
    ASSUME EngineInv, NEW page \in Seq(Raw), Answer(page)
    PROVE  EngineInv' /\ Keeps
  <1> DEFINE rs == NormalizeRecords(page)
  <1>1. Known(rs) /\ \A r \in rs : r.open > 0
    BY NormalizeRecordsKnown
  <1> HIDE DEF rs
  <1>2. /\ warm.page = {} /\ Ring(warm.copy) /\ warm \in WarmShape
        /\ UNCHANGED <<file, storeVars, cacheVars, tick>>
    BY DEF Answer, EngineInv, WarmInv
  <1>3. warm' = [warm EXCEPT
                    !.pc = IF rs # {} THEN "save" ELSE IF page = <<>> THEN "copy" ELSE "fetch",
                    !.page = rs,
                    !.last = page = <<>>]
    BY DEF Answer, rs
  <1>4. /\ warm'.pc = IF rs # {} THEN "save" ELSE IF page = <<>> THEN "copy" ELSE "fetch"
        /\ warm'.page = rs /\ warm'.copy = warm.copy
    BY <1>2, <1>3 DEF WarmShape
  <1>5. warm' \in WarmShape
    <2>1. rs \in SUBSET Rec
      BY <1>1 DEF Known
    <2>2. (page = <<>>) \in BOOLEAN
      OBVIOUS
    <2>3. QED
      BY <1>2, <1>3, <2>1, <2>2 DEF WarmShape, WarmPcs
  <1>6. WarmInv' /\ WarmKnown'
    BY <1>1, <1>2, <1>4, <1>5, Idle DEF WarmInv, WarmKnown, Opens
  <1>7. QED
    BY <1>2, <1>6, WarmOnly DEF Opens

LEMMA SavePageStep ==
    ASSUME EngineInv, NEW o \in Outcome, SavePage(o)
    PROVE  /\ EngineInv' /\ Knows
           /\ ~o.emptied => OpensOf(file) \subseteq OpensOf(file')
  <1>1. /\ warm.pc = "save" /\ warm \in WarmShape /\ Ring(warm.copy)
        /\ Known(warm.page) /\ warm.page # {} /\ \A r \in warm.page : r.open > 0
        /\ UNCHANGED <<storeVars, cacheVars, tick>>
    BY DEF SavePage, EngineInv, WarmInv
  <1>2. /\ FileInv' /\ OpensOf(file') \subseteq OpensOf(file) \union Opens(warm.page)
        /\ ~o.emptied => OpensOf(file) \subseteq OpensOf(file')
    BY <1>1, SaveRecordsKeeps DEF SavePage, EngineInv, FileInv
  <1>3. /\ warm'.pc = "cursor" /\ warm'.page = warm.page /\ warm'.copy = warm.copy
        /\ warm' \in WarmShape
    BY <1>1 DEF SavePage, WarmShape, WarmPcs
  <1>4. WarmInv' /\ WarmKnown'
    BY <1>1, <1>3 DEF WarmInv, WarmKnown
  <1>5. CacheIsBacked'
    BY <1>1, <1>3 DEF EngineInv, CacheIsBacked, InHand, storeVars, cacheVars
  <1>6. Knows /\ ClosedKnown'
    BY <1>1, <1>2, <1>3, SameClosed DEF EngineInv, Knows, InHand, storeVars
  <1>7. QED
    BY <1>1, <1>2, <1>4, <1>5, <1>6, SameStore, SameRing, SameTick DEF EngineInv, storeVars

LEMMA MoveCursorStep == EngineInv /\ MoveCursor => EngineInv' /\ Keeps
  <1> SUFFICES ASSUME EngineInv, MoveCursor PROVE EngineInv' /\ Keeps
    OBVIOUS
  <1>1. /\ warm.pc = "cursor" /\ warm \in WarmShape /\ Ring(warm.copy)
        /\ Known(warm.page) /\ warm.page # {} /\ \A r \in warm.page : r.open > 0
        /\ UNCHANGED <<file, storeVars, cache, limits, tick>>
    BY DEF MoveCursor, EngineInv, WarmInv
  <1>2. /\ warm'.pc = "ingest" /\ warm'.page = warm.page /\ warm'.copy = warm.copy
        /\ warm' \in WarmShape
    BY <1>1 DEF MoveCursor, WarmShape, WarmPcs
  <1>3. cursor' \in Opens(warm.page) /\ cursor' \in Nat
    <2> DEFINE T == Opens(warm.page)
               g == [r \in warm.page |-> r.open]
    <2>1. T \subseteq Int /\ T # {} /\ \A t \in T : t \in Nat
      BY <1>1 DEF Opens, Known, Rec, Times
    <2>2. IsFiniteSet(T)
      <3>1. T = {g[r] : r \in warm.page} /\ DOMAIN g = warm.page
        BY DEF Opens
      <3> HIDE DEF T, g
      <3>2. QED
        BY <1>1, <3>1, ImageFinite DEF Known
    <2>3. cursor' = Max(T)
      BY DEF MoveCursor, NewestOpen
    <2> HIDE DEF T
    <2>4. cursor' \in T /\ cursor' \in Nat
      BY <2>1, <2>2, <2>3, FiniteMinMax
    <2>5. QED
      BY <2>4 DEF T
  <1>4. WarmInv' /\ WarmKnown'
    BY <1>1, <1>2 DEF WarmInv, WarmKnown
  <1>5. CacheIsBacked'
    BY <1>1, <1>2, <1>3 DEF EngineInv, CacheIsBacked, InHand, storeVars
  <1>6. RingInv'
    BY <1>1, <1>3 DEF EngineInv, RingInv
  <1>7. Keeps /\ ClosedKnown'
    BY <1>1, <1>2, SameClosed DEF EngineInv, Keeps, Knows, InHand, storeVars
  <1>8. QED
    BY <1>1, <1>4, <1>5, <1>6, <1>7, SameFile, SameStore, SameTick DEF EngineInv, storeVars

LEMMA IngestPageStep == EngineInv /\ IngestPage => EngineInv' /\ Keeps
  <1> SUFFICES ASSUME EngineInv, IngestPage PROVE EngineInv' /\ Keeps
    OBVIOUS
  <1>1. /\ warm.pc = "ingest" /\ warm \in WarmShape /\ Ring(warm.copy)
        /\ Known(warm.page) /\ warm.page # {} /\ \A r \in warm.page : r.open > 0
        /\ UNCHANGED <<file, cacheVars, tick>>
    BY DEF IngestPage, EngineInv, WarmInv
  <1>2. /\ warm'.pc = "copy" /\ warm'.page = warm.page /\ warm'.copy = warm.copy
        /\ warm' \in WarmShape
    BY <1>1 DEF IngestPage, WarmShape, WarmPcs
  <1>3. StoreInv' /\ Opens(history') = Opens(history) \union Opens(warm.page)
    BY <1>1, IngestStore DEF IngestPage, EngineInv
  <1>4. WarmInv' /\ WarmKnown'
    BY <1>1, <1>2, <1>3 DEF WarmInv, WarmKnown
  <1>5. CacheIsBacked'
    BY <1>1, <1>2, <1>3 DEF EngineInv, CacheIsBacked, InHand, cacheVars
  <1>6. Keeps /\ ClosedKnown'
    BY <1>1, <1>2, <1>3, SameClosed DEF EngineInv, Keeps, Knows, InHand
  <1>7. QED
    BY <1>1, <1>3, <1>4, <1>5, <1>6, SameFile, SameRing, SameTick DEF EngineInv

LEMMA CopyHistoryStep == EngineInv /\ CopyHistory => EngineInv' /\ Keeps
  <1> SUFFICES ASSUME EngineInv, CopyHistory PROVE EngineInv' /\ Keeps
    OBVIOUS
  <1>1. /\ warm.pc = "copy" /\ warm \in WarmShape /\ Known(warm.page) /\ Known(history)
        /\ Opens(warm.page) \subseteq Opens(history) /\ \A r \in warm.page : r.open > 0
        /\ UNCHANGED <<file, storeVars, cacheVars, tick>>
    BY DEF CopyHistory, EngineInv, WarmInv, WarmKnown, StoreInv
  <1>2. /\ Ring(NewestRecords(history)) /\ NewestRecords(history) \in Seq(Rec)
        /\ OpensOf(NewestRecords(history)) \subseteq Opens(history)
    BY <1>1, NewestRing DEF Ring
  <1> DEFINE new == NewestRecords(history)
  <1> HIDE DEF new
  <1>3. warm' = [warm EXCEPT !.pc = "replace", !.copy = new]
    BY DEF CopyHistory, new
  <1>4. /\ warm'.pc = "replace" /\ warm'.page = warm.page /\ warm'.copy = new
        /\ warm' \in WarmShape
    <2>1. new \in Seq(Rec)
      BY <1>2 DEF new
    <2>2. QED
      BY <1>1, <1>3, <2>1 DEF WarmShape, WarmPcs
  <1>5. WarmInv' /\ WarmKnown'
    BY <1>1, <1>2, <1>4 DEF WarmInv, WarmKnown, storeVars, new
  <1>6. QED
    BY <1>1, <1>4, <1>5, WarmOnly

LEMMA RebuildStep == EngineInv /\ Rebuild => EngineInv' /\ Keeps
  <1> SUFFICES ASSUME EngineInv, Rebuild PROVE EngineInv' /\ Keeps
    OBVIOUS
  <1>1. /\ Ring(warm.copy) /\ OpensOf(warm.copy) \subseteq Opens(history)
        /\ Opens(warm.page) \subseteq Opens(history)
        /\ UNCHANGED <<file, storeVars, tick>>
    BY DEF Rebuild, EngineInv, WarmInv, WarmKnown
  <1>2. /\ warm'.pc \in {"done", "copy", "fetch"} /\ warm'.page = {} /\ warm'.copy = <<>>
        /\ warm' \in WarmShape
    BY Idle DEF Rebuild, IdleWarm, WarmShape, WarmPcs
  <1>3. WarmInv' /\ WarmKnown'
    BY <1>2, Idle DEF WarmInv, WarmKnown, Opens
  <1>4. cache' = warm.copy /\ IF warm.copy = <<>> THEN UNCHANGED <<cursor, limits>>
                              ELSE cursor' = warm.copy[1].open /\ limits' = LimitsOf(warm.copy)
    BY DEF Rebuild, ReplaceCache
  <1>5. RingInv' /\ CacheIsBacked'
    <2>1. CASE warm.copy = <<>>
      <3>1. RingInv'
        BY <1>1, <1>4, <2>1 DEF EngineInv, RingInv, Covered
      <3>2. CacheIsBacked'
        BY <1>1, <1>2, <1>4, <2>1 DEF EngineInv, CacheIsBacked, InHand, storeVars
      <3>3. QED
        BY <3>1, <3>2
    <2>2. CASE warm.copy # <<>>
      <3>1. limits' \in Limits /\ Covered(cache', limits')
        BY <1>1, <1>4, <2>2, LimitsOfCovers DEF Ring
      <3>2. warm.copy[1] \in Rec /\ 1 \in 1..Len(warm.copy)
        BY <1>1, <2>2 DEF Ring
      <3>3. cursor' \in Nat /\ cursor' \in OpensOf(warm.copy)
        BY <1>4, <2>2, <3>2 DEF OpensOf, Rec, Times
      <3>4. RingInv'
        BY <1>1, <1>4, <3>1, <3>3 DEF RingInv
      <3>5. CacheIsBacked'
        BY <1>1, <1>4, <3>3 DEF CacheIsBacked, storeVars
      <3>6. QED
        BY <3>4, <3>5
    <2>3. QED
      BY <2>1, <2>2
  <1>6. Keeps /\ ClosedKnown'
    BY <1>1, SameClosed DEF EngineInv, Keeps, Knows, InHand, storeVars
  <1>7. QED
    BY <1>1, <1>3, <1>5, <1>6, SameFile, SameStore, SameTick DEF EngineInv, storeVars

(***************************************************************************)
(* updateWithNewData                                                       *)
(***************************************************************************)
(* What each of its first three branches does with the ring.               *)
LEMMA FrontStep ==
    ASSUME EngineInv, tick.pc = "idle", UNCHANGED <<file, storeVars, warm>>,
           NEW r \in Rec, NEW c, Ring(c), OpensOf(c) \subseteq OpensOf(cache),
           Ring(cache'), InFront(r, c, cache'),
           limits' \in Limits, Covered(cache', limits'), cursor' \in {cursor, r.open},
           TickInv', tick'.pc # "idle", tick'.data = r,
           tick'.pc = "save" => tick'.closed[1].open \in OpensOf(cache)
    PROVE  EngineInv' /\ Keeps
  <1>1. RingInv'
    BY DEF EngineInv, RingInv, Rec, Times
  <1>2. OpensOf(cache') \subseteq OpensOf(c) \union {r.open}
    BY DEF OpensOf, InFront
  <1>3. r.open \in InHand' /\ Opens(warm.page) \subseteq InHand'
    BY DEF InHand
  <1>4. CacheIsBacked'
    BY <1>2, <1>3 DEF EngineInv, CacheIsBacked, InHand, storeVars
  <1>5. WarmKnown'
    BY DEF EngineInv, WarmKnown, storeVars
  <1>6. ClosedKnown'
    BY DEF EngineInv, CacheIsBacked, InHand, ClosedKnown, storeVars
  <1>7. Keeps
    BY <1>3 DEF Keeps, Knows, InHand, storeVars
  <1>8. QED
    BY <1>1, <1>4, <1>5, <1>6, <1>7, SameFile, SameStore, SameWarm DEF EngineInv, storeVars

LEMMA UpdateCacheStep ==
    ASSUME EngineInv, NEW data \in Raw, UpdateCache(data)
    PROVE  EngineInv' /\ Keeps
  <1> DEFINE r == Normalize(data)
  <1>1. r \in Rec
    BY NormalizeRec
  <1> HIDE DEF r
  <1>2. /\ tick.pc = "idle" /\ UNCHANGED <<file, storeVars, warm>>
        /\ PushFirst(r) \/ PushNewer(r) \/ ReplaceFront(r) \/ IgnoreStale(r)
    BY DEF UpdateCache, r
  <1>3. Ring(cache) /\ limits \in Limits /\ Covered(cache, limits) /\ cache \in Seq(Rec)
    BY DEF EngineInv, RingInv, Ring
  <1>4. ASSUME NEW pc \in {"save", "ingest"}, NEW closed \in Seq(Rec), Then(pc, r, closed),
               pc = "save" => closed # <<>>
        PROVE  TickInv' /\ tick'.pc = pc /\ tick'.data = r /\ tick'.closed = closed
    BY <1>1, <1>4 DEF Then, TickInv, TickPcs
  <1>5. CASE PushFirst(r)
    <2>1. cache' = <<r>> /\ cursor' = r.open /\ limits' = [max |-> High(r), min |-> Low(r)]
      BY <1>5 DEF PushFirst
    <2>2. Ring(cache') /\ InFront(r, <<>>, cache') /\ Ring(<<>>)
      BY <1>1, <2>1, OneRing, Idle
    <2>3. limits' \in Limits /\ Covered(cache', limits')
      <3>1. High(r) \in -Extreme..Extreme /\ Low(r) \in -Extreme..Extreme
        BY <1>1, PriceRange
      <3>2. QED
        BY <2>1, <3>1 DEF Limits, Covered
    <2>4. TickInv' /\ tick'.pc = "ingest" /\ tick'.data = r
      <3>1. <<>> \in Seq(Rec)
        OBVIOUS
      <3>2. Then("ingest", r, <<>>)
        BY <1>5 DEF PushFirst
      <3>3. QED
        BY <1>4, <3>1, <3>2
    <2>5. OpensOf(<<>>) \subseteq OpensOf(cache)
      BY DEF OpensOf
    <2>6. QED
      BY <1>1, <1>2, <2>1, <2>2, <2>3, <2>4, <2>5, FrontStep
  <1>6. CASE PushNewer(r)
    <2>1. /\ cache # <<>> /\ r.open > cache[1].open /\ cursor' = r.open
          /\ cache' = Pushed(r, cache) /\ limits' = Widened(r)
      BY <1>6 DEF PushNewer, Pushed
    <2>2. Ring(cache') /\ InFront(r, cache, cache')
      BY <1>1, <1>3, <2>1, PushedRing
    <2>3. limits' \in Limits /\ Covered(cache', limits')
      BY <1>1, <1>3, <2>1, <2>2, WidenedCovers
    <2>4. /\ TickInv' /\ tick'.pc = "save" /\ tick'.data = r
          /\ tick'.closed[1].open \in OpensOf(cache)
      <3>1. <<cache[1]>> \in Seq(Rec) /\ <<cache[1]>> # <<>> /\ 1 \in 1..Len(cache)
        BY <1>3, <2>1
      <3>2. TickInv' /\ tick'.pc = "save" /\ tick'.data = r /\ tick'.closed = <<cache[1]>>
        BY <1>4, <1>6, <3>1 DEF PushNewer
      <3>3. QED
        BY <3>1, <3>2 DEF OpensOf
    <2>5. QED
      BY <1>1, <1>2, <1>3, <2>1, <2>2, <2>3, <2>4, FrontStep
  <1>7. CASE ReplaceFront(r)
    <2>1. /\ cache # <<>> /\ r.open = cache[1].open /\ cursor' = cursor
          /\ cache' = Replaced(r, cache) /\ limits' = Widened(r)
      BY <1>7 DEF ReplaceFront, Replaced
    <2>2. Ring(cache') /\ InFront(r, cache, cache')
      BY <1>1, <1>3, <2>1, ReplacedRing
    <2>3. limits' \in Limits /\ Covered(cache', limits')
      BY <1>1, <1>3, <2>1, <2>2, WidenedCovers
    <2>4. TickInv' /\ tick'.pc = "ingest" /\ tick'.data = r
      <3>1. <<>> \in Seq(Rec)
        OBVIOUS
      <3>2. Then("ingest", r, <<>>)
        BY <1>7 DEF ReplaceFront
      <3>3. QED
        BY <1>4, <3>1, <3>2
    <2>5. QED
      BY <1>1, <1>2, <1>3, <2>1, <2>2, <2>3, <2>4, FrontStep
  <1>8. CASE IgnoreStale(r)
    <2>1. UNCHANGED dbVars
      BY <1>2, <1>8 DEF IgnoreStale, dbVars
    <2>2. QED
      BY <2>1, SameEngine DEF Keeps, Knows, InHand, dbVars, storeVars
  <1>9. QED
    BY <1>2, <1>5, <1>6, <1>7, <1>8

LEMMA SaveClosedStep ==
    ASSUME EngineInv, NEW o \in Outcome, SaveClosed(o)
    PROVE  EngineInv' /\ Keeps
  <1>1. /\ tick.pc = "save" /\ tick \in [pc : TickPcs, data : Rec, closed : Seq(Rec)]
        /\ tick.closed # <<>> /\ UNCHANGED <<storeVars, cacheVars, warm>>
    BY DEF SaveClosed, EngineInv, TickInv
  <1>2. tick.closed[1] \in Rec
    <2>1. tick.closed \in Seq(Rec)
      BY <1>1
    <2>2. QED
      BY <1>1, <2>1
  <1> DEFINE c == tick.closed[1]
  <1>3. /\ FileInv' /\ OpensOf(file) \subseteq OpensOf(file')
        /\ OpensOf(file') \subseteq OpensOf(file) \union {c.open}
        /\ c.open \in Opens(history) \union Opens(warm.page)
    <2>1. c \in Rec /\ file' = SaveRecord(file, c, o)
      BY <1>2 DEF SaveClosed
    <2>2. c.open \in Opens(history) \union Opens(warm.page)
      BY <1>1 DEF EngineInv, ClosedKnown
    <2> HIDE DEF c
    <2>3. QED
      BY <2>1, <2>2, SaveRecordKeeps DEF EngineInv, FileInv
  <1> HIDE DEF c
  <1>4. tick'.pc = "ingest" /\ tick'.data = tick.data /\ TickInv'
    <2>1. tick' = [tick EXCEPT !.pc = "ingest", !.closed = <<>>]
      BY DEF SaveClosed
    <2>2. <<>> \in Seq(Rec)
      OBVIOUS
    <2>3. QED
      BY <1>1, <2>1, <2>2 DEF TickInv, TickPcs
  <1>5. CacheIsBacked'
    BY <1>1, <1>4 DEF EngineInv, CacheIsBacked, InHand, storeVars, cacheVars
  <1>6. WarmKnown'
    BY <1>1 DEF EngineInv, WarmKnown, storeVars
  <1>7. Keeps /\ ClosedKnown'
    BY <1>1, <1>3, <1>4 DEF Keeps, Knows, InHand, ClosedKnown, storeVars
  <1>8. QED
    BY <1>1, <1>3, <1>4, <1>5, <1>6, <1>7, SameStore, SameRing, SameWarm
       DEF EngineInv, storeVars

LEMMA IngestTickStep == EngineInv /\ IngestTick => EngineInv' /\ Keeps
  <1> SUFFICES ASSUME EngineInv, IngestTick PROVE EngineInv' /\ Keeps
    OBVIOUS
  <1>1. /\ tick.data \in Rec /\ UNCHANGED <<file, cacheVars, warm>> /\ tick' = IdleTick
        /\ Ingest({tick.data})
    BY DEF IngestTick, EngineInv, TickInv
  <1>2. Known({tick.data}) /\ Opens({tick.data}) = {tick.data.open}
    BY <1>1, FS_Singleton DEF Known, Distinct, Opens
  <1>3. StoreInv' /\ Opens(history') = Opens(history) \union {tick.data.open}
    BY <1>1, <1>2, IngestStore DEF EngineInv
  <1>4. TickInv'
    BY <1>1, Idle DEF TickInv, IdleTick
  <1>5. CacheIsBacked'
    BY <1>1, <1>3 DEF EngineInv, CacheIsBacked, InHand, cacheVars, IdleTick
  <1>6. WarmKnown'
    BY <1>1, <1>3 DEF EngineInv, WarmKnown
  <1>7. Keeps /\ ClosedKnown'
    BY <1>1, <1>3 DEF Keeps, Knows, InHand, ClosedKnown, IdleTick
  <1>8. QED
    BY <1>1, <1>3, <1>4, <1>5, <1>6, <1>7, SameFile, SameRing, SameWarm DEF EngineInv

(***************************************************************************)
(* The application around the engine                                       *)
(***************************************************************************)
FeedInv == feed \in Seq(Raw) /\ now \in Traded
FaultsInv == faults \in Nat
(* Without a process nothing is known and no thread runs.                  *)
DownInv ==
    main \in {"down", "ended"} =>
        history = {} /\ warm.pc = "off" /\ tick.pc = "idle" /\ io = "off"
(* With one, the file holds nothing that it does not know.                 *)
DiskInv ==
    main \notin {"down", "ended"} => OpensOf(file) \subseteq Opens(history) \union InHand
DbInv == EngineInv /\ FeedInv /\ FaultsInv /\ DownInv /\ DiskInv

LEMMA TradedNat ==
    /\ Traded \subseteq Nat /\ Traded # {} /\ IsFiniteSet(Traded)
    /\ Max(Traded) \in Traded
  <1>1. Listed \in Nat /\ MaxNow \in Nat /\ FirstNow \in Traded
    BY FeedAssumption
  <1>2. Traded \in SUBSET (Listed..MaxNow)
    BY DEF Traded
  <1>3. IsFiniteSet(Listed..MaxNow)
    BY <1>1, FS_Interval
  <1>4. Traded \subseteq Nat /\ \A t \in Traded : t <= MaxNow
    BY <1>1, <1>2
  <1> HIDE DEF Traded
  <1>5. Traded # {} /\ IsFiniteSet(Traded)
    BY <1>1, <1>2, <1>3, FS_Subset
  <1>6. QED
    BY <1>1, <1>4, <1>5, MaxIsLargest

LEMMA KlineRaw == ASSUME NEW t \in Traded PROVE Kline(t) \in Raw
  BY FeedAssumption DEF Kline, Raw, Traded

LEMMA PageSeq == Page \in Seq(Raw)
  <1> DEFINE opens == {t \in Traded : warm.from <= t /\ t <= now}
             first == {t \in opens : Cardinality({u \in opens : u <= t}) <= PageLimit}
             rs == {Kline(t) : t \in first}
             k == [t \in first |-> Kline(t)]
  <1>1. first \in SUBSET Traded
    OBVIOUS
  <1>2. rs = {k[t] : t \in first} /\ DOMAIN k = first
    OBVIOUS
  <1>3. Page = InOrder(rs)
    BY DEF Page
  <1>4. \A r \in rs : \E t \in first : r = Kline(t)
    OBVIOUS
  <1> HIDE DEF first, rs, k
  <1>5. IsFiniteSet(rs)
    <2>1. IsFiniteSet(first)
      BY <1>1, TradedNat, FS_Subset
    <2>2. QED
      BY <1>2, <2>1, ImageFinite
  <1>6. rs \subseteq Raw
    BY <1>1, <1>4, TradedNat, KlineRaw
  <1>7. Distinct(rs)
    <2>1. ASSUME NEW r \in rs, NEW s \in rs, r.open = s.open PROVE r = s
      <3>1. PICK t \in first : r = Kline(t)
        BY <1>4
      <3>2. PICK u \in first : s = Kline(u)
        BY <1>4
      <3>3. t = u
        BY <2>1, <3>1, <3>2 DEF Kline
      <3>4. QED
        BY <3>1, <3>2, <3>3
    <2>2. QED
      BY <2>1 DEF Distinct
  <1>8. QED
    BY <1>3, <1>5, <1>6, <1>7, InOrderSorts

(* What a step of the application promises: only a fault takes a candle    *)
(* from the file.                                                          *)
KeepsUnlessFault ==
    Knows /\ (faults' = faults => OpensOf(file) \subseteq OpensOf(file'))

LEMMA OutcomeOf ==
    ASSUME FaultsInv, NEW o \in DiskOutcome, Spent(o)
    PROVE  o \in Outcome /\ (faults' = faults => ~o.emptied)
  <1>1. Sound \in Outcome /\ ~Sound.emptied
    BY DEF Sound, Outcome
  <1>2. o = Sound \/ o \in Outcome
    BY DEF DiskOutcome
  <1>3. o # Sound => faults' # faults
    BY DEF Spent, FaultsInv
  <1>4. QED
    BY <1>1, <1>2, <1>3

LEMMA WarmUpStep == EngineInv /\ FaultsInv /\ WarmUp => EngineInv' /\ KeepsUnlessFault
  <1> SUFFICES ASSUME EngineInv, FaultsInv, WarmUp PROVE EngineInv' /\ KeepsUnlessFault
    OBVIOUS
  <1>1. Keeps => KeepsUnlessFault
    BY DEF Keeps, KeepsUnlessFault
  <1>2. CASE WarmStep
    BY <1>2, <1>1, SendRequestStep, MoveCursorStep, IngestPageStep, CopyHistoryStep,
       RebuildStep DEF WarmStep
  <1>3. CASE \E o \in DiskOutcome : SavePage(o) /\ Spent(o)
    <2>1. PICK o \in DiskOutcome : SavePage(o) /\ Spent(o)
      BY <1>3
    <2>2. o \in Outcome /\ (faults' = faults => ~o.emptied)
      BY <2>1, OutcomeOf
    <2>3. QED
      BY <2>1, <2>2, SavePageStep DEF KeepsUnlessFault
  <1>4. CASE Answer(Page)
    BY <1>1, <1>4, PageSeq, AnswerStep
  <1>5. CASE \E n \in 0..Len(Page) - 1 : Answer(SubSeq(Page, 1, n))
    <2>1. PICK n \in 0..Len(Page) - 1 : Answer(SubSeq(Page, 1, n))
      BY <1>5
    <2> DEFINE p == SubSeq(Page, 1, n)
    <2>2. p \in Seq(Raw)
      <3>1. Len(Page) \in Nat
        BY PageSeq
      <3>2. n \in Nat /\ n <= Len(Page)
        BY <3>1
      <3>3. QED
        BY PageSeq, <3>2, SubSeqProperties
    <2> HIDE DEF p
    <2>3. Answer(p)
      BY <2>1 DEF p
    <2>4. QED
      BY <1>1, <2>2, <2>3, AnswerStep
  <1>6. QED
    BY <1>2, <1>4, <1>5, <1>3 DEF WarmUp, FetchHistoricalData

LEMMA HandleStep == EngineInv /\ FaultsInv /\ Handle => EngineInv' /\ KeepsUnlessFault
  <1> SUFFICES ASSUME EngineInv, FaultsInv, Handle PROVE EngineInv' /\ Keeps
    BY DEF Keeps, KeepsUnlessFault
  <1>1. CASE \E o \in DiskOutcome : SaveClosed(o) /\ Spent(o) /\ UNCHANGED wsVars
    BY <1>1, SaveClosedStep, OutcomeOf
  <1>2. CASE IngestTick
    BY <1>2, IngestTickStep
  <1>3. CASE UNCHANGED dbVars
    BY <1>3, SameEngine DEF Keeps, Knows, InHand, dbVars, storeVars
  <1>4. QED
    BY <1>1, <1>2, <1>3 DEF Handle

LEMMA ReceiveStep == EngineInv /\ FeedInv /\ Receive => EngineInv' /\ Keeps
  <1> SUFFICES ASSUME EngineInv, FeedInv, Receive PROVE EngineInv' /\ Keeps
    OBVIOUS
  <1>1. Head(feed) \in Raw
    <2>1. feed \in Seq(Raw) /\ feed # <<>>
      BY DEF FeedInv, Receive
    <2>2. QED
      BY <2>1, HeadTailProperties
  <1> DEFINE d == Head(feed)
  <1> HIDE DEF d
  <1>2. UpdateCache(d) /\ d \in Raw
    BY <1>1 DEF Receive, d
  <1>3. QED
    BY <1>2, UpdateCacheStep

LEMMA FeedStep == FeedInv /\ [Next]_feedVars => FeedInv'
  <1> SUFFICES ASSUME FeedInv, [Next]_feedVars PROVE FeedInv'
    OBVIOUS
  <1>1. ASSUME NEW r \in Raw, Deliver(r) PROVE feed' \in Seq(Raw)
    BY <1>1 DEF FeedInv, Deliver
  <1>2. CASE Pass
    <2>1. [open |-> now, val |-> 2] \in Raw
      BY FeedAssumption DEF FeedInv, Raw, Traded
    <2>2. feed' \in Seq(Raw)
      BY <1>1, <1>2, <2>1 DEF Pass
    <2>3. now' \in Traded
      <3> DEFINE T == {t \in Traded : t > now}
      <3>1. T \subseteq Nat /\ T # {}
        BY <1>2, TradedNat DEF FeedInv, Pass
      <3>2. now' = Min(T)
        BY <1>2 DEF Pass
      <3> HIDE DEF T
      <3>3. Min(T) \in T
        BY <3>1, MinIsSmallest
      <3>4. QED
        BY <3>2, <3>3 DEF T
    <2>4. QED
      BY <2>2, <2>3 DEF FeedInv
  <1>3. CASE Push
    <2>1. Kline(now) \in Raw
      BY KlineRaw DEF FeedInv
    <2>2. feed' \in Seq(Raw) /\ now' = now
      BY <1>1, <1>3, <2>1 DEF Push
    <2>3. QED
      BY <2>2 DEF FeedInv
  <1>4. CASE Receive
    <2>1. feed \in Seq(Raw) /\ feed # <<>> /\ feed' = Tail(feed) /\ now' = now
      BY <1>4 DEF FeedInv, Receive
    <2>2. QED
      BY <2>1, HeadTailProperties DEF FeedInv
  <1>5. CASE Drop \/ Exit \/ Crash
    <2>1. feed' = <<>> /\ now' = now
      BY <1>5 DEF Drop, Exit, Crash, Die
    <2>2. QED
      BY <2>1 DEF FeedInv
  <1>6. CASE UNCHANGED <<feed, now>>
    BY <1>6 DEF FeedInv
  <1>7. QED
    BY <1>2, <1>3, <1>4, <1>5, <1>6
       DEF Next, Boot, StartWarmup, StartClient, CloseWindow, WarmUp, IoThread, Handle,
           Network, feedVars, worldVars

LEMMA FaultsStep == FaultsInv /\ [Next]_feedVars => FaultsInv'
  <1> SUFFICES ASSUME FaultsInv, [Next]_feedVars PROVE FaultsInv'
    OBVIOUS
  <1>1. faults' \in {faults, faults + 1}
    BY DEF Next, Boot, StartWarmup, StartClient, CloseWindow, Exit, Crash, Die, WarmUp,
       FetchHistoricalData, Spent, IoThread, Receive, Handle, Network, Drop, Pass, Push,
       worldVars, feedVars
  <1>2. QED
    BY <1>1 DEF FaultsInv

LEMMA DownStep == DownInv /\ [Next]_feedVars => DownInv'
  <1> SUFFICES ASSUME DownInv, [Next]_feedVars PROVE DownInv'
    OBVIOUS
  <1>1. CASE Boot \/ StartWarmup \/ StartClient \/ CloseWindow
    BY <1>1 DEF DownInv, Boot, StartWarmup, StartClient, CloseWindow
  <1>2. CASE Exit \/ Crash
    BY <1>2 DEF DownInv, Exit, Crash, Die, Unload, Off, IdleWarm, IdleTick
  <1>3. CASE WarmUp
    BY <1>3 DEF DownInv, WarmUp, WarmStep, SendRequest, SavePage, MoveCursor, IngestPage,
       CopyHistory, Rebuild, FetchHistoricalData, Answer, wsVars
  <1>4. CASE IoThread
    BY <1>4 DEF DownInv, IoThread, Receive, OnKline, Handle, SaveClosed, IngestTick,
       DoRead, Network, IoStep, OnReconnectTimer, OnHandshake, worldVars, dbVars, storeVars,
       wsVars
  <1>5. CASE Drop
    BY <1>5 DEF DownInv, Drop, Fail, ScheduleReconnect, dbVars, storeVars
  <1>6. CASE Pass \/ Push \/ UNCHANGED feedVars
    BY <1>6 DEF DownInv, Pass, Push, feedVars, worldVars, dbVars, storeVars, wsVars
  <1>7. QED
    BY <1>1, <1>2, <1>3, <1>4, <1>5, <1>6 DEF Next

(***************************************************************************)
(* The invariant of the specification                                      *)
(***************************************************************************)
LEMMA DbInvInit == Init => DbInv
  <1> SUFFICES ASSUME Init PROVE DbInv
    OBVIOUS
  <1>1. /\ file = <<>> /\ history = {} /\ bounds = NoBounds /\ ready = FALSE /\ anchor = 0
        /\ cache = <<>> /\ limits = NoLimits /\ cursor = 0
        /\ warm = IdleWarm /\ tick = IdleTick
        /\ io = "off" /\ feed = <<>> /\ now = FirstNow /\ faults = 0 /\ main = "down"
    BY DEF Init, EngineInit, WsInit
  <1>2. FileInv /\ feed \in Seq(Raw) /\ FaultsInv /\ DiskInv
    BY <1>1 DEF FileInv, Filed, FaultsInv, DiskInv
  <1>3. StoreInv
    BY <1>1, Idle DEF StoreInv, SummariesMatchHistory, HasLatestSpan
  <1>4. RingInv
    BY <1>1, Idle, EngineAssumption DEF RingInv, NoLimits, Limits, Covered
  <1>5. WarmInv /\ TickInv /\ WarmKnown /\ ClosedKnown
    BY <1>1, Idle DEF WarmInv, TickInv, WarmKnown, ClosedKnown, IdleWarm, IdleTick
  <1>6. CacheIsBacked
    BY <1>1 DEF CacheIsBacked, OpensOf
  <1>7. FeedInv
    BY <1>1, <1>2, FeedAssumption DEF FeedInv
  <1>8. DownInv
    BY <1>1 DEF DownInv, IdleWarm, IdleTick
  <1>9. QED
    BY <1>2, <1>3, <1>4, <1>5, <1>6, <1>7, <1>8 DEF DbInv, EngineInv

LEMMA DbInvStep == DbInv /\ [Next]_feedVars => DbInv' /\ Remembers
  <1> SUFFICES ASSUME DbInv, [Next]_feedVars PROVE EngineInv' /\ DiskInv' /\ Remembers
    BY FeedStep, FaultsStep, DownStep DEF DbInv
  <1>1. EngineInv /\ FeedInv /\ FaultsInv /\ FileInv /\ DiskInv
    BY DEF DbInv, EngineInv
  <1>2. ASSUME KeepsUnlessFault, main' \notin {"down", "ended"} => main \notin {"down", "ended"}
        PROVE  DiskInv' /\ Remembers
    BY <1>1, <1>2 DEF DiskInv, KeepsUnlessFault, Knows, Remembers
  <1>3. CASE Boot
    <2>1. history = {} /\ main' = "built"
      BY <1>3 DEF Boot, DbInv, DownInv
    <2>2. PICK o \in DiskOutcome : Load(o) /\ Spent(o)
      BY <1>3 DEF Boot
    <2>3. o \in Outcome /\ (faults' = faults => ~o.emptied)
      BY <1>1, <2>2, OutcomeOf
    <2>4. /\ EngineInv' /\ OpensOf(file') \subseteq Opens(history')
          /\ ~o.emptied => OpensOf(file) \subseteq OpensOf(file')
      BY <1>1, <2>2, <2>3, LoadStep
    <2>5. Opens(history) = {}
      BY <2>1 DEF Opens
    <2>6. QED
      BY <2>3, <2>4, <2>5 DEF Remembers, DiskInv
  <1>4. CASE Exit \/ Crash
    <2>1. Unload /\ UNCHANGED file /\ main' \in {"down", "ended"}
      BY <1>4 DEF Exit, Crash, Die
    <2>2. QED
      BY <1>1, <2>1, UnloadStep DEF Remembers, DiskInv
  <1>5. CASE StartWarmup
    <2>1. EngineInv' /\ KeepsUnlessFault
      BY <1>1, <1>5, WarmupAsyncStep DEF StartWarmup, Keeps, KeepsUnlessFault
    <2>2. QED
      BY <1>2, <1>5, <2>1 DEF StartWarmup
  <1>6. CASE WarmUp
    <2>1. EngineInv' /\ KeepsUnlessFault /\ main' = main
      BY <1>1, <1>6, WarmUpStep DEF WarmUp
    <2>2. QED
      BY <1>2, <2>1
  <1>7. CASE Receive
    <2>1. EngineInv' /\ KeepsUnlessFault /\ main' = main
      BY <1>1, <1>7, ReceiveStep DEF Receive, Keeps, KeepsUnlessFault
    <2>2. QED
      BY <1>2, <2>1
  <1>8. CASE Handle
    <2>1. EngineInv' /\ KeepsUnlessFault /\ main' = main
      BY <1>1, <1>8, HandleStep DEF Handle
    <2>2. QED
      BY <1>2, <2>1
  <1>9. CASE UNCHANGED dbVars /\ (main' = main \/ main \in {"warming", "running"})
    <2>1. EngineInv' /\ KeepsUnlessFault
      BY <1>1, <1>9, SameEngine DEF KeepsUnlessFault, Knows, InHand, dbVars, storeVars
    <2>2. QED
      BY <1>2, <1>9, <2>1
  <1>10. QED
    BY <1>3, <1>4, <1>5, <1>6, <1>7, <1>8, <1>9
       DEF Next, StartClient, CloseWindow, IoThread, Network, Drop, Pass, Push, worldVars,
           feedVars

LEMMA DbInvAlways == Spec => []DbInv
  BY DbInvInit, DbInvStep, PTL DEF Spec

(* Whatever pages and ticks arrive and however the two threads interleave, *)
(* the ring is newest first, without duplicates, and never overfull.       *)
THEOREM RingStaysOrdered == Spec => []CacheIsOrdered
  <1>1. DbInv => CacheIsOrdered
    <2> SUFFICES ASSUME DbInv PROVE CacheIsOrdered
      OBVIOUS
    <2>1. Ring(cache) /\ Len(cache) \in Nat
      BY DEF DbInv, EngineInv, RingInv, Ring
    <2>2. \A i \in 1..(Len(cache) - 1) : i \in 1..Len(cache) /\ i + 1 \in 1..Len(cache)
      BY <2>1
    <2>3. QED
      BY <2>1, <2>2 DEF CacheIsOrdered, Ring, Newer
  <1>2. QED
    BY <1>1, DbInvAlways, PTL

(* The ring and the next request name only candles that the map has or     *)
(* that a thread is about to put there.                                    *)
THEOREM RingStaysBacked == Spec => []CacheIsBacked
  <1>1. DbInv => CacheIsBacked
    BY DEF DbInv, EngineInv
  <1>2. QED
    BY <1>1, DbInvAlways, PTL

(* The price limits the chart scales to contain every candle of the ring.  *)
THEOREM LimitsStayWide == Spec => []LimitsCoverCache
  <1>1. DbInv => LimitsCoverCache
    BY DEF DbInv, EngineInv, RingInv, Covered, LimitsCoverCache
  <1>2. QED
    BY <1>1, DbInvAlways, PTL

(* Range, readiness and anchor are what the map itself would answer.       *)
THEOREM SummariesStayTrue == Spec => []SummariesMatchHistory
  <1>1. DbInv => SummariesMatchHistory
    BY DEF DbInv, EngineInv, StoreInv
  <1>2. QED
    BY <1>1, DbInvAlways, PTL

(* Across ticks, pages, crashes, restarts and any number of opens that     *)
(* fail, a candle leaves the file only in a step in which opening it       *)
(* failed; none leaves the map while the process lives, which has all that *)
(* the file holds.                                                         *)
THEOREM NothingWrittenIsLost == Spec => NothingIsForgotten
  <1>1. DbInv /\ [Next]_feedVars => [Remembers]_feedVars
    BY DbInvStep
  <1>2. QED
    BY <1>1, DbInvAlways, PTL DEF Spec, NothingIsForgotten

(* The connection light is lit only over a connection that is being read,  *)
(* and whose next failure starts from the shortest delay.                  *)
THEOREM LightStaysTrue == Spec => []LightIsTrue
  <1>1. Init => LightIsTrue
    BY DEF Init, WsInit, LightIsTrue, IsWsConnected
  <1>2. LightIsTrue /\ [Next]_feedVars => LightIsTrue'
    <2> SUFFICES ASSUME LightIsTrue, [Next]_feedVars PROVE LightIsTrue'
      OBVIOUS
    <2>1. CASE StartClient \/ CloseWindow
      BY <2>1 DEF LightIsTrue, IsWsConnected, StartClient, CloseWindow, Connect, Disconnect
    <2>2. CASE Exit \/ Crash
      BY <2>2 DEF LightIsTrue, IsWsConnected, Exit, Crash, Die, Off
    <2>3. CASE Receive \/ Handle
      BY <2>3 DEF LightIsTrue, IsWsConnected, Receive, OnKline, Handle, DoRead, wsVars
    <2>4. CASE Network \/ Drop
      BY <2>4 DEF LightIsTrue, IsWsConnected, Network, IoStep, OnReconnectTimer, OnHandshake,
         Drop, Fail, ScheduleReconnect
    <2>5. CASE UNCHANGED wsVars
      BY <2>5 DEF LightIsTrue, IsWsConnected, wsVars
    <2>6. QED
      BY <2>1, <2>2, <2>3, <2>4, <2>5
         DEF Next, Boot, StartWarmup, WarmUp, IoThread, Pass, Push, feedVars
  <1>3. QED
    BY <1>1, <1>2, PTL DEF Spec

(***************************************************************************)
(* Types                                                                   *)
(***************************************************************************)
(* A map has as many open times as records.                                *)
LEMMA OneOpenEach ==
    ASSUME NEW h, Known(h)
    PROVE  /\ Cardinality(Opens(h)) = Cardinality(h)
           /\ IsFiniteSet(Opens(h)) /\ Opens(h) \subseteq Nat
  <1> DEFINE f == [r \in h |-> r.open]
  <1>1. f \in Bijection(h, Opens(h))
    <2>1. f \in [h -> Opens(h)] /\ \A x \in Opens(h) : \E r \in h : f[r] = x
      BY DEF Opens
    <2>2. \A r, s \in h : f[r] = f[s] => r = s
      BY DEF Known, Distinct
    <2> HIDE DEF f
    <2>3. QED
      BY <2>1, <2>2 DEF Bijection, Injection, IsInjective, Surjection
  <1> HIDE DEF f
  <1>2. IsFiniteSet(Opens(h)) /\ Cardinality(Opens(h)) = Cardinality(h)
    BY <1>1, FS_Bijection DEF ExistsBijection, Known
  <1>3. Opens(h) \subseteq Nat
    BY FeedAssumption DEF Known, Rec, Times, Opens
  <1>4. QED
    BY <1>2, <1>3

(* The WebSocket client's part.                                            *)
WsTypes ==
    /\ io \in {"off", "connecting", "read", "handler", "timer", "spent"}
    /\ connected \in BOOLEAN /\ wsOpen \in BOOLEAN /\ stopped \in BOOLEAN
    /\ delay \in 1..MaxDelay

LEMMA WsTypesStep == WsTypes /\ [Next]_feedVars => WsTypes'
  <1> SUFFICES ASSUME WsTypes, [Next]_feedVars PROVE WsTypes'
    OBVIOUS
  <1>1. 1 \in 1..MaxDelay /\ Doubled(delay) \in 1..MaxDelay
    BY DelayAssumption DEF WsTypes, Doubled
  <1>2. CASE StartClient \/ CloseWindow
    BY <1>1, <1>2 DEF WsTypes, StartClient, CloseWindow, Connect, Disconnect
  <1>3. CASE Exit \/ Crash
    BY <1>1, <1>3 DEF WsTypes, Exit, Crash, Die, Off
  <1>4. CASE Receive \/ Handle
    BY <1>4 DEF WsTypes, Receive, OnKline, Handle, DoRead, wsVars
  <1>5. CASE Network \/ Drop
    BY <1>1, <1>5 DEF WsTypes, Network, IoStep, OnReconnectTimer, OnHandshake, Drop, Fail,
       ScheduleReconnect
  <1>6. CASE UNCHANGED wsVars
    BY <1>6 DEF WsTypes, wsVars
  <1>7. QED
    BY <1>2, <1>3, <1>4, <1>5, <1>6
       DEF Next, Boot, StartWarmup, WarmUp, IoThread, Pass, Push, feedVars

(* Every variable stays in its type: the map keeps one record per candle,  *)
(* and no limit is further out than those of an empty ring.                *)
THEOREM EngineTypes == Spec => []TypeOK
  <1>1. ASSUME Init PROVE WsTypes
    <2>1. delay \in 1..MaxDelay
      BY <1>1, DelayAssumption DEF Init, WsInit
    <2>2. QED
      BY <1>1, <2>1 DEF Init, WsInit, WsTypes
  <1>2. ASSUME DbInv, WsTypes PROVE TypeOK
    <2>1. /\ file \in Seq(Raw) /\ cache \in Seq(Raw) /\ feed \in Seq(Raw)
          /\ Known(history) /\ Known(warm.page) /\ SummariesMatchHistory
          /\ limits \in Limits /\ cursor \in Nat
          /\ warm \in WarmShape /\ tick \in [pc : TickPcs, data : Rec, closed : Seq(Rec)]
      BY <1>2, RecSeqIsRaw
         DEF DbInv, EngineInv, FeedInv, FileInv, Filed, StoreInv, RingInv, Ring, WarmInv, TickInv
    <2>2. Cardinality(Opens(history)) = Cardinality(history)
      BY <2>1, OneOpenEach
    <2>3. history # {} => OldestOpen(history) \in Nat /\ NewestOpen(history) \in Nat
      <3>1. history # {} => Opens(history) # {}
        BY DEF Opens
      <3>2. /\ IsFiniteSet(Opens(history)) /\ Opens(history) \subseteq Nat
            /\ Opens(history) \subseteq Int
        BY <2>1, OneOpenEach
      <3>3. QED
        BY <3>1, <3>2, FiniteMinMax DEF OldestOpen, NewestOpen
    <2>4. bounds \in [min : Nat, max : Nat]
      BY <2>1, <2>3 DEF SummariesMatchHistory, NoBounds, OldestOpen
    <2>5. ready \in BOOLEAN
      BY <2>1 DEF SummariesMatchHistory, HasLatestSpan
    <2>6. anchor \in Nat
      <3>1. ready => history # {}
        BY <2>1 DEF SummariesMatchHistory, HasLatestSpan
      <3>2. QED
        BY <2>1, <2>3, <3>1 DEF SummariesMatchHistory
    <2>7. /\ warm.pc \in WarmPcs /\ warm.copy \in Seq(Raw)
          /\ tick.pc \in TickPcs /\ tick.data \in Raw
      BY <2>1, RecSeqIsRaw, NormalizeSame DEF WarmShape
    <2>8. Raw = Records /\ history \subseteq Raw /\ warm.page \subseteq Raw
      BY <2>1, NormalizeSame DEF Raw, Records, Known
    <2>9. QED
      BY <1>2, <2>1, <2>2, <2>4, <2>5, <2>6, <2>7, <2>8
         DEF TypeOK, WsTypes, Limits, WarmPcs, TickPcs
  <1>3. QED
    BY <1>1, <1>2, WsTypesStep, DbInvAlways, PTL DEF Spec
=============================================================================
