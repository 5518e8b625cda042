---------------------------- MODULE PriceDataFile ----------------------------
(***************************************************************************)
(* PriceDataManager as DatabaseEngine uses it: a file of fixed-size        *)
(* records that is appended to one by one (saveRecord), merged with a page *)
(* of records (saveRecords), and read back whole or by its last record.    *)
(* Every method holds fileMutex, so each is one operator on the file.      *)
(***************************************************************************)
EXTENDS Integers, Sequences, FiniteSets, FiniteSetsExt

CONSTANT Minute     \* kMillisPerMinute in ticks

ASSUME MinuteAssumption == Minute \in Nat \ {0}

(* A page, or any part of the map, is a set of records with one record per *)
(* open time: normalizeRecords orders and deduplicates what it returns.    *)
Opens(rs) == {r.open : r \in rs}
OpensOf(seq) == {seq[i].open : i \in 1..Len(seq)}
(* In order of time: up to the i-th there are i.                           *)
InOrder(rs) ==
    [i \in 1..Cardinality(rs) |->
        CHOOSE r \in rs : Cardinality({s \in rs : s.open <= r.open}) = i]

(* The start of r's minute; anything before the first minute is invalid.   *)
Normalize(r) == [r EXCEPT !.open = (r.open \div Minute) * Minute]
IsValid(r) == r.open > 0

(* readLastRecord: 0 stands for the zeroed record of an empty file.        *)
LastOpen(f) == IF f = <<>> THEN 0 ELSE f[Len(f)].open

(* How opening the file for writing may end.  If opening it for update     *)
(* fails it is opened for output alone, which empties it unless that fails *)
(* too, and for update once more; if that fails nothing is written.        *)
Outcome == [emptied : BOOLEAN, written : BOOLEAN]
Sound == [emptied |-> FALSE, written |-> TRUE]
Opened(f, o) == IF o.emptied THEN <<>> ELSE f

(* saveRecord appends, whatever the file ends with; its open never empties.*)
SaveRecord(f, r, o) ==
    IF o.written /\ IsValid(Normalize(r)) THEN Append(f, Normalize(r)) ELSE f

(* Mutant: a page always rewrites the record the file ended with.          *)
SaveRecordsRewinds(f, page, o) ==
    IF ~o.written THEN Opened(f, o)
    ELSE SubSeq(Opened(f, o), 1, Len(Opened(f, o)) - 1) \o InOrder(page)

(* saveRecords merges a page into the end of the file: what is older than  *)
(* the last record is dropped, what is as old overwrites it, the rest is   *)
(* appended in order.                                                      *)
Merge(f, page) ==
    LET same == {r \in page : r.open = LastOpen(f)}
        newer == {r \in page : r.open > LastOpen(f)}
    IN  (IF same = {} THEN f ELSE [f EXCEPT ![Len(f)] = CHOOSE r \in same : TRUE])
            \o InOrder(newer)

SaveRecords(f, page, o) ==
    IF o.written THEN Merge(Opened(f, o), page) ELSE Opened(f, o)
=============================================================================
