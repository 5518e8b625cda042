----------------------------- MODULE FetchRange -----------------------------
(***************************************************************************)
(* ExchangeGateway::fetchRange: one call that pages through the exchange's *)
(* klines of a range, retries each page, and returns what it has when a    *)
(* page fails for good, is empty or is not full.  A candle is its open     *)
(* time here.                                                              *)
(***************************************************************************)
EXTENDS Integers, FiniteSets, FiniteSetsExt

CONSTANTS
    Interval,      \* interval.ms, in ticks
    RestMaxLimit,  \* restMaxLimit
    MaxRetries,    \* maxRetries
    Listed, Holes, \* the exchange: its first candle, candles it never had
    MaxNow         \* the exchange's last candle (bound)

ASSUME FetchAssumption ==
    /\ {Interval, RestMaxLimit, Listed, MaxNow} \subseteq Nat \ {0}
    /\ MaxRetries \in Nat /\ Holes \subseteq Nat

VARIABLES
    call,      \* "idle", "page" while a page is wanted, "done" at the return
    range,     \* the argument: start, end and the effective limit
    cursor,    \* cursor
    attempt,   \* attempt: how often this page has failed
    ordered,   \* ordered: the candles to return
    refused,   \* history: candles the call saw and validateCandle refused
    gaveUp     \* history: a page failed for good

fetchVars == <<call, range, cursor, attempt, ordered, refused, gaveUp>>

Traded == {t \in Listed..MaxNow : t % Interval = 0 /\ t \notin Holes}
Least(a, b) == IF a < b THEN a ELSE b

Begin(start, end, limit) ==
    /\ call # "page" /\ start <= end
    /\ call' = "page" /\ cursor' = start /\ attempt' = 0
    /\ range' = [start |-> start, end |-> end,
                 limit |-> IF limit = 0 THEN RestMaxLimit ELSE Least(limit, RestMaxLimit)]
    /\ ordered' = {} /\ refused' = {} /\ gaveUp' = FALSE

(* What the exchange answers to a page request: startTime, endTime, limit. *)
PageEnd == Least(range.end, cursor + Interval * range.limit - 1)
Klines(now) ==
    LET opens == {t \in Traded : cursor <= t /\ t <= PageEnd /\ t <= now}
    IN  {t \in opens : Cardinality({u \in opens : u <= t}) <= range.limit}

(* Mutant: from the last candle, not the one after it.                     *)
NextCursorRepeats(page) == Max(page)
NextCursor(page) ==
    IF Max(page) <= cursor THEN cursor + Interval ELSE Max(page) + Interval

(* Mutant: a full page ends the call.                                      *)
LastPageFull(page) ==
    page = {} \/ Cardinality(page) <= range.limit \/ NextCursor(page) > range.end
LastPage(page) ==
    page = {} \/ Cardinality(page) < range.limit \/ NextCursor(page) > range.end

(* A page without the candles that validateCandle refuses.                 *)
AcceptPage(now, bad) ==
    LET page == Klines(now) \ bad
    IN  /\ call = "page" /\ bad \subseteq Klines(now)
        /\ ordered' = ordered \union {t \in page : range.start <= t /\ t <= range.end}
        /\ refused' = refused \union bad
        /\ attempt' = 0
        /\ IF LastPage(page) THEN call' = "done" /\ UNCHANGED cursor
           ELSE cursor' = NextCursor(page) /\ UNCHANGED call
        /\ UNCHANGED <<range, gaveUp>>

(* Mutant: a page that failed for good is passed over.                     *)
FailPageSkips ==
    /\ call = "page"
    /\ IF attempt < MaxRetries THEN attempt' = attempt + 1 /\ UNCHANGED <<call, cursor, gaveUp>>
       ELSE /\ cursor' = PageEnd + 1 /\ attempt' = 0 /\ gaveUp' = TRUE
            /\ call' = IF PageEnd + 1 > range.end THEN "done" ELSE "page"
    /\ UNCHANGED <<range, ordered, refused>>

(* Mutant: one retry more.                                                 *)
FailPageRetriesMore ==
    /\ call = "page"
    /\ IF attempt <= MaxRetries THEN attempt' = attempt + 1 /\ UNCHANGED <<call, gaveUp>>
       ELSE call' = "done" /\ gaveUp' = TRUE /\ UNCHANGED attempt
    /\ UNCHANGED <<range, cursor, ordered, refused>>

(* An exception, an HTTP error or an unexpected payload.                   *)
FailPage ==
    /\ call = "page"
    /\ IF attempt < MaxRetries THEN attempt' = attempt + 1 /\ UNCHANGED <<call, gaveUp>>
       ELSE call' = "done" /\ gaveUp' = TRUE /\ UNCHANGED attempt
    /\ UNCHANGED <<range, cursor, ordered, refused>>

Returned ==
    /\ call' = "idle" /\ cursor' = 0 /\ attempt' = 0
    /\ range' = [start |-> 0, end |-> 0, limit |-> 0]
    /\ ordered' = {} /\ refused' = {} /\ gaveUp' = FALSE

FetchInit ==
    /\ call = "idle" /\ cursor = 0 /\ attempt = 0
    /\ range = [start |-> 0, end |-> 0, limit |-> 0]
    /\ ordered = {} /\ refused = {} /\ gaveUp = FALSE
-----------------------------------------------------------------------------
(* Whatever fails on the way, the answer is the beginning of the range: no *)
(* candle in it was passed over, except those seen and refused.  The       *)
(* orchestrator takes a gap inside an answer for a gap of the exchange.    *)
AnswerIsPrefix ==
    \A t \in ordered : /\ range.start <= t /\ t <= range.end
                       /\ \A u \in Traded : range.start <= u /\ u <= t =>
                              u \in ordered \union refused
=============================================================================
