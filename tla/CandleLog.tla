------------------------------ MODULE CandleLog ------------------------------
(***************************************************************************)
(* What the time series store promises its clients, without its caches:    *)
(* one gap-free log of closed candles that only ever grows at its end or   *)
(* has its newest entry corrected, plus at most one candle still being     *)
(* formed.  Losing the process loses that one candle and nothing else.     *)
(*                                                                         *)
(* Repository.tla implements this with a vector of candles, a metadata     *)
(* cache and a binary file.                                                *)
(***************************************************************************)
EXTENDS Naturals, Sequences

CONSTANTS
    Interval,   \* time from one candle to the next
    Opens,      \* the open times candles can have
    Vals

VARIABLES log,      \* closed candles, oldest first
          forming   \* the candle being formed: a sequence of length 0 or 1

logVars == <<log, forming>>

Entry == [open : Opens, val : Vals]

Newest == log[Len(log)]

(* r may take the place after the log (and of the candle being formed).    *)
AtEnd(r) ==
    /\ log # <<>> => r.open = Newest.open + Interval
    /\ forming # <<>> => r.open = forming[1].open

AfterForming(r) == forming # <<>> /\ r.open = forming[1].open + Interval

Stream(r) ==
    /\ AtEnd(r)
    /\ forming' = <<r>>
    /\ UNCHANGED log

Close(r) ==
    /\ AtEnd(r)
    /\ log' = Append(log, r)
    /\ forming' = <<>>

Seal ==
    /\ forming # <<>>
    /\ log' = Append(log, forming[1])
    /\ forming' = <<>>

SealThenStream(r) ==
    /\ AfterForming(r)
    /\ log' = Append(log, forming[1])
    /\ forming' = <<r>>

SealThenClose(r) ==
    /\ AfterForming(r)
    /\ log' = Append(Append(log, forming[1]), r)
    /\ forming' = <<>>

Correct(r) ==
    /\ log # <<>> /\ forming = <<>>
    /\ r.open = Newest.open
    /\ log' = [log EXCEPT ![Len(log)] = r]
    /\ UNCHANGED forming

LoseForming ==
    /\ forming' = <<>>
    /\ UNCHANGED log

LogInit == log = <<>> /\ forming = <<>>

LogNext ==
    \/ \E r \in Entry : \/ Stream(r) \/ Close(r) \/ Correct(r)
                        \/ SealThenStream(r) \/ SealThenClose(r)
    \/ Seal
    \/ LoseForming

LogSpec == LogInit /\ [][LogNext]_logVars
=============================================================================
