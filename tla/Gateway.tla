------------------------------- MODULE Gateway -------------------------------
(***************************************************************************)
(* ExchangeGateway as its one client uses it: the worker calls fetchRange  *)
(* some times, then streamLive, then stops the subscription, while the     *)
(* exchange moves on and the network fails now and then.                   *)
(***************************************************************************)
EXTENDS FetchRange, WsSession

CONSTANTS
    FirstNow,    \* the candle in progress at first
    Limits,      \* the limits asked for
    MaxFaults    \* bound: failed pages, refused candles, failed or silent
                 \* connections, messages other than klines

ASSUME GatewayAssumption ==
    FirstNow \in Nat \ {0} /\ Limits \subseteq Nat /\ MaxFaults \in Nat

VARIABLES
    now,        \* the exchange: the candle in progress
    faults,
    asked       \* history: now when the call began

worldVars == <<now, faults, asked>>
gatewayVars == <<fetchVars, sessionVars, worldVars>>

Fault == faults < MaxFaults /\ faults' = faults + 1

Pass ==
    /\ now + Interval <= MaxNow
    /\ now' = now + Interval
    /\ UNCHANGED <<fetchVars, sessionVars, faults, asked>>

(* FETCH: the worker, before it subscribes.                                *)
Call ==
    /\ session = "new" /\ call \in {"idle", "done"}
    /\ \E start, end \in 1..MaxNow, limit \in Limits :
          start % Interval = 0 /\ Begin(start, end, limit)
    /\ asked' = now
    /\ UNCHANGED <<sessionVars, now, faults>>

Page ==
    /\ \/ AcceptPage(now, {}) /\ UNCHANGED faults
       \/ Fault /\ FailPage
       \/ Fault /\ \E t \in Klines(now) : AcceptPage(now, {t})
    /\ UNCHANGED <<sessionVars, now, asked>>

(* STREAM: the worker, and the io thread.                                  *)
StreamLive ==
    /\ call \in {"idle", "done"} /\ Returned
    /\ Start
    /\ UNCHANGED <<now, faults>> /\ asked' = 0

Network ==
    /\ OnResolve \/ OnHandshake \/ OnKline \/ OnAborted \/ OnReconnectTimer
    /\ UNCHANGED <<fetchVars, worldVars>>

(* Nothing is read, so the idle timer does expire.                         *)
IdleExpires ==
    /\ ops.read = 0 /\ OnIdleTimeout
    /\ UNCHANGED <<fetchVars, worldVars>>

(* The exchange is silent for the idle timeout.                            *)
Silence ==
    /\ ops.read > 0 /\ OnIdleTimeout
    /\ Fault /\ UNCHANGED <<fetchVars, now, asked>>

Disturb ==
    /\ \/ \E op \in {"resolve", "connect", "read"} : Fail(op)
       \/ OnOtherMessage
    /\ Fault /\ UNCHANGED <<fetchVars, now, asked>>

Unsubscribe ==
    /\ Stop \/ Joined
    /\ UNCHANGED <<fetchVars, worldVars>>

Init == FetchInit /\ SessionInit /\ now = FirstNow /\ faults = 0 /\ asked = 0

Next ==
    \/ Pass \/ Call \/ Page \/ StreamLive
    \/ Network \/ IdleExpires \/ Silence \/ Disturb \/ Unsubscribe

Spec == Init /\ [][Next]_gatewayVars

(* A request ends; a completion or an expired timer is run; stop() joins.  *)
(* New candles, calls, failures, silence and stop() itself need not come.  *)
FairSpec ==
    /\ Spec
    /\ WF_gatewayVars(Page)
    /\ WF_gatewayVars(Network) /\ WF_gatewayVars(IdleExpires)
    /\ WF_gatewayVars(Joined /\ UNCHANGED <<fetchVars, worldVars>>)
-----------------------------------------------------------------------------
(* Every variable stays in its type.                                       *)
TypeOK ==
    /\ SessionTypeOK
    /\ call \in {"idle", "page", "done"} /\ attempt \in 0..MaxRetries
    /\ range \in [start : 0..MaxNow, end : 0..MaxNow, limit : 0..RestMaxLimit]
    /\ cursor \in 0..(MaxNow + Interval) /\ gaveUp \in BOOLEAN
    /\ ordered \subseteq Traded /\ refused \subseteq Traded

(* Without a failure, a refused candle or an outage inside the range, the  *)
(* answer has every candle the range had when the call began, however many *)
(* pages it takes and although candles appear while it pages.  The range   *)
(* begins where the exchange has candles: a first page that is short since *)
(* its window begins before the listing ends the call.                     *)
CleanAnswerIsComplete ==
    /\ call = "done" /\ ~gaveUp /\ refused = {}
    /\ Listed <= range.start /\ Holes \cap (range.start..range.end) = {}
    => \A t \in Traded : range.start <= t /\ t <= range.end /\ t <= asked => t \in ordered

(* fetchRange returns: no answer makes it ask for the same page for ever.  *)
FetchReturns == call = "page" ~> call = "done"

(* After the last disturbance the session comes to read and goes on to:    *)
(* neither a failed connect, nor silence, nor an unknown message is the    *)
(* end of the live stream, and no timer left behind breaks a healthy one.  *)
SessionSettles == <>[](running => ops.read = 1)
=============================================================================
