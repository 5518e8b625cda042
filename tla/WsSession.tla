------------------------------ MODULE WsSession ------------------------------
(***************************************************************************)
(* WsSession: the live session of ExchangeGateway.  One io thread runs the *)
(* completions of asynchronous operations and two timers.  An operation on *)
(* a stream that ws_.reset() destroys still completes, with an error.      *)
(* Connecting and the two handshakes are one operation here: each only     *)
(* starts the next, and all fail alike.                                    *)
(***************************************************************************)
EXTENDS Naturals

CONSTANTS
    MaxAttempts,   \* 16: where computeBackoffMs stops growing
    LongOutages    \* whether reconnecting may outlast the idle timeout

ASSUME SessionAssumption == MaxAttempts \in Nat /\ LongOutages \in BOOLEAN

VARIABLES
    running,     \* running_
    session,     \* "new", "on", "stopping" inside stop(), "over" once joined
    stream,      \* ws_ is set
    ops,         \* operations under way: on the resolver, on ws_, on none
    reconnect,   \* reconnectTimer_ is waited for
    idle,        \* idleTimer_ is waited for
    attempts     \* reconnectAttempts_

sessionVars == <<running, session, stream, ops, reconnect, idle, attempts>>

NoOps == [resolve |-> 0, connect |-> 0, read |-> 0, aborted |-> 0]
Chains == ops.resolve + ops.connect + ops.read

(* The operations once the stream they run on is gone.                     *)
Abort(o) == [o EXCEPT !.connect = 0, !.read = 0,
                      !.aborted = o.aborted + o.connect + o.read]

Start ==
    /\ session = "new"
    /\ running' = TRUE /\ session' = "on"
    /\ ops' = [NoOps EXCEPT !.resolve = 1]
    /\ UNCHANGED <<stream, reconnect, idle, attempts>>

MoreAttempts == IF attempts < MaxAttempts THEN attempts + 1 ELSE attempts

(* Mutants: the old stream lives on; the timer is not waited for.          *)
ScheduleReconnectKeeps(o) ==
    /\ IF running THEN ops' = o /\ reconnect' = TRUE /\ attempts' = MoreAttempts
       ELSE ops' = o /\ UNCHANGED <<reconnect, attempts>>
    /\ UNCHANGED <<running, session, stream>>
ScheduleReconnectUnheard(o) ==
    /\ IF running THEN ops' = Abort(o) /\ stream' = FALSE /\ attempts' = MoreAttempts
       ELSE ops' = o /\ UNCHANGED <<stream, attempts>>
    /\ UNCHANGED <<running, session, reconnect>>

(* handleFailure and scheduleReconnect; o are the operations without the   *)
(* completed one.  Setting the timer again cancels the wait there was.     *)
ScheduleReconnect(o) ==
    /\ IF running
       THEN /\ ops' = Abort(o) /\ stream' = FALSE
            /\ reconnect' = TRUE /\ attempts' = MoreAttempts
       ELSE ops' = o /\ UNCHANGED <<stream, reconnect, attempts>>
    /\ UNCHANGED <<running, session>>

Live == session \in {"on", "stopping"}

OnResolve ==
    /\ Live /\ ops.resolve > 0
    /\ ops' = [ops EXCEPT !.resolve = @ - 1, !.connect = @ + 1]
    /\ stream' = TRUE
    /\ UNCHANGED <<running, session, reconnect, idle, attempts>>

(* The last of onConnect, onSslHandshake and onHandshake.                  *)
OnHandshake ==
    /\ Live /\ ops.connect > 0
    /\ ops' = [ops EXCEPT !.connect = @ - 1, !.read = IF running THEN @ + 1 ELSE @]
    /\ attempts' = 0
    /\ idle' = TRUE
    /\ UNCHANGED <<running, session, stream, reconnect>>

(* A kline: handed to onData, and read on.                                 *)
OnKline ==
    /\ Live /\ ops.read > 0
    /\ idle' = TRUE
    /\ ops' = IF running THEN ops ELSE [ops EXCEPT !.read = @ - 1]
    /\ UNCHANGED <<running, session, stream, reconnect, attempts>>

(* Mutant: the idle timer is only restarted for klines.                    *)
OnOtherMessageUntimed ==
    /\ Live /\ ops.read > 0
    /\ idle' = FALSE
    /\ ops' = [ops EXCEPT !.read = @ - 1]
    /\ UNCHANGED <<running, session, stream, reconnect, attempts>>

(* Any other message: onRead returns without reading on.                   *)
OnOtherMessage ==
    /\ Live /\ ops.read > 0
    /\ idle' = TRUE
    /\ ops' = [ops EXCEPT !.read = @ - 1]
    /\ UNCHANGED <<running, session, stream, reconnect, attempts>>

Fail(op) ==
    /\ Live /\ ops[op] > 0
    /\ ScheduleReconnect([ops EXCEPT ![op] = @ - 1])
    /\ UNCHANGED idle

(* An aborted operation completes at once: timers, which take at least the *)
(* shortest backoff, come after it.                                        *)
OnAborted == Fail("aborted")
TimersMayFire == Live /\ ops.aborted = 0

OnReconnectTimer ==
    /\ TimersMayFire /\ reconnect
    /\ reconnect' = FALSE
    /\ IF running THEN ops' = [Abort(ops) EXCEPT !.resolve = @ + 1] /\ stream' = TRUE
       ELSE UNCHANGED <<ops, stream>>
    /\ UNCHANGED <<running, session, idle, attempts>>

(* Nothing cancels the idle timer when the connection fails.               *)
OnIdleTimeout ==
    /\ TimersMayFire /\ idle
    /\ LongOutages \/ (ops.resolve = 0 /\ ops.connect = 0 /\ ~reconnect)
    /\ idle' = FALSE
    /\ ScheduleReconnect(ops)

(* stop(): the flag, then the io thread is stopped and joined.             *)
Stop ==
    /\ session = "on"
    /\ running' = FALSE /\ session' = "stopping"
    /\ UNCHANGED <<stream, ops, reconnect, idle, attempts>>

Joined ==
    /\ session = "stopping"
    /\ session' = "over"
    /\ ops' = NoOps /\ reconnect' = FALSE /\ idle' = FALSE
    /\ UNCHANGED <<running, stream, attempts>>

SessionInit ==
    /\ running = FALSE /\ session = "new" /\ stream = TRUE
    /\ ops = NoOps /\ reconnect = FALSE /\ idle = FALSE /\ attempts = 0
-----------------------------------------------------------------------------
SessionTypeOK ==
    /\ running \in BOOLEAN /\ session \in {"new", "on", "stopping", "over"}
    /\ stream \in BOOLEAN /\ reconnect \in BOOLEAN /\ idle \in BOOLEAN
    /\ ops \in [resolve : Nat, connect : Nat, read : Nat, aborted : Nat]
    /\ attempts \in 0..MaxAttempts

(* There is one session: never two connects on the way, never one while a  *)
(* timer is about to start another, and nothing runs on a stream that is   *)
(* not there.  A second chain would start operations on the other's stream *)
(* or replace it under a healthy connection, for ever in turn.             *)
OneChain ==
    /\ Chains + (IF reconnect THEN 1 ELSE 0) <= 1
    /\ ops.connect + ops.read > 0 => stream

(* A running session is never dead: it resolves, connects or reads, or a   *)
(* timer will make it; in particular after a message that ends the         *)
(* reading, where only the idle timer is left.                             *)
NeverDead == running => Chains + ops.aborted > 0 \/ reconnect \/ idle
=============================================================================
