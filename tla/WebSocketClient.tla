--------------------------- MODULE WebSocketClient ---------------------------
(***************************************************************************)
(* WebSocketClient: one io thread that resolves, connects, shakes hands    *)
(* and reads in a chain of asynchronous operations, and waits on a timer   *)
(* with a growing delay before it starts the chain again.  connect and     *)
(* disconnect are called by the UI thread.  Resolving, connecting and the  *)
(* two handshakes are one operation here: each only starts the next, and   *)
(* all fail alike.                                                         *)
(***************************************************************************)
EXTENDS Naturals

CONSTANT MaxDelay     \* maxReconnectDelay

ASSUME DelayAssumption == MaxDelay \in Nat \ {0}

VARIABLES
    connected,   \* connected: the client is switched on
    wsOpen,      \* wsOpen_
    io,          \* the operation the io thread waits for, or "handler"
    stopped,     \* ioc.stop() was called
    delay        \* reconnectDelay

wsVars == <<connected, wsOpen, io, stopped, delay>>

Doubled(d) == IF 2 * d < MaxDelay THEN 2 * d ELSE MaxDelay

IsWsConnected == connected /\ wsOpen

Connect ==
    /\ ~connected /\ io = "off"
    /\ connected' = TRUE /\ wsOpen' = FALSE
    /\ delay' = 1
    /\ io' = "connecting"
    /\ UNCHANGED stopped

(* Mutants: the flag is left alone; the timer is armed but not waited for. *)
ScheduleReconnectOpen ==
    /\ IF connected THEN io' = "timer" /\ delay' = Doubled(delay)
       ELSE io' = "spent" /\ UNCHANGED delay
    /\ UNCHANGED <<connected, stopped, wsOpen>>
ScheduleReconnectUnheard ==
    /\ IF connected THEN delay' = Doubled(delay) /\ wsOpen' = FALSE
       ELSE UNCHANGED <<wsOpen, delay>>
    /\ io' = "spent"
    /\ UNCHANGED <<connected, stopped>>

(* handleFailure and scheduleReconnect; a client switched off starts no    *)
(* further operation.                                                      *)
ScheduleReconnect ==
    /\ IF connected THEN wsOpen' = FALSE /\ io' = "timer" /\ delay' = Doubled(delay)
       ELSE io' = "spent" /\ UNCHANGED <<wsOpen, delay>>
    /\ UNCHANGED <<connected, stopped>>

(* An operation of connecting, or the read, fails or finds the peer gone.   *)
Fail == ~stopped /\ io \in {"connecting", "read"} /\ ScheduleReconnect

OnReconnectTimer ==
    /\ ~stopped /\ io = "timer"
    /\ io' = IF connected THEN "connecting" ELSE "spent"
    /\ UNCHANGED <<connected, wsOpen, stopped, delay>>

(* The last of onResolve, onConnect, onSslHandshake and onHandshake, all   *)
(* without an error.                                                       *)
OnHandshake ==
    /\ ~stopped /\ io = "connecting"
    /\ delay' = 1 /\ wsOpen' = TRUE
    /\ io' = "read"
    /\ UNCHANGED <<connected, stopped>>

(* A kline: dataHandler runs on this thread, and only its return reads on. *)
OnKline ==
    /\ ~stopped /\ io = "read"
    /\ io' = "handler"
    /\ UNCHANGED <<connected, wsOpen, stopped, delay>>

DoRead ==
    /\ io = "handler"
    /\ io' = "read"
    /\ UNCHANGED <<connected, wsOpen, stopped, delay>>

Disconnect ==
    /\ connected
    /\ connected' = FALSE /\ wsOpen' = FALSE /\ stopped' = TRUE
    /\ UNCHANGED <<io, delay>>

(* ioThread.join(): run() returns once no handler is running.              *)
Joined == stopped /\ io # "handler"

Off ==
    /\ connected' = FALSE /\ wsOpen' = FALSE /\ stopped' = FALSE
    /\ io' = "off" /\ delay' = 1

WsInit ==
    /\ connected = FALSE /\ wsOpen = FALSE /\ stopped = FALSE
    /\ io = "off" /\ delay = 1

IoStep == OnReconnectTimer \/ OnHandshake
-----------------------------------------------------------------------------
(* The window's connection light is on only while the io thread reads or   *)
(* handles what it read, and then the next failure starts from the         *)
(* shortest delay: no path through failure, timer and handshakes leaves    *)
(* the flag or the delay of an earlier connection behind.                  *)
LightIsTrue == IsWsConnected => io \in {"read", "handler"} /\ delay = 1
=============================================================================
