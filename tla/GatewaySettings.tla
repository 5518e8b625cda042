--------------------------- MODULE GatewaySettings ---------------------------
(***************************************************************************)
(* The gateway with the settings it is built from: its hosts, like all     *)
(* other settings, are what ConfigProvider makes of its sources when the   *)
(* process starts, before any request is sent.                             *)
(***************************************************************************)
EXTENDS Gateway, ConfigProvider

CONSTANTS ArgumentLists, Environments   \* what the process may be started with

Started == call = "idle" /\ session = "new" /\ now = FirstNow /\ faults = 0

(* CLI > ENV > file > defaults (ConfigProvider::ConfigProvider): whatever  *)
(* arguments, environment and files the process is started with, each      *)
(* setting is the one of its strongest source.  It is a fact about no      *)
(* variable, and therefore looked at once.                                 *)
ConfigPrecedence ==
    Started => \A args \in ArgumentLists, env \in Environments :
                   WellFormed(args) => StrongestWins(args, env)
=============================================================================
