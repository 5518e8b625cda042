------------------------------ MODULE MCGateway ------------------------------
(***************************************************************************)
(* Instances of Gateway for TLC.  With a limit of two, ranges of up to     *)
(* four candles take three pages; one candle is missing on the exchange.   *)
(*                                                                         *)
(* ConfigProvider is a pure function of its sources: its rule is evaluated *)
(* for all lists of up to three arguments, with an environment and a file  *)
(* that give every key, no key, or texts that mean nothing.                *)
(***************************************************************************)
EXTENDS GatewaySettings

Texts(text) == [symbol |-> text, width |-> text, fullscreen |-> text, level |-> text,
                config |-> text, help |-> text]
Usable == [symbol |-> "ETH", width |-> "800", fullscreen |-> "on", level |-> "trace",
           config |-> "file", help |-> "on"]

Words == {"800", "7", "on", "trace", "file", "junk"}
Arguments ==
    {[form |-> "word", key |-> "symbol", text |-> w] : w \in Words}
    \union {[form |-> "flag", key |-> k, text |-> "on"] : k \in {"help", "fullscreen"}}
    \union {[form |-> "next", key |-> k, text |-> ""] :
               k \in {"symbol", "width", "level", "config"}}
    \union {[form |-> "eq", key |-> k, text |-> w] :
               k \in {"width", "fullscreen", "level", "config"}, w \in {"7", "on", "file", "junk"}}
MCArgumentLists == UNION {[1..n -> Arguments] : n \in 0..3}
MCEnvironments == {Texts("unset"), Texts("junk"), Usable, [Usable EXCEPT !.config = "unset"]}

MCFiles == [file |-> [Usable EXCEPT !.symbol = "XRP", !.width = "7"], other |-> Texts("junk")]
=============================================================================
