--------------------------- MODULE ConfigProvider ---------------------------
(***************************************************************************)
(* config::ConfigProvider: what the process makes of its arguments, its    *)
(* environment and a key=value file.  One key stands for all keys of its   *)
(* kind: "symbol" for the seven texts, "width" for both window sizes,      *)
(* "help" for both helper flags.  "config" is configFile, the path of the  *)
(* file.  An argument is a record: an option that takes the next argument, *)
(* one with its value after "=", a flag, or a plain word.                  *)
(***************************************************************************)
EXTENDS Integers, Sequences, FiniteSetsExt

CONSTANTS Files,      \* the files there are: path -> its text for each key
          Numbers,    \* texts that are integers of at least kMinWindowSize
          Narrow,     \* texts that are smaller integers
          Switches,   \* "on", "off"
          Levels      \* names of log levels

Given == "unset"      \* a key the environment or the file does not have

Defaults == [symbol |-> "BTCUSDT", width |-> "1280", fullscreen |-> "off", level |-> "info",
             help |-> "off", config |-> ""]
Keys == DOMAIN Defaults

(* What a text means for a key; a number or switch that cannot be parsed   *)
(* is passed over, an unknown level is taken for "info".                   *)
Accepts(key, text) ==
    /\ key = "width" => text \in Numbers \union Narrow
    /\ key = "fullscreen" => text \in Switches
Meaning(key, text) ==
    IF key = "width" /\ text \in Narrow THEN "320"
    ELSE IF key = "level" /\ text \notin Levels THEN "info"
    ELSE text
Set(cfg, key, text) ==
    IF Accepts(key, text) THEN [cfg EXCEPT ![key] = Meaning(key, text)] ELSE cfg

(* parseEnv_ and parseFile_: neither knows "help", nor sets configFile.    *)
ParseKeys(cfg, texts) ==
    [key \in Keys |-> IF key \in {"help", "config"} \/ texts[key] = Given THEN cfg[key]
                      ELSE Set(cfg, key, texts[key])[key]]

(* The value an option takes: whatever stands there, be it an option.      *)
TextOf(arg) == IF arg.form = "word" THEN arg.text ELSE "--option"

(* parseCli_, argument by argument; taken: this one was the value of the   *)
(* one before.                                                             *)
ParseCli(cfg, args) ==
    LET after[i \in 0..Len(args)] ==
            IF i = 0 THEN [cfg |-> cfg, taken |-> FALSE]
            ELSE LET now == after[i - 1].cfg
                     arg == args[i]
                     takes == ~after[i - 1].taken /\ arg.form = "next"
                 IN  [taken |-> takes,
                      cfg   |-> IF after[i - 1].taken \/ arg.form = "word" THEN now
                                ELSE IF ~takes THEN Set(now, arg.key, arg.text)
                                ELSE IF i < Len(args) THEN Set(now, arg.key, TextOf(args[i + 1]))
                                ELSE now]
    IN  after[Len(args)].cfg

(* The constructor's first look at the arguments, in which only --config   *)
(* takes the next one: the last path given, or "".                         *)
CliPath(args) ==
    LET after[i \in 0..Len(args)] ==
            IF i = 0 THEN [path |-> "", taken |-> FALSE]
            ELSE LET arg == args[i]
                     before == after[i - 1]
                     named == ~before.taken /\ arg.form \in {"next", "eq"} /\ arg.key = "config"
                     takes == named /\ arg.form = "next" /\ i < Len(args)
                 IN  [taken |-> takes,
                      path  |-> IF takes THEN TextOf(args[i + 1])
                                ELSE IF named /\ arg.form = "eq" THEN arg.text
                                ELSE before.path]
    IN  after[Len(args)].path

(* The file: the one named on the command line or, if none is, by          *)
(* TTP_CONFIG; a file that is not there is passed over.                    *)
PathOf(args, env) ==
    IF CliPath(args) # "" THEN CliPath(args)
    ELSE IF env["config"] # Given THEN env["config"] ELSE ""
FromFile(args, env) ==
    LET path == PathOf(args, env)
    IN  IF path \in DOMAIN Files THEN [ParseKeys(Defaults, Files[path]) EXCEPT !["config"] = path]
        ELSE Defaults

(* Mutant: the environment is read last.                                   *)
LoadEnvLast(args, env) == ParseKeys(ParseCli(FromFile(args, env), args), env)
Load(args, env) == ParseCli(ParseKeys(FromFile(args, env), env), args)
-----------------------------------------------------------------------------
(* Every option that takes a value is given one, and flags are options     *)
(* that take none.                                                         *)
WellFormed(args) ==
    \A i \in 1..Len(args) :
        /\ args[i].form = "next" =>
               i < Len(args) /\ args[i + 1].form = "word" /\ args[i + 1].text # ""
        /\ args[i].form = "eq" => args[i].text # ""
        /\ args[i].form = "flag" => args[i].key \in {"help", "fullscreen"}

(* The texts given for a key on the command line that mean something, by   *)
(* position.                                                               *)
CliTexts(args, key) ==
    {<<i, args[i].text>> : i \in {k \in 1..Len(args) :
        args[k].form \in {"eq", "flag"} /\ args[k].key = key /\ Accepts(key, args[k].text)}}
    \union
    {<<i, args[i + 1].text>> : i \in {k \in 1..Len(args) - 1 :
        args[k].form = "next" /\ args[k].key = key /\ Accepts(key, args[k + 1].text)}}

(* CLI > ENV > file > defaults, as the help text and the README have it:   *)
(* each setting is what its strongest source that gives one it can use     *)
(* says, the last time it does; the two walks over the arguments agree on  *)
(* which file is meant.                                                    *)
StrongestWins(args, env) ==
    LET cli(key) == CliTexts(args, key)
        paths == CliTexts(args, "config")
        path == IF paths # {} THEN (CHOOSE p \in paths : \A q \in paths : q[1] <= p[1])[2]
                ELSE env["config"]
        gives(texts, key) == texts[key] # Given /\ Accepts(key, texts[key])
        wins(key) ==
            IF cli(key) # {}
            THEN Meaning(key, (CHOOSE p \in cli(key) : \A q \in cli(key) : q[1] <= p[1])[2])
            ELSE IF key = "help" THEN "off"
            ELSE IF gives(env, key) THEN Meaning(key, env[key])
            ELSE IF path \in DOMAIN Files /\ gives(Files[path], key)
            THEN Meaning(key, Files[path][key])
            ELSE Defaults[key]
    IN  \A key \in Keys \ {"config"} : Load(args, env)[key] = wins(key)
=============================================================================
