----------------------------- MODULE ConfigProofs -----------------------------
(***************************************************************************)
(* The rule of precedence of ConfigProvider, for every list of arguments,  *)
(* environment and set of files.                                           *)
(***************************************************************************)
EXTENDS GatewaySettings, NumberSets

Forms == {"word", "next", "eq", "flag"}

(***************************************************************************)
(* The walks over the arguments                                            *)
(***************************************************************************)
(* What one argument makes of the settings, after the walk over those      *)
(* before it; and parseCli_ as a solution of that equation.                *)
CliNext(args, before, i) ==
    LET sofar == before.cfg
        arg == args[i]
        takes == ~before.taken /\ arg.form = "next"
    IN  [taken |-> takes,
         cfg   |-> IF before.taken \/ arg.form = "word" THEN sofar
                   ELSE IF ~takes THEN Set(sofar, arg.key, arg.text)
                   ELSE IF i < Len(args) THEN Set(sofar, arg.key, TextOf(args[i + 1]))
                   ELSE sofar]
IsCliWalk(w, cfg, args) ==
    w = [i \in 0..Len(args) |-> IF i = 0 THEN [cfg |-> cfg, taken |-> FALSE]
                                ELSE CliNext(args, w[i - 1], i)]

LEMMA ParseCliWalks ==
    ASSUME NEW cfg, NEW args
    PROVE  ParseCli(cfg, args) = (CHOOSE w : IsCliWalk(w, cfg, args))[Len(args)].cfg
  BY DEF ParseCli, IsCliWalk, CliNext

(* And the constructor's first look, for the path of the file.             *)
PathNext(args, before, i) ==
    LET arg == args[i]
        named == ~before.taken /\ arg.form \in {"next", "eq"} /\ arg.key = "config"
        takes == named /\ arg.form = "next" /\ i < Len(args)
    IN  [taken |-> takes,
         path  |-> IF takes THEN TextOf(args[i + 1])
                   ELSE IF named /\ arg.form = "eq" THEN arg.text
                   ELSE before.path]
IsPathWalk(w, args) ==
    w = [i \in 0..Len(args) |-> IF i = 0 THEN [path |-> "", taken |-> FALSE]
                                ELSE PathNext(args, w[i - 1], i)]

LEMMA CliPathWalks ==
    ASSUME NEW args
    PROVE  CliPath(args) = (CHOOSE w : IsPathWalk(w, args))[Len(args)].path
  BY DEF CliPath, IsPathWalk, PathNext

(* An equation that gives each value from the one before has at most one   *)
(* solution.                                                               *)
LEMMA CliWalkUnique ==
    ASSUME NEW cfg, NEW args, Len(args) \in Nat, NEW w, IsCliWalk(w, cfg, args),
           NEW v, IsCliWalk(v, cfg, args)
    PROVE  w = v
  <1> DEFINE n == Len(args)
             T == {i \in 0..n : w[i] # v[i]}
  <1>1. T = {}
    <2> SUFFICES ASSUME T # {} PROVE FALSE
      OBVIOUS
    <2>1. PICK i \in T : \A j \in T : i <= j
      <3>1. T \subseteq Nat
        OBVIOUS
      <3> HIDE DEF T
      <3>2. QED
        BY <3>1, SmallestExists
    <2>2. i # 0
      BY <2>1 DEF IsCliWalk
    <2>3. i \in 0..n /\ i - 1 \in 0..n /\ i - 1 \notin T
      BY <2>1, <2>2
    <2>4. w[i - 1] = v[i - 1]
      BY <2>3
    <2>5. w[i] = CliNext(args, w[i - 1], i) /\ v[i] = CliNext(args, v[i - 1], i)
      BY <2>2, <2>3 DEF IsCliWalk
    <2>6. QED
      BY <2>1, <2>4, <2>5
  <1>2. \A i \in 0..n : w[i] = v[i]
    BY <1>1
  <1>3. w = [i \in 0..n |-> w[i]] /\ v = [i \in 0..n |-> v[i]]
    BY DEF IsCliWalk
  <1>4. QED
    BY <1>2, <1>3

LEMMA PathWalkUnique ==
    ASSUME NEW args, Len(args) \in Nat, NEW w, IsPathWalk(w, args), NEW v, IsPathWalk(v, args)
    PROVE  w = v
  <1> DEFINE n == Len(args)
             T == {i \in 0..n : w[i] # v[i]}
  <1>1. T = {}
    <2> SUFFICES ASSUME T # {} PROVE FALSE
      OBVIOUS
    <2>1. PICK i \in T : \A j \in T : i <= j
      <3>1. T \subseteq Nat
        OBVIOUS
      <3> HIDE DEF T
      <3>2. QED
        BY <3>1, SmallestExists
    <2>2. i # 0
      BY <2>1 DEF IsPathWalk
    <2>3. i \in 0..n /\ i - 1 \in 0..n /\ i - 1 \notin T
      BY <2>1, <2>2
    <2>4. w[i - 1] = v[i - 1]
      BY <2>3
    <2>5. w[i] = PathNext(args, w[i - 1], i) /\ v[i] = PathNext(args, v[i - 1], i)
      BY <2>2, <2>3 DEF IsPathWalk
    <2>6. QED
      BY <2>1, <2>4, <2>5
  <1>2. \A i \in 0..n : w[i] = v[i]
    BY <1>1
  <1>3. w = [i \in 0..n |-> w[i]] /\ v = [i \in 0..n |-> v[i]]
    BY DEF IsPathWalk
  <1>4. QED
    BY <1>2, <1>3

(***************************************************************************)
(* What the walks compute                                                  *)
(***************************************************************************)
(* Argument k's text, the arguments up to i that say something usable of a *)
(* key, and what the last of them says.                                    *)
TextAt(args, k) == IF args[k].form = "next" THEN args[k + 1].text ELSE args[k].text
Sayers(args, key, i) ==
    {k \in 1..i : /\ args[k].form # "word" /\ args[k].key = key
                  /\ Accepts(key, TextAt(args, k))}
LastText(args, key, i) == TextAt(args, Max(Sayers(args, key, i)))

CliSays(cfg, args, i) ==
    [key \in Keys |-> IF Sayers(args, key, i) = {} THEN cfg[key]
                      ELSE Meaning(key, LastText(args, key, i))]
PathSays(args, i) ==
    IF Sayers(args, "config", i) = {} THEN "" ELSE LastText(args, "config", i)

LEMMA SayersAre ==
    ASSUME NEW args, NEW key, NEW i \in Nat
    PROVE  Sayers(args, key, i) \subseteq Nat /\ \A k \in Sayers(args, key, i) : k <= i
  BY DEF Sayers

(* An argument that is the value of the option before it says nothing;     *)
(* any other may be the last to speak.                                     *)
LEMMA SayersGrow ==
    ASSUME NEW args, NEW key, NEW i \in Nat, i # 0
    PROVE  IF args[i].form # "word" /\ args[i].key = key /\ Accepts(key, TextAt(args, i))
           THEN Sayers(args, key, i) # {} /\ Max(Sayers(args, key, i)) = i
           ELSE Sayers(args, key, i) = Sayers(args, key, i - 1)
  <1> DEFINE S == Sayers(args, key, i)
  <1>1. CASE args[i].form # "word" /\ args[i].key = key /\ Accepts(key, TextAt(args, i))
    <2>1. i \in S /\ S \subseteq Nat /\ \A k \in S : k <= i
      BY <1>1 DEF Sayers
    <2>2. Max(S) \in S /\ Max(S) >= i
      <3> HIDE DEF S
      <3>1. QED
        BY <2>1, MaxIsLargest
    <2>3. Max(S) = i
      BY <2>1, <2>2
    <2>4. QED
      BY <1>1, <2>1, <2>3
  <1>2. CASE ~(args[i].form # "word" /\ args[i].key = key /\ Accepts(key, TextAt(args, i)))
    <2>1. \A k \in Nat : k \in 1..i /\ k # i <=> k \in 1..(i - 1)
      OBVIOUS
    <2>2. QED
      BY <1>2, <2>1 DEF Sayers
  <1>3. QED
    BY <1>1, <1>2

LEMMA ArgumentsAre ==
    ASSUME NEW Words, NEW args \in Seq([form : Forms, key : Keys, text : Words])
    PROVE  /\ Len(args) \in Nat
           /\ \A i \in 1..Len(args) : args[i].form \in Forms /\ args[i].key \in Keys
  <1>1. ASSUME NEW S, args \in Seq(S)
        PROVE  Len(args) \in Nat /\ \A i \in 1..Len(args) : args[i] \in S
    BY <1>1
  <1>2. \A i \in 1..Len(args) : args[i] \in [form : Forms, key : Keys, text : Words]
    BY <1>1
  <1>3. QED
    BY <1>1, <1>2

LEMMA CliSaysWalks ==
    ASSUME NEW Words, NEW args \in Seq([form : Forms, key : Keys, text : Words]),
           WellFormed(args), NEW cfg, DOMAIN cfg = Keys, cfg = [key \in Keys |-> cfg[key]]
    PROVE  IsCliWalk([i \in 0..Len(args) |->
                        [cfg |-> CliSays(cfg, args, i),
                         taken |-> i # 0 /\ args[i].form = "next"]], cfg, args)
  <1> DEFINE n == Len(args)
             g == [i \in 0..n |-> [cfg |-> CliSays(cfg, args, i),
                                   taken |-> i # 0 /\ args[i].form = "next"]]
  <1>1. n \in Nat /\ \A i \in 1..n : args[i].form \in Forms /\ args[i].key \in Keys
    BY ArgumentsAre
  <1>2. CliSays(cfg, args, 0) = cfg
    <2>1. \A key \in Keys : Sayers(args, key, 0) = {}
      BY DEF Sayers
    <2>2. QED
      BY <2>1 DEF CliSays
  <1>3. ASSUME NEW i \in 1..n
        PROVE  g[i] = CliNext(args, g[i - 1], i)
    <2> DEFINE sofar == CliSays(cfg, args, i - 1)
               arg == args[i]
    <2>1. /\ i \in 0..n /\ i - 1 \in 0..n /\ i \in Nat /\ i # 0
          /\ i - 1 # 0 => i - 1 \in 1..n
      BY <1>1
    <2>2. g[i - 1].cfg = sofar /\ (g[i - 1].taken <=> i - 1 # 0 /\ args[i - 1].form = "next")
      BY <2>1
    <2>3. g[i - 1].taken => arg.form = "word"
      <3>1. i - 1 # 0 /\ args[i - 1].form = "next" => args[(i - 1) + 1].form = "word"
        BY <2>1 DEF WellFormed
      <3>2. (i - 1) + 1 = i
        BY <2>1
      <3>3. QED
        BY <2>2, <3>1, <3>2
    <2>4. arg.form = "next" => /\ i < n /\ args[i + 1].form = "word"
                               /\ TextOf(args[i + 1]) = TextAt(args, i)
      BY DEF WellFormed, TextOf, TextAt
    <2>5. CliSays(cfg, args, i) =
              IF arg.form = "word" THEN sofar ELSE Set(sofar, arg.key, TextAt(args, i))
      <3>1. CASE arg.form = "word"
        <4>1. \A key \in Keys : Sayers(args, key, i) = Sayers(args, key, i - 1)
          BY <2>1, <3>1, SayersGrow
        <4>2. QED
          BY <3>1, <4>1 DEF CliSays, LastText
      <3>2. CASE arg.form # "word" /\ ~Accepts(arg.key, TextAt(args, i))
        <4>1. \A key \in Keys : Sayers(args, key, i) = Sayers(args, key, i - 1)
          BY <2>1, <3>2, SayersGrow
        <4>2. QED
          BY <3>2, <4>1 DEF CliSays, LastText, Set
      <3>3. CASE arg.form # "word" /\ Accepts(arg.key, TextAt(args, i))
        <4>1. \A key \in Keys : key # arg.key => Sayers(args, key, i) = Sayers(args, key, i - 1)
          BY <2>1, SayersGrow
        <4>2. Sayers(args, arg.key, i) # {} /\ Max(Sayers(args, arg.key, i)) = i
          BY <2>1, <3>3, SayersGrow
        <4>3. CliSays(cfg, args, i) = [sofar EXCEPT ![arg.key] = Meaning(arg.key, TextAt(args, i))]
          BY <1>1, <4>1, <4>2 DEF CliSays, LastText
        <4>4. QED
          BY <3>3, <4>3 DEF Set
      <3>4. QED
        BY <3>1, <3>2, <3>3
    <2>6. arg.form \in {"eq", "flag"} => TextAt(args, i) = arg.text
      BY DEF TextAt
    <2>7. CliNext(args, g[i - 1], i).cfg = CliSays(cfg, args, i)
      BY <1>1, <2>2, <2>3, <2>4, <2>5, <2>6 DEF CliNext, Forms
    <2>8. CliNext(args, g[i - 1], i).taken <=> arg.form = "next"
      BY <2>2, <2>3 DEF CliNext
    <2>9. QED
      BY <2>1, <2>7, <2>8 DEF CliNext
  <1>4. \A i \in 0..n : i # 0 => i \in 1..n
    BY <1>1
  <1>5. g[0] = [cfg |-> cfg, taken |-> FALSE]
    <2>1. 0 \in 0..n /\ (0 # 0 /\ args[0].form = "next") = FALSE
      BY <1>1
    <2>2. QED
      BY <1>2, <2>1
  <1>6. QED
    BY <1>3, <1>4, <1>5 DEF IsCliWalk

LEMMA PathSaysWalks ==
    ASSUME NEW Words, NEW args \in Seq([form : Forms, key : Keys, text : Words]),
           WellFormed(args)
    PROVE  IsPathWalk([i \in 0..Len(args) |->
                         [path |-> PathSays(args, i),
                          taken |-> i # 0 /\ args[i].form = "next" /\ args[i].key = "config"]],
                      args)
  <1> DEFINE n == Len(args)
             g == [i \in 0..n |->
                     [path |-> PathSays(args, i),
                      taken |-> i # 0 /\ args[i].form = "next" /\ args[i].key = "config"]]
  <1>1. n \in Nat /\ \A i \in 1..n : args[i].form \in Forms /\ args[i].key \in Keys
    BY ArgumentsAre
  <1>2. PathSays(args, 0) = ""
    BY DEF Sayers, PathSays
  <1>3. ASSUME NEW i \in 1..n
        PROVE  g[i] = PathNext(args, g[i - 1], i)
    <2> DEFINE old == PathSays(args, i - 1)
               arg == args[i]
    <2>1. /\ i \in 0..n /\ i - 1 \in 0..n /\ i \in Nat /\ i # 0
          /\ i - 1 # 0 => i - 1 \in 1..n
      BY <1>1
    <2>2. /\ g[i - 1].path = old
          /\ g[i - 1].taken <=>
                 i - 1 # 0 /\ args[i - 1].form = "next" /\ args[i - 1].key = "config"
      BY <2>1
    <2>3. g[i - 1].taken => arg.form = "word"
      <3>1. i - 1 # 0 /\ args[i - 1].form = "next" => args[(i - 1) + 1].form = "word"
        BY <2>1 DEF WellFormed
      <3>2. (i - 1) + 1 = i
        BY <2>1
      <3>3. QED
        BY <2>2, <3>1, <3>2
    <2>4. arg.form = "next" => i < n /\ TextOf(args[i + 1]) = TextAt(args, i)
      BY DEF WellFormed, TextOf, TextAt
    <2>5. arg.form \in {"eq", "flag"} => TextAt(args, i) = arg.text
      BY DEF TextAt
    <2>6. arg.form = "flag" => arg.key # "config"
      BY DEF WellFormed
    <2>7. Accepts("config", TextAt(args, i))
      BY DEF Accepts
    <2>8. PathSays(args, i) =
              IF arg.form # "word" /\ arg.key = "config" THEN TextAt(args, i) ELSE old
      BY <2>1, <2>7, SayersGrow DEF PathSays, LastText
    <2>9. PathNext(args, g[i - 1], i).path = PathSays(args, i)
      BY <1>1, <2>2, <2>3, <2>4, <2>5, <2>6, <2>8 DEF PathNext, Forms
    <2>10. PathNext(args, g[i - 1], i).taken <=> arg.form = "next" /\ arg.key = "config"
      BY <2>2, <2>3, <2>4 DEF PathNext
    <2>11. QED
      BY <2>1, <2>9, <2>10 DEF PathNext
  <1>4. \A i \in 0..n : i # 0 => i \in 1..n
    BY <1>1
  <1>5. g[0] = [path |-> "", taken |-> FALSE]
    <2>1. 0 \in 0..n /\ (0 # 0 /\ args[0].form = "next" /\ args[0].key = "config") = FALSE
      BY <1>1
    <2>2. QED
      BY <1>2, <2>1
  <1>6. QED
    BY <1>3, <1>4, <1>5 DEF IsPathWalk

(* So parseCli_ leaves each setting as the last usable text for it says,   *)
(* and the first look finds the last path.                                 *)
LEMMA ParseCliIs ==
    ASSUME NEW Words, NEW args \in Seq([form : Forms, key : Keys, text : Words]),
           WellFormed(args), NEW cfg, DOMAIN cfg = Keys, cfg = [key \in Keys |-> cfg[key]]
    PROVE  ParseCli(cfg, args) = CliSays(cfg, args, Len(args))
  <1> DEFINE g == [i \in 0..Len(args) |->
                     [cfg |-> CliSays(cfg, args, i), taken |-> i # 0 /\ args[i].form = "next"]]
             c == CHOOSE w : IsCliWalk(w, cfg, args)
  <1>1. Len(args) \in Nat /\ IsCliWalk(g, cfg, args)
    BY CliSaysWalks, ArgumentsAre
  <1> HIDE DEF g
  <1>2. IsCliWalk(c, cfg, args)
    BY <1>1
  <1> HIDE DEF c
  <1>3. c = g
    BY <1>1, <1>2, CliWalkUnique
  <1>4. g[Len(args)].cfg = CliSays(cfg, args, Len(args))
    BY <1>1 DEF g
  <1>5. QED
    BY <1>3, <1>4, ParseCliWalks DEF c

LEMMA CliPathIs ==
    ASSUME NEW Words, NEW args \in Seq([form : Forms, key : Keys, text : Words]),
           WellFormed(args)
    PROVE  CliPath(args) = PathSays(args, Len(args))
  <1> DEFINE g == [i \in 0..Len(args) |->
                     [path |-> PathSays(args, i),
                      taken |-> i # 0 /\ args[i].form = "next" /\ args[i].key = "config"]]
             c == CHOOSE w : IsPathWalk(w, args)
  <1>1. Len(args) \in Nat /\ IsPathWalk(g, args)
    BY PathSaysWalks, ArgumentsAre
  <1> HIDE DEF g
  <1>2. IsPathWalk(c, args)
    BY <1>1
  <1> HIDE DEF c
  <1>3. c = g
    BY <1>1, <1>2, PathWalkUnique
  <1>4. g[Len(args)].path = PathSays(args, Len(args))
    BY <1>1 DEF g
  <1>5. QED
    BY <1>3, <1>4, CliPathWalks DEF c

(***************************************************************************)
(* The rule                                                                *)
(***************************************************************************)
(* The texts the rule looks at are those the walks heed, and of them it    *)
(* takes the same one.                                                     *)
LEMMA LastOfTexts ==
    ASSUME NEW Words, NEW args \in Seq([form : Forms, key : Keys, text : Words]),
           WellFormed(args), NEW key
    PROVE  LET cli == CliTexts(args, key)
           IN  /\ cli = {} <=> Sayers(args, key, Len(args)) = {}
               /\ cli # {} => (CHOOSE p \in cli : \A q \in cli : q[1] <= p[1])[2]
                                  = LastText(args, key, Len(args))
  <1> DEFINE n == Len(args)
             S == Sayers(args, key, n)
             cli == CliTexts(args, key)
             T == {<<k, TextAt(args, k)>> : k \in S}
             last == CHOOSE p \in cli : \A q \in cli : q[1] <= p[1]
  <1>1. n \in Nat /\ \A i \in 1..n : args[i].form \in Forms
    BY ArgumentsAre
  <1>2. S \subseteq Nat /\ \A k \in S : k <= n
    BY <1>1, SayersAre
  <1>3. ASSUME NEW k \in 1..n
        PROVE  /\ args[k].form = "next" => k \in 1..(n - 1) /\ TextAt(args, k) = args[k + 1].text
               /\ args[k].form # "next" => TextAt(args, k) = args[k].text
    <2>1. args[k].form = "next" => k < n
      BY DEF WellFormed
    <2>2. k < n => k \in 1..(n - 1)
      BY <1>1
    <2>3. QED
      BY <2>1, <2>2 DEF TextAt
  <1>4. cli = T
    <2>1. ASSUME NEW p \in cli PROVE p \in T
      <3>1. CASE \E k \in 1..n : /\ args[k].form \in {"eq", "flag"} /\ args[k].key = key
                                 /\ Accepts(key, args[k].text) /\ p = <<k, args[k].text>>
        BY <1>3, <3>1 DEF Sayers
      <3>2. CASE \E k \in 1..(n - 1) : /\ args[k].form = "next" /\ args[k].key = key
                                       /\ Accepts(key, args[k + 1].text)
                                       /\ p = <<k, args[k + 1].text>>
        <4>1. PICK k \in 1..(n - 1) : /\ args[k].form = "next" /\ args[k].key = key
                                      /\ Accepts(key, args[k + 1].text)
                                      /\ p = <<k, args[k + 1].text>>
          BY <3>2
        <4>2. k \in 1..n
          BY <1>1
        <4>3. QED
          BY <1>3, <4>1, <4>2 DEF Sayers
      <3>3. QED
        BY <2>1, <3>1, <3>2 DEF CliTexts
    <2>2. ASSUME NEW k \in S PROVE <<k, TextAt(args, k)>> \in cli
      <3>1. /\ k \in 1..n /\ args[k].form # "word" /\ args[k].key = key
            /\ Accepts(key, TextAt(args, k))
        BY DEF Sayers
      <3>2. CASE args[k].form = "next"
        BY <1>3, <3>1, <3>2 DEF CliTexts
      <3>3. CASE args[k].form # "next"
        <4>1. args[k].form \in {"eq", "flag"}
          BY <1>1, <3>1, <3>3 DEF Forms
        <4>2. QED
          BY <1>3, <3>1, <3>3, <4>1 DEF CliTexts
      <3>4. QED
        BY <3>2, <3>3
    <2> HIDE DEF cli, S
    <2>3. QED
      BY <2>1, <2>2
  <1> HIDE DEF S, cli
  <1>5. ASSUME cli # {} PROVE last[2] = TextAt(args, Max(S))
    <2>1. S # {}
      BY <1>4, <1>5
    <2>2. Max(S) \in S /\ \A k \in S : Max(S) >= k
      BY <1>1, <1>2, <2>1, MaxIsLargest
    <2> DEFINE m == Max(S)
    <2> HIDE DEF m
    <2>3. m \in S /\ m \in Nat /\ \A k \in S : k <= m /\ k \in Nat
      BY <1>2, <2>2 DEF m
    <2>4. <<m, TextAt(args, m)>> \in cli /\ \A q \in cli : q[1] <= m
      BY <1>4, <2>3
    <2>5. \E p \in cli : \A q \in cli : q[1] <= p[1]
      BY <2>4
    <2>6. last \in cli /\ \A q \in cli : q[1] <= last[1]
      BY <2>5
    <2> HIDE DEF last
    <2>7. PICK k \in S : last = <<k, TextAt(args, k)>>
      BY <1>4, <2>6
    <2>8. m <= k
      BY <2>4, <2>6, <2>7
    <2>9. k = m
      BY <2>3, <2>8
    <2>10. QED
      BY <2>7, <2>9 DEF m
  <1>6. cli = {} <=> S = {}
    BY <1>4
  <1>7. QED
    BY <1>5, <1>6 DEF S, cli, last, LastText

(* Each setting is what its strongest source that gives a usable text      *)
(* says, in whatever order the options stand, however often one is given   *)
(* and whatever texts there are.  No file's path is empty, or the stand-in *)
(* for a variable that is not set.                                         *)
LEMMA EachFromStrongest ==
    ASSUME NEW Words, NEW args \in Seq([form : Forms, key : Keys, text : Words]), NEW env,
           WellFormed(args), "" \notin DOMAIN Files, Given \notin DOMAIN Files
    PROVE  StrongestWins(args, env)
  <1> DEFINE n == Len(args)
             paths == CliTexts(args, "config")
             path == IF paths # {} THEN (CHOOSE p \in paths : \A q \in paths : q[1] <= p[1])[2]
                     ELSE env["config"]
             file == FromFile(args, env)
             both == ParseKeys(file, env)
             gives(texts, key) == texts[key] # Given /\ Accepts(key, texts[key])
             below(key) ==
                 IF key = "help" THEN "off"
                 ELSE IF gives(env, key) THEN Meaning(key, env[key])
                 ELSE IF path \in DOMAIN Files /\ gives(Files[path], key)
                 THEN Meaning(key, Files[path][key])
                 ELSE Defaults[key]
  <1>1. path \in DOMAIN Files \/ PathOf(args, env) \in DOMAIN Files => path = PathOf(args, env)
    <2>1. CASE paths # {}
      <3>1. Sayers(args, "config", n) # {} /\ path = LastText(args, "config", n)
        BY <2>1, LastOfTexts
      <3>2. CliPath(args) = path
        BY <3>1, CliPathIs DEF PathSays
      <3>3. path # ""
        <4> DEFINE S == Sayers(args, "config", n)
        <4>1. n \in Nat /\ \A i \in 1..n : args[i].form \in Forms
          BY ArgumentsAre
        <4>2. Max(S) \in S
          <5>1. S \subseteq Nat /\ \A k \in S : k <= n
            BY <4>1, SayersAre
          <5>2. S # {}
            BY <3>1
          <5> HIDE DEF S
          <5>3. QED
            BY <4>1, <5>1, <5>2, MaxIsLargest
        <4> DEFINE m == Max(S)
        <4>3. m \in 1..n /\ args[m].form # "word" /\ args[m].key = "config"
          BY <4>2 DEF Sayers
        <4>4. path = TextAt(args, m)
          BY <3>1 DEF LastText
        <4> HIDE DEF m, path
        <4>5. TextAt(args, m) # ""
          BY <4>1, <4>3 DEF TextAt, WellFormed, Forms
        <4>6. QED
          BY <4>4, <4>5
      <3>4. QED
        BY <3>2, <3>3 DEF PathOf
    <2>2. CASE paths = {}
      <3>1. CliPath(args) = ""
        BY <2>2, LastOfTexts, CliPathIs DEF PathSays
      <3>2. QED
        BY <2>2, <3>1 DEF PathOf
    <2>3. QED
      BY <2>1, <2>2
  <1> HIDE DEF path, paths
  <1>2. /\ DOMAIN file = Keys
        /\ \A key \in Keys \ {"config"} :
              file[key] = IF key # "help" /\ path \in DOMAIN Files /\ gives(Files[path], key)
                          THEN Meaning(key, Files[path][key]) ELSE Defaults[key]
    <2>1. DOMAIN Defaults = Keys /\ Defaults = [key \in Keys |-> Defaults[key]]
      BY DEF Keys, Defaults
    <2>2. CASE path \in DOMAIN Files
      <3>1. file = [ParseKeys(Defaults, Files[path]) EXCEPT !["config"] = path]
        BY <1>1, <2>2 DEF FromFile
      <3>2. DOMAIN file = Keys
        BY <3>1 DEF ParseKeys
      <3>3. ASSUME NEW key \in Keys \ {"config"}
            PROVE  file[key] = IF key # "help" /\ gives(Files[path], key)
                               THEN Meaning(key, Files[path][key]) ELSE Defaults[key]
        BY <2>1, <3>1 DEF ParseKeys, Set
      <3>4. QED
        BY <2>2, <3>2, <3>3
    <2>3. CASE path \notin DOMAIN Files
      <3>1. file = Defaults
        BY <1>1, <2>3 DEF FromFile
      <3>2. QED
        BY <2>1, <2>3, <3>1
    <2>4. QED
      BY <2>2, <2>3
  <1> HIDE DEF file
  <1>3. /\ DOMAIN both = Keys /\ both = [key \in Keys |-> both[key]]
        /\ \A key \in Keys \ {"config"} : both[key] = below(key)
    <2>1. DOMAIN both = Keys /\ both = [key \in Keys |-> both[key]]
      BY DEF ParseKeys
    <2>2. ASSUME NEW key \in Keys \ {"config"} PROVE both[key] = below(key)
      <3>1. CASE key = "help"
        BY <1>2, <3>1 DEF ParseKeys, Defaults
      <3>2. CASE key # "help"
        BY <1>2, <3>2 DEF ParseKeys, Set
      <3>3. QED
        BY <3>1, <3>2
    <2>3. QED
      BY <2>1, <2>2
  <1>4. Load(args, env) = CliSays(both, args, n)
    <2>1. Load(args, env) = ParseCli(both, args)
      BY DEF Load, file
    <2> HIDE DEF both
    <2>2. QED
      BY <1>3, <2>1, ParseCliIs
  <1> HIDE DEF both
  <1>5. ASSUME NEW key \in Keys \ {"config"}
        PROVE  LET cli == CliTexts(args, key)
               IN  Load(args, env)[key] =
                       IF cli # {}
                       THEN Meaning(key, (CHOOSE p \in cli : \A q \in cli : q[1] <= p[1])[2])
                       ELSE below(key)
    <2> HIDE DEF below
    <2>1. Load(args, env)[key] = IF Sayers(args, key, n) = {} THEN below(key)
                                 ELSE Meaning(key, LastText(args, key, n))
      BY <1>3, <1>4 DEF CliSays
    <2>2. QED
      BY <2>1, LastOfTexts
  <1>6. QED
    BY <1>5 DEF StrongestWins, path, paths

(* The process starts with the settings of their strongest sources,        *)
(* whatever it is started with.                                            *)
THEOREM StrongestSourceWins ==
    ASSUME NEW Words, ArgumentLists \subseteq Seq([form : Forms, key : Keys, text : Words]),
           "" \notin DOMAIN Files, Given \notin DOMAIN Files
    PROVE  Spec => []ConfigPrecedence
  <1>1. ConfigPrecedence
    BY EachFromStrongest DEF ConfigPrecedence
  <1>2. QED
    BY <1>1, PTL
=============================================================================
