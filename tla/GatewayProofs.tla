---------------------------- MODULE GatewayProofs ----------------------------
(***************************************************************************)
(* Proofs about Gateway for every exchange, limit, number of retries and   *)
(* number of failures.                                                     *)
(***************************************************************************)
EXTENDS Gateway, NumberSets

(***************************************************************************)
(* The live session                                                        *)
(***************************************************************************)
(* What a completion, a timer or stop() may do to the session.             *)
SessionNext ==
    \/ Start \/ OnResolve \/ OnHandshake \/ OnKline \/ OnOtherMessage
    \/ \E op \in {"resolve", "connect", "read", "aborted"} : Fail(op)
    \/ OnReconnectTimer \/ OnIdleTimeout
    \/ Stop \/ Joined

(* A step of the system is a step of the session or leaves it alone.       *)
LEMMA NextSession ==
    ASSUME [Next]_gatewayVars
    PROVE  SessionNext \/ UNCHANGED sessionVars
  <1>1. CASE StreamLive
    BY <1>1 DEF StreamLive, SessionNext
  <1>2. CASE Network
    BY <1>2 DEF Network, OnAborted, SessionNext
  <1>3. CASE IdleExpires \/ Silence
    BY <1>3 DEF IdleExpires, Silence, SessionNext
  <1>4. CASE Disturb
    BY <1>4 DEF Disturb, SessionNext
  <1>5. CASE Unsubscribe
    BY <1>5 DEF Unsubscribe, SessionNext
  <1>6. CASE Pass \/ Call \/ Page
    BY <1>6 DEF Pass, Call, Page
  <1>7. CASE UNCHANGED gatewayVars
    BY <1>7 DEF gatewayVars
  <1>8. QED
    BY <1>1, <1>2, <1>3, <1>4, <1>5, <1>6, <1>7 DEF Next

(* What NeverDead needs: before the first start nothing is set up, and     *)
(* only an unstopped session runs.                                         *)
SessionInv ==
    /\ SessionTypeOK
    /\ running => session = "on"
    /\ session = "new" => ~reconnect
    /\ NeverDead

Ops == [resolve : Nat, connect : Nat, read : Nat, aborted : Nat]
Kinds == {"resolve", "connect", "read", "aborted"}

LEMMA SessionInitInv ==
    ASSUME SessionInit
    PROVE  SessionInv
  <1>1. ops \in [resolve : Nat, connect : Nat, read : Nat, aborted : Nat]
    BY DEF SessionInit, NoOps
  <1>2. attempts \in 0..MaxAttempts
    BY SessionAssumption DEF SessionInit
  <1>3. SessionTypeOK
    BY <1>1, <1>2 DEF SessionInit, SessionTypeOK
  <1>4. QED
    BY <1>3 DEF SessionInit, SessionInv, NeverDead

(* The operations after a failure: none on the stream, all of them to      *)
(* complete as aborted.                                                    *)
LEMMA AbortedOps ==
    ASSUME NEW o \in Ops
    PROVE  /\ Abort(o) \in Ops
           /\ Abort(o).resolve = o.resolve
           /\ Abort(o).connect = 0 /\ Abort(o).read = 0
           /\ Abort(o).aborted = o.aborted + o.connect + o.read
  <1>1. o.resolve \in Nat /\ o.connect \in Nat /\ o.read \in Nat /\ o.aborted \in Nat
    BY DEF Ops
  <1>2. Abort(o) = [resolve |-> o.resolve, connect |-> 0, read |-> 0,
                    aborted |-> o.aborted + o.connect + o.read]
    <2> DEFINE p == [o EXCEPT !.connect = 0]
               q == [p EXCEPT !.read = 0]
    <2>1. p = [resolve |-> o.resolve, connect |-> 0, read |-> o.read, aborted |-> o.aborted]
      BY DEF Ops
    <2>2. Abort(o) = [q EXCEPT !.aborted = o.aborted + o.connect + o.read]
      BY DEF Abort
    <2> HIDE DEF p
    <2>3. q = [resolve |-> o.resolve, connect |-> 0, read |-> 0, aborted |-> o.aborted]
      BY <2>1
    <2> HIDE DEF q
    <2>4. QED
      BY <2>2, <2>3
  <1>3. QED
    BY <1>1, <1>2 DEF Ops

(* The operations without a completed one.                                 *)
LEMMA OneLess ==
    ASSUME NEW o \in Ops, NEW op \in Kinds, o[op] > 0
    PROVE  /\ [o EXCEPT ![op] = @ - 1] \in Ops
           /\ \A k \in Kinds : [o EXCEPT ![op] = @ - 1][k] = IF k = op THEN o[k] - 1 ELSE o[k]
  BY DEF Ops, Kinds

LEMMA MoreAttemptsBounded ==
    ASSUME attempts \in 0..MaxAttempts
    PROVE  MoreAttempts \in 0..MaxAttempts
  BY SessionAssumption DEF MoreAttempts

(* Every step of the session keeps it.                                     *)
LEMMA SessionStepInv ==
    ASSUME SessionInv, SessionNext
    PROVE  SessionInv'
  <1>0. /\ ops \in Ops /\ attempts \in 0..MaxAttempts
        /\ running \in BOOLEAN /\ stream \in BOOLEAN /\ reconnect \in BOOLEAN /\ idle \in BOOLEAN
        /\ session \in {"new", "on", "stopping", "over"}
    BY DEF SessionInv, SessionTypeOK, Ops
  <1>1. CASE Start
    <2>1. ops' \in Ops /\ ops'.resolve = 1 /\ ops'.connect = 0 /\ ops'.read = 0 /\ ops'.aborted = 0
      BY <1>1 DEF Start, NoOps, Ops
    <2>2. SessionTypeOK'
      BY <1>0, <1>1, <2>1 DEF Start, SessionTypeOK, Ops
    <2>3. (Chains + ops.aborted)' > 0
      BY <2>1 DEF Chains
    <2>4. QED
      BY <1>1, <2>2, <2>3 DEF Start, SessionInv, NeverDead
  <1>2. CASE OnResolve
    <2>1. ops' = [resolve |-> ops.resolve - 1, connect |-> ops.connect + 1,
                  read |-> ops.read, aborted |-> ops.aborted]
      BY <1>0, <1>2 DEF OnResolve, Ops
    <2>0. ops.resolve > 0 /\ ops' \in Ops
      BY <1>0, <1>2, <2>1 DEF OnResolve, Ops
    <2>2. SessionTypeOK'
      BY <1>0, <1>2, <2>0 DEF OnResolve, SessionTypeOK, Ops
    <2>3. (Chains + ops.aborted)' > 0
      BY <1>0, <2>0, <2>1 DEF Chains, Ops
    <2>4. QED
      BY <1>2, <2>2, <2>3 DEF OnResolve, SessionInv, NeverDead
  <1>3. CASE OnHandshake
    <2>0. ops' = [resolve |-> ops.resolve, connect |-> ops.connect - 1,
                  read |-> IF running THEN ops.read + 1 ELSE ops.read, aborted |-> ops.aborted]
      BY <1>0, <1>3 DEF OnHandshake, Ops
    <2>1. ops' \in Ops
      <3>1. ops.connect > 0
        BY <1>3 DEF OnHandshake
      <3>2. ops.connect - 1 \in Nat /\ (IF running THEN ops.read + 1 ELSE ops.read) \in Nat
        BY <1>0, <3>1 DEF Ops
      <3>3. QED
        BY <1>0, <2>0, <3>2 DEF Ops
    <2>2. SessionTypeOK'
      BY <1>0, <1>3, <2>1, SessionAssumption DEF OnHandshake, SessionTypeOK, Ops
    <2>3. QED
      BY <1>3, <2>2 DEF OnHandshake, SessionInv, NeverDead
  <1>4. CASE OnKline
    <2>1. ops' \in Ops
      BY <1>0, <1>4 DEF OnKline, Ops
    <2>2. SessionTypeOK'
      BY <1>0, <1>4, <2>1 DEF OnKline, SessionTypeOK, Ops
    <2>3. QED
      BY <1>4, <2>2 DEF OnKline, SessionInv, NeverDead
  <1>5. CASE OnOtherMessage
    <2>1. ops' \in Ops
      BY <1>0, <1>5 DEF OnOtherMessage, Ops
    <2>2. SessionTypeOK'
      BY <1>0, <1>5, <2>1 DEF OnOtherMessage, SessionTypeOK, Ops
    <2>3. QED
      BY <1>5, <2>2 DEF OnOtherMessage, SessionInv, NeverDead
  <1>6. ASSUME NEW o \in Ops, ScheduleReconnect(o), idle' \in BOOLEAN
        PROVE  SessionInv'
    <2>1. ops' \in Ops
      BY <1>6, AbortedOps DEF ScheduleReconnect
    <2>2. SessionTypeOK'
      BY <1>0, <1>6, <2>1, MoreAttemptsBounded DEF ScheduleReconnect, SessionTypeOK, Ops
    <2>3. running' => reconnect'
      BY <1>6 DEF ScheduleReconnect
    <2>4. session' = "new" => ~reconnect'
      BY <1>6 DEF ScheduleReconnect, SessionInv
    <2>5. QED
      BY <1>6, <2>2, <2>3, <2>4 DEF ScheduleReconnect, SessionInv, NeverDead
  <1>7. ASSUME NEW op \in Kinds, Fail(op)
        PROVE  SessionInv'
    <2>1. [ops EXCEPT ![op] = @ - 1] \in Ops
      BY <1>0, <1>7, OneLess DEF Fail
    <2>2. QED
      BY <1>0, <1>6, <1>7, <2>1 DEF Fail
  <1>8. CASE OnReconnectTimer
    <2>1. CASE running
      <3>1. /\ ops' = [Abort(ops) EXCEPT !.resolve = @ + 1]
            /\ stream' = TRUE /\ reconnect' = FALSE
            /\ UNCHANGED <<running, session, idle, attempts>>
        BY <1>8, <2>1 DEF OnReconnectTimer
      <3>2. /\ Abort(ops) \in Ops
            /\ ops' \in Ops /\ ops'.resolve = Abort(ops).resolve + 1
        BY <1>0, <3>1, AbortedOps DEF Ops
      <3>3. (Chains + ops.aborted)' > 0
        BY <3>2 DEF Chains, Ops
      <3>4. SessionTypeOK'
        BY <1>0, <3>1, <3>2 DEF SessionTypeOK, Ops
      <3>5. QED
        BY <3>1, <3>3, <3>4 DEF SessionInv, NeverDead
    <2>2. CASE ~running
      BY <1>0, <1>8, <2>2 DEF OnReconnectTimer, SessionInv, SessionTypeOK, NeverDead
    <2>3. QED
      BY <2>1, <2>2
  <1>9. CASE OnIdleTimeout
    BY <1>0, <1>6, <1>9 DEF OnIdleTimeout
  <1>10. CASE Stop
    BY <1>10 DEF Stop, SessionInv, SessionTypeOK, NeverDead
  <1>11. CASE Joined
    <2>1. ops' \in Ops
      BY <1>11 DEF Joined, NoOps, Ops
    <2>2. ~running
      BY <1>11 DEF Joined, SessionInv
    <2>3. QED
      BY <1>0, <1>11, <2>1, <2>2 DEF Joined, SessionInv, SessionTypeOK, NeverDead, Ops
  <1>12. QED
    BY <1>1, <1>2, <1>3, <1>4, <1>5, <1>7, <1>8, <1>9, <1>10, <1>11 DEF SessionNext, Kinds

LEMMA SessionAlwaysInv == Spec => []SessionInv
  <1>1. Init => SessionInv
    BY SessionInitInv DEF Init
  <1>2. SessionInv /\ [Next]_gatewayVars => SessionInv'
    <2> SUFFICES ASSUME SessionInv, [Next]_gatewayVars PROVE SessionInv'
      OBVIOUS
    <2>1. CASE SessionNext
      BY <2>1, SessionStepInv
    <2>2. CASE UNCHANGED sessionVars
      BY <2>2 DEF SessionInv, SessionTypeOK, NeverDead, Chains, sessionVars
    <2>3. QED
      BY <2>1, <2>2, NextSession
  <1>3. QED
    BY <1>1, <1>2, PTL DEF Spec

(* A running session is never dead, however long outages last.             *)
THEOREM SessionNeverDead == Spec => []NeverDead
  <1>1. SessionInv => NeverDead
    BY DEF SessionInv
  <1>2. QED
    BY <1>1, SessionAlwaysInv, PTL

(* What OneChain needs besides: what a failure has aborted is the last of  *)
(* its chain.                                                              *)
ChainInv ==
    /\ OneChain
    /\ ops.aborted > 0 => Chains = 0

LEMMA ChainStepInv ==
    ASSUME ~LongOutages, SessionInv, ChainInv, SessionNext
    PROVE  ChainInv'
  <1> DEFINE Waits == IF reconnect THEN 1 ELSE 0
  <1>0. /\ ops \in Ops
        /\ running \in BOOLEAN /\ reconnect \in BOOLEAN
        /\ ops.resolve + ops.connect + ops.read + Waits <= 1
        /\ ops.connect + ops.read > 0 => stream
        /\ ops.aborted > 0 => ops.resolve + ops.connect + ops.read = 0
    BY DEF SessionInv, SessionTypeOK, Ops, ChainInv, OneChain, Chains
  <1>1. ASSUME /\ ops'.resolve + ops'.connect + ops'.read + (IF reconnect' THEN 1 ELSE 0) <= 1
               /\ ops'.connect + ops'.read > 0 => stream'
               /\ ops'.aborted > 0 => ops'.resolve + ops'.connect + ops'.read = 0
        PROVE  ChainInv'
    BY <1>1 DEF ChainInv, OneChain, Chains
  <1>2. CASE Start
    <2>1. ops'.resolve = 1 /\ ops'.connect = 0 /\ ops'.read = 0 /\ ops'.aborted = 0
      BY <1>2 DEF Start, NoOps
    <2>2. ~reconnect'
      BY <1>2 DEF Start, SessionInv
    <2>3. QED
      BY <1>1, <2>1, <2>2
  <1>3. CASE OnResolve
    <2>1. /\ ops.resolve > 0 /\ ops'.resolve = ops.resolve - 1
          /\ ops'.connect = ops.connect + 1 /\ ops'.read = ops.read /\ ops'.aborted = ops.aborted
      BY <1>0, <1>3 DEF OnResolve, Ops
    <2>2. stream' /\ reconnect' = reconnect
      BY <1>3 DEF OnResolve
    <2>3. QED
      BY <1>0, <1>1, <2>1, <2>2 DEF Ops
  <1>4. CASE OnHandshake
    <2>1. /\ ops.connect > 0 /\ ops'.connect = ops.connect - 1
          /\ ops'.read = (IF running THEN ops.read + 1 ELSE ops.read)
          /\ ops'.resolve = ops.resolve /\ ops'.aborted = ops.aborted
      BY <1>0, <1>4 DEF OnHandshake, Ops
    <2>2. stream' = stream /\ reconnect' = reconnect
      BY <1>4 DEF OnHandshake
    <2>3. QED
      BY <1>0, <1>1, <2>1, <2>2 DEF Ops
  <1>5. CASE OnKline \/ OnOtherMessage
    <2>1. /\ ops.read > 0
          /\ ops'.read = ops.read \/ ops'.read = ops.read - 1
          /\ ops'.connect = ops.connect /\ ops'.resolve = ops.resolve /\ ops'.aborted = ops.aborted
      BY <1>0, <1>5 DEF OnKline, OnOtherMessage, Ops
    <2>2. stream' = stream /\ reconnect' = reconnect
      BY <1>5 DEF OnKline, OnOtherMessage
    <2>3. QED
      BY <1>0, <1>1, <2>1, <2>2 DEF Ops
  <1>6. ASSUME NEW o \in Ops, ScheduleReconnect(o), o.resolve = 0,
               o.connect + o.read <= ops.connect + ops.read,
               ops.resolve = 0 \/ ops.connect + ops.read = 0,
               o.aborted <= ops.aborted
        PROVE  ChainInv'
    <2>1. CASE running
      <3>1. ops' = Abort(o) /\ reconnect'
        BY <1>6, <2>1 DEF ScheduleReconnect
      <3>2. ops'.resolve = 0 /\ ops'.connect = 0 /\ ops'.read = 0
        BY <1>6, <3>1, AbortedOps
      <3>3. QED
        BY <1>1, <3>1, <3>2
    <2>2. CASE ~running
      <3>1. ops' = o /\ stream' = stream /\ reconnect' = reconnect
        BY <1>6, <2>2 DEF ScheduleReconnect
      <3>2. QED
        BY <1>0, <1>1, <1>6, <3>1 DEF Ops
    <2>3. QED
      BY <1>0, <2>1, <2>2
  <1>7. ASSUME NEW op \in Kinds, Fail(op)
        PROVE  ChainInv'
    <2> DEFINE less == [ops EXCEPT ![op] = @ - 1]
    <2>1. /\ ops[op] > 0 /\ less \in Ops
          /\ \A k \in Kinds : less[k] = IF k = op THEN ops[k] - 1 ELSE ops[k]
      BY <1>0, <1>7, OneLess DEF Fail
    <2>2. ScheduleReconnect(less)
      BY <1>7 DEF Fail
    <2> HIDE DEF less
    <2>3. /\ less.resolve = 0
          /\ less.connect + less.read <= ops.connect + ops.read
          /\ ops.resolve = 0 \/ ops.connect + ops.read = 0
          /\ less.aborted <= ops.aborted
      <3>1. CASE op = "resolve"
        BY <1>0, <2>1, <3>1 DEF Ops, Kinds
      <3>2. CASE op = "connect"
        BY <1>0, <2>1, <3>2 DEF Ops, Kinds
      <3>3. CASE op = "read"
        BY <1>0, <2>1, <3>3 DEF Ops, Kinds
      <3>4. CASE op = "aborted"
        BY <1>0, <2>1, <3>4 DEF Ops, Kinds
      <3>5. QED
        BY <3>1, <3>2, <3>3, <3>4 DEF Kinds
    <2>4. QED
      BY <1>6, <2>1, <2>2, <2>3
  <1>8. CASE OnReconnectTimer
    <2>1. reconnect /\ ops.aborted = 0 /\ ~reconnect'
      BY <1>8 DEF OnReconnectTimer, TimersMayFire
    <2>2. ops.resolve = 0 /\ ops.connect = 0 /\ ops.read = 0
      BY <1>0, <2>1 DEF Ops
    <2>3. CASE running
      <3>1. ops' = [Abort(ops) EXCEPT !.resolve = @ + 1] /\ stream'
        BY <1>8, <2>3 DEF OnReconnectTimer
      <3>2. ops'.resolve = 1 /\ ops'.connect = 0 /\ ops'.read = 0 /\ ops'.aborted = 0
        BY <1>0, <2>1, <2>2, <3>1, AbortedOps DEF Ops
      <3>3. QED
        BY <1>1, <2>1, <3>1, <3>2
    <2>4. CASE ~running
      <3>1. ops' = ops
        BY <1>8, <2>4 DEF OnReconnectTimer
      <3>2. QED
        BY <1>1, <2>1, <2>2, <3>1
    <2>5. QED
      BY <1>0, <2>3, <2>4
  <1>9. CASE OnIdleTimeout
    <2>1. ops.resolve = 0 /\ ScheduleReconnect(ops)
      BY <1>9 DEF OnIdleTimeout
    <2>2. QED
      BY <1>0, <1>6, <2>1 DEF Ops
  <1>10. CASE Stop
    <2>1. ops' = ops /\ stream' = stream /\ reconnect' = reconnect
      BY <1>10 DEF Stop
    <2>2. QED
      BY <1>0, <1>1, <2>1
  <1>11. CASE Joined
    <2>1. ops'.resolve = 0 /\ ops'.connect = 0 /\ ops'.read = 0 /\ ~reconnect'
      BY <1>11 DEF Joined, NoOps
    <2>2. QED
      BY <1>1, <2>1
  <1>12. QED
    BY <1>2, <1>3, <1>4, <1>5, <1>7, <1>8, <1>9, <1>10, <1>11 DEF SessionNext, Kinds

(* As long as no outage outlasts the idle timeout there is one session,    *)
(* whatever fails, falls silent or is stopped, and in whatever order.      *)
THEOREM SessionOneChain ==
    ASSUME ~LongOutages
    PROVE  Spec => []OneChain
  <1>1. Init => ChainInv
    BY DEF Init, SessionInit, ChainInv, OneChain, Chains, NoOps
  <1>2. SessionInv /\ ChainInv /\ [Next]_gatewayVars => ChainInv'
    <2> SUFFICES ASSUME SessionInv, ChainInv, [Next]_gatewayVars PROVE ChainInv'
      OBVIOUS
    <2>1. CASE SessionNext
      BY <2>1, ChainStepInv
    <2>2. CASE UNCHANGED sessionVars
      BY <2>2 DEF ChainInv, OneChain, Chains, sessionVars
    <2>3. QED
      BY <2>1, <2>2, NextSession
  <1>3. ChainInv => OneChain
    BY DEF ChainInv
  <1>4. QED
    BY <1>1, <1>2, <1>3, SessionAlwaysInv, PTL DEF Spec

(***************************************************************************)
(* The paged request                                                       *)
(***************************************************************************)
(* Open times are a whole interval apart.                                  *)
LEMMA NextOnGrid ==
    ASSUME NEW m \in Nat, NEW u \in Nat, NEW i \in Nat \ {0},
           m % i = 0, u % i = 0, u < m + i
    PROVE  u <= m
  <1> DEFINE a == m \div i
             b == u \div i
  <1>1. a \in Nat /\ b \in Nat /\ m = i * a /\ u = i * b
    BY SMT
  <1> HIDE DEF a, b
  <1>2. i * b < i * (a + 1)
    BY <1>1, SMT
  <1>3. b < a + 1
    BY <1>1, <1>2, SMT
  <1>4. QED
    BY <1>1, <1>3, SMT

LEMMA FetchConstants ==
    /\ Interval \in Nat \ {0} /\ RestMaxLimit \in Nat \ {0} /\ MaxNow \in Nat \ {0}
    /\ MaxRetries \in Nat
    /\ 0 \in 0..MaxRetries /\ 0 \in 0..(MaxNow + Interval)
    /\ 0 \in 0..MaxNow /\ 0 \in 0..RestMaxLimit
    /\ \A t \in 1..MaxNow : t \in 0..MaxNow /\ t \in 0..(MaxNow + Interval)
  BY FetchAssumption

LEMMA TradedOnGrid ==
    /\ Traded \subseteq Nat
    /\ \A t \in Traded : t <= MaxNow /\ t % Interval = 0
  BY FetchAssumption DEF Traded

(* The types of the request's variables, and of the exchange's clock.      *)
FetchTypeOK ==
    /\ call \in {"idle", "page", "done"} /\ attempt \in 0..MaxRetries
    /\ range \in [start : 0..MaxNow, end : 0..MaxNow, limit : 0..RestMaxLimit]
    /\ cursor \in 0..(MaxNow + Interval) /\ gaveUp \in BOOLEAN
    /\ ordered \subseteq Traded /\ refused \subseteq Traded
    /\ now \in Nat

(* A page asks for nothing beyond the range.                               *)
LEMMA PageEndInRange ==
    ASSUME FetchTypeOK
    PROVE  PageEnd \in Int /\ PageEnd <= range.end
  <1>1. /\ range.end \in Nat /\ range.limit \in Nat /\ cursor \in Nat
        /\ Interval \in Nat /\ Interval * range.limit \in Nat
    BY FetchAssumption DEF FetchTypeOK
  <1>2. QED
    BY <1>1 DEF PageEnd, Least

(* An answer holds candles of the range from the cursor on, and with each  *)
(* of them all there are before it.                                        *)
LEMMA KlinesAreInitial ==
    ASSUME FetchTypeOK
    PROVE  /\ Klines(now) \subseteq Traded
           /\ \A t \in Klines(now) : cursor <= t /\ t <= range.end
           /\ \A t \in Klines(now), u \in Traded :
                  cursor <= u /\ u <= t => u \in Klines(now)
  <1> DEFINE opens == {t \in Traded : cursor <= t /\ t <= PageEnd /\ t <= now}
             upTo(t) == {u \in opens : u <= t}
  <1>1. /\ cursor \in Nat /\ range.end \in Nat /\ range.limit \in Nat /\ now \in Nat
        /\ MaxNow \in Nat
    BY FetchAssumption DEF FetchTypeOK
  <1>2. /\ opens \subseteq Traded /\ Klines(now) \subseteq opens
        /\ \A t \in opens : cursor <= t /\ t <= PageEnd
    BY DEF Klines
  <1>3. \A t \in opens : t <= range.end
    BY <1>1, <1>2, PageEndInRange, TradedOnGrid
  <1>4. ASSUME NEW t \in Klines(now), NEW u \in Traded, cursor <= u, u <= t
        PROVE  u \in Klines(now)
    <2>1. t \in opens /\ t \in Nat /\ u \in Nat
      BY <1>2, TradedOnGrid
    <2>2. u \in opens
      BY <1>1, <1>4, <2>1, PageEndInRange
    <2>3. upTo(u) \subseteq upTo(t)
      <3>1. opens \subseteq Nat
        BY <1>2, TradedOnGrid
      <3> HIDE DEF opens
      <3>2. QED
        <4>1. \A v \in opens : v <= u => v <= t
          BY <1>4, <2>1, <3>1
        <4>2. QED
          BY <4>1
    <2>4. IsFiniteSet(upTo(t))
      <3>1. upTo(t) \in SUBSET Nat /\ \A v \in upTo(t) : v <= MaxNow
        BY TradedOnGrid
      <3> HIDE DEF upTo
      <3>2. QED
        BY <1>1, <3>1, FS_BoundedSetOfNaturals
    <2>5. Cardinality(upTo(u)) <= Cardinality(upTo(t)) /\ IsFiniteSet(upTo(u))
      <3> HIDE DEF upTo
      <3>1. QED
        BY <2>3, <2>4, FS_Subset
    <2>6. Cardinality(upTo(u)) \in Nat /\ Cardinality(upTo(t)) \in Nat
      <3> HIDE DEF upTo
      <3>1. QED
        BY <2>4, <2>5, FS_CardinalityType
    <2>7. Cardinality(upTo(t)) <= range.limit
      BY <1>4 DEF Klines
    <2>8. Cardinality(upTo(u)) <= range.limit
      <3> HIDE DEF upTo
      <3>1. QED
        BY <1>1, <2>5, <2>6, <2>7
    <2>9. QED
      BY <2>2, <2>8 DEF Klines
  <1>5. QED
    BY <1>2, <1>3, <1>4

(* After a page that is not empty, the cursor is one interval behind its   *)
(* last candle: the code's guard against standing still never bites.       *)
LEMMA NextCursorIs ==
    ASSUME FetchTypeOK, NEW page \in SUBSET Klines(now), page # {}
    PROVE  /\ Max(page) \in page
           /\ \A t \in page : t <= Max(page)
           /\ NextCursor(page) = Max(page) + Interval
           /\ NextCursor(page) \in 0..(MaxNow + Interval)
  <1>1. page \subseteq Nat /\ \A t \in page : t <= MaxNow /\ cursor <= t
    BY KlinesAreInitial, TradedOnGrid
  <1>2. Max(page) \in page /\ \A t \in page : Max(page) >= t
    BY <1>1, MaxIsLargest, FetchAssumption
  <1>3. Max(page) \in Nat /\ cursor <= Max(page) /\ Max(page) <= MaxNow
    BY <1>1, <1>2
  <1>4. cursor \in Nat /\ Interval \in Nat /\ MaxNow \in Nat
    BY FetchAssumption DEF FetchTypeOK
  <1>5. QED
    BY <1>1, <1>2, <1>3, <1>4 DEF NextCursor

(* What AnswerIsPrefix needs: while it pages, the call has seen every      *)
(* candle of the range before the cursor.                                  *)
SeenToCursor ==
    call = "page" =>
        \A u \in Traded : range.start <= u /\ u < cursor => u \in ordered \union refused

FetchInv == FetchTypeOK /\ SeenToCursor /\ AnswerIsPrefix

LEMMA AcceptPageInv ==
    ASSUME FetchInv, NEW bad, AcceptPage(now, bad), UNCHANGED now
    PROVE  FetchInv'
  <1> DEFINE page == Klines(now) \ bad
  <1>1. /\ FetchTypeOK /\ SeenToCursor /\ AnswerIsPrefix /\ call = "page"
        /\ bad \subseteq Klines(now) /\ page \subseteq Klines(now)
        /\ ordered' = ordered \union {t \in page : range.start <= t /\ t <= range.end}
        /\ refused' = refused \union bad
        /\ range' = range /\ gaveUp' = gaveUp /\ now' = now /\ attempt' = 0
        /\ IF LastPage(page) THEN call' = "done" /\ cursor' = cursor
           ELSE cursor' = NextCursor(page) /\ call' = "page"
    BY DEF FetchInv, AcceptPage
  <1> HIDE DEF page
  <1>2. /\ Klines(now) \subseteq Traded /\ Traded \subseteq Nat
        /\ range.start \in Nat /\ range.end \in Nat /\ cursor \in Nat
    BY <1>1, KlinesAreInitial, TradedOnGrid DEF FetchTypeOK
  <1>3. ASSUME NEW t \in Klines(now), NEW u \in Traded, range.start <= u, u <= t
        PROVE  u \in ordered' \union refused'
    <2>1. CASE u < cursor
      BY <1>1, <1>3, <2>1 DEF SeenToCursor
    <2>2. CASE cursor <= u
      <3>1. u \in Klines(now) /\ u <= range.end
        BY <1>1, <1>3, <2>2, KlinesAreInitial
      <3>2. QED
        BY <1>1, <1>3, <3>1 DEF page
    <2>3. QED
      BY <1>2, <2>1, <2>2
  <1>4. FetchTypeOK'
    <2>1. ordered' \subseteq Traded /\ refused' \subseteq Traded
      BY <1>1, <1>2 DEF FetchTypeOK
    <2>2. call' \in {"page", "done"} /\ cursor' \in 0..(MaxNow + Interval)
      BY <1>1, NextCursorIs DEF FetchTypeOK, LastPage
    <2>3. QED
      BY <1>1, <2>1, <2>2, FetchAssumption DEF FetchTypeOK, Traded
  <1>5. SeenToCursor'
    <2> SUFFICES ASSUME call' = "page", NEW u \in Traded, range.start <= u, u < cursor'
                 PROVE  u \in ordered' \union refused'
      BY <1>1 DEF SeenToCursor, Traded
    <2>1. page # {} /\ cursor' = NextCursor(page)
      BY <1>1 DEF LastPage
    <2>2. Max(page) \in page /\ cursor' = Max(page) + Interval
      BY <1>1, <2>1, NextCursorIs
    <2>3. u <= Max(page)
      <3>1. Max(page) \in Traded
        BY <1>1, <1>2, <2>2
      <3>2. QED
        BY <2>2, <3>1, TradedOnGrid, NextOnGrid, FetchAssumption
    <2>4. QED
      BY <1>1, <1>3, <2>2, <2>3
  <1>6. AnswerIsPrefix'
    <2> SUFFICES ASSUME NEW t \in ordered'
                 PROVE  /\ range.start <= t /\ t <= range.end
                        /\ \A u \in Traded : range.start <= u /\ u <= t =>
                               u \in ordered' \union refused'
      BY <1>1 DEF AnswerIsPrefix, Traded
    <2>1. CASE t \in ordered
      BY <1>1, <2>1 DEF AnswerIsPrefix
    <2>2. CASE t \notin ordered
      <3>1. t \in page /\ range.start <= t /\ t <= range.end
        BY <1>1, <2>2
      <3>2. QED
        BY <1>1, <1>3, <3>1
    <2>3. QED
      BY <2>1, <2>2
  <1>7. QED
    BY <1>4, <1>5, <1>6 DEF FetchInv

LEMMA FetchStepInv ==
    ASSUME FetchInv, [Next]_gatewayVars
    PROVE  FetchInv'
  <1>1. CASE Pass
    <2>1. now' \in Nat
      BY <1>1, FetchAssumption DEF Pass, FetchInv, FetchTypeOK
    <2>2. QED
      BY <1>1, <2>1 DEF Pass, fetchVars, FetchInv, FetchTypeOK, SeenToCursor, AnswerIsPrefix
  <1>2. CASE Call
    <2>1. PICK start \in 1..MaxNow, end \in 1..MaxNow, limit \in Limits : Begin(start, end, limit)
      BY <1>2 DEF Call
    <2>2. /\ call' = "page" /\ attempt' = 0 /\ cursor' = start /\ gaveUp' = FALSE
          /\ range'.start = start /\ ordered' = {} /\ refused' = {} /\ now' = now
      BY <1>2, <2>1 DEF Call, Begin
    <2>3. range' \in [start : 0..MaxNow, end : 0..MaxNow, limit : 0..RestMaxLimit]
      BY <2>1, FetchAssumption, GatewayAssumption DEF Begin, Least
    <2>4. FetchTypeOK'
      BY <2>1, <2>2, <2>3, FetchConstants DEF FetchInv, FetchTypeOK
    <2>5. SeenToCursor' /\ AnswerIsPrefix'
      BY <2>2, TradedOnGrid DEF SeenToCursor, AnswerIsPrefix, Traded
    <2>6. QED
      BY <2>4, <2>5 DEF FetchInv
  <1>3. CASE Page
    <2>1. UNCHANGED now
      BY <1>3 DEF Page
    <2>2. CASE \E bad \in SUBSET Klines(now) : AcceptPage(now, bad)
      BY <2>1, <2>2, AcceptPageInv
    <2>3. CASE FailPage
      <3>1. /\ attempt' \in 0..MaxRetries /\ call' \in {"page", "done"} /\ gaveUp' \in BOOLEAN
            /\ UNCHANGED <<range, cursor, ordered, refused, now>>
            /\ call = "page"
        <4>1. attempt < MaxRetries => attempt + 1 \in 0..MaxRetries
          BY FetchConstants DEF FetchInv, FetchTypeOK
        <4>2. QED
          BY <2>1, <2>3, <4>1 DEF FailPage, FetchInv, FetchTypeOK
      <3>2. QED
        BY <3>1 DEF FetchInv, FetchTypeOK, SeenToCursor, AnswerIsPrefix
    <2>4. QED
      BY <1>3, <2>2, <2>3 DEF Page
  <1>4. CASE StreamLive
    <2>1. /\ call' = "idle" /\ cursor' = 0 /\ attempt' = 0 /\ now' = now
          /\ range' = [start |-> 0, end |-> 0, limit |-> 0]
          /\ ordered' = {} /\ refused' = {} /\ gaveUp' = FALSE
      BY <1>4 DEF StreamLive, Returned
    <2>2. range' \in [start : 0..MaxNow, end : 0..MaxNow, limit : 0..RestMaxLimit]
      BY <2>1, FetchConstants
    <2>3. QED
      BY <2>1, <2>2, FetchConstants
         DEF FetchInv, FetchTypeOK, SeenToCursor, AnswerIsPrefix
  <1>5. CASE UNCHANGED <<fetchVars, now>>
    BY <1>5 DEF fetchVars, FetchInv, FetchTypeOK, SeenToCursor, AnswerIsPrefix, Traded
  <1>6. CASE Network \/ IdleExpires \/ Silence \/ Disturb \/ Unsubscribe \/ UNCHANGED gatewayVars
    BY <1>5, <1>6 DEF Network, IdleExpires, Silence, Disturb, Unsubscribe, gatewayVars, worldVars
  <1>7. QED
    BY <1>1, <1>2, <1>3, <1>4, <1>6 DEF Next

LEMMA FetchAlwaysInv == Spec => []FetchInv
  <1>1. ASSUME Init PROVE FetchInv
    <2>1. range \in [start : 0..MaxNow, end : 0..MaxNow, limit : 0..RestMaxLimit]
      BY <1>1, FetchConstants DEF Init, FetchInit
    <2>2. QED
      BY <1>1, <2>1, FetchConstants, GatewayAssumption
         DEF Init, FetchInit, FetchInv, FetchTypeOK, SeenToCursor, AnswerIsPrefix
  <1>2. QED
    BY <1>1, FetchStepInv, PTL DEF Spec

(* Every variable stays in its type.                                       *)
THEOREM GatewayTypes == Spec => []TypeOK
  <1>1. SessionInv /\ FetchInv => TypeOK
    BY DEF SessionInv, FetchInv, FetchTypeOK, TypeOK
  <1>2. QED
    BY <1>1, SessionAlwaysInv, FetchAlwaysInv, PTL

(* The answer is the beginning of the range, for every exchange, limit and *)
(* pattern of failures and refused candles.                                *)
THEOREM FetchAnswerIsPrefix == Spec => []AnswerIsPrefix
  <1>1. FetchInv => AnswerIsPrefix
    BY DEF FetchInv
  <1>2. QED
    BY <1>1, FetchAlwaysInv, PTL

(***************************************************************************)
(* The paged request, when nothing goes wrong                              *)
(***************************************************************************)
(* The open times one page can hold: n of them, an interval i apart, from  *)
(* c on.                                                                   *)
Window(c, i, n) == {c + i * k : k \in 0..(n - 1)}

LEMMA GridStep ==
    ASSUME NEW c \in Nat, NEW i \in Nat \ {0}, NEW k \in Nat, c % i = 0
    PROVE  (c + i * k) % i = 0 /\ i * k \in Nat
  <1> DEFINE a == c \div i
  <1>1. a \in Nat /\ c = i * a
    BY SMT
  <1> HIDE DEF a
  <1>2. i * k \in Nat /\ c + i * k = i * (a + k) /\ a + k \in Nat
    BY <1>1, SMT
  <1>3. ASSUME NEW m \in Nat PROVE (i * m) % i = 0
    BY SMT
  <1>4. QED
    BY <1>2, <1>3

(* The steps between two open times.                                       *)
LEMMA GridSteps ==
    ASSUME NEW c \in Nat, NEW u \in Nat, NEW i \in Nat \ {0}, NEW n \in Nat,
           c % i = 0, u % i = 0, c <= u, u < c + i * n
    PROVE  u \in Window(c, i, n)
  <1> DEFINE a == c \div i
             b == u \div i
  <1>1. a \in Nat /\ b \in Nat /\ c = i * a /\ u = i * b
    BY SMT
  <1> HIDE DEF a, b
  <1>2. i * a <= i * b /\ i * b < i * (a + n)
    BY <1>1, SMT
  <1>3. a <= b /\ b < a + n
    BY <1>1, <1>2, SMT
  <1>4. u = c + i * (b - a) /\ b - a \in 0..(n - 1)
    BY <1>1, <1>3, SMT
  <1>5. QED
    BY <1>4 DEF Window

LEMMA WindowMember ==
    ASSUME NEW c \in Nat, NEW i \in Nat \ {0}, NEW n \in Nat, c % i = 0,
           NEW g \in Window(c, i, n)
    PROVE  g \in Nat /\ c <= g /\ g < c + i * n /\ g % i = 0
  <1>1. PICK k \in 0..(n - 1) : g = c + i * k
    BY DEF Window
  <1>2. k \in Nat
    OBVIOUS
  <1>3. i * k \in Nat /\ (c + i * k) % i = 0
    BY <1>2, GridStep
  <1>4. i * k < i * n /\ i * n \in Nat
    BY SMT
  <1>5. QED
    BY <1>1, <1>3, <1>4

LEMMA WindowSize ==
    ASSUME NEW c \in Nat, NEW i \in Nat \ {0}, NEW n \in Nat
    PROVE  IsFiniteSet(Window(c, i, n)) /\ Cardinality(Window(c, i, n)) = n
  <1> DEFINE W == Window(c, i, n)
             f == [k \in 0..(n - 1) |-> c + i * k]
  <1>1. ASSUME NEW k \in 0..(n - 1), NEW l \in 0..(n - 1), c + i * k = c + i * l PROVE k = l
    BY <1>1, SMT
  <1>2. f \in Bijection(0..(n - 1), W)
    <2>1. f \in [0..(n - 1) -> W]
      BY DEF Window
    <2>2. \A k, l \in 0..(n - 1) : f[k] = f[l] => k = l
      BY <1>1
    <2>3. \A g \in W : \E k \in 0..(n - 1) : f[k] = g
      BY DEF Window
    <2> HIDE DEF f, W
    <2>4. QED
      BY <2>1, <2>2, <2>3 DEF Bijection, Injection, IsInjective, Surjection
  <1>3. IsFiniteSet(0..(n - 1)) /\ Cardinality(0..(n - 1)) = n
    BY FS_Interval
  <1>4. QED
    <2> HIDE DEF f, W
    <2>1. IsFiniteSet(W) /\ Cardinality(W) = n
      BY <1>2, <1>3, FS_Bijection DEF ExistsBijection
    <2>2. QED
      BY <2>1 DEF W

(* What CleanAnswerIsComplete needs besides: the call began in the past,   *)
(* and its cursor never leaves the open times of the exchange.             *)
CallInv ==
    /\ asked \in Nat /\ asked <= now
    /\ call # "idle" => range.limit # 0
    /\ call = "page" => range.start <= cursor /\ cursor % Interval = 0

CompleteInv == CallInv /\ CleanAnswerIsComplete

(* A page is never cut by its limit: its window holds no more candles.     *)
LEMMA KlinesAreAll ==
    ASSUME FetchTypeOK, cursor % Interval = 0
    PROVE  /\ Klines(now) = {t \in Traded : cursor <= t /\ t <= PageEnd /\ t <= now}
           /\ Klines(now) \subseteq Window(cursor, Interval, range.limit)
           /\ IsFiniteSet(Klines(now))
  <1> DEFINE opens == {t \in Traded : cursor <= t /\ t <= PageEnd /\ t <= now}
             W == Window(cursor, Interval, range.limit)
  <1>1. /\ cursor \in Nat /\ range.end \in Nat /\ range.limit \in Nat
        /\ Interval \in Nat \ {0} /\ Interval * range.limit \in Nat
    <2>1. cursor \in Nat /\ range.end \in Nat /\ range.limit \in Nat /\ Interval \in Nat \ {0}
      BY FetchAssumption DEF FetchTypeOK
    <2>2. QED
      BY <2>1
  <1>2. PageEnd < cursor + Interval * range.limit /\ PageEnd \in Int
    BY <1>1 DEF PageEnd, Least
  <1>3. IsFiniteSet(W) /\ Cardinality(W) = range.limit
    BY <1>1, WindowSize
  <1>5. opens \subseteq W
    <2> SUFFICES ASSUME NEW t \in opens PROVE t \in W
      OBVIOUS
    <2>1. t \in Nat /\ t % Interval = 0 /\ cursor <= t /\ t <= PageEnd
      BY TradedOnGrid
    <2>2. t < cursor + Interval * range.limit
      BY <1>1, <1>2, <2>1
    <2>3. QED
      BY <1>1, <2>1, <2>2, GridSteps
  <1>6. ASSUME NEW t \in opens
        PROVE  Cardinality({u \in opens : u <= t}) <= range.limit
    <2> DEFINE upTo == {u \in opens : u <= t}
    <2>1. upTo \in SUBSET W
      BY <1>5
    <2> HIDE DEF upTo, W
    <2>2. Cardinality(upTo) <= Cardinality(W)
      BY <1>3, <2>1, FS_Subset
    <2>3. QED
      BY <1>3, <2>2 DEF upTo
  <1>7. Klines(now) = opens
    BY <1>6 DEF Klines
  <1>8. IsFiniteSet(opens)
    <2>1. opens \in SUBSET W
      BY <1>5
    <2> HIDE DEF opens, W
    <2>2. QED
      BY <1>3, <2>1, FS_Subset
  <1>9. QED
    BY <1>5, <1>7, <1>8

(* A page that is not full has all the range has from the cursor on.       *)
LEMMA ShortPageIsRest ==
    ASSUME FetchTypeOK, CallInv, call = "page", Listed <= range.start,
           Holes \cap (range.start..range.end) = {},
           Klines(now) = {} \/ Cardinality(Klines(now)) < range.limit,
           NEW t \in Traded, cursor <= t, t <= range.end, t <= now
    PROVE  t \in Klines(now)
  <1> DEFINE W == Window(cursor, Interval, range.limit)
             stop == cursor + Interval * range.limit
  <1>1. /\ cursor \in Nat /\ cursor % Interval = 0 /\ Interval \in Nat \ {0}
        /\ range.start \in Nat /\ range.start <= cursor
        /\ range.end \in Nat /\ range.limit \in Nat /\ range.limit # 0
        /\ now \in Nat /\ Listed \in Nat /\ MaxNow \in Nat
    BY FetchAssumption DEF FetchTypeOK, CallInv
  <1>2. stop \in Nat
    BY <1>1
  <1>3. t \in Nat /\ t % Interval = 0 /\ t <= MaxNow
    BY TradedOnGrid
  <1>4. /\ IsFiniteSet(W) /\ Cardinality(W) = range.limit
        /\ \A g \in W : g \in Nat /\ cursor <= g /\ g < stop /\ g % Interval = 0
    <2>1. IsFiniteSet(W) /\ Cardinality(W) = range.limit
      BY <1>1, WindowSize
    <2>2. ASSUME NEW g \in W PROVE g \in Nat /\ cursor <= g /\ g < stop /\ g % Interval = 0
      BY <1>1, <2>2, WindowMember
    <2>3. QED
      BY <2>1, <2>2
  <1>5. /\ Klines(now) = {u \in Traded : cursor <= u /\ u <= PageEnd /\ u <= now}
        /\ Klines(now) \subseteq W /\ IsFiniteSet(Klines(now))
    BY <1>1, KlinesAreAll
  <1> HIDE DEF W
  <1>6. PageEnd = IF range.end < stop - 1 THEN range.end ELSE stop - 1
    BY <1>1 DEF PageEnd, Least
  <1> HIDE DEF stop
  <1>7. SUFFICES ASSUME ~(t <= PageEnd) PROVE FALSE
    BY <1>5
  <1>8. PageEnd = stop - 1 /\ stop <= t
    BY <1>1, <1>2, <1>3, <1>6, <1>7
  <1>9. ASSUME NEW g \in W PROVE g \in Klines(now)
    <2>1. g \in Nat /\ cursor <= g /\ g < stop /\ g % Interval = 0
      BY <1>4
    <2>2. /\ Listed <= g /\ g <= MaxNow /\ g <= now /\ g <= PageEnd
          /\ range.start <= g /\ g <= range.end
      BY <1>1, <1>2, <1>3, <1>8, <2>1
    <2>3. g \notin Holes
      BY <1>1, <2>1, <2>2
    <2>4. g \in Traded
      BY <1>1, <2>1, <2>2, <2>3 DEF Traded
    <2>5. QED
      BY <1>5, <2>1, <2>2, <2>4
  <1>10. Klines(now) = W
    BY <1>5, <1>9
  <1>11. W # {}
    BY <1>1, <1>4, FS_EmptySet
  <1>12. QED
    BY <1>1, <1>4, <1>10, <1>11

LEMMA AcceptPageComplete ==
    ASSUME FetchInv, CompleteInv, NEW bad, AcceptPage(now, bad), UNCHANGED <<now, asked>>
    PROVE  CompleteInv'
  <1> DEFINE page == Klines(now) \ bad
             next == NextCursor(page)
  <1>1. /\ FetchTypeOK /\ SeenToCursor /\ CallInv /\ call = "page"
        /\ bad \subseteq Klines(now) /\ page \in SUBSET Klines(now)
        /\ ordered' = ordered \union {t \in page : range.start <= t /\ t <= range.end}
        /\ refused' = refused \union bad
        /\ range' = range /\ gaveUp' = gaveUp /\ now' = now /\ asked' = asked
        /\ IF LastPage(page) THEN call' = "done" /\ cursor' = cursor
           ELSE cursor' = next /\ call' = "page"
    BY DEF FetchInv, CompleteInv, AcceptPage
  <1> HIDE DEF page, next
  <1>2. /\ range.start \in Nat /\ range.end \in Nat /\ cursor \in Nat /\ now \in Nat
        /\ Interval \in Nat \ {0} /\ asked \in Nat /\ asked <= now
        /\ range.start <= cursor /\ cursor % Interval = 0
    BY <1>1, FetchAssumption DEF FetchTypeOK, CallInv
  <1>3. ASSUME page # {}
        PROVE  /\ Max(page) \in page /\ Max(page) \in Traded /\ Max(page) \in Nat
               /\ Max(page) % Interval = 0 /\ cursor <= Max(page)
               /\ next = Max(page) + Interval
    <2>1. Max(page) \in page /\ next = Max(page) + Interval
      BY <1>1, <1>3, NextCursorIs DEF next
    <2>2. Max(page) \in Traded /\ cursor <= Max(page)
      BY <1>1, <2>1, KlinesAreInitial
    <2>3. QED
      BY <2>1, <2>2, TradedOnGrid
  <1>4. CallInv'
    <2>1. ASSUME call' = "page" PROVE range.start <= cursor' /\ cursor' % Interval = 0
      <3>1. page # {} /\ cursor' = next
        BY <1>1, <2>1 DEF LastPage
      <3>2. Max(page) \in Nat /\ Max(page) % Interval = 0 /\ cursor <= Max(page)
            /\ cursor' = Max(page) + Interval
        BY <1>3, <3>1
      <3>3. (Max(page) + Interval * 1) % Interval = 0
        BY <1>2, <3>2, GridStep
      <3>4. QED
        BY <1>2, <3>2, <3>3
    <2>2. range.limit # 0
      BY <1>1 DEF CallInv
    <2>3. QED
      BY <1>1, <1>2, <2>1, <2>2 DEF CallInv
  <1>5. CleanAnswerIsComplete'
    <2> SUFFICES ASSUME call' = "done", refused' = {}, Listed <= range.start,
                        Holes \cap (range.start..range.end) = {},
                        NEW t \in Traded, range.start <= t, t <= range.end, t <= asked
                 PROVE  t \in ordered'
      BY <1>1 DEF CleanAnswerIsComplete, Traded
    <2>1. refused = {} /\ page = Klines(now) /\ t \in Nat /\ t % Interval = 0 /\ t <= now
      BY <1>1, <1>2, TradedOnGrid DEF page
    <2>2. CASE t < cursor
      BY <1>1, <2>1, <2>2 DEF SeenToCursor
    <2>3. CASE cursor <= t
      <3>1. LastPage(page)
        BY <1>1
      <3>2. CASE page = {} \/ Cardinality(page) < range.limit
        <4>1. t \in page
          BY <1>1, <2>1, <2>3, <3>2, ShortPageIsRest
        <4>2. QED
          BY <1>1, <4>1
      <3>3. CASE page # {} /\ next > range.end
        <4>1. t < Max(page) + Interval
          BY <1>2, <1>3, <2>1, <3>3
        <4>2. t <= Max(page)
          BY <1>2, <1>3, <2>1, <3>3, <4>1, NextOnGrid
        <4>3. t \in page
          BY <1>1, <1>3, <2>1, <2>3, <3>3, <4>2, KlinesAreInitial
        <4>4. QED
          BY <1>1, <4>3
      <3>4. QED
        BY <3>1, <3>2, <3>3 DEF LastPage, next
    <2>4. QED
      BY <1>2, <2>1, <2>2, <2>3
  <1>6. QED
    BY <1>4, <1>5 DEF CompleteInv

LEMMA CompleteStepInv ==
    ASSUME FetchInv, CompleteInv, [Next]_gatewayVars
    PROVE  CompleteInv'
  <1>0. CallInv /\ FetchTypeOK
    BY DEF FetchInv, CompleteInv
  <1>1. CASE Pass
    <2>1. now \in Nat /\ now' = now + Interval /\ Interval \in Nat /\ asked' = asked
      BY <1>0, <1>1, FetchAssumption DEF Pass, FetchTypeOK
    <2>2. asked' <= now'
      BY <1>0, <2>1 DEF CallInv
    <2>3. UNCHANGED fetchVars
      BY <1>1 DEF Pass
    <2>4. QED
      BY <2>1, <2>2, <2>3 DEF fetchVars, CompleteInv, CallInv, CleanAnswerIsComplete, Traded
  <1>2. CASE Call
    <2>1. PICK start \in 1..MaxNow, end \in 1..MaxNow, limit \in Limits :
              start % Interval = 0 /\ Begin(start, end, limit)
      BY <1>2 DEF Call
    <2>2. /\ call' = "page" /\ cursor' = start /\ range'.start = start
          /\ asked' = now /\ now' = now /\ start % Interval = 0 /\ start \in Nat
          /\ range'.limit = IF limit = 0 THEN RestMaxLimit ELSE Least(limit, RestMaxLimit)
      BY <1>2, <2>1 DEF Call, Begin
    <2>3. range'.limit # 0
      BY <2>1, <2>2, FetchConstants, GatewayAssumption DEF Least
    <2>4. now \in Nat
      BY <1>0 DEF FetchTypeOK
    <2>5. QED
      BY <2>2, <2>3, <2>4 DEF CompleteInv, CallInv, CleanAnswerIsComplete
  <1>3. CASE Page
    <2>1. UNCHANGED <<now, asked>>
      BY <1>3 DEF Page
    <2>2. CASE \E bad \in SUBSET Klines(now) : AcceptPage(now, bad)
      BY <2>1, <2>2, AcceptPageComplete
    <2>3. CASE FailPage
      <3>1. /\ call = "page" /\ UNCHANGED <<range, cursor, ordered, refused, now, asked>>
            /\ call' = "page" \/ (call' = "done" /\ gaveUp' = TRUE)
        BY <2>1, <2>3 DEF FailPage
      <3>2. CallInv'
        BY <1>0, <3>1 DEF CallInv
      <3>3. CleanAnswerIsComplete'
        BY <3>1 DEF CleanAnswerIsComplete
      <3>4. QED
        BY <3>2, <3>3 DEF CompleteInv
    <2>4. QED
      BY <1>3, <2>2, <2>3 DEF Page
  <1>4. CASE StreamLive
    <2>1. call' = "idle" /\ asked' = 0 /\ now' = now /\ now \in Nat
      BY <1>0, <1>4 DEF StreamLive, Returned, FetchTypeOK
    <2>2. QED
      BY <2>1 DEF CompleteInv, CallInv, CleanAnswerIsComplete
  <1>5. CASE UNCHANGED <<fetchVars, now, asked>>
    BY <1>5 DEF fetchVars, CompleteInv, CallInv, CleanAnswerIsComplete, Traded
  <1>6. CASE Network \/ IdleExpires \/ Silence \/ Disturb \/ Unsubscribe \/ UNCHANGED gatewayVars
    BY <1>5, <1>6 DEF Network, IdleExpires, Silence, Disturb, Unsubscribe, gatewayVars, worldVars
  <1>7. QED
    BY <1>1, <1>2, <1>3, <1>4, <1>6 DEF Next

(* What nothing has disturbed is complete: every candle the range had when *)
(* the call began is in the answer, for every range, limit and page size,  *)
(* and however the exchange moves on meanwhile.                            *)
THEOREM UndisturbedAnswerIsComplete == Spec => []CleanAnswerIsComplete
  <1>1. ASSUME Init PROVE CompleteInv
    <2>1. call = "idle" /\ asked = 0 /\ now = FirstNow /\ FirstNow \in Nat
      BY <1>1, GatewayAssumption DEF Init, FetchInit
    <2>2. QED
      BY <2>1 DEF CompleteInv, CallInv, CleanAnswerIsComplete
  <1>2. CompleteInv => CleanAnswerIsComplete
    BY DEF CompleteInv
  <1>3. QED
    BY <1>1, <1>2, CompleteStepInv, FetchAlwaysInv, PTL DEF Spec
=============================================================================
