----------------------------- MODULE PocProofs -----------------------------
(***************************************************************************)
(* The invariants of Poc, for any buffer longer than a request and any     *)
(* number of requests, bus events and stray bytes.                         *)
(***************************************************************************)
EXTENDS Poc, TLAPS

(***************************************************************************)
(* Types, in parts.                                                        *)
(***************************************************************************)
MainOK ==
  /\ pcM \in {"config", "read", "store", "rstRead", "rstStore", "run"}
  /\ val \in BOOLEAN /\ missed \in BOOLEAN

SeqOK ==
  /\ pcP \in {"off", "warn", "test", "set", "sleep"}
  /\ {cur, nxt} \subseteq {"G3", "S0", "S3", "S4", "S5"}
  /\ slp \in [Slps -> BOOLEAN] /\ led \in BOOLEAN

ThreadOK ==
  /\ pcS \in {"off", "wait", "take", "exec", "send"}
  /\ req \in [0..BufSize - 1 -> Bytes] /\ len \in 0..BufSize /\ tries \in 0..Tries
  /\ pcS \in {"exec", "send"} => len < BufSize

PortOK == ibf \in Bytes /\ odr \in Bytes /\ sem \in BOOLEAN

HostOK ==
  /\ h \in [at : {"idle", "params", "await", "drain"}, id : 0..MaxReqs,
            c : Cmds \cup {"none"}, sent : 0..1, stale : BOOLEAN]
  /\ events \in 0..MaxEvents /\ stray \in 0..MaxStray /\ lost \in BOOLEAN

Types == HubTypeOK /\ MainOK /\ SeqOK /\ ThreadOK /\ PortOK /\ HostOK

LEMMA Ground ==
  /\ BufSize \in Nat /\ BufSize > 3 /\ Tries \in Nat /\ Tries > 0
  /\ MaxEvents \in Nat /\ MaxReqs \in Nat /\ MaxStray \in Nat
  /\ Cmds \subseteq {"read", "write", "query", "burst"}
  /\ Data \subseteq {"data", "write"} /\ Sent \subseteq Warns
  /\ NoByte \in Bytes
BY PocAssumption DEF NoByte, Bytes

(* smchost_req_length() and the host agree on the number of parameters.    *)
LEMMA Lengths ==
  /\ \A c : ReqLength(c) \in 0..2 /\ (c \notin {"read", "write"} => ReqLength(c) = 0)
  /\ DOMAIN Params = {"read", "write"}
  /\ \A c \in {"read", "write"} : Params[c] = ReqLength(c) /\ Params[c] \in 1..2
  /\ Params["read"] = 1 /\ Params["write"] = 2
BY DEF ReqLength, Params

(* The steps one by one.                                                   *)
LEMMA Steps ==
  Next =>
    \/ Configure \/ ReadReady \/ StoreReadyStep \/ ReadReset \/ StartTasks
    \/ Register \/ Compare \/ Commit \/ Sleep
    \/ TakeSem \/ NoInput \/ Take \/ Overflow \/ Continue
    \/ ExecQuiet \/ ExecAnswer \/ PollObf \/ Send \/ GiveByteUp
    \/ (\E w \in Slps : Slp(w)) \/ (\E w \in Warns : Warn(w))
    \/ (\E on \in BOOLEAN : Channel(on)) \/ Reset
    \/ (\E c \in Cmds : Begin(c)) \/ (\E v \in Data : Param(v) \/ Stray(v))
    \/ Read \/ DropStale \/ GiveUp \/ Resume
BY Ground DEF Next, Main, PwrThread, SmcThread, BusEvent, Host

(* The hub's own part: what the handlers of bus events leave behind.       *)
LEMMA HubStep == Types /\ [Next]_vars => HubTypeOK'
<1> SUFFICES ASSUME Types, [Next]_vars PROVE HubTypeOK'
  OBVIOUS
<1> USE DEF Types, HubTypeOK, bus, main, seq, thread, port, host, hostAll
<1>1. CASE Configure BY <1>1 DEF Configure, AddCallbacks
<1>2. CASE ReadReady \/ ReadReset BY <1>2 DEF ReadReady, ReadReset
<1>3. CASE StoreReadyStep BY <1>3 DEF StoreReadyStep, StoreReady, MainOK
<1>4. CASE StartTasks BY <1>4 DEF StartTasks, StoreReset, AddHandler, MainOK
<1>5. CASE Register BY <1>5 DEF Register, AddHandler
<1>6. CASE Compare \/ Commit \/ Sleep BY <1>6 DEF Compare, Commit, Sleep
<1>7. CASE TakeSem \/ NoInput \/ Take \/ Overflow \/ Continue
  BY <1>7 DEF TakeSem, NoInput, Take, Overflow, Continue
<1>8. CASE ExecQuiet \/ ExecAnswer \/ PollObf \/ Send \/ GiveByteUp
  BY <1>8 DEF ExecQuiet, ExecAnswer, PollObf, Send, GiveByteUp, SendDone
<1>9. ASSUME NEW w \in Slps, Slp(w) PROVE HubTypeOK'
  BY <1>9 DEF Slp, SlpEvent
<1>10. ASSUME NEW w \in Warns, Warn(w) PROVE HubTypeOK'
  BY <1>10 DEF Warn, WarnEvent
<1>11. ASSUME NEW on \in BOOLEAN, Channel(on) PROVE HubTypeOK'
  BY <1>11 DEF Channel, ChannelEvent, Known
<1>12. CASE Reset BY <1>12 DEF Reset, ResetEvent
<1>13. ASSUME NEW c \in Cmds, Begin(c) PROVE HubTypeOK'
  BY <1>13 DEF Begin, HostOnly
<1>14. ASSUME NEW v \in Data, Param(v) \/ Stray(v) PROVE HubTypeOK'
  BY <1>14 DEF Param, Stray, HostOnly
<1>15. CASE Read \/ DropStale \/ GiveUp \/ Resume
  BY <1>15 DEF Read, DropStale, GiveUp, Resume, HostOnly
<1>16. CASE UNCHANGED vars BY <1>16 DEF vars
<1> QED
  BY <1>1, <1>2, <1>3, <1>4, <1>5, <1>6, <1>7, <1>8, <1>9, <1>10, <1>11, <1>12,
     <1>13, <1>14, <1>15, <1>16, Steps

LEMMA MainStep == Types /\ [Next]_vars => MainOK' /\ SeqOK'
<1> SUFFICES ASSUME Types, [Next]_vars PROVE MainOK' /\ SeqOK'
  OBVIOUS
<1> USE DEF Types, HubTypeOK, MainOK, SeqOK, bus, main, seq, thread, port, host, hostAll
<1>1. CASE Configure \/ ReadReady \/ ReadReset
  BY <1>1 DEF Configure, ReadReady, ReadReset, Boot
<1>2. CASE StoreReadyStep BY <1>2 DEF StoreReadyStep, Boot
<1>3. CASE StartTasks BY <1>3 DEF StartTasks, Boot
<1>4. CASE Register \/ Compare \/ Commit \/ Sleep
  BY <1>4 DEF Register, Compare, Commit, Sleep
<1>5. CASE TakeSem \/ NoInput \/ Take \/ Overflow \/ Continue
  BY <1>5 DEF TakeSem, NoInput, Take, Overflow, Continue
<1>6. CASE ExecQuiet \/ ExecAnswer \/ PollObf \/ Send \/ GiveByteUp
  BY <1>6 DEF ExecQuiet, ExecAnswer, PollObf, Send, GiveByteUp, SendDone
<1>7. ASSUME NEW w \in Slps, Slp(w) PROVE MainOK' /\ SeqOK'
  <2>1. StateOf([slp EXCEPT ![w] = ~wires[w]]) \in {"S0", "S3", "S4", "S5"}
    BY DEF StateOf, Slps
  <2> QED BY <1>7, <2>1 DEF Slp
<1>8. ASSUME NEW w \in Warns, Warn(w) PROVE MainOK' /\ SeqOK'
  BY <1>8 DEF Warn
<1>9. ASSUME NEW on \in BOOLEAN, Channel(on) PROVE MainOK' /\ SeqOK'
  BY <1>9 DEF Channel
<1>10. CASE Reset BY <1>10 DEF Reset
<1>11. ASSUME NEW c \in Cmds, Begin(c) PROVE MainOK' /\ SeqOK'
  BY <1>11 DEF Begin, HostOnly
<1>12. ASSUME NEW v \in Data, Param(v) \/ Stray(v) PROVE MainOK' /\ SeqOK'
  BY <1>12 DEF Param, Stray, HostOnly
<1>13. CASE Read \/ DropStale \/ GiveUp \/ Resume
  BY <1>13 DEF Read, DropStale, GiveUp, Resume, HostOnly
<1>14. CASE UNCHANGED vars BY <1>14 DEF vars
<1> QED
  BY <1>1, <1>2, <1>3, <1>4, <1>5, <1>6, <1>7, <1>8, <1>9, <1>10, <1>11, <1>12,
     <1>13, <1>14, Steps

LEMMA ThreadStep == Types /\ [Next]_vars => ThreadOK' /\ PortOK'
<1> SUFFICES ASSUME Types, [Next]_vars PROVE ThreadOK' /\ PortOK'
  OBVIOUS
<1> USE Ground DEF Types, ThreadOK, PortOK, bus, main, seq, thread, port, host, hostAll
<1>1. CASE Configure \/ ReadReady \/ StoreReadyStep \/ ReadReset
  BY <1>1 DEF Configure, ReadReady, StoreReadyStep, ReadReset
<1>2. CASE StartTasks BY <1>2 DEF StartTasks
<1>3. CASE Register \/ Compare \/ Commit \/ Sleep
  BY <1>3 DEF Register, Compare, Commit, Sleep
<1>4. CASE TakeSem \/ NoInput \/ Overflow
  BY <1>4 DEF TakeSem, NoInput, Overflow, Drop, Step
<1>5. CASE Take
  <2>1. Position \in 0..BufSize - 1 BY <1>5 DEF Take, Fits, Position
  <2> QED BY <1>5, <2>1 DEF Take, Step
<1>6. CASE Continue BY <1>6 DEF Continue, Step, Count
<1>7. CASE ExecQuiet BY <1>7 DEF ExecQuiet, Step, Count
<1>8. CASE ExecAnswer \/ PollObf BY <1>8 DEF ExecAnswer, PollObf, Step
<1>9. ASSUME NEW drop \in BOOLEAN, SendDone(drop) PROVE ThreadOK' /\ PortOK'
  <2>1. [v |-> "rsp", cd |-> FALSE, id |-> req[0].id] \in Bytes
    BY DEF Bytes
  <2> QED BY <1>9, <2>1 DEF SendDone, Step, Count
<1>10. CASE Send \/ GiveByteUp BY <1>9, <1>10 DEF Send, GiveByteUp
<1>11. ASSUME NEW w \in Slps, Slp(w) PROVE ThreadOK' /\ PortOK'
  BY <1>11 DEF Slp
<1>12. ASSUME NEW w \in Warns, Warn(w) PROVE ThreadOK' /\ PortOK'
  BY <1>12 DEF Warn
<1>13. ASSUME NEW on \in BOOLEAN, Channel(on) PROVE ThreadOK' /\ PortOK'
  BY <1>13 DEF Channel
<1>14. CASE Reset BY <1>14 DEF Reset
<1>15. ASSUME NEW c \in Cmds, Begin(c) PROVE ThreadOK' /\ PortOK'
  <2>1. [v |-> c, cd |-> TRUE, id |-> h.id + 1] \in Bytes
    BY <1>15 DEF Begin, Bytes, HostOK
  <2> QED BY <1>15, <2>1 DEF Begin, HostOnly, Write
<1>16. ASSUME NEW v \in Data, Param(v) PROVE ThreadOK' /\ PortOK'
  <2>1. [v |-> v, cd |-> FALSE, id |-> h.id] \in Bytes
    BY DEF Bytes, HostOK
  <2> QED BY <1>16, <2>1 DEF Param, HostOnly, Write
<1>17. ASSUME NEW v \in Data, Stray(v) PROVE ThreadOK' /\ PortOK'
  <2>1. [v |-> v, cd |-> FALSE, id |-> 0] \in Bytes
    BY DEF Bytes, HostOK
  <2> QED BY <1>17, <2>1 DEF Stray, HostOnly, Write
<1>18. CASE Read \/ DropStale \/ GiveUp \/ Resume
  BY <1>18 DEF Read, DropStale, GiveUp, Resume, HostOnly
<1>19. CASE UNCHANGED vars BY <1>19 DEF vars
<1> QED
  BY <1>1, <1>2, <1>3, <1>4, <1>5, <1>6, <1>7, <1>8, <1>10, <1>11, <1>12,
     <1>13, <1>14, <1>15, <1>16, <1>17, <1>18, <1>19, Steps

LEMMA HostStep == Types /\ [Next]_vars => HostOK'
<1> SUFFICES ASSUME Types, [Next]_vars PROVE HostOK'
  OBVIOUS
<1> USE Ground DEF Types, HostOK, bus, main, seq, thread, port, host, hostAll
<1>1. CASE Configure \/ ReadReady \/ StoreReadyStep \/ ReadReset
  BY <1>1 DEF Configure, ReadReady, StoreReadyStep, ReadReset
<1>2. CASE StartTasks BY <1>2 DEF StartTasks
<1>3. CASE Register \/ Compare \/ Commit \/ Sleep
  BY <1>3 DEF Register, Compare, Commit, Sleep
<1>4. CASE TakeSem \/ NoInput \/ Overflow \/ Take
  BY <1>4 DEF TakeSem, NoInput, Overflow, Take
<1>5. CASE Continue \/ ExecQuiet \/ ExecAnswer \/ PollObf
  BY <1>5 DEF Continue, ExecQuiet, ExecAnswer, PollObf
<1>6. CASE Send \/ GiveByteUp BY <1>6 DEF Send, GiveByteUp, SendDone
<1>7. ASSUME NEW w \in Slps, Slp(w) PROVE HostOK'
  BY <1>7 DEF Slp, BusMay
<1>8. ASSUME NEW w \in Warns, Warn(w) PROVE HostOK'
  BY <1>8 DEF Warn, BusMay
<1>9. ASSUME NEW on \in BOOLEAN, Channel(on) PROVE HostOK'
  BY <1>9 DEF Channel, BusMay
<1>10. CASE Reset BY <1>10 DEF Reset, BusMay
<1>11. ASSUME NEW c \in Cmds, Begin(c) PROVE HostOK'
  BY <1>11 DEF Begin, HostOnly, Params
<1>12. ASSUME NEW v \in Data, Param(v) PROVE HostOK'
  <2>1. h' = [h EXCEPT !.sent = 1]
          \/ \E at \in {"await", "idle"} : h' = [h EXCEPT !.at = at, !.c = "none", !.sent = 0]
    BY <1>12 DEF Param
  <2>2. CASE h' = [h EXCEPT !.sent = 1]
    BY <1>12, <2>2 DEF Param, HostOnly
  <2>3. ASSUME NEW at \in {"await", "idle"},
               h' = [h EXCEPT !.at = at, !.c = "none", !.sent = 0]
        PROVE  HostOK'
    <3>1. h' = [at |-> at, id |-> h.id, c |-> "none", sent |-> 0, stale |-> h.stale]
      BY <2>3
    <3> QED BY <1>12, <3>1 DEF Param, HostOnly
  <2> QED BY <2>1, <2>2, <2>3
<1>13. ASSUME NEW v \in Data, Stray(v) PROVE HostOK'
  BY <1>13 DEF Stray, HostOnly
<1>14. CASE Read \/ DropStale \/ GiveUp \/ Resume
  BY <1>14 DEF Read, DropStale, GiveUp, Resume, HostOnly
<1>15. CASE UNCHANGED vars BY <1>15 DEF vars
<1> QED
  BY <1>1, <1>2, <1>3, <1>4, <1>5, <1>6, <1>7, <1>8, <1>9, <1>10, <1>11, <1>12,
     <1>13, <1>14, <1>15, Steps

LEMMA TypesInit == Init => Types
<1> SUFFICES ASSUME Init PROVE Types
  OBVIOUS
<1> USE Ground DEF Init
<1>1. HubTypeOK BY DEF HubInit, HubTypeOK
<1>2. MainOK /\ SeqOK /\ PortOK BY DEF MainOK, SeqOK, PortOK
<1>3. ThreadOK BY DEF ThreadOK
<1>4. HostOK
  <2>1. lost \in BOOLEAN OBVIOUS
  <2>2. events = 0 /\ stray = 0 OBVIOUS
  <2>3. h \in [at : {"idle", "params", "await", "drain"}, id : 0..MaxReqs,
               c : Cmds \cup {"none"}, sent : 0..1, stale : BOOLEAN]
    OBVIOUS
  <2> QED BY <2>1, <2>2, <2>3 DEF HostOK
<1> QED BY <1>1, <1>2, <1>3, <1>4 DEF Types

LEMMA TypesAre == Spec => []Types
<1>1. Types /\ [Next]_vars => Types'
  BY HubStep, MainStep, ThreadStep, HostStep DEF Types
<1> QED BY TypesInit, <1>1, PTL DEF Spec

(* Every variable keeps its type: in particular the running count of the   *)
(* bytes taken stays within the request buffer (poc_smchost.c:150).        *)
THEOREM PocTypes == Spec => []TypeOK
<1>1. Types => TypeOK
  BY DEF Types, TypeOK, MainOK, SeqOK, ThreadOK, PortOK, HostOK
<1> QED BY TypesAre, <1>1, PTL

(***************************************************************************)
(* Warnings.  What the hub knows of the bus: from the store of the         *)
(* channel's status on it agrees with the bus, unless the change that      *)
(* came in between was missed.                                             *)
(***************************************************************************)
HubKnows ==
  /\ pcM # "config" => hub.on
  /\ heard # {} => hub.on
  /\ pcM \in {"rstRead", "rstStore", "run"} => hub.ready = chan \/ missed
  /\ pcP # "off" \/ pcS # "off" => pcM = "run"
  /\ "sus" \in handlers => pcM = "run"
  /\ "sus" \in heard => "sus" \in handlers

LEMMA KnowsStep == Types /\ HubKnows /\ [Next]_vars => HubKnows'
<1> SUFFICES ASSUME Types, HubKnows, [Next]_vars PROVE HubKnows'
  OBVIOUS
<1> USE DEF HubKnows, Boot, Step, bus, main, seq, thread, port, host, hostAll
<1>1. CASE Configure BY <1>1 DEF Configure, AddCallbacks, Types, HubTypeOK
<1>2. CASE ReadReady \/ ReadReset BY <1>2 DEF ReadReady, ReadReset
<1>3. CASE StoreReadyStep
  BY <1>3 DEF StoreReadyStep, StoreReady, Types, HubTypeOK, MainOK
<1>4. CASE StartTasks
  BY <1>4 DEF StartTasks, StoreReset, AddHandler, Types, HubTypeOK
<1>5. CASE Register BY <1>5 DEF Register, AddHandler
<1>6. CASE Compare \/ Commit \/ Sleep BY <1>6 DEF Compare, Commit, Sleep
<1>7. CASE TakeSem \/ NoInput \/ Take \/ Overflow \/ Continue
  BY <1>7 DEF TakeSem, NoInput, Take, Overflow, Continue
<1>8. CASE ExecQuiet \/ ExecAnswer \/ PollObf \/ Send \/ GiveByteUp
  BY <1>8 DEF ExecQuiet, ExecAnswer, PollObf, Send, GiveByteUp, SendDone
<1>9. ASSUME NEW w \in Slps, Slp(w) PROVE HubKnows'
  BY <1>9 DEF Slp, SlpEvent, SlpTold, Slps
<1>10. ASSUME NEW w \in Warns, Warn(w) PROVE HubKnows'
  BY <1>10 DEF Warn, WarnEvent, Types, HubTypeOK
<1>11. ASSUME NEW on \in BOOLEAN, Channel(on) PROVE HubKnows'
  BY <1>11 DEF Channel, ChannelEvent, Known, Types, HubTypeOK
<1>12. CASE Reset BY <1>12 DEF Reset, ResetEvent, Types, HubTypeOK
<1>13. ASSUME NEW c \in Cmds, Begin(c) PROVE HubKnows'
  BY <1>13 DEF Begin, HostOnly
<1>14. ASSUME NEW v \in Data, Param(v) \/ Stray(v) PROVE HubKnows'
  BY <1>14 DEF Param, Stray, HostOnly
<1>15. CASE Read \/ DropStale \/ GiveUp \/ Resume
  BY <1>15 DEF Read, DropStale, GiveUp, Resume, HostOnly
<1>16. CASE UNCHANGED vars BY <1>16 DEF vars
<1> QED
  BY <1>1, <1>2, <1>3, <1>4, <1>5, <1>6, <1>7, <1>8, <1>9, <1>10, <1>11, <1>12,
     <1>13, <1>14, <1>15, <1>16, Steps

(* A warning that a handler is told of is answered at once, but for a      *)
(* SUS_WARN when the hub takes the host for not ready.                     *)
LEMMA AnsweredStep ==
  Types /\ HubKnows /\ WarningsAnswered /\ [Next]_vars => WarningsAnswered'
<1> SUFFICES ASSUME Types, HubKnows, WarningsAnswered, [Next]_vars
             PROVE  WarningsAnswered'
  OBVIOUS
<1> USE DEF WarningsAnswered, Boot, bus, main, seq, thread, port, host, hostAll
<1>1. CASE Configure \/ ReadReady \/ ReadReset \/ StartTasks
  BY <1>1 DEF Configure, ReadReady, ReadReset, StartTasks
<1>2. CASE StoreReadyStep BY <1>2 DEF StoreReadyStep, HubKnows
<1>3. CASE Register \/ Compare \/ Commit \/ Sleep
  BY <1>3 DEF Register, Compare, Commit, Sleep
<1>4. CASE TakeSem \/ NoInput \/ Take \/ Overflow \/ Continue
  BY <1>4 DEF TakeSem, NoInput, Take, Overflow, Continue
<1>5. CASE ExecQuiet \/ ExecAnswer \/ PollObf \/ Send \/ GiveByteUp
  BY <1>5 DEF ExecQuiet, ExecAnswer, PollObf, Send, GiveByteUp, SendDone
<1>6. ASSUME NEW w \in Slps, Slp(w) PROVE WarningsAnswered'
  <2>1. \A u \in Warns : u # w BY DEF Slps, Warns
  <2>2. \A u \in Warns : wires'[u] = wires[u] /\ (u \in heard' => u \in heard)
    BY <1>6, <2>1 DEF Slp, SlpEvent, Types, HubTypeOK
  <2> QED BY <1>6, <2>2 DEF Slp, SlpEvent
<1>7. ASSUME NEW w \in Warns, Warn(w) PROVE WarningsAnswered'
  <2>1. UNCHANGED missed BY <1>7 DEF Warn
  <2>2. \A u \in Warns \ {w} :
          wires'[u] = wires[u] /\ acks'[u] = acks[u] /\ (u \in heard' => u \in heard)
    BY <1>7 DEF Warn, WarnEvent, Types, HubTypeOK
  <2>3. w \in heard' => acks'[w] = wires'[w] \/ (w = "sus" /\ missed)
    <3>1. CASE ~(hub.on /\ (w = "sus" => "sus" \in handlers))
      BY <1>7, <3>1 DEF Warn, WarnEvent, HubKnows
    <3>2. CASE hub.on /\ (w = "sus" => "sus" \in handlers) /\ (w # "sus" \/ CanSend)
      BY <1>7, <3>2 DEF Warn, WarnEvent, Answered, Types, HubTypeOK
    <3>3. CASE hub.on /\ w = "sus" /\ "sus" \in handlers /\ ~CanSend
      BY <1>7, <2>1, <3>3 DEF Warn, WarnEvent, CanSend, HubKnows, Types, HubTypeOK, MainOK
    <3> QED BY <3>1, <3>2, <3>3
  <2> QED BY <2>1, <2>2, <2>3
<1>8. ASSUME NEW on \in BOOLEAN, Channel(on) PROVE WarningsAnswered'
  BY <1>8 DEF Channel, ChannelEvent
<1>9. CASE Reset BY <1>9 DEF Reset, ResetEvent
<1>10. ASSUME NEW c \in Cmds, Begin(c) PROVE WarningsAnswered'
  BY <1>10 DEF Begin, HostOnly
<1>11. ASSUME NEW v \in Data, Param(v) \/ Stray(v) PROVE WarningsAnswered'
  BY <1>11 DEF Param, Stray, HostOnly
<1>12. CASE Read \/ DropStale \/ GiveUp \/ Resume
  BY <1>12 DEF Read, DropStale, GiveUp, Resume, HostOnly
<1>13. CASE UNCHANGED vars BY <1>13 DEF vars
<1> QED
  BY <1>1, <1>2, <1>3, <1>4, <1>5, <1>6, <1>7, <1>8, <1>9, <1>10, <1>11, <1>12,
     <1>13, Steps

(* Every warning the EC was told of is answered with its level, SUS_WARN   *)
(* but for what espihub_init() misses (espi_hub.c:427), see Poc.           *)
THEOREM EveryWarningAnswered == Spec => []WarningsAnswered
<1> DEFINE IInv == Types /\ HubKnows /\ WarningsAnswered
<1>1. Init => IInv
  <2>1. Init => HubKnows BY DEF Init, HubInit, HubKnows
  <2>2. Init => WarningsAnswered BY DEF Init, HubInit, WarningsAnswered
  <2> QED BY <2>1, <2>2, TypesInit
<1>2. IInv /\ [Next]_vars => IInv'
  BY HubStep, MainStep, ThreadStep, HostStep, KnowsStep, AnsweredStep DEF Types
<1> QED BY <1>1, <1>2, PTL DEF Spec

(***************************************************************************)
(* Requests.  A request is active from the byte of its command until its   *)
(* last parameter is taken; what the host owes, what waits in the input    *)
(* buffer and what has been taken make up its length.                      *)
(***************************************************************************)
Waiting == pcS \in {"off", "wait", "take"}
Active == req[0] # NoByte /\ pcS # "send" /\ (pcS = "exec" => ~Complete)
Taken == IF Waiting THEN len - 1 ELSE len
Owed == IF h.at = "params" THEN Params[h.c] - h.sent ELSE 0
InFlight == IF ibf = NoByte THEN 0 ELSE 1

HostOwes ==
  h.at = "params" => h.c \in {"read", "write"} /\ h.sent < Params[h.c] /\ h.id > 0

(* The first byte is a command, so data never gets to the front.           *)
CommandFirst ==
  /\ pcS = "off" => ibf = NoByte /\ h.id = 0 /\ req[0] = NoByte
  /\ pcS \in {"wait", "take"} /\ h.id > 0 => ibf.cd \/ len > 0
  /\ ibf # NoByte => h.id > 0
  /\ req[0] # NoByte => req[0].cd
  /\ pcS = "send" => req[0] # NoByte /\ Complete

Bounds ==
  req[0] # NoByte =>
    IF Waiting THEN len > 0 /\ Taken < ReqLength(req[0].v) ELSE Taken <= ReqLength(req[0].v)

(* A command that waits in the input buffer ends the request before.       *)
Flow ==
  /\ ibf.cd => ibf.id = h.id /\ ReqLength(ibf.v) = Owed
  /\ Active /\ ~ibf.cd =>
       /\ req[0].id = h.id /\ Taken + InFlight + Owed = ReqLength(req[0].v)
       /\ ibf # NoByte => ibf.id = h.id

Own == req[0] # NoByte => \A i \in 1..Taken : req[i].id = req[0].id

Requests == HostOwes /\ CommandFirst /\ Bounds /\ Flow /\ Own

LEMMA OwedIs == HostOK /\ HostOwes => Owed \in Nat
<1> SUFFICES ASSUME HostOK, HostOwes PROVE Owed \in Nat
  OBVIOUS
<1>0. h.sent \in Nat BY DEF HostOK
<1>1. CASE h.at = "params"
  <2>1. Params[h.c] \in Nat /\ h.sent \in Nat /\ h.sent < Params[h.c]
    BY <1>0, <1>1, Lengths DEF HostOwes
  <2> QED BY <1>1, <2>1 DEF Owed
<1>2. CASE h.at # "params" BY <1>2 DEF Owed
<1> QED BY <1>1, <1>2

(* What the steps of the thread do to the request.                         *)
LEMMA TakeRequest == Types /\ Requests /\ Take => Requests'
<1> SUFFICES ASSUME Types, Requests, Take PROVE Requests'
  OBVIOUS
<1> USE Ground, Lengths
<1>1. /\ pcS = "take" /\ pcS' = "exec" /\ ibf # NoByte /\ ibf' = NoByte /\ UNCHANGED h
      /\ len' = Position /\ Position \in 0..BufSize - 1
      /\ req'[Position] = ibf
      /\ \A i \in 0..BufSize - 1 : i # Position => req'[i] = req[i]
  BY DEF Take, Step, Types, ThreadOK, Fits, Position, hostAll, host
<1>2. ~ibf'.cd BY <1>1 DEF NoByte
<1>3. HostOwes' BY <1>1 DEF Requests, HostOwes
<1>4. CASE ibf.cd
  <2>1. len' = 0 /\ req'[0] = ibf BY <1>1, <1>4 DEF Position
  <2>2. CommandFirst' BY <1>1, <1>2, <1>4, <2>1 DEF Requests, CommandFirst
  <2>3. Bounds' /\ Own' BY <1>1, <2>1 DEF Bounds, Own, Waiting, Taken
  <2>4. Flow'
    BY <1>1, <1>2, <1>4, <2>1 DEF Requests, Flow, Taken, InFlight, Owed, Waiting
  <2> QED BY <1>3, <2>2, <2>3, <2>4 DEF Requests
<1>5. CASE ~ibf.cd
  <2>1. len > 0 BY <1>1, <1>5 DEF Requests, CommandFirst, Types, HostOK
  <2>2. len' = len /\ req'[len] = ibf /\ len \in Nat /\ req'[0] = req[0]
    BY <1>1, <1>5, <2>1 DEF Position, Types, ThreadOK
  <2>3. CommandFirst' BY <1>1, <1>2, <2>1, <2>2 DEF Requests, CommandFirst
  <2>4. CASE req[0] = NoByte
    BY <1>1, <1>2, <1>3, <2>2, <2>3, <2>4 DEF Requests, Bounds, Own, Flow, Active
  <2>5. CASE req[0] # NoByte
    <3>1. Active /\ Waiting /\ Taken = len - 1 /\ InFlight = 1
      BY <1>1, <2>5 DEF Active, Waiting, Taken, InFlight
    <3>2. /\ req[0].id = h.id /\ ibf.id = h.id
          /\ Taken + InFlight + Owed = ReqLength(req[0].v)
      BY <1>1, <1>5, <3>1 DEF Requests, Flow
    <3>3. /\ len - 1 < ReqLength(req[0].v)
          /\ \A i \in 1..len - 1 : req[i].id = req[0].id
      BY <2>5, <3>1 DEF Requests, Bounds, Own
    <3>4. Owed \in Nat BY OwedIs DEF Requests, Types
    <3>5. ~Waiting' /\ Taken' = len /\ Owed' = Owed /\ InFlight' = 0
      BY <1>1, <2>2 DEF Waiting, Taken, Owed, InFlight
    <3>6. Bounds' BY <2>2, <3>5, <3>3 DEF Bounds
    <3>7. Own'
      <4>1. \A i \in 1..len : i \in 0..BufSize - 1 BY <1>1, <2>2
      <4> QED BY <1>1, <2>2, <3>2, <3>5, <3>3, <4>1 DEF Own
    <3>8. Flow' BY <1>1, <1>2, <2>2, <3>4, <3>1, <3>2, <3>5 DEF Flow
    <3> QED BY <1>3, <2>3, <3>6, <3>7, <3>8 DEF Requests
  <2> QED BY <2>4, <2>5
<1> QED BY <1>4, <1>5

(* The byte is done with: the request goes on, or there is none.           *)
LEMMA CountRequest ==
  ASSUME Types, Requests, UNCHANGED <<ibf, h>>,
         pcS' = "take", len' = len + 1,
         \/ pcS = "exec" /\ ~Complete /\ UNCHANGED req
         \/ pcS \in {"exec", "send"} /\ req' = [req EXCEPT ![0] = NoByte]
  PROVE  Requests'
<1> USE Ground, Lengths
<1>1. HostOwes' BY DEF Requests, HostOwes
<1>2. len \in Nat BY DEF Types, ThreadOK
<1>3. CASE req' = [req EXCEPT ![0] = NoByte]
  <2>1. req'[0] = NoByte BY <1>3 DEF Types, ThreadOK
  <2>2. CommandFirst' BY <1>2, <2>1 DEF Requests, CommandFirst
  <2>3. Flow' BY <2>1 DEF Requests, Flow, Active, Owed
  <2> QED BY <1>1, <2>1, <2>2, <2>3 DEF Requests, Bounds, Own
<1>4. CASE pcS = "exec" /\ ~Complete /\ UNCHANGED req
  <2>1. ~Waiting /\ Waiting' /\ Taken' = Taken /\ Taken = len
    BY <1>2, <1>4 DEF Waiting, Taken
  <2>2. CommandFirst' BY <1>2, <1>4 DEF Requests, CommandFirst
  <2>3. Bounds'
    BY <1>2, <1>4, <2>1 DEF Requests, Bounds, Complete
  <2>4. Own' BY <1>4, <2>1 DEF Requests, Own
  <2>5. Flow' BY <1>4, <2>1 DEF Requests, Flow, Active, Owed, InFlight
  <2> QED BY <1>1, <2>2, <2>3, <2>4, <2>5 DEF Requests
<1> QED BY <1>3, <1>4

(* The buffer takes any request, so a byte that overflows belongs to none. *)
LEMMA OverflowRequest == Types /\ Requests /\ Overflow => Requests'
<1> SUFFICES ASSUME Types, Requests, Overflow PROVE Requests'
  OBVIOUS
<1> USE Ground, Lengths
<1>1. /\ UNCHANGED <<req, len, h>> /\ ibf # NoByte /\ ibf' = NoByte
      /\ pcS = "take" /\ pcS' = "wait" /\ len \in Nat /\ len > 3
  BY DEF Overflow, Step, Drop, Fits, Position, hostAll, host, Types, ThreadOK
<1>2. req[0] = NoByte BY <1>1 DEF Requests, Bounds, Waiting, Taken
<1>3. CommandFirst' BY <1>1, <1>2 DEF Requests, CommandFirst
<1>4. HostOwes' /\ Bounds' /\ Own' /\ Flow'
  BY <1>1, <1>2 DEF Requests, HostOwes, Bounds, Own, Flow, Active, NoByte
<1> QED BY <1>3, <1>4 DEF Requests

(* An answer is on its way for a complete request.                         *)
LEMMA AnswerRequest == Types /\ Requests /\ ExecAnswer => Requests'
<1> SUFFICES ASSUME Types, Requests, ExecAnswer PROVE Requests'
  OBVIOUS
<1>1. /\ UNCHANGED <<req, len, ibf, h>> /\ pcS = "exec" /\ pcS' = "send" /\ Complete
  BY DEF ExecAnswer, Step, port, hostAll, host
<1>2. ~Waiting /\ ~Waiting' /\ Taken' = Taken /\ Complete'
  BY <1>1 DEF Waiting, Taken, Complete
<1>3. CommandFirst' BY <1>1, <1>2 DEF Requests, CommandFirst, Complete
<1>4. HostOwes' /\ Bounds' /\ Own'
  BY <1>1, <1>2 DEF Requests, HostOwes, Bounds, Own
<1>5. Flow' BY <1>1 DEF Requests, Flow, Active, Owed
<1> QED BY <1>3, <1>4, <1>5 DEF Requests

(* What the host writes; the byte goes to an empty input buffer.           *)
LEMMA BeginRequest ==
  ASSUME Types, Requests, NEW c \in Cmds, Begin(c) PROVE Requests'
<1> USE Ground, Lengths
<1>1. /\ UNCHANGED <<pcS, req, len>> /\ ibf = NoByte /\ pcS # "off"
      /\ ibf' = [v |-> c, cd |-> TRUE, id |-> h.id + 1] /\ ibf' # NoByte
  BY DEF Begin, Write, HostOnly, thread, NoByte
<1>2. /\ h'.id = h.id + 1 /\ h'.sent = 0 /\ h.id + 1 > 0
      /\ h'.at = "params" <=> c \in {"read", "write"}
      /\ h'.at = "params" => h'.c = c
  BY DEF Begin, Types, HostOK
<1>3. HostOwes' BY <1>2 DEF HostOwes
<1>4. CommandFirst' BY <1>1, <1>2 DEF Requests, CommandFirst, Complete
<1>5. Bounds' /\ Own'
  BY <1>1 DEF Requests, Bounds, Own, Waiting, Taken
<1>6. Flow' BY <1>1, <1>2 DEF Flow, Owed
<1> QED BY <1>3, <1>4, <1>5, <1>6 DEF Requests

LEMMA ParamRequest ==
  ASSUME Types, Requests, NEW v \in Data, Param(v) PROVE Requests'
<1> USE Ground, Lengths
<1>1. /\ UNCHANGED <<pcS, req, len>> /\ ibf = NoByte /\ h.at = "params"
      /\ pcS # "off"
      /\ ibf' = [v |-> v, cd |-> FALSE, id |-> h.id] /\ ibf' # NoByte
  BY DEF Param, Write, HostOnly, thread, NoByte
<1>2. h'.id = h.id /\ HostOwes' /\ Owed' = Owed - 1 /\ Owed \in Nat /\ Owed > 0
  <2>1. /\ h.c \in {"read", "write"} /\ h.sent < Params[h.c] /\ h.id > 0
        /\ h.sent \in Nat /\ Params[h.c] \in Nat
    BY <1>1 DEF Requests, HostOwes, Types, HostOK
  <2>2. Owed = Params[h.c] - h.sent BY <1>1 DEF Owed
  <2>3. CASE h.sent + 1 < Params[h.c]
    <3>1. h' = [h EXCEPT !.sent = 1] /\ h.sent = 0
      BY <2>1, <2>3 DEF Param
    <3>2. /\ h'.sent = 1 /\ h'.at = "params" /\ h'.c = h.c /\ h'.id = h.id
      BY <1>1, <3>1 DEF Types, HostOK
    <3> QED BY <2>1, <2>2, <2>3, <3>1, <3>2 DEF HostOwes, Owed
  <2>4. CASE ~(h.sent + 1 < Params[h.c])
    <3>1. h'.at # "params" /\ h'.id = h.id
      BY <2>4 DEF Param, Types, HostOK
    <3> QED BY <2>1, <2>2, <2>4, <3>1 DEF HostOwes, Owed
  <2> QED BY <2>3, <2>4
<1>3. CommandFirst'
  BY <1>1, <1>2 DEF Requests, CommandFirst, Complete, HostOwes, NoByte
<1>4. Bounds' /\ Own'
  BY <1>1 DEF Requests, Bounds, Own, Waiting, Taken
<1>5. Flow'
  <2>1. ~ibf.cd BY <1>1 DEF NoByte
  <2>2. InFlight = 0 /\ InFlight' = 1 /\ Taken' = Taken /\ (Active' <=> Active)
    BY <1>1 DEF InFlight, Taken, Waiting, Active, Complete
  <2>3. Active => Taken \in Nat
    BY DEF Active, Taken, Waiting, Requests, Bounds, Types, ThreadOK
  <2> QED BY <1>1, <1>2, <2>1, <2>2, <2>3 DEF Requests, Flow
<1> QED BY <1>2, <1>3, <1>4, <1>5 DEF Requests

(* A stray byte comes when the host owes nothing: no request is active.    *)
LEMMA StrayRequest ==
  ASSUME Types, Requests, NEW v \in Data, Stray(v) PROVE Requests'
<1> USE Ground, Lengths
<1>1. /\ UNCHANGED <<pcS, req, len, h>> /\ ibf = NoByte /\ h.at = "idle" /\ h.id > 0
      /\ pcS # "off"
      /\ ibf' = [v |-> v, cd |-> FALSE, id |-> 0] /\ ibf' # NoByte
  BY DEF Stray, Write, HostOnly, thread, NoByte
<1>2. ~Active
  <2>1. SUFFICES ASSUME Active PROVE FALSE OBVIOUS
  <2>2. Taken \in Nat /\ Taken < ReqLength(req[0].v)
    BY <2>1 DEF Active, Taken, Waiting, Complete, Requests, Bounds, Types, ThreadOK
  <2>3. Owed = 0 /\ InFlight = 0 /\ ~ibf.cd BY <1>1 DEF Owed, InFlight, NoByte
  <2> QED BY <2>1, <2>2, <2>3 DEF Requests, Flow
<1>3. CommandFirst' BY <1>1 DEF Requests, CommandFirst, Complete, NoByte
<1>4. Bounds' /\ Own' /\ HostOwes'
  BY <1>1 DEF Requests, Bounds, Own, HostOwes, Waiting, Taken
<1>5. Flow' BY <1>1, <1>2 DEF Flow, Active, Complete
<1> QED BY <1>3, <1>4, <1>5 DEF Requests

(* The host waits no longer, or reads; it owes nothing before and after.   *)
LEMMA IdleRequest ==
  ASSUME Types, Requests, Read \/ DropStale \/ GiveUp \/ Resume PROVE Requests'
<1> USE Ground, Lengths
<1>1. UNCHANGED <<pcS, req, len, ibf>>
  BY DEF Read, DropStale, GiveUp, Resume, HostOnly, thread, port
<1>2. /\ h'.id = h.id /\ h'.c = h.c /\ h'.sent = h.sent
      /\ h'.at = "params" <=> h.at = "params"
  BY DEF Read, DropStale, GiveUp, Resume, Types, HostOK
<1>3. Owed' = Owed /\ HostOwes' BY <1>2 DEF Owed, HostOwes, Requests
<1>4. CommandFirst' /\ Bounds' /\ Own'
  BY <1>1, <1>2 DEF Requests, CommandFirst, Bounds, Own, Complete, Waiting, Taken
<1>5. Flow'
  BY <1>1, <1>2, <1>3 DEF Requests, Flow, Active, Complete, Taken, Waiting, InFlight
<1> QED BY <1>3, <1>4, <1>5 DEF Requests

(* Steps that are not about requests.                                      *)
LEMMA OtherRequest ==
  ASSUME Types, Requests, UNCHANGED <<req, len, ibf, h>>,
         UNCHANGED pcS \/ (Waiting /\ pcS' \in {"wait", "take"})
  PROVE  Requests'
<1>1. (Waiting' <=> Waiting) /\ (Complete' <=> Complete) BY DEF Waiting, Complete
<1>2. Owed' = Owed /\ Taken' = Taken /\ InFlight' = InFlight /\ (Active' <=> Active)
  BY <1>1 DEF Owed, Taken, InFlight, Active, Waiting
<1>3. HostOwes' /\ Bounds' /\ Own' /\ Flow'
  BY <1>1, <1>2 DEF Requests, HostOwes, Bounds, Own, Flow
<1>4. CommandFirst'
  BY <1>1, Ground DEF Requests, CommandFirst, Waiting, Types, HostOK
<1> QED BY <1>3, <1>4 DEF Requests

LEMMA RequestStep == Types /\ HubKnows /\ Requests /\ [Next]_vars => Requests'
<1> SUFFICES ASSUME Types, HubKnows, Requests, [Next]_vars PROVE Requests'
  OBVIOUS
<1> USE DEF bus, main, seq, thread, port, host, hostAll
<1>1. CASE Configure \/ ReadReady \/ StoreReadyStep \/ ReadReset
  BY <1>1, OtherRequest DEF Configure, ReadReady, StoreReadyStep, ReadReset
<1>2. CASE StartTasks
  BY <1>2, OtherRequest DEF StartTasks, Boot, HubKnows, Waiting
<1>3. CASE Register \/ Compare \/ Commit \/ Sleep
  BY <1>3, OtherRequest DEF Register, Compare, Commit, Sleep
<1>4. CASE TakeSem \/ NoInput
  BY <1>4, OtherRequest DEF TakeSem, NoInput, Step, Waiting
<1>5. CASE Take BY <1>5, TakeRequest
<1>6. CASE Overflow BY <1>6, OverflowRequest
<1>7. CASE Continue \/ ExecQuiet
  BY <1>7, CountRequest DEF Continue, ExecQuiet, Step, Count
<1>8. CASE Send \/ GiveByteUp
  BY <1>8, CountRequest DEF Send, GiveByteUp, SendDone, Step, Count
<1>9. CASE ExecAnswer BY <1>9, AnswerRequest
<1>10. CASE PollObf
  BY <1>10, OtherRequest DEF PollObf
<1>11. ASSUME NEW w \in Slps, Slp(w) PROVE Requests'
  BY <1>11, OtherRequest DEF Slp
<1>12. ASSUME NEW w \in Warns, Warn(w) PROVE Requests'
  BY <1>12, OtherRequest DEF Warn
<1>13. ASSUME NEW on \in BOOLEAN, Channel(on) PROVE Requests'
  BY <1>13, OtherRequest DEF Channel
<1>14. CASE Reset BY <1>14, OtherRequest DEF Reset
<1>15. ASSUME NEW c \in Cmds, Begin(c) PROVE Requests'
  BY <1>15, BeginRequest
<1>16. ASSUME NEW v \in Data, Param(v) \/ Stray(v) PROVE Requests'
  BY <1>16, ParamRequest, StrayRequest
<1>17. CASE Read \/ DropStale \/ GiveUp \/ Resume
  BY <1>17, IdleRequest
<1>18. CASE UNCHANGED vars
  BY <1>18, OtherRequest DEF vars
<1> QED
  BY <1>1, <1>2, <1>3, <1>4, <1>5, <1>6, <1>7, <1>8, <1>9, <1>10, <1>11, <1>12,
     <1>13, <1>14, <1>15, <1>16, <1>17, <1>18, Steps

(* A command is executed with the parameters of its own request, whatever  *)
(* was abandoned or written unasked before it (poc_smchost.c:117-149).     *)
THEOREM ParametersAreOwn == Spec => []OwnParameters
<1> DEFINE IInv == Types /\ HubKnows /\ Requests
<1>1. Init => IInv
  <2>1. Init => HubKnows BY DEF Init, HubInit, HubKnows
  <2>2. Init => Requests
    BY Ground DEF Init, Requests, HostOwes, CommandFirst, Bounds, Flow, Own, Active,
       Owed, NoByte
  <2> QED BY <2>1, <2>2, TypesInit
<1>2. IInv /\ [Next]_vars => IInv'
  BY HubStep, MainStep, ThreadStep, HostStep, KnowsStep, RequestStep DEF Types
<1>3. IInv => OwnParameters
  <2> SUFFICES ASSUME IInv, pcS \in {"exec", "send"}, Complete
               PROVE  \A i \in 1..ReqLength(req[0].v) : req[i].id = req[0].id
    BY DEF OwnParameters
  <2>1. Taken = ReqLength(req[0].v) /\ req[0] # NoByte
    BY DEF Complete, Taken, Waiting
  <2> QED BY <2>1 DEF Requests, Own
<1> QED BY <1>1, <1>2, <1>3, PTL DEF Spec
=============================================================================
