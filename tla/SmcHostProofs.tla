--------------------------- MODULE SmcHostProofs ---------------------------
(***************************************************************************)
(* The invariants of SmcHost, for any buffer and queue size and any number *)
(* of requests, events and faults.                                         *)
(***************************************************************************)
EXTENDS SmcHost, SequenceTheorems, TLAPS

Points ==
  {"wait", "burst", "ack", "ack_write", "check", "clear", "set", "send",
   "write", "index", "length", "result", "delay", "sleep"}

(***************************************************************************)
(* Types, in parts.                                                        *)
(***************************************************************************)
PortOK ==
  /\ ibf \in [cd : BOOLEAN, v : Values] /\ odr \in Bytes
  /\ scievt \in BOOLEAN /\ irq \in BOOLEAN

HandOK ==
  /\ isr \in {"idle", "loop", "send"} /\ ans \in Bytes /\ ans.ev = 0
  /\ req \in [0..BufSize - 1 -> Values] /\ reqLen \in 0..BufSize
  /\ stale \in BOOLEAN

(* The interrupt may replace the response while the thread is between the  *)
(* write of ODR and the update of host_res_len.                            *)
RespOK ==
  /\ pc \in Points /\ res \in 0..MaxTxn
  /\ resLen \in 0..BufSize /\ resIdx \in 0..BufSize
  /\ pc \in {"write", "index", "length"} => resLen > 0
  /\ resIdx + resLen <= IF pc = "length" THEN BufSize + 1 ELSE BufSize

FlagOK ==
  /\ burst \in 0..MaxTxn /\ ack \in 0..MaxTxn /\ sem \in 0..1
  /\ normal \in BOOLEAN /\ pend \in BOOLEAN
  /\ acpiMode \in BOOLEAN /\ sciEnabled \in BOOLEAN

EnvOK ==
  /\ s0 \in BOOLEAN /\ os \in BOOLEAN /\ rst \in {"run", "warned", "reset"}
  /\ h \in [at : {"idle", "send", "read"}, c : AllCmds \cup {"query", "none"},
            id : 0..MaxTxn, sent : 0..2, got : 0..BufSize]
  /\ txns \in 0..MaxTxn /\ events \in 0..MaxEvents /\ faults \in 0..MaxFaults
  /\ gaveUp \in BOOLEAN /\ mixed \in BOOLEAN
  /\ h.at # "idle" => h.c # "none"
  /\ h.at = "send" => h.got = 0 /\ h.sent <= Params(h.c)
  /\ h.at = "read" => h.got < Answers(h.c)

EventsOK ==
  /\ sciQ \in Seq(accepted) /\ Len(sciQ) <= QueueSize
  /\ accepted \subseteq 1..events /\ flushed \subseteq accepted
  /\ seen \in Seq(accepted) /\ odr.ev \in accepted \cup {0}

Types == /\ PortOK /\ HandOK /\ RespOK /\ FlagOK /\ EnvOK /\ EventsOK
         /\ overrun \in BOOLEAN

LEMMA Ground ==
  /\ BufSize \in Nat /\ BufSize >= 3 /\ QueueSize \in Nat /\ QueueSize > 0
  /\ GetLen \in Nat /\ GetLen > 0 /\ GetLen <= BufSize
  /\ Cmds \subseteq AllCmds
  /\ MaxTxn \in Nat /\ MaxEvents \in Nat /\ MaxFaults \in Nat
BY SmcHostAssumption

(* How many parameters a command has, and how many bytes its answer.       *)
LEMMA Lengths ==
  /\ \A c : ReqLength(c) \in 0..2 /\ ReqLength(c) <= Params(c) /\ Params(c) \in 0..2
  /\ \A c : c # "other" => Params(c) = ReqLength(c)
  /\ \A c : c \in {"read", "space", "set"} => ReqLength(c) = 1
  /\ \A c : c \notin {"read", "space", "set", "write"} => ReqLength(c) = 0
  /\ \A c : Answers(c) \in 0..BufSize
  /\ Answers("get") = GetLen
  /\ \A c : c \in {"read", "space", "burst", "query"} => Answers(c) = 1
  /\ \A c : c \notin {"get", "read", "space", "burst", "query"} => Answers(c) = 0
BY Ground DEF ReqLength, Params, Answers

LEMMA NoneIs ==
  /\ None \in Bytes /\ None.ev = 0 /\ None.k = 0 /\ NoReq \in Values /\ NoReq.c = "none"
  /\ NoIn \in [cd : BOOLEAN, v : Values] /\ ~NoIn.cd /\ NoIn.v = NoReq
  /\ Idle \in [at : {"idle", "send", "read"}, c : AllCmds \cup {"query", "none"},
               id : 0..MaxTxn, sent : 0..2, got : 0..BufSize]
  /\ Idle.at = "idle"
<1> USE Ground
<1>1. None \in Bytes BY DEF None, Bytes
<1>2. NoReq \in Values BY DEF NoReq, Values
<1>3. NoIn \in [cd : BOOLEAN, v : Values] BY <1>2 DEF NoIn
<1>4. None.ev = 0 /\ None.k = 0 /\ NoReq.c = "none" BY DEF None, NoReq
<1>5. ~NoIn.cd /\ NoIn.v = NoReq /\ Idle.at = "idle" BY DEF NoIn, Idle
<1> QED BY <1>1, <1>2, <1>3, <1>4, <1>5 DEF Idle

(* The steps one by one.                                                   *)
LEMMA Steps ==
  Next =>
    \/ IsrByte \/ IsrSend \/ IsrEnd
    \/ TakeSem \/ Burst \/ AckFree \/ AckTimeout \/ AckWrite \/ Check \/ ClearEvt
    \/ SetEvt \/ Send \/ Write \/ Index \/ Length \/ Result \/ Delay \/ Wake
    \/ SendParam \/ Sent \/ Read \/ Query \/ IgnoreSci
    \/ Enqueue \/ ResetWarn \/ PltRstLow \/ PltRstHigh \/ LeaveOrEnterS0
    \/ GiveUp \/ Drain \/ \E c \in Cmds : Request(c)
BY DEF Next, Isr, Thread, GoOn, TakeSci, Environment

(***************************************************************************)
(* A byte that the interrupt takes: the request it leaves, the command it  *)
(* completes.                                                              *)
(***************************************************************************)
Restarted == [req EXCEPT ![Position] = ibf.v]
Command == Restarted[0].c
Completes == Command # "none" /\ ReqLength(Command) = Position

LEMMA ByteTaken ==
  Types /\ IsrByte =>
    /\ isr \in {"idle", "loop"} /\ ibf # NoIn /\ ibf' = NoIn
    /\ Position \in 0..BufSize - 1 /\ (ibf.cd => Position = 0)
    /\ (~ibf.cd => Position = reqLen)
    /\ reqLen' = Position + 1
    /\ req' = IF Completes THEN [Restarted EXCEPT ![0] = NoReq] ELSE Restarted
    /\ IF Completes THEN Execute(Command, Restarted) ELSE Keep(Command)
    /\ Restarted \in [0..BufSize - 1 -> Values]
    /\ UNCHANGED <<sem, thr, envr, aux>>
<1> SUFFICES ASSUME Types, IsrByte
             PROVE  /\ isr \in {"idle", "loop"} /\ ibf # NoIn /\ ibf' = NoIn
                    /\ Position \in 0..BufSize - 1 /\ (ibf.cd => Position = 0)
                    /\ (~ibf.cd => Position = reqLen)
                    /\ reqLen' = Position + 1
                    /\ req' = IF Completes THEN [Restarted EXCEPT ![0] = NoReq]
                              ELSE Restarted
                    /\ IF Completes THEN Execute(Command, Restarted) ELSE Keep(Command)
                    /\ Restarted \in [0..BufSize - 1 -> Values]
                    /\ UNCHANGED <<sem, thr, envr, aux>>
  OBVIOUS
<1>1. /\ Position \in 0..BufSize - 1 /\ (ibf.cd => Position = 0)
      /\ (~ibf.cd => Position = reqLen)
  BY Ground DEF IsrByte, Position, Types, HandOK
<1>2. (IF ibf.cd THEN 0 ELSE Position) = Position BY <1>1
<1>3. Restarted \in [0..BufSize - 1 -> Values]
  BY <1>1 DEF Restarted, Types, PortOK, HandOK
<1> QED BY <1>1, <1>2, <1>3 DEF IsrByte, InputFull, Restarted, Command, Completes

(***************************************************************************)
(* What a byte does besides moving the request: it may answer a query from *)
(* the queue, prepare a response, ask the thread for something.            *)
(***************************************************************************)
Queried ==
  /\ odr = None
  /\ odr' = [id |-> 0, k |-> 1, ev |-> IF sciQ = << >> THEN 0 ELSE Head(sciQ)]
  /\ sciQ' = IF sciQ = << >> THEN sciQ ELSE Tail(sciQ)

LEMMA ByteDoes ==
  Types /\ IsrByte =>
    /\ IF isr' = "send"
       THEN /\ Completes /\ Command = "read"
            /\ ans' = [id |-> Restarted[1].id, k |-> 1, ev |-> 0]
       ELSE isr' = "loop" /\ ans' = ans
    /\ \/ UNCHANGED resp
       \/ Completes /\ Command = "get" /\ SendToHost(Restarted[0].id, GetLen)
       \/ Completes /\ Command = "space" /\ SendToHost(Restarted[1].id, 1)
    /\ \/ burst' = burst
       \/ Completes /\ Command = "burst" /\ burst' = Restarted[0].id
    /\ \/ UNCHANGED <<odr, sciQ>>
       \/ Completes /\ Command = "query" /\ Queried
    /\ stale' = (stale \/ (Completes /\ \E p \in 1..ReqLength(Command) :
                                           Restarted[p].id # Restarted[0].id))
    /\ scievt' \in BOOLEAN /\ irq' \in BOOLEAN /\ normal' \in BOOLEAN
    /\ acpiMode' \in BOOLEAN /\ sciEnabled' \in BOOLEAN
<1> SUFFICES ASSUME Types, IsrByte
             PROVE  /\ IF isr' = "send"
                       THEN /\ Completes /\ Command = "read"
                            /\ ans' = [id |-> Restarted[1].id, k |-> 1, ev |-> 0]
                       ELSE isr' = "loop" /\ ans' = ans
                    /\ \/ UNCHANGED resp
                       \/ Completes /\ Command = "get" /\ SendToHost(Restarted[0].id, GetLen)
                       \/ Completes /\ Command = "space" /\ SendToHost(Restarted[1].id, 1)
                    /\ \/ burst' = burst
                       \/ Completes /\ Command = "burst" /\ burst' = Restarted[0].id
                    /\ \/ UNCHANGED <<odr, sciQ>>
                       \/ Completes /\ Command = "query" /\ Queried
                    /\ stale' = (stale \/ (Completes /\ \E p \in 1..ReqLength(Command) :
                                             Restarted[p].id # Restarted[0].id))
                    /\ scievt' \in BOOLEAN /\ irq' \in BOOLEAN /\ normal' \in BOOLEAN
                    /\ acpiMode' \in BOOLEAN /\ sciEnabled' \in BOOLEAN
  OBVIOUS
<1>1. IF Completes THEN Execute(Command, Restarted) ELSE Keep(Command) BY ByteTaken
<1>2. /\ scievt \in BOOLEAN /\ irq \in BOOLEAN /\ normal \in BOOLEAN /\ stale \in BOOLEAN
      /\ acpiMode \in BOOLEAN /\ sciEnabled \in BOOLEAN /\ s0 \in BOOLEAN
  BY DEF Types, PortOK, FlagOK, EnvOK, HandOK
<1>3. CASE ~Completes
  <2>1. Keep(Command) BY <1>1, <1>3
  <2>2. /\ isr' = "loop" /\ UNCHANGED <<ans, resp, flag, mode, odr, scievt, sciQ, stale>>
    BY <2>1 DEF Keep
  <2>3. irq' \in BOOLEAN BY <2>1, <1>2 DEF Keep, SciPulse
  <2> QED BY <1>2, <1>3, <2>2, <2>3 DEF flag, mode
<1>4. CASE Completes
  <2>1. Execute(Command, Restarted) BY <1>1, <1>4
  <2>2. /\ isr' = IF Command = "read" THEN "send" ELSE "loop"
        /\ ans' = IF Command = "read" THEN [id |-> Restarted[1].id, k |-> 1, ev |-> 0]
                  ELSE ans
        /\ burst' = IF Command = "burst" THEN Restarted[0].id ELSE burst
    BY <2>1 DEF Execute
  <2>3. IF Command = "get" THEN SendToHost(Restarted[0].id, GetLen)
        ELSE IF Command = "space" THEN SendToHost(Restarted[1].id, 1) ELSE UNCHANGED resp
    BY <2>1 DEF Execute
  <2>4. IF Command = "query" THEN SendSciEvents ELSE UNCHANGED <<odr, sciQ>>
    BY <2>1 DEF Execute
  <2>5. Command = "query" => Queried \/ UNCHANGED <<odr, sciQ>>
    BY <2>4 DEF SendSciEvents, Queried
  <2>6. stale' = (stale \/ \E p \in 1..ReqLength(Command) : Restarted[p].id # Restarted[0].id)
    BY <2>1 DEF Execute
  <2>7. normal' \in BOOLEAN /\ acpiMode' \in BOOLEAN /\ sciEnabled' \in BOOLEAN
    BY <2>1, <1>2 DEF Execute
  <2>8. scievt' \in BOOLEAN BY <2>1, <1>2 DEF Execute, SendSciEvents
  <2>9. irq' \in BOOLEAN BY <2>1, <1>2 DEF Execute, SendSciEvents, SciPulse
  <2>10. /\ \/ UNCHANGED resp
            \/ Completes /\ Command = "get" /\ SendToHost(Restarted[0].id, GetLen)
            \/ Completes /\ Command = "space" /\ SendToHost(Restarted[1].id, 1)
    BY <1>4, <2>3
  <2>11. \/ UNCHANGED <<odr, sciQ>>
         \/ Completes /\ Command = "query" /\ Queried
    BY <1>4, <2>4, <2>5
  <2> QED BY <1>4, <2>2, <2>6, <2>7, <2>8, <2>9, <2>10, <2>11
<1> QED BY <1>3, <1>4

LEMMA PulseType == CanSend \in BOOLEAN /\ irq \in BOOLEAN /\ s0 \in BOOLEAN /\ SciPulse
                     => irq' \in BOOLEAN
BY DEF SciPulse

LEMMA Queued ==
  Types => /\ accepted \subseteq 1..MaxEvents
           /\ sciQ # << >> => /\ Head(sciQ) \in accepted /\ Head(sciQ) \in 1..MaxEvents
                              /\ Tail(sciQ) \in Seq(accepted)
                              /\ Len(Tail(sciQ)) = Len(sciQ) - 1
<1> SUFFICES ASSUME Types
             PROVE  /\ accepted \subseteq 1..MaxEvents
                    /\ sciQ # << >> =>
                         /\ Head(sciQ) \in accepted /\ Head(sciQ) \in 1..MaxEvents
                         /\ Tail(sciQ) \in Seq(accepted)
                         /\ Len(Tail(sciQ)) = Len(sciQ) - 1
  OBVIOUS
<1>1. events \in 0..MaxEvents /\ accepted \subseteq 1..events BY DEF Types, EventsOK, EnvOK
<1>2. accepted \subseteq 1..MaxEvents BY <1>1, Ground
<1>3. sciQ \in Seq(accepted) BY DEF Types, EventsOK
<1>4. sciQ # << >> => /\ Head(sciQ) \in accepted /\ Tail(sciQ) \in Seq(accepted)
                      /\ Len(Tail(sciQ)) = Len(sciQ) - 1
  BY <1>3
<1> QED BY <1>2, <1>4

LEMMA PortKept == Types /\ [Next]_vars => PortOK'
<1> SUFFICES ASSUME Types, [Next]_vars PROVE PortOK' OBVIOUS
<1> USE Ground
<1>1. /\ ibf \in [cd : BOOLEAN, v : Values] /\ odr \in Bytes /\ scievt \in BOOLEAN
      /\ irq \in BOOLEAN /\ ans \in Bytes /\ s0 \in BOOLEAN /\ CanSend \in BOOLEAN
  BY DEF Types, PortOK, HandOK, FlagOK, EnvOK, CanSend
<1>2. NoIn \in [cd : BOOLEAN, v : Values] /\ None \in Bytes BY NoneIs
<1>3. CASE IsrByte
  <2>1. ibf' = NoIn BY <1>3, ByteTaken
  <2>2. scievt' \in BOOLEAN /\ irq' \in BOOLEAN BY <1>3, ByteDoes
  <2>3. ASSUME Queried PROVE odr' \in Bytes
    <3>1. sciQ # << >> => Head(sciQ) \in 1..MaxEvents BY Queued
    <3>2. 1 \in 0..BufSize OBVIOUS
    <3> QED BY <2>3, <3>1, <3>2 DEF Queried, Bytes
  <2>4. odr' \in Bytes BY <1>1, <1>3, <2>3, ByteDoes
  <2> QED BY <1>2, <2>1, <2>2, <2>4 DEF PortOK
<1>4. CASE IsrSend BY <1>1, <1>4, PulseType DEF IsrSend, PortOK
<1>5. CASE AckTimeout BY <1>1, <1>5, PulseType DEF AckTimeout, PortOK
<1>6. CASE AckWrite
  <2>1. odr' \in Bytes BY <1>6 DEF AckWrite, Types, FlagOK, Bytes
  <2> QED BY <1>1, <1>6, <2>1, PulseType DEF AckWrite, PortOK
<1>7. CASE Check BY <1>1, <1>7, PulseType DEF Check, PortOK
<1>8. CASE ClearEvt BY <1>1, <1>8 DEF ClearEvt, PortOK
<1>9. CASE SetEvt BY <1>1, <1>9, PulseType DEF SetEvt, Announce, PortOK
<1>10. CASE Write
  <2>1. resIdx + 1 \in 0..BufSize
    BY <1>10 DEF Write, Step, Types, RespOK
  <2>2. odr' \in Bytes BY <1>10, <2>1 DEF Write, Types, RespOK, Bytes
  <2> QED BY <1>1, <1>10, <2>2 DEF Write, PortOK
<1>11. CASE SendParam
  <2>1. ibf' \in [cd : BOOLEAN, v : Values]
    BY <1>11 DEF SendParam, Types, EnvOK, Values
  <2> QED BY <1>1, <1>11, <2>1 DEF SendParam, PortOK
<1>12. CASE Read BY <1>1, <1>2, <1>12 DEF Read, PortOK
<1>13. CASE Query
  <2>1. ibf' \in [cd : BOOLEAN, v : Values]
    BY <1>13 DEF Query, Begin, Values
  <2> QED BY <1>1, <1>13, <2>1 DEF Query, PortOK
<1>14. CASE IgnoreSci BY <1>1, <1>14 DEF IgnoreSci, PortOK
<1>15. CASE PltRstLow BY <1>1, <1>15 DEF PltRstLow, PortOK
<1>16. CASE Drain BY <1>1, <1>2, <1>16 DEF Drain, PortOK
<1>17. CASE \E c \in Cmds : Request(c)
  <2>1. PICK c \in Cmds : Request(c) BY <1>17
  <2>2. ibf' \in [cd : BOOLEAN, v : Values]
    BY <2>1 DEF Request, Begin, Types, EnvOK, Values
  <2> QED BY <1>1, <2>1, <2>2 DEF Request, PortOK
<1>18. CASE UNCHANGED port BY <1>1, <1>18 DEF port, PortOK
<1>19. IsrEnd \/ TakeSem \/ Burst \/ AckFree \/ Send \/ Index \/ Length \/ Result
         \/ Delay \/ Wake => UNCHANGED port
  BY DEF IsrEnd, TakeSem, Burst, AckFree, Send, Index, Length, Result, Delay, Wake
<1>20. Sent \/ Enqueue \/ ResetWarn \/ PltRstHigh \/ LeaveOrEnterS0 \/ GiveUp
         \/ UNCHANGED vars => UNCHANGED port
  BY DEF Sent, Enqueue, ResetWarn, PltRstHigh, LeaveOrEnterS0, GiveUp, vars
<1> QED BY <1>3, <1>4, <1>5, <1>6, <1>7, <1>8, <1>9, <1>10, <1>11, <1>12, <1>13, <1>14,
           <1>15, <1>16, <1>17, <1>18, <1>19, <1>20, Steps

LEMMA HandKept == Types /\ [Next]_vars => HandOK'
<1> SUFFICES ASSUME Types, [Next]_vars PROVE HandOK' OBVIOUS
<1> USE Ground
<1>1. CASE IsrByte
  <2>1. Restarted \in [0..BufSize - 1 -> Values] BY <1>1, ByteTaken
  <2>2. req' \in [0..BufSize - 1 -> Values] BY <1>1, <2>1, ByteTaken, NoneIs
  <2>3. reqLen' \in 0..BufSize BY <1>1, ByteTaken
  <2>4. 1 \in 0..BufSize - 1 /\ Restarted[1] \in Values BY <2>1
  <2>5. isr' \in {"loop", "send"} BY <1>1, ByteDoes
  <2>6. ans' \in Bytes /\ ans'.ev = 0
    <3>1. [id |-> Restarted[1].id, k |-> 1, ev |-> 0] \in Bytes
      BY <2>4 DEF Bytes, Values
    <3> QED BY <1>1, <3>1, ByteDoes DEF Types, HandOK
  <2>7. stale' \in BOOLEAN BY <1>1, ByteDoes DEF Types, HandOK
  <2> QED BY <2>2, <2>3, <2>5, <2>6, <2>7 DEF HandOK
<1>2. CASE IsrSend BY <1>2, NoneIs DEF IsrSend, Types, HandOK
<1>3. CASE IsrEnd BY <1>3 DEF IsrEnd, Types, HandOK
<1>4. CASE UNCHANGED hand BY <1>4 DEF hand, Types, HandOK
<1>5. TakeSem \/ Burst \/ AckFree \/ AckTimeout \/ AckWrite \/ Check \/ ClearEvt
        \/ SetEvt \/ Send \/ Write \/ Index \/ Length \/ Result \/ Delay \/ Wake
        => UNCHANGED hand
  BY DEF TakeSem, Burst, AckFree, AckTimeout, AckWrite, Check, ClearEvt, SetEvt, Send,
         Write, Index, Length, Result, Delay, Wake
<1>6. SendParam \/ Sent \/ Read \/ Query \/ IgnoreSci \/ Enqueue \/ ResetWarn
        \/ PltRstLow \/ PltRstHigh \/ LeaveOrEnterS0 \/ GiveUp \/ Drain
        \/ (\E c \in Cmds : Request(c)) \/ UNCHANGED vars => UNCHANGED hand
  BY DEF SendParam, Sent, Read, Query, IgnoreSci, Enqueue, ResetWarn, PltRstLow,
         PltRstHigh, LeaveOrEnterS0, GiveUp, Drain, Request, vars
<1> QED BY <1>1, <1>2, <1>3, <1>4, <1>5, <1>6, Steps

LEMMA RespKept == Types /\ [Next]_vars => RespOK'
<1> SUFFICES ASSUME Types, [Next]_vars PROVE RespOK' OBVIOUS
<1> USE Ground
<1>1. RespOK BY DEF Types
<1>2. CASE IsrByte
  <2>1. pc' = pc BY <1>2, ByteTaken DEF thr
  <2>2. CASE UNCHANGED resp BY <1>1, <2>1, <2>2 DEF resp, RespOK
  <2>3. CASE SendToHost(Restarted[0].id, GetLen)
    <3>1. Restarted[0].id \in 0..MaxTxn
      BY <1>2, ByteTaken DEF Values
    <3> QED BY <1>1, <2>1, <2>3, <3>1 DEF SendToHost, RespOK
  <2>4. CASE SendToHost(Restarted[1].id, 1)
    <3>1. Restarted[1].id \in 0..MaxTxn
      BY <1>2, ByteTaken DEF Values
    <3> QED BY <1>1, <2>1, <2>4, <3>1 DEF SendToHost, RespOK
  <2> QED BY <1>2, <2>2, <2>3, <2>4, ByteDoes
<1>3. CASE Send BY <1>1, <1>3 DEF Send, Step, HasResponse, resp, RespOK, Points
<1>4. CASE Write BY <1>1, <1>4 DEF Write, Step, resp, RespOK, Points
<1>5. CASE Index BY <1>1, <1>5 DEF Index, Step, RespOK, Points
<1>6. CASE Length BY <1>1, <1>6 DEF Length, Step, RespOK, Points
<1>7. CASE UNCHANGED <<resp, pc>> BY <1>1, <1>7 DEF resp, RespOK
<1>8. CASE UNCHANGED resp /\ pc \in Points /\ pc' \in Points
             /\ pc # "length" /\ pc' \notin {"write", "index", "length"}
  BY <1>1, <1>8 DEF resp, RespOK
<1>9. CASE TakeSem \/ Burst \/ AckFree \/ AckTimeout \/ AckWrite \/ Check \/ ClearEvt
             \/ SetEvt \/ Result \/ Delay \/ Wake
  <2>1. UNCHANGED resp
    BY <1>9 DEF TakeSem, Burst, AckFree, AckTimeout, AckWrite, Check, ClearEvt, SetEvt,
                Result, Delay, Wake
  <2>2. /\ pc \in Points \ {"length"}
        /\ pc' \in Points \ {"write", "index", "length"}
    BY <1>9 DEF TakeSem, Burst, AckFree, AckTimeout, AckWrite, Check, ClearEvt, SetEvt,
                Result, Delay, Wake, Again, Step, Points
  <2> QED BY <1>8, <2>1, <2>2
<1>10. IsrSend \/ IsrEnd \/ SendParam \/ Sent \/ Read \/ Query \/ IgnoreSci \/ Enqueue
         \/ ResetWarn \/ PltRstLow \/ PltRstHigh \/ LeaveOrEnterS0 \/ GiveUp \/ Drain
         \/ (\E c \in Cmds : Request(c)) \/ UNCHANGED vars => UNCHANGED <<resp, pc>>
  BY DEF IsrSend, IsrEnd, SendParam, Sent, Read, Query, IgnoreSci, Enqueue, ResetWarn,
         PltRstLow, PltRstHigh, LeaveOrEnterS0, GiveUp, Drain, Request, vars, thr
<1> QED BY <1>2, <1>3, <1>4, <1>5, <1>6, <1>7, <1>9, <1>10, Steps

LEMMA FlagKept == Types /\ [Next]_vars => FlagOK'
<1> SUFFICES ASSUME Types, [Next]_vars PROVE FlagOK' OBVIOUS
<1> USE Ground
<1>1. FlagOK BY DEF Types
<1>2. CASE IsrByte
  <2>1. sem' = sem /\ ack' = ack /\ pend' = pend BY <1>2, ByteTaken DEF thr
  <2>2. Restarted[0].id \in 0..MaxTxn BY <1>2, ByteTaken DEF Values
  <2>3. burst' \in 0..MaxTxn BY <1>1, <1>2, <2>2, ByteDoes DEF FlagOK
  <2>4. normal' \in BOOLEAN /\ acpiMode' \in BOOLEAN /\ sciEnabled' \in BOOLEAN
    BY <1>2, ByteDoes
  <2> QED BY <1>1, <2>1, <2>3, <2>4 DEF FlagOK
<1>3. CASE IsrEnd BY <1>1, <1>3 DEF IsrEnd, flag, mode, thr, FlagOK
<1>4. CASE TakeSem BY <1>1, <1>4 DEF TakeSem, flag, mode, FlagOK
<1>5. CASE Burst BY <1>1, <1>5 DEF Burst, mode, FlagOK
<1>6. CASE AckTimeout BY <1>1, <1>6 DEF AckTimeout, flag, mode, FlagOK
<1>7. CASE AckWrite BY <1>1, <1>7 DEF AckWrite, flag, mode, FlagOK
<1>8. CASE Check BY <1>1, <1>8 DEF Check, mode, FlagOK
<1>9. CASE Result
  <2>1. resLen \in Nat /\ (SciPending \in BOOLEAN)
    BY DEF SciPending, Types, RespOK, CanSend, FlagOK
  <2>2. pend' \in BOOLEAN BY <1>9, <2>1 DEF Result, PendProcessing
  <2> QED BY <1>1, <1>9, <2>2 DEF Result, flag, mode, FlagOK
<1>10. CASE Enqueue BY <1>1, <1>10 DEF Enqueue, flag, mode, thr, FlagOK
<1>11. CASE ResetWarn BY <1>1, <1>11 DEF ResetWarn, flag, thr, FlagOK
<1>12. CASE PltRstLow BY <1>1, <1>12 DEF PltRstLow, flag, thr, FlagOK
<1>13. CASE PltRstHigh BY <1>1, <1>13 DEF PltRstHigh, flag, thr, FlagOK
<1>14. CASE UNCHANGED <<flag, mode, sem, ack, pend>>
  BY <1>1, <1>14 DEF flag, mode, FlagOK
<1>15. IsrSend \/ AckFree \/ ClearEvt \/ SetEvt \/ Send \/ Write \/ Index \/ Length
         \/ Delay \/ Wake => UNCHANGED <<flag, mode, sem, ack, pend>>
  BY DEF IsrSend, AckFree, ClearEvt, SetEvt, Send, Write, Index, Length, Delay, Wake, thr
<1>16. SendParam \/ Sent \/ Read \/ Query \/ IgnoreSci \/ LeaveOrEnterS0 \/ GiveUp
         \/ Drain \/ (\E c \in Cmds : Request(c)) \/ UNCHANGED vars
         => UNCHANGED <<flag, mode, sem, ack, pend>>
  BY DEF SendParam, Sent, Read, Query, IgnoreSci, LeaveOrEnterS0, GiveUp, Drain, Request,
         vars, thr
<1> QED BY <1>2, <1>3, <1>4, <1>5, <1>6, <1>7, <1>8, <1>9, <1>10, <1>11, <1>12, <1>13,
           <1>14, <1>15, <1>16, Steps

HostStates ==
  [at : {"idle", "send", "read"}, c : AllCmds \cup {"query", "none"},
   id : 0..MaxTxn, sent : 0..2, got : 0..BufSize]

LEMMA EnvKept == Types /\ [Next]_vars => EnvOK'
<1> SUFFICES ASSUME Types, [Next]_vars PROVE EnvOK' OBVIOUS
<1> USE Ground
<1>1. EnvOK BY DEF Types
<1>2. h \in HostStates /\ Idle \in HostStates /\ Idle.at = "idle"
  BY <1>1, NoneIs DEF EnvOK, HostStates
<1>3. acpiMode \in BOOLEAN BY DEF Types, FlagOK
<1>4. CASE Enqueue
  <2>1. events' \in 0..MaxEvents BY <1>1, <1>4 DEF Enqueue, EnvOK
  <2> QED BY <1>1, <1>4, <2>1 DEF Enqueue, EnvOK
<1>5. CASE ResetWarn
  <2>1. faults' \in 0..MaxFaults BY <1>1, <1>5 DEF ResetWarn, EnvOK
  <2> QED BY <1>1, <1>5, <2>1 DEF ResetWarn, EnvOK
<1>6. CASE PltRstLow
  <2>1. gaveUp' \in BOOLEAN BY <1>1, <1>6 DEF PltRstLow, EnvOK
  <2> QED BY <1>1, <1>2, <1>6, <2>1 DEF PltRstLow, EnvOK, HostStates
<1>7. CASE PltRstHigh BY <1>1, <1>7 DEF PltRstHigh, aux, EnvOK
<1>8. CASE LeaveOrEnterS0
  <2>1. faults' \in 0..MaxFaults BY <1>1, <1>8 DEF LeaveOrEnterS0, EnvOK
  <2>2. s0' \in BOOLEAN BY <1>1, <1>8 DEF LeaveOrEnterS0, EnvOK
  <2> QED BY <1>1, <1>8, <2>1, <2>2 DEF LeaveOrEnterS0, aux, EnvOK
<1>9. CASE \E c \in Cmds : Request(c)
  <2>1. PICK c \in Cmds : Request(c) BY <1>9
  <2>2. c \in AllCmds /\ c # "none" BY <2>1 DEF AllCmds
  <2>3. txns' \in 0..MaxTxn /\ txns' = txns + 1 BY <1>1, <2>1 DEF Request, EnvOK
  <2>4. h' = [at |-> "send", c |-> c, id |-> txns + 1, sent |-> 0, got |-> 0]
    BY <2>1 DEF Request, Begin
  <2>5. /\ h' \in HostStates /\ h'.c # "none" /\ h'.at = "send" /\ h'.got = 0
        /\ h'.sent <= Params(h'.c)
    BY <2>2, <2>3, <2>4, Lengths DEF HostStates
  <2>6. os' \in BOOLEAN BY <1>1, <2>1 DEF Request, EnvOK
  <2> QED BY <1>1, <2>1, <2>3, <2>5, <2>6 DEF Request, aux, EnvOK, HostStates
<1>10. CASE Query
  <2>1. h' = [at |-> "send", c |-> "query", id |-> 0, sent |-> 0, got |-> 0]
    BY <1>10 DEF Query, Begin
  <2>2. /\ h' \in HostStates /\ h'.c # "none" /\ h'.at = "send" /\ h'.got = 0
        /\ h'.sent <= Params(h'.c)
    BY <2>1, Lengths DEF HostStates
  <2> QED BY <1>1, <1>10, <2>2 DEF Query, aux, EnvOK, HostStates
<1>11. CASE SendParam
  <2>1. h.sent + 1 \in 0..2 /\ h' = [h EXCEPT !.sent = h.sent + 1]
    BY <1>2, <1>11, Lengths DEF SendParam, HostStates
  <2>2. /\ h' \in HostStates /\ h'.at = h.at /\ h'.c = h.c /\ h'.got = h.got
        /\ h'.sent = h.sent + 1
    BY <1>2, <2>1 DEF HostStates
  <2>3. h.at = "send" /\ h.sent \in Nat /\ Params(h.c) \in Nat /\ h.sent < Params(h.c)
    BY <1>2, <1>11, Lengths DEF SendParam, HostStates
  <2> QED BY <1>1, <1>11, <2>2, <2>3 DEF SendParam, aux, EnvOK, HostStates
<1>12. CASE Sent
  <2>1. h.at = "send" /\ h' = IF Answers(h.c) > 0 THEN [h EXCEPT !.at = "read"] ELSE Idle
    BY <1>12 DEF Sent
  <2>2. /\ h' \in HostStates /\ h'.at # "send"
        /\ h'.at # "idle" => h'.c = h.c /\ h'.got = h.got /\ Answers(h.c) > 0
    BY <1>2, <2>1 DEF HostStates
  <2>3. os' \in BOOLEAN BY <1>1, <1>12 DEF Sent, EnvOK
  <2> QED BY <1>1, <1>12, <2>2, <2>3 DEF Sent, aux, EnvOK, HostStates
<1>13. CASE Read
  <2>1. h.at = "read" /\ h' = IF h.got + 1 = Answers(h.c) THEN Idle
                              ELSE [h EXCEPT !.got = h.got + 1]
    BY <1>2, <1>13 DEF Read, HostStates
  <2>2. h.got + 1 \in 0..BufSize => h' \in HostStates
    BY <1>2, <2>1 DEF HostStates
  <2>3. h'.at # "idle" => /\ h'.c = h.c /\ h'.at = h.at /\ h'.got = h.got + 1
                          /\ h.got + 1 # Answers(h.c)
    BY <1>2, <2>1 DEF HostStates
  <2>4. mixed' \in BOOLEAN BY <1>1, <1>13 DEF Read, EnvOK
  <2>5. /\ h.got \in Nat /\ Answers(h.c) \in 0..BufSize /\ h.got < Answers(h.c)
        /\ h.got + 1 \in 0..BufSize
    BY <1>1, <1>2, <2>1, Lengths DEF EnvOK, HostStates
  <2> QED BY <1>1, <1>13, <2>2, <2>3, <2>4, <2>5, SMTT(20) DEF Read, EnvOK, HostStates
<1>14. CASE GiveUp
  <2>1. faults' \in 0..MaxFaults BY <1>1, <1>14 DEF GiveUp, EnvOK
  <2> QED BY <1>1, <1>2, <1>14, <2>1 DEF GiveUp, EnvOK, HostStates
<1>15. CASE UNCHANGED <<envr, gaveUp, mixed>> BY <1>1, <1>15 DEF envr, EnvOK
<1>16. IsrSend \/ IsrEnd \/ TakeSem \/ Burst \/ AckFree \/ AckTimeout \/ AckWrite \/ Check
         \/ ClearEvt \/ SetEvt \/ Send \/ Write \/ Index \/ Length \/ Result \/ Delay \/ Wake
         => UNCHANGED <<envr, gaveUp, mixed>>
  BY DEF IsrSend, IsrEnd, TakeSem, Burst, AckFree, AckTimeout, AckWrite, Check, ClearEvt,
         SetEvt, Send, Write, Index, Length, Result, Delay, Wake, aux
<1>17. IsrByte \/ IgnoreSci \/ Drain \/ UNCHANGED vars => UNCHANGED <<envr, gaveUp, mixed>>
  BY DEF IsrByte, IgnoreSci, Drain, vars, aux
<1> QED BY <1>4, <1>5, <1>6, <1>7, <1>8, <1>9, <1>10, <1>11, <1>12, <1>13, <1>14, <1>15,
           <1>16, <1>17, Steps

LEMMA OverrunKept == overrun \in BOOLEAN /\ [Next]_vars => overrun' \in BOOLEAN
<1> SUFFICES ASSUME overrun \in BOOLEAN, [Next]_vars PROVE overrun' \in BOOLEAN OBVIOUS
<1>1. CASE UNCHANGED overrun BY <1>1
<1>2. CASE Query BY <1>2 DEF Query, Begin
<1>3. CASE \E c \in Cmds : Request(c) BY <1>3 DEF Request, Begin
<1>4. Isr \/ Thread \/ GoOn \/ IgnoreSci => UNCHANGED overrun
  BY DEF Isr, Thread, GoOn, IsrByte, IsrSend, IsrEnd, TakeSem, Burst, AckFree,
         AckTimeout, AckWrite, Check, ClearEvt, SetEvt, Send, Write, Index, Length,
         Result, Delay, Wake, SendParam, Sent, Read, IgnoreSci, aux
<1>5. Enqueue \/ ResetWarn \/ PltRstLow \/ PltRstHigh \/ LeaveOrEnterS0 \/ GiveUp \/ Drain
        \/ UNCHANGED vars => UNCHANGED overrun
  BY DEF Enqueue, ResetWarn, PltRstLow, PltRstHigh, LeaveOrEnterS0, GiveUp, Drain, vars, aux
<1> QED BY <1>1, <1>2, <1>3, <1>4, <1>5 DEF Next, Environment, TakeSci

(* A sequence over a set is one over every larger set.                     *)
LEMMA SeqWider ==
  ASSUME NEW S, NEW T, S \subseteq T, NEW q \in Seq(S) PROVE q \in Seq(T)
OBVIOUS

LEMMA EventsKnown == Types /\ [Next]_vars => EventsOK'
<1> SUFFICES ASSUME Types, [Next]_vars PROVE EventsOK' OBVIOUS
<1> USE Ground
<1>1. EventsOK BY DEF Types
<1>2. events \in Nat /\ ans.ev = 0 /\ None.ev = 0
  BY NoneIs DEF Types, EnvOK, HandOK
<1>3. CASE IsrByte
  <2>1. UNCHANGED <<events, accepted, flushed, seen>> BY <1>3, ByteTaken DEF envr, aux
  <2>2. CASE UNCHANGED <<odr, sciQ>> BY <1>1, <2>1, <2>2 DEF EventsOK
  <2>3. CASE Queried
    <3>1. odr'.ev = IF sciQ = << >> THEN 0 ELSE Head(sciQ) BY <2>3 DEF Queried
    <3>2. sciQ' = IF sciQ = << >> THEN sciQ ELSE Tail(sciQ) BY <2>3 DEF Queried
    <3>3. Len(sciQ) \in Nat BY <1>1 DEF EventsOK
    <3>4. sciQ' \in Seq(accepted) /\ Len(sciQ') <= QueueSize
      BY <1>1, <3>2, <3>3, Queued DEF EventsOK
    <3>5. odr'.ev \in accepted \cup {0} BY <3>1, Queued
    <3> QED BY <1>1, <2>1, <3>4, <3>5 DEF EventsOK
  <2> QED BY <1>3, <2>2, <2>3, ByteDoes
<1>4. CASE Enqueue
  <2>1. UNCHANGED odr BY <1>4 DEF Enqueue, port
  <2>2. DEFINE put == s0 /\ Len(sciQ) < QueueSize
  <2>3. /\ events' = events + 1 /\ flushed' = flushed /\ seen' = seen
        /\ sciQ' = IF put THEN Append(sciQ, events + 1) ELSE sciQ
        /\ accepted' = IF put THEN accepted \cup {events + 1} ELSE accepted
    BY <1>4 DEF Enqueue
  <2> HIDE DEF put
  <2>4. accepted \subseteq accepted' /\ accepted' \subseteq 1..events'
    BY <1>1, <1>2, <2>3 DEF EventsOK
  <2>5. sciQ \in Seq(accepted) /\ seen \in Seq(accepted) BY <1>1 DEF EventsOK
  <2>6. sciQ \in Seq(accepted') /\ seen \in Seq(accepted') /\ Len(sciQ) \in Nat
    <3>1. sciQ \in Seq(accepted') BY <2>5, <2>4, SeqWider, Zenon
    <3>2. seen \in Seq(accepted') BY <2>5, <2>4, SeqWider, Zenon
    <3> QED BY <2>5, <3>1, <3>2
  <2>7. sciQ' \in Seq(accepted')
    <3>1. CASE put
      <4>1. events + 1 \in accepted' BY <2>3, <3>1
      <4> QED BY <2>3, <2>6, <3>1, <4>1
    <3> QED BY <2>3, <2>6, <3>1
  <2>8. Len(sciQ') <= QueueSize
    <3>1. put => Len(Append(sciQ, events + 1)) = Len(sciQ) + 1 /\ Len(sciQ) < QueueSize
      BY <2>6 DEF put
    <3> QED BY <1>1, <2>3, <2>6, <3>1 DEF EventsOK
  <2> QED BY <1>1, <2>1, <2>3, <2>4, <2>6, <2>7, <2>8 DEF EventsOK
<1>5. CASE ResetWarn
  <2>1. UNCHANGED <<odr, events, accepted, seen>> /\ sciQ' = << >>
        /\ flushed' = flushed \cup ToSet(sciQ)
    BY <1>5 DEF ResetWarn, port
  <2>2. ToSet(sciQ) \subseteq accepted BY <1>1 DEF EventsOK, ToSet
  <2>3. sciQ' \in Seq(accepted) /\ Len(sciQ') = 0 BY <2>1
  <2>4. flushed' \subseteq accepted BY <1>1, <2>1, <2>2 DEF EventsOK
  <2>5. Len(sciQ') <= QueueSize BY <2>3
  <2>6. UNCHANGED <<odr, events, accepted, seen>> BY <2>1
  <2> QED BY <1>1, <2>3, <2>4, <2>5, <2>6, Zenon DEF EventsOK
<1>6. CASE Read
  <2>1. UNCHANGED <<sciQ, events, accepted, flushed>> /\ odr' = None
        /\ seen' = IF odr.ev = 0 THEN seen ELSE Append(seen, odr.ev)
    BY <1>6 DEF Read
  <2>2. odr.ev # 0 => odr.ev \in accepted BY <1>1 DEF EventsOK
  <2>3. seen' \in Seq(accepted) BY <1>1, <2>1, <2>2 DEF EventsOK
  <2> QED BY <1>1, <1>2, <2>1, <2>3 DEF EventsOK
<1>7. CASE /\ UNCHANGED <<sciQ, events, accepted, flushed, seen>>
           /\ odr' = odr \/ odr'.ev = 0
  BY <1>1, <1>7 DEF EventsOK
<1>8. IsrSend \/ IsrEnd \/ TakeSem \/ Burst \/ AckFree \/ AckTimeout \/ AckWrite \/ Check
        \/ ClearEvt \/ SetEvt \/ Send \/ Write \/ Index \/ Length \/ Result \/ Delay \/ Wake
        => UNCHANGED <<sciQ, events, accepted, flushed, seen>>
  BY DEF IsrSend, IsrEnd, TakeSem, Burst, AckFree, AckTimeout, AckWrite, Check, ClearEvt,
         SetEvt, Send, Write, Index, Length, Result, Delay, Wake, aux, envr
<1>9. IsrSend \/ IsrEnd \/ TakeSem \/ Burst \/ AckFree \/ AckTimeout \/ AckWrite \/ Check
        \/ ClearEvt \/ SetEvt \/ Send \/ Write \/ Index \/ Length \/ Result \/ Delay \/ Wake
        => odr' = odr \/ odr'.ev = 0
  BY <1>2 DEF IsrSend, IsrEnd, TakeSem, Burst, AckFree, AckTimeout, AckWrite, Check,
       ClearEvt, SetEvt, Send, Write, Index, Length, Result, Delay, Wake, port
<1>10. SendParam \/ Sent \/ Query \/ IgnoreSci \/ PltRstLow \/ PltRstHigh \/ LeaveOrEnterS0
         \/ GiveUp \/ Drain \/ (\E c \in Cmds : Request(c)) \/ UNCHANGED vars
         => UNCHANGED <<sciQ, events, accepted, flushed, seen>>
  BY DEF SendParam, Sent, Query, IgnoreSci, PltRstLow, PltRstHigh, LeaveOrEnterS0, GiveUp,
         Drain, Request, vars, aux, envr
<1>11. SendParam \/ Sent \/ Query \/ IgnoreSci \/ PltRstLow \/ PltRstHigh \/ LeaveOrEnterS0
         \/ GiveUp \/ Drain \/ (\E c \in Cmds : Request(c)) \/ UNCHANGED vars
         => odr' = odr \/ odr'.ev = 0
  BY <1>2 DEF SendParam, Sent, Query, IgnoreSci, PltRstLow, PltRstHigh, LeaveOrEnterS0,
       GiveUp, Drain, Request, vars, port
<1> QED BY <1>3, <1>4, <1>5, <1>6, <1>7, <1>8, <1>9, <1>10, <1>11, Steps

LEMMA TypesInit == Init => Types
<1> SUFFICES ASSUME Init PROVE Types OBVIOUS
<1> USE Ground, NoneIs
<1>1. scievt = FALSE /\ irq = FALSE /\ stale = FALSE /\ normal = FALSE /\ pend = FALSE
  BY DEF Init
<1>2. /\ scievt \in BOOLEAN /\ irq \in BOOLEAN /\ stale \in BOOLEAN /\ normal \in BOOLEAN
      /\ pend \in BOOLEAN
  BY <1>1
<1>3. sciEnabled = TRUE /\ s0 = TRUE /\ gaveUp = FALSE /\ mixed = FALSE /\ os = acpiMode
  BY DEF Init
<1>4. /\ sciEnabled \in BOOLEAN /\ s0 \in BOOLEAN /\ gaveUp \in BOOLEAN
      /\ mixed \in BOOLEAN
  BY <1>3
<1>5. acpiMode \in BOOLEAN /\ os \in BOOLEAN BY <1>3 DEF Init
<1>6. PortOK BY <1>2 DEF Init, PortOK
<1>7. req \in [0..BufSize - 1 -> Values] BY DEF Init
<1>8. HandOK BY <1>2, <1>7 DEF Init, HandOK
<1>9. RespOK BY DEF Init, RespOK, Points
<1>10. FlagOK BY <1>2, <1>4, <1>5 DEF Init, FlagOK
<1>11. EnvOK BY <1>4, <1>5 DEF Init, EnvOK
<1>12. << >> \in Seq({}) /\ Len(<< >>) = 0 OBVIOUS
<1>13. EventsOK BY <1>12 DEF Init, EventsOK
<1>14. overrun = FALSE BY DEF Init
<1>15. overrun \in BOOLEAN BY <1>14
<1> QED BY <1>6, <1>8, <1>9, <1>10, <1>11, <1>13, <1>15 DEF Types

LEMMA TypesKept == Types /\ [Next]_vars => Types'
BY PortKept, HandKept, RespKept, FlagKept, EnvKept, EventsKnown, OverrunKept DEF Types

LEMMA TypesSay == Types => TypeOK
<1> SUFFICES ASSUME Types PROVE TypeOK OBVIOUS
<1> USE Ground
<1>1. ibf \in [cd : BOOLEAN, v : Values] /\ {odr, ans} \subseteq Bytes
  BY DEF Types, PortOK, HandOK
<1>2. /\ scievt \in BOOLEAN /\ irq \in BOOLEAN /\ normal \in BOOLEAN /\ pend \in BOOLEAN
      /\ s0 \in BOOLEAN /\ os \in BOOLEAN /\ acpiMode \in BOOLEAN
      /\ sciEnabled \in BOOLEAN /\ gaveUp \in BOOLEAN /\ mixed \in BOOLEAN
      /\ stale \in BOOLEAN /\ overrun \in BOOLEAN
  BY DEF Types, PortOK, HandOK, FlagOK, EnvOK
<1>3. /\ {scievt, irq, normal, pend, s0, os} \subseteq BOOLEAN
      /\ {acpiMode, sciEnabled, gaveUp, overrun, mixed, stale} \subseteq BOOLEAN
  BY <1>2
<1>4. /\ isr \in {"idle", "loop", "send"} /\ req \in [0..BufSize - 1 -> Values]
      /\ reqLen \in 0..BufSize
  BY DEF Types, HandOK
<1>5. /\ res \in 0..MaxTxn /\ resLen \in 0..BufSize /\ resIdx \in 0..BufSize
      /\ pc \in {"write", "index", "length"} \/ resIdx + resLen <= BufSize
      /\ pc \in Points
  BY DEF Types, RespOK
<1>6. burst \in 0..MaxTxn /\ ack \in 0..MaxTxn /\ sem \in 0..1 BY DEF Types, FlagOK
<1>7. sciQ \in Seq(accepted) /\ accepted \subseteq 1..MaxEvents BY Queued DEF Types, EventsOK
<1>8. sciQ \in Seq(1..MaxEvents) BY <1>7, SeqWider, Zenon
<1>9. /\ Len(sciQ) <= QueueSize /\ flushed \subseteq accepted /\ seen \in Seq(accepted)
  BY DEF Types, EventsOK
<1>10. /\ rst \in {"run", "warned", "reset"} /\ h \in HostStates
       /\ txns \in 0..MaxTxn /\ events \in 0..MaxEvents /\ faults \in 0..MaxFaults
  BY DEF Types, EnvOK, HostStates
<1> QED BY <1>1, <1>3, <1>4, <1>5, <1>6, <1>7, <1>8, <1>9, <1>10
        DEF TypeOK, HostStates, Points

LEMMA TypesHold == Spec => []Types
<1>1. Init => Types BY TypesInit
<1>2. Types /\ [Next]_vars => Types' BY TypesKept
<1> QED BY <1>1, <1>2, PTL DEF Spec

(* The interface is of its type, however the interrupt preempts the        *)
(* thread: the response never has a length below 0 while the thread takes  *)
(* its bytes, its index stays in host_res, and sciQ never holds more than  *)
(* the message queue does (smchost.c proc_host_send, sci.c enqueue_sci).   *)
THEOREM SmcTypes == Spec => []TypeOK
<1>1. Types => TypeOK BY TypesSay
<1> QED BY <1>1, TypesHold, PTL

(***************************************************************************)
(* Parameters.  A request that is not complete belongs to one command:     *)
(* what is kept of it and the byte that waits in the input register carry  *)
(* the same number, which is that of the request the host is sending, if   *)
(* it sends one; the only exception is a command byte, which starts over.  *)
(***************************************************************************)
Active == req[0].c # "none"

Given ==
  /\ Active => /\ reqLen \in 1..ReqLength(req[0].c)
               /\ \A i \in 1..reqLen - 1 : req[i].id = req[0].id
  /\ Active /\ InputFull /\ ~ibf.cd => ibf.v.id = req[0].id
  /\ h.at = "send" /\ Active /\ ~ibf.cd => req[0].id = h.id
  /\ h.at = "send" /\ ibf.cd => ibf.v.id = h.id
  /\ h.at = "send" /\ ~InputFull => reqLen > 0
  /\ InputFull /\ ~ibf.cd => reqLen > 0
  /\ ~stale

LEMMA GivenByByte == Types /\ Given /\ IsrByte => Given'
<1> SUFFICES ASSUME Types, Given, IsrByte PROVE Given' OBVIOUS
<1> USE Ground
<1>1. /\ ibf # NoIn /\ ibf' = NoIn /\ ~NoIn.cd /\ h' = h
      /\ Position \in 0..BufSize - 1 /\ (ibf.cd => Position = 0)
      /\ (~ibf.cd => Position = reqLen) /\ reqLen' = Position + 1
      /\ req' = IF Completes THEN [Restarted EXCEPT ![0] = NoReq] ELSE Restarted
      /\ Restarted \in [0..BufSize - 1 -> Values]
  BY ByteTaken, NoneIs DEF envr
<1>2. ~InputFull' /\ ~ibf'.cd BY <1>1 DEF InputFull
<1>3. req \in [0..BufSize - 1 -> Values] /\ reqLen \in 0..BufSize
  BY DEF Types, HandOK
<1>4. /\ Restarted[Position] = ibf.v
      /\ \A i \in 0..BufSize - 1 : i # Position => Restarted[i] = req[i]
  BY <1>1, <1>3 DEF Restarted
<1>5. ASSUME ~ibf.cd PROVE reqLen > 0 /\ Restarted[0] = req[0]
  BY <1>1, <1>4, <1>5 DEF Given, InputFull
<1>6. ReqLength(Command) \in 0..2 BY Lengths
<1>7. Command # "none" =>
        /\ Position <= ReqLength(Command)
        /\ \A i \in 1..Position : Restarted[i].id = Restarted[0].id
  <2>1. CASE ibf.cd BY <1>1, <1>6, <2>1
  <2>2. CASE ~ibf.cd
    <3>1. Command # "none" => Active /\ Command = req[0].c
      BY <1>5, <2>2 DEF Active, Command
    <3>2. Command # "none" =>
            /\ reqLen <= ReqLength(Command) /\ ibf.v.id = req[0].id
            /\ \A i \in 1..reqLen - 1 : req[i].id = req[0].id
      BY <1>1, <1>6, <2>2, <3>1 DEF Given, InputFull
    <3> QED BY <1>1, <1>4, <1>5, <2>2, <3>2
  <2> QED BY <2>1, <2>2
<1>8. Active' => Command # "none" /\ ~Completes /\ req' = Restarted
  <2>1. CASE Completes
    <3>1. req'[0] = NoReq BY <1>1, <2>1
    <3> QED BY <3>1, NoneIs DEF Active
  <2>2. CASE ~Completes BY <1>1, <2>2 DEF Active, Command
  <2> QED BY <2>1, <2>2
<1>9. Active' => /\ reqLen' \in 1..ReqLength(req'[0].c)
                 /\ \A i \in 1..reqLen' - 1 : req'[i].id = req'[0].id
  BY <1>1, <1>6, <1>7, <1>8 DEF Completes, Command
<1>10. h.at = "send" /\ Active' => req'[0].id = h.id
  <2>1. CASE ibf.cd BY <1>1, <1>4, <1>8, <2>1 DEF Given
  <2>2. CASE ~ibf.cd BY <1>5, <1>8, <2>2 DEF Given, Active, Command
  <2> QED BY <2>1, <2>2
<1>11. ~stale'
  <2>1. Completes => \A p \in 1..ReqLength(Command) : Restarted[p].id = Restarted[0].id
    BY <1>7 DEF Completes
  <2>2. ~stale BY DEF Given
  <2>3. stale' = (stale \/ (Completes /\ \E p \in 1..ReqLength(Command) :
                                            Restarted[p].id # Restarted[0].id))
    BY ByteDoes
  <2> QED BY <2>1, <2>2, <2>3, Zenon
<1> QED BY <1>1, <1>2, <1>9, <1>10, <1>11 DEF Given

LEMMA GivenKept == Types /\ Given /\ [Next]_vars => Given'
<1> SUFFICES ASSUME Types, Given, [Next]_vars PROVE Given' OBVIOUS
<1> USE Ground
<1>1. h \in HostStates /\ Idle.at = "idle" /\ ~NoIn.cd
  BY NoneIs DEF Types, EnvOK, HostStates
<1>2. CASE IsrByte BY <1>2, GivenByByte
<1>3. ASSUME NEW c, NEW id, Begin(c, id), UNCHANGED hand PROVE Given'
  <2>1. /\ ibf'.cd = TRUE /\ ibf'.v.id = id /\ h'.at = "send" /\ h'.id = id
    BY <1>3 DEF Begin
  <2>2. InputFull' BY <1>1, <2>1 DEF InputFull
  <2>3. UNCHANGED <<req, reqLen, stale>> BY <1>3 DEF hand
  <2> QED BY <2>1, <2>2, <2>3 DEF Given, Active
<1>4. CASE Query BY <1>3, <1>4 DEF Query
<1>5. CASE \E c \in Cmds : Request(c) BY <1>3, <1>5 DEF Request
<1>6. CASE SendParam
  <2>1. /\ ~InputFull /\ ibf = NoIn /\ h.at = "send" /\ UNCHANGED <<req, reqLen, stale>>
    BY <1>6 DEF SendParam, hand, InputFull
  <2>2. ibf'.cd = FALSE /\ ibf'.v.id = h.id /\ ibf'.v.c = "data" BY <1>6 DEF SendParam
  <2>3. h'.id = h.id BY <1>1, <1>6 DEF SendParam, HostStates
  <2>4. InputFull' BY <2>2, NoneIs DEF InputFull
  <2> QED BY <1>1, <2>1, <2>2, <2>3, <2>4 DEF Given, Active
<1>7. CASE UNCHANGED <<ibf, req, reqLen, stale>> /\ h'.at # "send"
  BY <1>7 DEF Given, Active, InputFull
<1>8. CASE Sent
  <2>1. h'.at # "send" BY <1>1, <1>8 DEF Sent, HostStates
  <2> QED BY <1>7, <1>8, <2>1 DEF Sent, port, hand
<1>9. CASE Read
  <2>1. h'.at # "send" BY <1>1, <1>9 DEF Read, HostStates
  <2> QED BY <1>7, <1>9, <2>1 DEF Read, hand
<1>10. CASE GiveUp \/ PltRstLow BY <1>1, <1>7, <1>10 DEF GiveUp, PltRstLow, port, hand
<1>11. CASE UNCHANGED <<ibf, req, reqLen, stale, h>>
  BY <1>11 DEF Given, Active, InputFull
<1>12. IsrSend \/ IsrEnd \/ TakeSem \/ Burst \/ AckFree \/ AckTimeout \/ AckWrite \/ Check
         \/ ClearEvt \/ SetEvt \/ Send \/ Write \/ Index \/ Length \/ Result \/ Delay \/ Wake
         => UNCHANGED <<ibf, req, reqLen, stale, h>>
  BY DEF IsrSend, IsrEnd, TakeSem, Burst, AckFree, AckTimeout, AckWrite, Check, ClearEvt,
         SetEvt, Send, Write, Index, Length, Result, Delay, Wake, port, hand, envr
<1>13. IgnoreSci \/ Enqueue \/ ResetWarn \/ PltRstHigh \/ LeaveOrEnterS0 \/ Drain
         \/ UNCHANGED vars => UNCHANGED <<ibf, req, reqLen, stale, h>>
  BY DEF IgnoreSci, Enqueue, ResetWarn, PltRstHigh, LeaveOrEnterS0, Drain, vars, port, hand,
         envr
<1> QED BY <1>2, <1>4, <1>5, <1>6, <1>8, <1>9, <1>10, <1>11, <1>12, <1>13, Steps

(* A command never runs with parameters of an earlier request, also when   *)
(* the host gave that one up half sent (smchost_acpi_handler,              *)
(* smchost.c).                                                             *)
THEOREM ParametersAreOwn == Spec => []OwnParameters
<1>1. Init => Given
  <2>1. ASSUME Init PROVE req[0] = NoReq /\ ibf = NoIn /\ h = Idle /\ stale = FALSE
    BY <2>1, Ground DEF Init
  <2> QED BY <2>1, NoneIs DEF Given, Active, InputFull
<1>2. Types /\ Given /\ [Next]_vars => Given' BY GivenKept
<1>3. Given => OwnParameters BY DEF Given, OwnParameters
<1> QED BY <1>1, <1>2, <1>3, TypesHold, PTL DEF Spec

(***************************************************************************)
(* Answers.  ODR has three writers; what keeps them apart is that each of  *)
(* them serves one kind of command, and that a host which has not given a  *)
(* request up has one request, executed once, at a time.                   *)
(***************************************************************************)
This == [c |-> h.c, id |-> h.id]

(* How far the request is: what is in the input register and in the buffer *)
(* of the handler for the bytes the host has sent.                         *)
Sending ==
  /\ h.at = "send" =>
       /\ ibf.cd => ibf.v = This /\ h.sent = 0
       /\ InputFull /\ ~ibf.cd =>
            /\ h.sent > 0
            /\ IF h.sent <= ReqLength(h.c) THEN req[0] = This /\ reqLen = h.sent
               ELSE ~Active
       /\ ~InputFull => IF h.sent < ReqLength(h.c)
                        THEN req[0] = This /\ reqLen = h.sent + 1 ELSE ~Active
  /\ h.at # "send" => ~InputFull /\ ~Active
  /\ h.c = "query" => h.id = 0

(* The command of the host's request has been executed.                    *)
Executed ==
  h.at = "read" \/ (h.at = "send" /\ ~InputFull /\ h.sent >= ReqLength(h.c))

(* The bytes of the response that were written to ODR.                     *)
Taken == IF pc = "index" THEN resIdx + 1 ELSE resIdx

AckSteps == pc \in {"ack", "ack_write"} => ack # 0

Wrote == pc \in {"write", "ack_write"} => odr = None

AnsOwn ==
  ans # None => /\ odr = None /\ Executed /\ h.c = "read"
                /\ ans = [id |-> h.id, k |-> 1, ev |-> 0]

BurstOwn ==
  /\ burst # 0 => odr = None /\ Executed /\ h.c = "burst" /\ burst = h.id /\ ack = 0
  /\ ack # 0 => odr = None /\ Executed /\ h.c = "burst" /\ ack = h.id

RespOwn ==
  /\ resLen > 0 =>
       \/ Executed /\ h.c \in {"get", "space"} /\ res = h.id
       \/ h.at = "idle" /\ pc \in {"index", "length"} /\ resLen = 1
  /\ Executed /\ h.c \in {"get", "space"} =>
       /\ resIdx + resLen = Answers(h.c) + (IF pc = "length" THEN 1 ELSE 0)
       /\ IF odr = None THEN h.got = Taken ELSE odr.k = Taken /\ h.got + 1 = Taken

OdrOwn ==
  odr # None => /\ Executed /\ odr.id = h.id /\ Answers(h.c) > 0
                /\ h.c \in {"read", "query", "burst"} => odr.k = 1

Fits == Sending /\ Wrote /\ AnsOwn /\ BurstOwn /\ RespOwn /\ OdrOwn /\ ~mixed

Matching == AckSteps /\ (Orderly => Fits)

(* Before a request is executed nothing of an answer is about.             *)
Empty == odr = None /\ ans = None /\ burst = 0 /\ ack = 0 /\ resLen = 0

LEMMA NothingYet ==
  Types /\ Fits /\ ~Executed /\ (h.at # "idle" \/ pc \notin {"index", "length"})
    => Empty /\ pc \notin {"write", "index", "length"}
<1> SUFFICES ASSUME Types, Fits, ~Executed, h.at # "idle" \/ pc \notin {"index", "length"}
             PROVE  Empty /\ pc \notin {"write", "index", "length"}
  OBVIOUS
<1>1. odr = None /\ ans = None /\ burst = 0 /\ ack = 0
  BY DEF Fits, AnsOwn, BurstOwn, OdrOwn
<1>2. ~(resLen > 0) BY DEF Fits, RespOwn
<1>3. resLen \in Nat /\ (pc \in {"write", "index", "length"} => resLen > 0)
  BY Ground DEF Types, RespOK
<1> QED BY <1>1, <1>2, <1>3 DEF Empty

(* The host's request and the input register decide what was executed.     *)
LEMMA ExecutedStays ==
  UNCHANGED <<h, ibf>> =>
    (Executed' <=> Executed) /\ (InputFull' <=> InputFull) /\ This' = This
BY DEF Executed, InputFull, This

LEMMA SendingStays == Sending /\ UNCHANGED <<h, ibf, req, reqLen>> => Sending'
BY DEF Sending, InputFull, Active, This

(* A byte is taken: of a command, of a parameter, or of one too many.      *)
LEMMA FitsByByte == Types /\ Given /\ AckSteps /\ Fits /\ IsrByte => Fits'
<1> SUFFICES ASSUME Types, Given, AckSteps, Fits, IsrByte PROVE Fits' OBVIOUS
<1> USE Ground
<1>1. /\ ibf # NoIn /\ ibf' = NoIn /\ ~NoIn.cd /\ h' = h /\ pc' = pc /\ ack' = ack
      /\ mixed' = mixed
      /\ Position \in 0..BufSize - 1 /\ (ibf.cd => Position = 0)
      /\ (~ibf.cd => Position = reqLen) /\ reqLen' = Position + 1
      /\ req' = IF Completes THEN [Restarted EXCEPT ![0] = NoReq] ELSE Restarted
      /\ Restarted \in [0..BufSize - 1 -> Values]
  BY ByteTaken, NoneIs DEF envr, thr, aux
<1>2. InputFull /\ ~InputFull' /\ ~ibf'.cd BY <1>1 DEF InputFull
<1>3. /\ req \in [0..BufSize - 1 -> Values] /\ reqLen \in 0..BufSize /\ h \in HostStates
      /\ h.sent \in 0..2
  BY DEF Types, HandOK, EnvOK, HostStates
<1>4. h.at = "send" /\ ~Executed BY <1>2 DEF Fits, Sending, Executed
<1>5. Empty /\ pc \notin {"write", "index", "length"} BY <1>4, NothingYet
<1>6. /\ Restarted[Position] = ibf.v
      /\ \A i \in 0..BufSize - 1 : i # Position => Restarted[i] = req[i]
  BY <1>1, <1>3 DEF Restarted
<1>7. ReqLength(h.c) \in 0..2 /\ h.c # "none" /\ h.got = 0
  BY <1>4, Lengths DEF Types, EnvOK
(* What is executed is the command of the host's request, and it is        *)
(* executed exactly when the last byte it takes has come.                  *)
<1>8. /\ h.sent <= ReqLength(h.c) => /\ Restarted[0] = This /\ Position = h.sent
                                     /\ Restarted[Position].id = h.id
      /\ h.sent > ReqLength(h.c) => Command = "none" /\ ~ibf.cd
  <2>1. CASE ibf.cd
    <3>1. ibf.v = This /\ h.sent = 0 BY <1>4, <2>1 DEF Fits, Sending
    <3>2. Position = 0 /\ Restarted[Position] = This /\ This.id = h.id
      BY <1>1, <1>6, <2>1, <3>1 DEF This
    <3> QED BY <1>7, <3>1, <3>2
  <2>2. CASE ~ibf.cd
    <3>1. /\ h.sent > 0 /\ reqLen > 0
          /\ IF h.sent <= ReqLength(h.c) THEN req[0] = This /\ reqLen = h.sent
             ELSE ~Active
      BY <1>2, <1>4, <2>2 DEF Fits, Sending, Given
    <3>2. Position = reqLen /\ Restarted[0] = req[0] BY <1>1, <1>6, <2>2, <3>1
    <3>3. CASE h.sent <= ReqLength(h.c)
      <4>1. req[0].c = h.c /\ req[0].id = h.id BY <3>1, <3>3 DEF This
      <4>2. ibf.v.id = h.id BY <1>2, <1>7, <2>2, <4>1 DEF Given, Active
      <4> QED BY <1>3, <1>6, <1>7, <3>1, <3>2, <3>3, <4>2
    <3>4. CASE h.sent > ReqLength(h.c)
      <4>1. ~(h.sent <= ReqLength(h.c)) /\ req[0].c = "none"
        BY <1>3, <1>7, <3>1, <3>4 DEF Active
      <4> QED BY <2>2, <3>2, <4>1 DEF Command
    <3> QED BY <1>3, <1>7, <3>3, <3>4
  <2> QED BY <2>1, <2>2
<1>9. Completes => /\ Command = h.c /\ Restarted[0].id = h.id /\ h.sent = ReqLength(h.c)
                   /\ Position = ReqLength(h.c) /\ Restarted[Position].id = h.id
  BY <1>3, <1>7, <1>8 DEF Completes, Command, This
<1>10. ~Completes => h.sent # ReqLength(h.c)
  BY <1>3, <1>7, <1>8 DEF Completes, Command, This
<1>11. Executed' <=> h.sent >= ReqLength(h.c) BY <1>1, <1>2, <1>4 DEF Executed
<1>12. Sending'
  <2>1. h.sent < ReqLength(h.c) => ~Completes /\ req'[0] = This /\ reqLen' = h.sent + 1
    BY <1>1, <1>3, <1>7, <1>8, <1>9
  <2>2. h.sent = ReqLength(h.c) => Completes /\ req'[0] = NoReq
    BY <1>1, <1>10
  <2>3. h.sent > ReqLength(h.c) => ~Completes /\ req'[0].c = "none"
    BY <1>1, <1>8 DEF Completes, Command
  <2>4. ~(h.sent < ReqLength(h.c)) => ~Active'
    BY <1>3, <1>7, <2>2, <2>3, NoneIs DEF Active
  <2>5. h.c = "query" => h.id = 0 BY DEF Fits, Sending
  <2> QED BY <1>1, <1>2, <1>4, <2>1, <2>4, <2>5 DEF Sending, This
<1>13. CASE ~Completes
  <2>1. UNCHANGED <<odr, ans, burst, resp>>
    BY <1>13, ByteDoes
  <2>2. ~(Executed' /\ h.c \in {"get", "space"})
    <3>1. h.sent <= Params(h.c) BY <1>4 DEF Types, EnvOK
    <3>2. h.c \in {"get", "space"} => h.sent <= ReqLength(h.c)
      BY <3>1, Lengths
    <3> QED BY <1>3, <1>7, <1>10, <1>11, <1>13, <3>2
  <2>3. Empty' BY <1>1, <1>5, <2>1 DEF Empty, resp
  <2>4. resLen' = 0 /\ pc' \notin {"write", "index", "length"} /\ odr' = None
    BY <1>1, <1>5, <2>3 DEF Empty
  <2>5. Wrote' /\ AnsOwn' /\ BurstOwn' /\ OdrOwn'
    BY <2>3 DEF Empty, Wrote, AnsOwn, BurstOwn, OdrOwn
  <2>6. RespOwn' BY <1>1, <2>2, <2>4 DEF RespOwn
  <2> QED BY <1>1, <1>12, <2>5, <2>6 DEF Fits
<1>14. CASE Completes
  <2>1. Executed' /\ Command = h.c /\ Restarted[0].id = h.id /\ h'.at = "send"
    BY <1>1, <1>3, <1>4, <1>7, <1>9, <1>11, <1>14
  <2>2. /\ odr = None /\ ans = None /\ burst = 0 /\ ack = 0 /\ resLen = 0 /\ ack' = 0
        /\ pc' \notin {"write", "index", "length", "ack_write"}
    BY <1>1, <1>5 DEF Empty, AckSteps
  <2>3. h.c \in {"read", "space"} => Restarted[1].id = h.id
    BY <1>9, <1>14, Lengths
  <2>4. ans' # None => h.c = "read" /\ ans' = [id |-> h.id, k |-> 1, ev |-> 0]
    BY <2>1, <2>2, <2>3, ByteDoes
  <2>5. burst' # 0 => h.c = "burst" /\ burst' = h.id BY <2>1, <2>2, ByteDoes
  <2>6. odr' # None => h.c = "query" /\ odr'.id = 0 /\ odr'.k = 1
    BY <2>1, <2>2, ByteDoes DEF Queried
  <2>7. IF h.c = "get" THEN res' = h.id /\ resLen' = GetLen /\ resIdx' = 0
        ELSE IF h.c = "space" THEN res' = h.id /\ resLen' = 1 /\ resIdx' = 0
        ELSE resLen' = 0
    <3>1. CASE UNCHANGED resp
      <4>1. Command \notin {"get", "space"}
        BY <1>14, <2>1, <3>1, ByteTaken, Ground, <2>2 DEF Execute, SendToHost, resp
      <4> QED BY <2>1, <2>2, <3>1, <4>1 DEF resp
    <3>2. CASE Command = "get" /\ SendToHost(Restarted[0].id, GetLen)
      BY <2>1, <3>2 DEF SendToHost
    <3>3. CASE Command = "space" /\ SendToHost(Restarted[1].id, 1)
      BY <2>1, <2>3, <3>3 DEF SendToHost
    <3> QED BY <3>1, <3>2, <3>3, ByteDoes
  <2>8. Wrote' BY <2>2 DEF Wrote
  <2>9. AnsOwn' BY <1>1, <2>1, <2>4, <2>6 DEF AnsOwn
  <2>10. BurstOwn' BY <1>1, <2>1, <2>2, <2>5, <2>6 DEF BurstOwn
  <2>11. OdrOwn'
    <3>1. h.c = "query" => h.id = 0 BY DEF Fits, Sending
    <3> QED BY <1>1, <2>1, <2>6, <3>1, Lengths DEF OdrOwn
  <2>12. RespOwn'
    <3>1. h.c \in {"get", "space"} => odr' = None BY <2>6
    <3> QED BY <1>1, <1>7, <2>1, <2>2, <2>7, <3>1, Lengths DEF RespOwn, Taken
  <2> QED BY <1>1, <1>12, <2>8, <2>9, <2>10, <2>11, <2>12 DEF Fits
<1> QED BY <1>13, <1>14

(* The steps of the thread move the answer of one command towards ODR.     *)
LEMMA FitsByThread == Types /\ AckSteps /\ Fits /\ Thread => Fits'
<1> SUFFICES ASSUME Types, AckSteps, Fits, Thread PROVE Fits' OBVIOUS
<1> USE Ground
<1>1. UNCHANGED <<h, ibf, req, reqLen, mixed, ans>>
  BY DEF Thread, TakeSem, Burst, AckFree, AckTimeout, AckWrite, Check, ClearEvt, SetEvt,
         Send, Write, Index, Length, Result, Delay, Wake, port, hand, envr, aux
<1>2. (Executed' <=> Executed) /\ Sending' /\ ~mixed'
  BY <1>1, ExecutedStays, SendingStays DEF Fits
<1>3. /\ resLen \in 0..BufSize /\ resIdx \in 0..BufSize /\ pc \in Points
      /\ pc \in {"write", "index", "length"} => resLen > 0
      /\ Answers(h.c) \in 0..BufSize /\ h.got \in 0..BufSize
  BY Lengths DEF Types, RespOK, EnvOK
(* Steps that touch nothing of an answer.                                  *)
<1>4. ASSUME UNCHANGED <<odr, burst, ack, res, resLen, resIdx>>,
             pc \notin {"index", "length"}, pc' \notin {"index", "length"},
             pc' \in {"write", "ack_write"} => odr = None
      PROVE  Fits'
  <2>1. Wrote' BY <1>4 DEF Wrote
  <2>2. AnsOwn' /\ BurstOwn' /\ OdrOwn'
    BY <1>1, <1>2, <1>4 DEF Fits, AnsOwn, BurstOwn, OdrOwn
  <2>3. Taken' = Taken BY <1>4 DEF Taken
  <2>4. RespOwn' BY <1>1, <1>2, <1>4, <2>3 DEF Fits, RespOwn
  <2> QED BY <1>2, <2>1, <2>2, <2>4 DEF Fits
<1>5. CASE TakeSem \/ Check \/ ClearEvt \/ SetEvt \/ Result \/ Delay \/ Wake
  <2>1. UNCHANGED <<odr, burst, ack, res, resLen, resIdx>>
    BY <1>5 DEF TakeSem, Check, ClearEvt, SetEvt, Result, Delay, Wake, port, resp, flag
  <2>2. /\ pc \notin {"index", "length"}
        /\ pc' \notin {"index", "length", "write", "ack_write"}
    BY <1>5 DEF TakeSem, Check, ClearEvt, SetEvt, Result, Delay, Wake, Again, Step
  <2> QED BY <1>4, <2>1, <2>2
<1>6. CASE AckFree BY <1>4, <1>6 DEF AckFree, Step, port, resp, flag
<1>7. CASE Send BY <1>4, <1>7 DEF Send, Step, port, resp, flag
<1>8. CASE Burst
  <2>1. /\ ack' = burst /\ burst' = 0 /\ UNCHANGED <<odr, res, resLen, resIdx>>
        /\ pc = "burst" /\ pc' \in {"ack", "check"}
    BY <1>8 DEF Burst, Step, port, resp
  <2>2. AnsOwn' /\ BurstOwn' /\ OdrOwn' /\ Wrote'
    BY <1>1, <1>2, <2>1 DEF Fits, AnsOwn, BurstOwn, OdrOwn, Wrote
  <2>3. RespOwn' BY <1>1, <1>2, <2>1 DEF Fits, RespOwn, Taken
  <2> QED BY <1>2, <2>2, <2>3 DEF Fits
<1>9. CASE AckTimeout
  <2>1. /\ ack' = 0 /\ UNCHANGED <<odr, burst, res, resLen, resIdx>>
        /\ pc = "ack" /\ pc' = "check"
    BY <1>9 DEF AckTimeout, Step, resp, flag
  <2>2. AnsOwn' /\ BurstOwn' /\ OdrOwn' /\ Wrote'
    BY <1>1, <1>2, <2>1 DEF Fits, AnsOwn, BurstOwn, OdrOwn, Wrote
  <2>3. RespOwn' BY <1>1, <1>2, <2>1 DEF Fits, RespOwn, Taken
  <2> QED BY <1>2, <2>2, <2>3 DEF Fits
<1>10. CASE AckWrite
  <2>1. /\ odr' = [id |-> ack, k |-> 1, ev |-> 0] /\ ack' = 0
        /\ UNCHANGED <<burst, res, resLen, resIdx>>
        /\ pc = "ack_write" /\ pc' = "check"
    BY <1>10 DEF AckWrite, Step, resp, flag
  <2>2. Executed /\ h.c = "burst" /\ ack = h.id /\ burst = 0 /\ ans = None
    BY <2>1 DEF AckSteps, Fits, BurstOwn, AnsOwn
  <2>3. AnsOwn' /\ BurstOwn' /\ Wrote' /\ OdrOwn'
    BY <1>1, <1>2, <2>1, <2>2, Lengths DEF AnsOwn, BurstOwn, Wrote, OdrOwn
  <2>4. RespOwn' BY <1>1, <1>2, <2>1, <2>2 DEF Fits, RespOwn
  <2> QED BY <1>2, <2>3, <2>4 DEF Fits
<1>11. CASE Write
  <2>1. /\ odr' = [id |-> res, k |-> resIdx + 1, ev |-> 0]
        /\ UNCHANGED <<burst, ack, res, resLen, resIdx>>
        /\ pc = "write" /\ pc' = "index"
    BY <1>11 DEF Write, Step, resp, flag
  <2>2. /\ Executed /\ h.c \in {"get", "space"} /\ res = h.id /\ resLen > 0 /\ odr = None
        /\ resIdx + resLen = Answers(h.c) /\ h.got = resIdx
        /\ burst = 0 /\ ack = 0 /\ ans = None
    BY <1>3, <2>1 DEF Fits, RespOwn, Wrote, BurstOwn, AnsOwn, Taken
  <2>3. odr' # None /\ odr'.id = h.id /\ odr'.k = h.got + 1
    BY <1>3, <2>1, <2>2 DEF None
  <2>4. AnsOwn' /\ BurstOwn' /\ Wrote' /\ OdrOwn'
    BY <1>1, <1>2, <1>3, <2>1, <2>2, <2>3 DEF AnsOwn, BurstOwn, Wrote, OdrOwn
  <2>5. RespOwn' BY <1>1, <1>2, <1>3, <2>1, <2>2, <2>3 DEF RespOwn, Taken
  <2> QED BY <1>2, <2>4, <2>5 DEF Fits
<1>12. CASE Index
  <2>1. /\ resIdx' = resIdx + 1 /\ UNCHANGED <<odr, burst, ack, res, resLen>>
        /\ pc = "index" /\ pc' = "length"
    BY <1>12 DEF Index, Step, port, flag
  <2>2. AnsOwn' /\ BurstOwn' /\ Wrote' /\ OdrOwn'
    BY <1>1, <1>2, <2>1 DEF Fits, AnsOwn, BurstOwn, Wrote, OdrOwn
  <2>3. Taken' = Taken BY <2>1 DEF Taken
  <2>4. RespOwn' BY <1>1, <1>2, <1>3, <2>1, <2>3 DEF Fits, RespOwn
  <2> QED BY <1>2, <2>2, <2>4 DEF Fits
<1>13. CASE Length
  <2>1. /\ resLen' = resLen - 1 /\ res' = (IF resLen = 1 THEN 0 ELSE res)
        /\ UNCHANGED <<odr, burst, ack, resIdx>>
        /\ pc = "length" /\ pc' = "result"
    BY <1>13 DEF Length, Step, port, flag
  <2>2. AnsOwn' /\ BurstOwn' /\ Wrote' /\ OdrOwn'
    BY <1>1, <1>2, <2>1 DEF Fits, AnsOwn, BurstOwn, Wrote, OdrOwn
  <2>3. Taken' = Taken BY <2>1 DEF Taken
  <2>4. RespOwn' BY <1>1, <1>2, <1>3, <2>1, <2>3 DEF Fits, RespOwn
  <2> QED BY <1>2, <2>2, <2>4 DEF Fits
<1> QED BY <1>5, <1>6, <1>7, <1>8, <1>9, <1>10, <1>11, <1>12, <1>13 DEF Thread

(* The host begins a request.  It is here that the one disorderly step is  *)
(* kept out: a host that begins before host_res_len is 0 is answered with  *)
(* what is left of the last response.                                      *)
LEMMA FitsByBegin ==
  ASSUME Types, Fits, NEW c, NEW id, c = "query" => id = 0, Begin(c, id), Orderly',
         UNCHANGED <<odr, ans, burst, ack, res, resLen, resIdx, req, reqLen, pc, mixed>>
  PROVE  Fits'
<1>1. /\ h.at = "idle" /\ ~InputFull /\ pc \notin {"index", "length"}
      /\ ibf' = [cd |-> TRUE, v |-> [c |-> c, id |-> id]]
      /\ h' = [at |-> "send", c |-> c, id |-> id, sent |-> 0, got |-> 0]
  BY DEF Begin, Orderly
<1>2. ~Executed BY <1>1 DEF Executed
<1>3. Empty /\ pc \notin {"write", "index", "length"} BY <1>1, <1>2, NothingYet
<1>4. InputFull' /\ ibf'.cd BY <1>1, NoneIs DEF InputFull
<1>5. ~Executed' BY <1>1, <1>4 DEF Executed
<1>6. Sending' BY <1>1, <1>4 DEF Sending, This
<1>7. Wrote' /\ AnsOwn' /\ BurstOwn' /\ OdrOwn' /\ RespOwn'
  BY <1>3, <1>5 DEF Empty, Wrote, AnsOwn, BurstOwn, OdrOwn, RespOwn
<1>8. ~mixed' BY DEF Fits
<1> QED BY <1>6, <1>7, <1>8 DEF Fits

LEMMA FitsByParam == Types /\ Fits /\ SendParam => Fits'
<1> SUFFICES ASSUME Types, Fits, SendParam PROVE Fits' OBVIOUS
<1> USE Ground
<1>1. /\ h.at = "send" /\ h.sent < Params(h.c) /\ ~InputFull
      /\ ibf' = [cd |-> FALSE, v |-> [c |-> "data", id |-> h.id]]
      /\ UNCHANGED <<odr, ans, burst, ack, res, resLen, resIdx, req, reqLen, pc, mixed>>
  BY DEF SendParam, hand, resp, flag, thr, aux
<1>2. h \in HostStates BY DEF Types, EnvOK, HostStates
<1>3. h' \in HostStates /\ h'.at = "send" /\ h'.c = h.c /\ h'.id = h.id
      /\ h'.sent = h.sent + 1 /\ h.sent \in 0..2 /\ This' = This
  BY <1>1, <1>2, Lengths DEF SendParam, HostStates, This
<1>4. ReqLength(h.c) \in 0..2 BY Lengths
<1>5. InputFull' /\ ~ibf'.cd BY <1>1, NoneIs DEF InputFull
<1>6. ~Executed' BY <1>3, <1>5 DEF Executed
(* A command that takes no parameter and got one anyway has no answer.     *)
<1>7. Empty /\ pc \notin {"write", "index", "length"}
  <2>1. CASE Executed
    <3>1. h.c = "other"
      <4>1. h.sent >= ReqLength(h.c) BY <1>1, <2>1 DEF Executed
      <4>2. Params(h.c) # ReqLength(h.c) BY <1>1, <1>3, <1>4, <4>1
      <4> QED BY <4>2, Lengths
    <3>2. Answers(h.c) = 0 BY <3>1, Lengths
    <3>3. odr = None /\ ans = None /\ burst = 0 /\ ack = 0
      BY <3>1, <3>2 DEF Fits, AnsOwn, BurstOwn, OdrOwn
    <3>4. ~(resLen > 0) BY <1>1, <3>1 DEF Fits, RespOwn
    <3> QED BY <3>3, <3>4 DEF Empty, Types, RespOK
  <2>2. CASE ~Executed BY <1>1, <2>2, NothingYet
  <2> QED BY <2>1, <2>2
<1>8. Sending'
  <2>1. IF h.sent < ReqLength(h.c) THEN req[0] = This /\ reqLen = h.sent + 1 ELSE ~Active
    BY <1>1 DEF Fits, Sending
  <2>2. h.c = "query" => h.id = 0 BY DEF Fits, Sending
  <2>3. Active' <=> Active BY <1>1 DEF Active
  <2> QED BY <1>1, <1>3, <1>4, <1>5, <2>1, <2>2, <2>3 DEF Sending
<1>9. Wrote' /\ AnsOwn' /\ BurstOwn' /\ OdrOwn' /\ RespOwn'
  BY <1>1, <1>6, <1>7 DEF Empty, Wrote, AnsOwn, BurstOwn, OdrOwn, RespOwn
<1>10. ~mixed' BY <1>1 DEF Fits
<1> QED BY <1>8, <1>9, <1>10 DEF Fits

LEMMA FitsBySent == Types /\ Fits /\ Sent => Fits'
<1> SUFFICES ASSUME Types, Fits, Sent PROVE Fits' OBVIOUS
<1> USE Ground
<1>1. /\ h.at = "send" /\ h.sent = Params(h.c) /\ ~InputFull
      /\ h' = IF Answers(h.c) > 0 THEN [h EXCEPT !.at = "read"] ELSE Idle
      /\ UNCHANGED <<ibf, odr, ans, burst, ack, res, resLen, resIdx, req, reqLen, pc, mixed>>
  BY DEF Sent, port, hand, resp, flag, thr, aux
<1>2. h \in HostStates BY DEF Types, EnvOK, HostStates
<1>3. ReqLength(h.c) \in 0..2 /\ Params(h.c) \in 0..2 /\ ReqLength(h.c) <= Params(h.c)
  BY Lengths
<1>4. Executed /\ ~InputFull' /\ ~Active' /\ ~mixed'
  BY <1>1, <1>3 DEF Executed, Fits, Sending, InputFull, Active
<1>5. CASE Answers(h.c) > 0
  <2>1. /\ h'.at = "read" /\ h'.c = h.c /\ h'.id = h.id /\ h'.got = h.got
    BY <1>1, <1>2, <1>5 DEF HostStates
  <2>2. Executed' BY <2>1 DEF Executed
  <2>3. Sending' BY <1>4, <2>1 DEF Fits, Sending
  <2>4. Wrote' /\ AnsOwn' /\ BurstOwn' /\ OdrOwn'
    BY <1>1, <1>4, <2>1, <2>2 DEF Fits, Wrote, AnsOwn, BurstOwn, OdrOwn
  <2>5. RespOwn'
    <3>1. Taken' = Taken BY <1>1 DEF Taken
    <3> QED BY <1>1, <1>4, <2>1, <2>2, <3>1 DEF Fits, RespOwn
  <2> QED BY <1>4, <2>3, <2>4, <2>5 DEF Fits
<1>6. CASE ~(Answers(h.c) > 0)
  <2>1. h' = Idle /\ h'.at = "idle" /\ h'.c = "none"
    BY <1>1, <1>6 DEF Idle
  <2>2. h.c \notin {"get", "read", "space", "burst", "query"} BY <1>6, Ground, Lengths
  <2>3. odr = None /\ ans = None /\ burst = 0 /\ ack = 0
    BY <1>6, <2>2 DEF Fits, AnsOwn, BurstOwn, OdrOwn
  <2>4. ~(resLen > 0) BY <1>1, <2>2 DEF Fits, RespOwn
  <2>5. ~Executed' BY <2>1 DEF Executed
  <2>6. Sending' BY <1>4, <2>1 DEF Sending
  <2>7. Wrote' /\ AnsOwn' /\ BurstOwn' /\ OdrOwn' /\ RespOwn'
    BY <1>1, <2>3, <2>4, <2>5 DEF Wrote, AnsOwn, BurstOwn, OdrOwn, RespOwn
  <2> QED BY <1>4, <2>6, <2>7 DEF Fits
<1> QED BY <1>5, <1>6

LEMMA FitsByRead == Types /\ Fits /\ Read => Fits'
<1> SUFFICES ASSUME Types, Fits, Read PROVE Fits' OBVIOUS
<1> USE Ground
<1>1. /\ h.at = "read" /\ odr # None /\ odr' = None
      /\ h' = IF h.got + 1 = Answers(h.c) THEN Idle ELSE [h EXCEPT !.got = h.got + 1]
      /\ mixed' = (mixed \/ odr.id # h.id \/ odr.k # h.got + 1)
      /\ UNCHANGED <<ibf, ans, burst, ack, res, resLen, resIdx, req, reqLen, pc>>
  BY DEF Read, hand, resp, flag, thr
<1>2. h \in HostStates BY DEF Types, EnvOK, HostStates
<1>3. /\ resLen \in 0..BufSize /\ resIdx \in 0..BufSize /\ pc \in Points
      /\ pc \in {"write", "index", "length"} => resLen > 0
      /\ Answers(h.c) \in 0..BufSize /\ h.got \in 0..BufSize /\ h.got < Answers(h.c)
  BY <1>1, Lengths DEF Types, RespOK, EnvOK
<1>4. Executed /\ ~InputFull' /\ ~Active'
  BY <1>1 DEF Executed, Fits, Sending, InputFull, Active
<1>5. ans = None /\ burst = 0 /\ ack = 0 /\ odr.id = h.id
  BY <1>1 DEF Fits, AnsOwn, BurstOwn, OdrOwn
<1>6. h.c \in {"get", "space"} => odr.k = Taken /\ h.got + 1 = Taken
  BY <1>1, <1>4 DEF Fits, RespOwn
<1>7. h.c \notin {"get", "space"} => /\ h.c \in {"read", "query", "burst"} /\ odr.k = 1
                                     /\ h.got = 0 /\ Answers(h.c) = 1
  BY <1>1, <1>3, Lengths DEF Fits, OdrOwn
<1>8. ~mixed'
  <2>1. odr.k = h.got + 1 BY <1>6, <1>7
  <2>2. ~mixed BY DEF Fits
  <2> QED BY <1>1, <1>5, <2>1, <2>2, Zenon
<1>9. Wrote' /\ AnsOwn' /\ BurstOwn' /\ OdrOwn'
  BY <1>1, <1>5 DEF Wrote, AnsOwn, BurstOwn, OdrOwn
<1>10. CASE h.got + 1 = Answers(h.c)
  <2>1. h'.at = "idle" /\ h'.c = "none" BY <1>1, <1>10 DEF Idle
  <2>2. Sending' BY <1>4, <2>1 DEF Sending
  <2>3. resLen > 0 => pc \in {"index", "length"} /\ resLen = 1
    BY <1>1, <1>3, <1>4, <1>6, <1>10 DEF Fits, RespOwn, Taken
  <2>4. ~Executed' BY <2>1 DEF Executed
  <2>5. RespOwn' BY <1>1, <2>1, <2>3, <2>4 DEF RespOwn
  <2> QED BY <1>8, <1>9, <2>2, <2>5 DEF Fits
<1>11. CASE h.got + 1 # Answers(h.c)
  <2>1. /\ h'.at = "read" /\ h'.c = h.c /\ h'.id = h.id /\ h'.got = h.got + 1
        /\ h.c \in {"get", "space"}
    BY <1>1, <1>2, <1>3, <1>7, <1>11 DEF HostStates
  <2>2. Executed' BY <2>1 DEF Executed
  <2>3. Sending' BY <1>4, <2>1 DEF Fits, Sending
  <2>4. Taken' = Taken BY <1>1 DEF Taken
  <2>5. RespOwn' BY <1>1, <1>4, <1>6, <2>1, <2>2, <2>4 DEF Fits, RespOwn
  <2> QED BY <1>8, <1>9, <2>3, <2>5 DEF Fits
<1> QED BY <1>10, <1>11

LEMMA FitsBySend == Types /\ AckSteps /\ Fits /\ IsrSend => Fits'
<1> SUFFICES ASSUME Types, AckSteps, Fits, IsrSend PROVE Fits' OBVIOUS
<1>1. /\ UNCHANGED <<h, ibf, req, reqLen, mixed, burst, ack, res, resLen, resIdx, pc>>
      /\ odr' = (IF odr = None THEN ans ELSE odr) /\ ans' = None
  BY DEF IsrSend, resp, flag, thr, envr, aux
<1>2. (Executed' <=> Executed) /\ Sending' /\ ~mixed'
  BY <1>1, ExecutedStays, SendingStays DEF Fits
<1>3. AnsOwn' BY <1>1 DEF AnsOwn
<1>4. CASE ans = None
  <2>1. odr' = odr BY <1>1, <1>4
  <2>2. Wrote' /\ BurstOwn' /\ OdrOwn'
    BY <1>1, <1>2, <2>1 DEF Fits, Wrote, BurstOwn, OdrOwn
  <2>3. RespOwn' BY <1>1, <1>2, <2>1 DEF Fits, RespOwn, Taken
  <2> QED BY <1>2, <1>3, <2>2, <2>3 DEF Fits
<1>5. CASE ans # None
  <2>1. /\ odr = None /\ Executed /\ h.c = "read"
        /\ ans = [id |-> h.id, k |-> 1, ev |-> 0]
    BY <1>5 DEF Fits, AnsOwn
  <2>2. burst = 0 /\ ack = 0 /\ ~(resLen > 0)
    BY <2>1 DEF Fits, BurstOwn, RespOwn, Executed
  <2>3. pc \notin {"write", "ack_write"}
    BY <2>2 DEF Types, RespOK, AckSteps
  <2>4. Wrote' /\ BurstOwn' /\ OdrOwn' /\ RespOwn'
    BY <1>1, <1>2, <2>1, <2>2, <2>3, Lengths DEF Wrote, BurstOwn, OdrOwn, RespOwn
  <2> QED BY <1>2, <1>3, <2>4 DEF Fits
<1> QED BY <1>4, <1>5

LEMMA AckStepsKept == AckSteps /\ [Next]_vars => AckSteps'
<1> SUFFICES ASSUME AckSteps, [Next]_vars PROVE AckSteps' OBVIOUS
<1>1. CASE UNCHANGED <<pc, ack>> BY <1>1 DEF AckSteps
<1>2. CASE Thread
  BY <1>2 DEF AckSteps, Thread, TakeSem, Burst, AckFree, AckTimeout, AckWrite, Check,
       ClearEvt, SetEvt, Send, Write, Index, Length, Result, Delay, Wake, Again, Step
<1>3. IsrByte \/ IsrSend \/ IsrEnd \/ SendParam \/ Sent \/ Read \/ Query \/ IgnoreSci
        \/ Enqueue \/ ResetWarn \/ PltRstLow \/ PltRstHigh \/ LeaveOrEnterS0 \/ GiveUp
        \/ Drain \/ (\E c \in Cmds : Request(c)) \/ UNCHANGED vars => UNCHANGED <<pc, ack>>
  BY DEF IsrByte, IsrSend, IsrEnd, SendParam, Sent, Read, Query, IgnoreSci, Enqueue,
         ResetWarn, PltRstLow, PltRstHigh, LeaveOrEnterS0, GiveUp, Drain, Request, vars, thr
<1> QED BY <1>1, <1>2, <1>3 DEF Next, Isr, GoOn, TakeSci, Environment

(* A host is orderly after a step only if it was before.                   *)
LEMMA OrderlyBefore == Orderly' /\ [Next]_vars => Orderly
<1> SUFFICES ASSUME Orderly', [Next]_vars, ~Orderly PROVE FALSE OBVIOUS
<1>0. ~gaveUp' /\ ~overrun' /\ (gaveUp \/ overrun) BY DEF Orderly
<1>1. CASE UNCHANGED <<gaveUp, overrun>> BY <1>0, <1>1
<1>2. CASE GiveUp BY <1>0, <1>2 DEF GiveUp
<1>3. CASE PltRstLow BY <1>0, <1>3 DEF PltRstLow
<1>4. CASE Query BY <1>0, <1>4 DEF Query, Begin
<1>5. CASE \E c \in Cmds : Request(c)
  <2>1. PICK c \in Cmds : Request(c) BY <1>5
  <2>2. overrun' = (overrun \/ pc \in {"index", "length"}) /\ gaveUp' = gaveUp
    BY <2>1 DEF Request, Begin
  <2> QED BY <1>0, <2>2
<1>6. Isr \/ Thread \/ GoOn \/ IgnoreSci => UNCHANGED <<gaveUp, overrun>>
  BY DEF Isr, Thread, GoOn, IsrByte, IsrSend, IsrEnd, TakeSem, Burst, AckFree,
         AckTimeout, AckWrite, Check, ClearEvt, SetEvt, Send, Write, Index, Length,
         Result, Delay, Wake, SendParam, Sent, Read, IgnoreSci, aux
<1>7. Enqueue \/ ResetWarn \/ PltRstHigh \/ LeaveOrEnterS0 \/ Drain \/ UNCHANGED vars
        => UNCHANGED <<gaveUp, overrun>>
  BY DEF Enqueue, ResetWarn, PltRstHigh, LeaveOrEnterS0, Drain, vars, aux
<1> QED BY <1>1, <1>2, <1>3, <1>4, <1>5, <1>6, <1>7 DEF Next, Environment, TakeSci

LEMMA MatchingKept == Types /\ Given /\ Matching /\ [Next]_vars => Matching'
<1> SUFFICES ASSUME Types, Given, AckSteps, [Next]_vars, Orderly', Orderly => Fits
             PROVE  Fits'
  BY AckStepsKept DEF Matching
<1>1. Orderly BY OrderlyBefore
<1>2. Fits BY <1>1
<1>3. CASE IsrByte BY <1>2, <1>3, FitsByByte
<1>4. CASE IsrSend BY <1>2, <1>4, FitsBySend
<1>5. CASE Thread BY <1>2, <1>5, FitsByThread
<1>6. CASE SendParam BY <1>2, <1>6, FitsByParam
<1>7. CASE Sent BY <1>2, <1>7, FitsBySent
<1>8. CASE Read BY <1>2, <1>8, FitsByRead
<1>9. CASE Query
  BY <1>2, <1>9, FitsByBegin DEF Query, hand, resp, flag, thr, aux
<1>10. CASE \E c \in Cmds : Request(c)
  <2>1. PICK c \in Cmds : Request(c) BY <1>10
  <2>2. c # "query" BY Ground DEF AllCmds
  <2> QED BY <1>2, <2>1, <2>2, FitsByBegin DEF Request, hand, resp, flag, thr, aux
(* The others leave the request and its answer alone.                      *)
<1>11. CASE UNCHANGED <<h, ibf, req, reqLen, mixed, odr, ans, burst, ack, res, resLen,
                        resIdx, pc>>
  <2>1. (Executed' <=> Executed) /\ Sending' /\ ~mixed' /\ Taken' = Taken
    BY <1>2, <1>11, ExecutedStays, SendingStays DEF Fits, Taken
  <2> QED BY <1>2, <1>11, <2>1 DEF Fits, Wrote, AnsOwn, BurstOwn, OdrOwn, RespOwn
<1>12. CASE PltRstLow
  <2>1. h = Idle /\ h' = Idle BY <1>12 DEF PltRstLow, Orderly
  <2> QED BY <1>11, <1>12, <2>1 DEF PltRstLow, hand, resp, flag, thr
<1>13. ~GiveUp /\ ~Drain BY <1>1 DEF GiveUp, Drain, Orderly
<1>14. IsrEnd \/ IgnoreSci \/ Enqueue \/ ResetWarn \/ PltRstHigh \/ LeaveOrEnterS0
         \/ UNCHANGED vars
         => UNCHANGED <<h, ibf, req, reqLen, mixed, odr, ans, burst, ack, res, resLen,
                        resIdx, pc>>
  BY DEF IsrEnd, IgnoreSci, Enqueue, ResetWarn, PltRstHigh, LeaveOrEnterS0, vars, port,
         hand, resp, flag, thr, envr, aux
<1> QED BY <1>3, <1>4, <1>5, <1>6, <1>7, <1>8, <1>9, <1>10, <1>11, <1>12, <1>13, <1>14
        DEF Next, Isr, GoOn, TakeSci, Environment

LEMMA MatchingInit == Init => Given /\ Matching
<1> SUFFICES ASSUME Init PROVE Given /\ Matching OBVIOUS
<1>1. /\ req[0] = NoReq /\ ibf = NoIn /\ h = Idle /\ stale = FALSE /\ mixed = FALSE
      /\ odr = None /\ ans = None /\ burst = 0 /\ ack = 0 /\ resLen = 0 /\ pc = "wait"
  BY Ground DEF Init
<1>2. ~stale /\ ~mixed BY <1>1
<1>3. Given BY <1>1, <1>2, NoneIs DEF Given, Active, InputFull
<1>4. ~Executed /\ h.c = "none" BY <1>1 DEF Executed, Idle
<1>5. Sending BY <1>1, <1>4, NoneIs DEF Sending, InputFull, Active
<1>6. Wrote /\ AnsOwn /\ BurstOwn /\ RespOwn /\ OdrOwn /\ AckSteps
  BY <1>1, <1>4 DEF Wrote, AnsOwn, BurstOwn, RespOwn, OdrOwn, AckSteps
<1> QED BY <1>2, <1>3, <1>5, <1>6 DEF Fits, Matching

(* A host gets, byte by byte, the answers to its own request, though the   *)
(* interrupt, the burst acknowledge and the response of the thread share   *)
(* ODR (smchost.c proc_host_send, proc_acpi_burst, acpi_read_ec) and the   *)
(* interrupt comes between any two steps of the thread: there are two ways *)
(* for it to get another byte, to give a request up, and to begin one      *)
(* between the write of the last byte and host_res_len-- (smchost.c:418).  *)
THEOREM AnswersAreOwn == Spec => []AnswersMatch
<1>1. Init => Given /\ Matching BY MatchingInit
<1>2. Types /\ Given /\ [Next]_vars => Given' BY GivenKept
<1>3. Types /\ Given /\ Matching /\ [Next]_vars => Matching' BY MatchingKept
<1>4. Matching => AnswersMatch BY DEF Matching, Fits, AnswersMatch
<1> QED BY <1>1, <1>2, <1>3, <1>4, TypesHold, PTL DEF Spec

(***************************************************************************)
(* Events.  An event moves from the queue to ODR and from there to what    *)
(* the OS has read, and the sequence of the three does not change; a new   *)
(* event goes to its end and a reset warning cuts off what is in the       *)
(* queue.                                                                  *)
(***************************************************************************)
InOdr == IF odr.ev = 0 THEN << >> ELSE <<odr.ev>>
OnWay == seen \o InOdr \o sciQ
Rising(q) == \A i, j \in 1..Len(q) : i < j => q[i] < q[j]
Kept == ToSet(OnWay) \cup flushed = accepted /\ Rising(OnWay)

LEMMA ToSetConcat ==
  ASSUME NEW S, NEW s \in Seq(S), NEW t \in Seq(S)
  PROVE  ToSet(s \o t) = ToSet(s) \cup ToSet(t)
<1>1. Range(s \o t) = Range(s) \cup Range(t) BY RangeConcatenation
<1>2. \A q : ToSet(q) = Range(q) BY Zenon DEF Range, ToSet
<1> QED BY <1>1, <1>2, Zenon

LEMMA ToSetAppend ==
  ASSUME NEW S, NEW s \in Seq(S), NEW e \in S
  PROVE  ToSet(Append(s, e)) = ToSet(s) \cup {e}
<1>1. <<e>> \in Seq(S) /\ ToSet(<<e>>) = {e} BY SMTT(20) DEF ToSet
<1>2. Append(s, e) = s \o <<e>> BY AppendIsConcat, Zenon
<1>3. ToSet(s \o <<e>>) = ToSet(s) \cup ToSet(<<e>>) BY <1>1, ToSetConcat, ZenonT(40)
<1> QED BY <1>1, <1>2, <1>3, Zenon

LEMMA RisingConcat ==
  ASSUME NEW S, NEW s \in Seq(S), NEW t \in Seq(S), Rising(s \o t)
  PROVE  Rising(s)
<1>1. Len(s \o t) = Len(s) + Len(t) /\ \A i \in 1..Len(s) : (s \o t)[i] = s[i]
  BY ConcatProperties
<1>2. Len(s) \in Nat /\ Len(t) \in Nat OBVIOUS
<1>3. \A i \in 1..Len(s) : i \in 1..Len(s \o t) BY <1>1, <1>2
<1> QED BY <1>1, <1>3 DEF Rising

LEMMA RisingAppend ==
  ASSUME NEW s \in Seq(Nat), NEW e \in Nat, Rising(s), \A i \in 1..Len(s) : s[i] < e
  PROVE  Rising(Append(s, e))
<1>1. Len(s) \in Nat /\ Len(Append(s, e)) = Len(s) + 1 OBVIOUS
<1>2. \A i \in 1..Len(s) : Append(s, e)[i] = s[i] OBVIOUS
<1>3. Append(s, e)[Len(s) + 1] = e OBVIOUS
<1>4. SUFFICES ASSUME NEW i \in 1..Len(s) + 1, NEW j \in 1..Len(s) + 1, i < j
               PROVE  Append(s, e)[i] < Append(s, e)[j]
  BY <1>1 DEF Rising
<1>5. i \in 1..Len(s) BY <1>1, <1>4
<1>6. CASE j \in 1..Len(s) BY <1>2, <1>4, <1>5, <1>6 DEF Rising
<1>7. CASE j = Len(s) + 1 BY <1>2, <1>3, <1>5, <1>7
<1> QED BY <1>1, <1>6, <1>7

LEMMA HeadThenTail ==
  ASSUME NEW S, NEW q \in Seq(S), q # << >> PROVE <<Head(q)>> \o Tail(q) = q
OBVIOUS

LEMMA OnWayTyped ==
  Types => /\ seen \in Seq(accepted) /\ InOdr \in Seq(accepted) /\ sciQ \in Seq(accepted)
           /\ seen \o InOdr \in Seq(accepted) /\ OnWay \in Seq(accepted)
<1> SUFFICES ASSUME Types
             PROVE  /\ seen \in Seq(accepted) /\ InOdr \in Seq(accepted)
                    /\ sciQ \in Seq(accepted) /\ seen \o InOdr \in Seq(accepted)
                    /\ OnWay \in Seq(accepted)
  OBVIOUS
<1>1. seen \in Seq(accepted) /\ sciQ \in Seq(accepted) /\ odr.ev \in accepted \cup {0}
  BY DEF Types, EventsOK
<1>2. InOdr \in Seq(accepted) BY <1>1 DEF InOdr
<1>3. seen \o InOdr \in Seq(accepted) BY <1>1, <1>2, ConcatProperties
<1>4. OnWay \in Seq(accepted) BY <1>1, <1>3, ConcatProperties DEF OnWay
<1> QED BY <1>1, <1>2, <1>3, <1>4

(* A query takes the first event of the queue, when ODR is empty.          *)
LEMMA KeptByQuery ==
  Types /\ Kept /\ Queried /\ UNCHANGED <<accepted, flushed, seen>> => Kept'
<1> SUFFICES ASSUME Types, Kept, Queried, UNCHANGED <<accepted, flushed, seen>> PROVE Kept'
  OBVIOUS
<1>1. /\ odr = None /\ odr'.ev = IF sciQ = << >> THEN 0 ELSE Head(sciQ)
      /\ sciQ' = IF sciQ = << >> THEN sciQ ELSE Tail(sciQ)
  BY DEF Queried
<1>2. /\ seen \in Seq(accepted) /\ sciQ \in Seq(accepted) /\ accepted \subseteq 1..MaxEvents
      /\ sciQ # << >> => Head(sciQ) \in accepted /\ Tail(sciQ) \in Seq(accepted)
  BY OnWayTyped, Queued
<1>3. InOdr = << >> BY <1>1, NoneIs DEF InOdr
<1>4. OnWay = seen \o sciQ BY <1>2, <1>3, ConcatEmptySeq DEF OnWay
<1>5. OnWay' = OnWay
  <2>1. CASE sciQ = << >>
    <3>1. InOdr' = << >> /\ sciQ' = sciQ BY <1>1, <2>1 DEF InOdr
    <3> QED BY <1>3, <3>1 DEF OnWay
  <2>2. CASE sciQ # << >>
    <3>1. Head(sciQ) \in accepted /\ Tail(sciQ) \in Seq(accepted) BY <1>2, <2>2
    <3>2. Head(sciQ) # 0 BY <1>2, <3>1
    <3>3. InOdr' = <<Head(sciQ)>> /\ sciQ' = Tail(sciQ) BY <1>1, <2>2, <3>2 DEF InOdr
    <3>4. OnWay' = (seen \o <<Head(sciQ)>>) \o Tail(sciQ) BY <3>3 DEF OnWay
    <3>5. <<Head(sciQ)>> \in Seq(accepted) BY <3>1
    <3>6. OnWay' = seen \o (<<Head(sciQ)>> \o Tail(sciQ))
      BY <1>2, <3>1, <3>4, <3>5, ConcatAssociative
    <3>7. <<Head(sciQ)>> \o Tail(sciQ) = sciQ BY <1>2, <2>2, HeadThenTail
    <3> QED BY <1>4, <3>6, <3>7
  <2> QED BY <2>1, <2>2
<1> QED BY <1>5, Zenon DEF Kept

LEMMA KeptByEnqueue == Types /\ Kept /\ Enqueue => Kept'
<1> SUFFICES ASSUME Types, Kept, Enqueue PROVE Kept' OBVIOUS
<1>1. /\ UNCHANGED <<odr, seen, flushed>>
      /\ \/ UNCHANGED <<sciQ, accepted>>
         \/ /\ sciQ' = Append(sciQ, events + 1)
            /\ accepted' = accepted \cup {events + 1}
  BY DEF Enqueue, port
<1>2. CASE UNCHANGED <<sciQ, accepted>>
  <2>1. OnWay' = OnWay BY <1>1, <1>2 DEF OnWay, InOdr
  <2> QED BY <1>1, <1>2, <2>1, Zenon DEF Kept
<1>3. CASE sciQ' = Append(sciQ, events + 1) /\ accepted' = accepted \cup {events + 1}
  <2>1. events \in Nat /\ accepted \subseteq 1..events
    BY Ground DEF Types, EnvOK, EventsOK
  <2>2. accepted \subseteq Nat /\ events + 1 \in Nat BY <2>1
  <2>3. /\ seen \o InOdr \in Seq(accepted) /\ sciQ \in Seq(accepted)
        /\ OnWay \in Seq(accepted)
    BY OnWayTyped
  <2>4. seen \o InOdr \in Seq(Nat) /\ sciQ \in Seq(Nat) /\ OnWay \in Seq(Nat)
    BY <2>2, <2>3, SeqWider, Zenon
  <2>5. OnWay' = (seen \o InOdr) \o Append(sciQ, events + 1)
    BY <1>1, <1>3 DEF OnWay, InOdr
  <2>6. OnWay' = Append(OnWay, events + 1)
    <3>1. Append(sciQ, events + 1) = sciQ \o <<events + 1>>
      BY <2>2, <2>4, AppendIsConcat, Zenon
    <3>2. <<events + 1>> \in Seq(Nat) BY <2>2
    <3>3. (seen \o InOdr) \o (sciQ \o <<events + 1>>) = OnWay \o <<events + 1>>
      BY <2>4, <3>2, ConcatAssociative DEF OnWay
    <3>4. OnWay \o <<events + 1>> = Append(OnWay, events + 1)
      BY <2>2, <2>4, AppendIsConcat, Zenon
    <3> QED BY <2>5, <3>1, <3>3, <3>4, Zenon
  <2>7. \A i \in 1..Len(OnWay) : OnWay[i] \in accepted BY <2>3
  <2>8. \A i \in 1..Len(OnWay) : OnWay[i] < events + 1
    <3>1. \A x \in accepted : x < events + 1 BY <2>1
    <3> QED BY <2>7, <3>1, Zenon
  <2>9. Rising(OnWay') BY <2>2, <2>4, <2>6, <2>8, RisingAppend DEF Kept
  <2>10. ToSet(OnWay') = ToSet(OnWay) \cup {events + 1}
    <3>1. ToSet(Append(OnWay, events + 1)) = ToSet(OnWay) \cup {events + 1}
      <4>1. OnWay \in Seq(Nat) /\ events + 1 \in Nat BY <2>2, <2>4
      <4> QED BY <4>1, ToSetAppend
    <3> QED BY <2>6, <3>1
  <2>11. ToSet(OnWay)' \cup flushed' = accepted'
    BY <1>1, <1>3, <2>10 DEF Kept
  <2> QED BY <2>9, <2>11 DEF Kept
<1> QED BY <1>1, <1>2, <1>3

LEMMA KeptByResetWarn == Types /\ Kept /\ ResetWarn => Kept'
<1> SUFFICES ASSUME Types, Kept, ResetWarn PROVE Kept' OBVIOUS
<1>1. UNCHANGED <<odr, seen, accepted>> /\ sciQ' = << >> /\ flushed' = flushed \cup ToSet(sciQ)
  BY DEF ResetWarn, port
<1>2. seen \o InOdr \in Seq(accepted) /\ sciQ \in Seq(accepted) BY OnWayTyped
<1>3. OnWay' = seen \o InOdr
  <2>1. OnWay' = (seen \o InOdr) \o << >> BY <1>1 DEF OnWay, InOdr
  <2> QED BY <1>2, <2>1, ConcatEmptySeq
<1>4. Rising(OnWay') BY <1>2, <1>3, RisingConcat DEF Kept, OnWay
<1>5. ToSet(OnWay) = ToSet(seen \o InOdr) \cup ToSet(sciQ)
  BY <1>2, ToSetConcat, Zenon DEF OnWay
<1>6. ToSet(OnWay)' \cup flushed' = accepted'
  <2>1. ToSet(OnWay)' = ToSet(seen \o InOdr) BY <1>3, Zenon
  <2>2. ToSet(seen \o InOdr) \cup (flushed \cup ToSet(sciQ)) = accepted
    BY <1>5 DEF Kept
  <2> QED BY <1>1, <2>1, <2>2
<1> QED BY <1>4, <1>6 DEF Kept

LEMMA KeptByRead == Types /\ Kept /\ Read => Kept'
<1> SUFFICES ASSUME Types, Kept, Read PROVE Kept' OBVIOUS
<1>1. /\ UNCHANGED <<sciQ, accepted, flushed>> /\ odr' = None
      /\ seen' = IF odr.ev = 0 THEN seen ELSE Append(seen, odr.ev)
  BY DEF Read
<1>2. seen \in Seq(accepted) /\ odr.ev \in accepted \cup {0} BY DEF Types, EventsOK
<1>3. seen' = seen \o InOdr
  <2>1. CASE odr.ev = 0 BY <1>1, <1>2, <2>1, ConcatEmptySeq DEF InOdr
  <2>2. CASE odr.ev # 0
    <3>1. Append(seen, odr.ev) = seen \o <<odr.ev>> BY <1>2, <2>2, AppendIsConcat
    <3> QED BY <1>1, <2>2, <3>1 DEF InOdr
  <2> QED BY <2>1, <2>2
<1>4. InOdr' = << >> BY <1>1, NoneIs DEF InOdr
<1>5. seen \o InOdr \in Seq(accepted) BY OnWayTyped
<1>6. seen' \o InOdr' = seen \o InOdr BY <1>3, <1>4, <1>5, ConcatEmptySeq
<1>7. OnWay' = OnWay BY <1>1, <1>6 DEF OnWay
<1> QED BY <1>1, <1>7, Zenon DEF Kept

(* A writer of ODR that brings no event finds it empty.                    *)
LEMMA KeptByWriter ==
  /\ Kept /\ UNCHANGED <<seen, sciQ, accepted, flushed>>
  /\ odr' = odr \/ (odr = None /\ odr'.ev = 0)
  => Kept'
<1> SUFFICES ASSUME Kept, UNCHANGED <<seen, sciQ, accepted, flushed>>,
                    odr' = odr \/ (odr = None /\ odr'.ev = 0)
             PROVE  Kept'
  OBVIOUS
<1>1. InOdr' = InOdr BY NoneIs DEF InOdr
<1>2. OnWay' = OnWay BY <1>1 DEF OnWay
<1> QED BY <1>2, Zenon DEF Kept

LEMMA KeptStep == Types /\ Matching /\ Orderly /\ Kept /\ [Next]_vars => Kept'
<1> SUFFICES ASSUME Types, AckSteps, Fits, ~gaveUp, Kept, [Next]_vars PROVE Kept'
  BY DEF Matching, Orderly
<1>1. CASE IsrByte
  <2>1. UNCHANGED <<accepted, flushed, seen>> BY <1>1, ByteTaken DEF aux
  <2>2. CASE UNCHANGED <<odr, sciQ>> BY <2>1, <2>2, KeptByWriter
  <2>3. CASE Queried BY <2>1, <2>3, KeptByQuery
  <2> QED BY <1>1, <2>2, <2>3, ByteDoes
<1>2. CASE IsrSend
  <2>1. ans.ev = 0 BY DEF Types, HandOK
  <2> QED BY <1>2, <2>1, KeptByWriter DEF IsrSend, aux
<1>3. CASE AckWrite
  <2>1. odr = None /\ odr'.ev = 0 BY <1>3 DEF AckWrite, Step, Fits, Wrote
  <2> QED BY <1>3, <2>1, KeptByWriter DEF AckWrite, aux
<1>4. CASE Write
  <2>1. odr = None /\ odr'.ev = 0 BY <1>4 DEF Write, Step, Fits, Wrote
  <2> QED BY <1>4, <2>1, KeptByWriter DEF Write, aux
<1>5. CASE Enqueue BY <1>5, KeptByEnqueue
<1>6. CASE ResetWarn BY <1>6, KeptByResetWarn
<1>7. CASE Read BY <1>7, KeptByRead
<1>8. ~Drain BY DEF Drain
<1>9. CASE UNCHANGED <<odr, seen, sciQ, accepted, flushed>> BY <1>9, KeptByWriter
<1>10. IsrEnd \/ TakeSem \/ Burst \/ AckFree \/ AckTimeout \/ Check \/ ClearEvt \/ SetEvt
         \/ Send \/ Index \/ Length \/ Result \/ Delay \/ Wake
         => UNCHANGED <<odr, seen, sciQ, accepted, flushed>>
  BY DEF IsrEnd, TakeSem, Burst, AckFree, AckTimeout, Check, ClearEvt, SetEvt, Send, Index,
         Length, Result, Delay, Wake, port, aux
<1>11. SendParam \/ Sent \/ Query \/ IgnoreSci \/ PltRstLow \/ PltRstHigh \/ LeaveOrEnterS0
         \/ GiveUp \/ (\E c \in Cmds : Request(c)) \/ UNCHANGED vars
         => UNCHANGED <<odr, seen, sciQ, accepted, flushed>>
  BY DEF SendParam, Sent, Query, IgnoreSci, PltRstLow, PltRstHigh, LeaveOrEnterS0, GiveUp,
         Request, vars, port, aux
<1> QED BY <1>1, <1>2, <1>3, <1>4, <1>5, <1>6, <1>7, <1>8, <1>9, <1>10, <1>11, Steps

(* Every event that entered the queue is read by the OS once and in order, *)
(* or was flushed by a reset warning, or is still on its way (sci.c        *)
(* enqueue_sci, send_sci_events; smchost.c smchost_host_rst_warn_handler), *)
(* for every orderly host.                                                 *)
THEOREM EventsReachTheOS == Spec => []EventsKept
<1> DEFINE Inv == Orderly => Kept
<1>1. Init => Given /\ Matching BY MatchingInit
<1>2. Init => Inv
  <2> SUFFICES ASSUME Init PROVE Kept OBVIOUS
  <2>1. odr = None /\ sciQ = << >> /\ seen = << >> /\ accepted = {} /\ flushed = {}
    BY DEF Init
  <2>2. OnWay = << >>
    <3>1. InOdr = << >> BY <2>1, NoneIs DEF InOdr
    <3>2. << >> \in Seq(Nat) OBVIOUS
    <3> QED BY <2>1, <3>1, <3>2, ConcatEmptySeq DEF OnWay
  <2>3. ToSet(OnWay) = {} BY <2>2 DEF ToSet
  <2>4. Rising(OnWay) BY <2>2 DEF Rising
  <2> QED BY <2>1, <2>3, <2>4 DEF Kept
<1>3. Types /\ Given /\ [Next]_vars => Given' BY GivenKept
<1>4. Types /\ Given /\ Matching /\ [Next]_vars => Matching' BY MatchingKept
<1>5. Types /\ Matching /\ Inv /\ [Next]_vars => Inv' BY KeptStep, OrderlyBefore
<1>6. Inv => EventsKept BY DEF Kept, Rising, OnWay, InOdr, EventsKept
<1> QED BY <1>1, <1>2, <1>3, <1>4, <1>5, <1>6, TypesHold, PTL DEF Spec
=============================================================================
