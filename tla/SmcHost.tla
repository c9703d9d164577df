------------------------------ MODULE SmcHost ------------------------------
(***************************************************************************)
(* The SMC host interface: the ACPI EC command port of                     *)
(* app/smchost/smchost.c and the SCI event queue of app/smchost/sci.c, in  *)
(* the event driven build (CONFIG_SMCHOST_EVENT_DRIVEN_TASK, prj.conf:40). *)
(*                                                                         *)
(* Actors: the host, one request at a time; the eSPI interrupt, which runs *)
(* smchost_acpi_handler() and executes most commands at once; the SMC      *)
(* thread, which sends prepared responses and announces events and which   *)
(* the interrupt preempts at every step; producers of events in other      *)
(* threads and interrupts.                                                 *)
(*                                                                         *)
(* Left out: the BURST status bit, which nothing here reads, and the       *)
(* command byte of the ACPI table (acpi_host_command stays 0).  No board   *)
(* of this repository defines EC_M_2_SSD_PLN.                              *)
(***************************************************************************)
EXTENDS Naturals, Sequences, SequencesExt

CONSTANTS
  BufSize,     (* SMCHOST_MAX_BUF_SIZE                                       *)
  QueueSize,   (* SCIQ_SIZE                                                  *)
  GetLen,      (* bytes in the response of a "get" command                   *)
  Cmds,        (* the commands the host uses                                 *)
  MaxTxn, MaxEvents,   (* bounds: requests, events                           *)
  MaxFaults,   (* bound: requests given up, resets, moves out of S0          *)
  MaxOutside   (* bound: events and faults together                          *)

AllCmds == {"read", "write", "space", "get", "set", "burst", "normal",
            "enable", "disable", "sx_entry", "sx_exit", "other"}

ASSUME SmcHostAssumption ==
  /\ BufSize \in Nat /\ BufSize >= 3
  /\ QueueSize \in Nat \ {0} /\ GetLen \in 1..BufSize
  /\ Cmds \subseteq AllCmds
  /\ {MaxTxn, MaxEvents, MaxFaults, MaxOutside} \subseteq Nat

VARIABLES
  (* the interface: input and output data register, status bit SCI_EVT,      *)
  (* a pulse of the SCI the host has not looked into                         *)
  ibf, odr, scievt, irq,
  (* the interrupt handler                                                   *)
  isr,                   (* where it is                                      *)
  ans,                   (* byte given to acpi_send_byte()                   *)
  req, reqLen,           (* host_req, host_req_len                           *)
  res, resLen, resIdx,   (* host_res (whose answer), its length and index    *)
  burst, normal,         (* acpi_burst_flag (0, or the request), normal flag *)
  acpiMode, sciEnabled,  (* g_acpi_state_flags                               *)
  sciQ,                  (* sci_msgq                                         *)
  (* the SMC thread *)
  sem, pc, ack, pend,    (* acpi_lock, step, burst ack to send,              *)
                         (* pend_processing                                  *)
  (* the environment *)
  s0,                    (* pwrseq_system_state() is S0                      *)
  rst,                   (* "run", "warned" or "reset" (PLT_RST# low)        *)
  h,                     (* the host's request                               *)
  os,                    (* an ACPI OS runs and serves SCIs                  *)
  txns, events, faults,
  (* auxiliary *)
  accepted, flushed,     (* events put into the queue; purged from it        *)
  seen,                  (* events the OS has read, in order                 *)
  gaveUp,                (* the host gave a request up                       *)
  overrun,               (* it began one between the thread's write of the   *)
                         (* last byte of a response and host_res_len--       *)
  mixed, stale           (* an answer, parameters of another request         *)

port == <<ibf, odr, scievt, irq>>
hand == <<isr, ans, req, reqLen, stale>>
resp == <<res, resLen, resIdx>>
flag == <<burst, normal>>
mode == <<acpiMode, sciEnabled>>
thr  == <<pc, ack, pend>>
envr == <<s0, rst, h, os, txns, events, faults>>
aux  == <<accepted, flushed, seen, gaveUp, overrun, mixed>>
vars == <<port, hand, resp, flag, mode, sciQ, sem, thr, envr, aux>>

None  == [id |-> 0, k |-> 0, ev |-> 0]      (* ODR empty: no byte has k = 0 *)
NoReq == [c |-> "none", id |-> 0]
NoIn  == [cd |-> FALSE, v |-> NoReq]
Idle  == [at |-> "idle", c |-> "none", id |-> 0, sent |-> 0, got |-> 0]

(* smchost_req_length(): parameter bytes of a command *)
ReqLength(c) ==
  CASE c \in {"read", "space", "set"} -> 1
    [] c = "write" -> 2
    [] OTHER -> 0

(* What the host sends and waits for; the EC does not know the parameter   *)
(* of "other".                                                             *)
Params(c)  == IF c = "other" THEN 1 ELSE ReqLength(c)
Answers(c) == CASE c = "get" -> GetLen
                [] c \in {"read", "space", "burst", "query"} -> 1
                [] OTHER -> 0

Init ==
  /\ ibf = NoIn /\ odr = None /\ scievt = FALSE /\ irq = FALSE
  /\ isr = "idle" /\ ans = None
  /\ req = [i \in 0..BufSize - 1 |-> NoReq] /\ reqLen = 0
  /\ res = 0 /\ resLen = 0 /\ resIdx = 0
  /\ burst = 0 /\ normal = FALSE
  (* before the first ENABLE_ACPI, or some time after it *)
  /\ acpiMode \in BOOLEAN /\ sciEnabled = TRUE /\ sciQ = << >>
  /\ sem = 0 /\ pc = "wait" /\ ack = 0 /\ pend = FALSE
  /\ s0 = TRUE /\ rst = "run" /\ h = Idle /\ os = acpiMode
  /\ txns = 0 /\ events = 0 /\ faults = 0
  /\ accepted = {} /\ flushed = {} /\ seen = << >>
  /\ gaveUp = FALSE /\ overrun = FALSE /\ mixed = FALSE /\ stale = FALSE

-----------------------------------------------------------------------------
(* sci.c *)

CanSend == sciEnabled /\ acpiMode
SciPending == CanSend /\ sciQ # << >>

(* generate_sci(): a pulse, unless disabled or not in S0 *)
SciPulse == irq' = (irq \/ (CanSend /\ s0))

MayAct == events + faults < MaxOutside

(* enqueue_sci() of event e, by another thread or, from a PS/2 keyboard,   *)
(* in an interrupt.  When SCIs are disabled nothing changes; a full queue  *)
(* or another state than S0 loses the event but still gives the signal.    *)
Enqueue ==
  LET e == events + 1
      put == s0 /\ Len(sciQ) < QueueSize
  IN
  /\ events < MaxEvents /\ MayAct /\ isr = "idle"
  /\ CanSend
  /\ events' = e
  /\ sciQ' = IF put THEN Append(sciQ, e) ELSE sciQ
  /\ accepted' = IF put THEN accepted \cup {e} ELSE accepted
  /\ sem' = 1
  /\ UNCHANGED <<port, hand, resp, flag, mode, thr, s0, rst, h, os, txns,
                 faults, flushed, seen, gaveUp, overrun, mixed>>

(* Faulty variant: the event is read but stays in the queue.               *)
SendSciEventsPeek ==
  IF acpiMode /\ odr = None
  THEN /\ odr' = [id |-> 0, k |-> 1, ev |-> IF sciQ = << >> THEN 0 ELSE Head(sciQ)]
       /\ scievt' = (scievt /\ sciQ # << >>)
       /\ UNCHANGED sciQ
       /\ SciPulse
  ELSE UNCHANGED <<odr, scievt, sciQ, irq>>

(* send_sci_events(), the answer to a query; 0 when there is no event *)
SendSciEvents ==
  IF acpiMode /\ odr = None
  THEN /\ odr' = [id |-> 0, k |-> 1, ev |-> IF sciQ = << >> THEN 0 ELSE Head(sciQ)]
       /\ scievt' = (scievt /\ sciQ # << >>)
       /\ sciQ' = IF sciQ = << >> THEN sciQ ELSE Tail(sciQ)
       /\ SciPulse
  ELSE UNCHANGED <<odr, scievt, sciQ, irq>>

-----------------------------------------------------------------------------
(* smchost_acpi_handler(), in the interrupt: nothing but the host runs     *)
(* between its steps.                                                      *)

(* Faulty variant: the index of the last response is kept.                 *)
SendToHostKeepsIdx(id, n) ==
  res' = id /\ resLen' = n /\ UNCHANGED resIdx

(* send_to_host(), n bytes *)
SendToHost(id, n) ==
  res' = id /\ resLen' = n /\ resIdx' = 0

(* smchost_cmd_handler() for command c, requested with the bytes r.  The   *)
(* response is identified by the bytes it is computed from.  "set" and     *)
(* "write" change values no part of this model reads, a normal-mode        *)
(* request and a burst are left to the thread.                             *)
Execute(c, r) ==
  /\ isr' = IF c = "read" THEN "send" ELSE "loop"
  /\ ans' = IF c = "read" THEN [id |-> r[1].id, k |-> 1, ev |-> 0] ELSE ans
  /\ IF c = "get" THEN SendToHost(r[0].id, GetLen)
     ELSE IF c = "space" THEN SendToHost(r[1].id, 1)
     ELSE UNCHANGED resp
  /\ burst' = IF c = "burst" THEN r[0].id ELSE burst
  /\ normal' = (normal \/ c = "normal")
  /\ acpiMode' = (c = "enable" \/ (acpiMode /\ c # "disable"))
  /\ sciEnabled' = (c = "sx_exit" \/ (sciEnabled /\ c # "sx_entry"))
  /\ IF c = "query" THEN SendSciEvents
     ELSE /\ scievt' = (scievt /\ c \notin {"enable", "disable"})
          /\ IF c \in {"read", "write"} THEN SciPulse ELSE UNCHANGED irq
          /\ UNCHANGED <<odr, sciQ>>
  /\ stale' = (stale \/ \E p \in 1..ReqLength(c) : r[p].id # r[0].id)

(* The byte is one of a request that is not complete. *)
Keep(c) ==
  /\ isr' = "loop"
  /\ IF c \in {"read", "write"} THEN SciPulse ELSE UNCHANGED irq
  /\ UNCHANGED <<ans, resp, flag, mode, odr, scievt, sciQ, stale>>

(* Faulty variant: a command does not restart the request.                 *)
PositionRuns == reqLen % BufSize

(* Where the byte goes: a command restarts the request. *)
Position == IF ibf.cd THEN 0 ELSE reqLen

InputFull == ibf # NoIn

(* One iteration of the loop. *)
IsrByte ==
  LET p == Position
      r == [req EXCEPT ![IF ibf.cd THEN 0 ELSE p] = ibf.v]
      c == r[0].c
      complete == c # "none" /\ ReqLength(c) = p
  IN
  /\ isr \in {"idle", "loop"} /\ InputFull
  /\ ibf.cd \/ reqLen < BufSize
  /\ ibf' = NoIn
  /\ reqLen' = p + 1
  /\ req' = IF complete THEN [r EXCEPT ![0] = NoReq] ELSE r
  /\ IF complete THEN Execute(c, r) ELSE Keep(c)
  /\ UNCHANGED <<sem, thr, envr, aux>>

(* acpi_send_byte() in acpi_read_ec(): it waits for OBF, at most 6 ms. *)
IsrSend ==
  /\ isr = "send" /\ isr' = "loop"
  /\ IF odr = None THEN odr' = ans /\ SciPulse ELSE UNCHANGED <<odr, irq>>
  /\ ans' = None
  /\ UNCHANGED <<ibf, scievt, req, reqLen, stale, resp, flag, mode, sciQ, sem,
                 thr, envr, aux>>

(* Faulty variant: the thread is not told.                                 *)
IsrEndSilent ==
  /\ isr = "loop" /\ isr' = "idle"
  /\ InputFull => ~ibf.cd /\ reqLen >= BufSize
  /\ UNCHANGED <<sem, port, ans, req, reqLen, stale, resp, flag, mode, sciQ,
                 thr, envr, aux>>

(* The end of the loop: smchost_signal_request(); when the buffer is full  *)
(* the handler returns at once and leaves the byte in the register.        *)
IsrEnd ==
  /\ isr = "loop" /\ isr' = "idle"
  /\ InputFull => ~ibf.cd /\ reqLen >= BufSize
  /\ sem' = IF InputFull THEN sem ELSE 1
  /\ UNCHANGED <<port, ans, req, reqLen, stale, resp, flag, mode, sciQ, thr,
                 envr, aux>>

-----------------------------------------------------------------------------
(* smchost_thread(): one pass of smchost_process_tasks() after another *)

Yields == {"wait", "sleep"}
Step(from, to) == isr = "idle" /\ pc = from /\ pc' = to

TakeSem ==
  /\ Step("wait", "burst")
  /\ sem = 1 /\ sem' = 0
  /\ UNCHANGED <<port, hand, resp, flag, mode, sciQ, ack, pend, envr, aux>>

(* proc_acpi_burst() *)
Burst ==
  /\ Step("burst", IF burst # 0 THEN "ack" ELSE "check")
  /\ ack' = burst /\ burst' = 0
  /\ UNCHANGED <<port, hand, resp, normal, mode, sciQ, sem, pend, envr, aux>>

AckFree ==
  /\ Step("ack", "ack_write")
  /\ odr = None
  /\ UNCHANGED <<port, hand, resp, flag, mode, sciQ, sem, ack, pend, envr, aux>>

AckTimeout ==
  /\ Step("ack", "check")
  /\ odr # None
  /\ ack' = 0 /\ SciPulse
  /\ UNCHANGED <<ibf, odr, scievt, hand, resp, flag, mode, sciQ, sem, pend,
                 envr, aux>>

AckWrite ==
  /\ Step("ack_write", "check")
  /\ odr' = [id |-> ack, k |-> 1, ev |-> 0]
  /\ ack' = 0 /\ SciPulse
  /\ UNCHANGED <<ibf, scievt, hand, resp, flag, mode, sciQ, sem, pend, envr,
                 aux>>

(* A return to normal mode is announced; check_sci_queue() looks at the    *)
(* queue, and then sets or clears SCI_EVT.                                 *)
Check ==
  /\ Step("check", IF ~CanSend THEN "send"
                   ELSE IF sciQ = << >> THEN "clear" ELSE "set")
  /\ normal' = FALSE
  /\ IF normal THEN SciPulse ELSE UNCHANGED irq
  /\ UNCHANGED <<ibf, odr, scievt, hand, resp, burst, mode, sciQ, sem, ack,
                 pend, envr, aux>>

ClearEvt ==
  /\ Step("clear", "send")
  /\ scievt' = FALSE
  /\ UNCHANGED <<ibf, odr, irq, hand, resp, flag, mode, sciQ, sem, ack, pend,
                 envr, aux>>

(* Faulty variant: the flag is set without an SCI.                         *)
NoPulse == UNCHANGED irq

Announce == SciPulse

SetEvt ==
  /\ Step("set", "send")
  /\ scievt' = TRUE
  /\ Announce
  /\ UNCHANGED <<ibf, odr, hand, resp, flag, mode, sciQ, sem, ack, pend, envr,
                 aux>>

HasResponse == resLen > 0

(* proc_host_send() looks at OBF, *)
Send ==
  /\ Step("send", IF HasResponse /\ odr = None THEN "write" ELSE "result")
  /\ UNCHANGED <<port, hand, resp, flag, mode, sciQ, sem, ack, pend, envr, aux>>

(* writes ODR, *)
Write ==
  /\ Step("write", "index")
  /\ odr' = [id |-> res, k |-> resIdx + 1, ev |-> 0]
  /\ UNCHANGED <<ibf, scievt, irq, hand, resp, flag, mode, sciQ, sem, ack, pend,
                 envr, aux>>

(* host_res_idx++, *)
Index ==
  /\ Step("index", "length")
  /\ resIdx' = resIdx + 1
  /\ UNCHANGED <<port, hand, res, resLen, flag, mode, sciQ, sem, ack, pend,
                 envr, aux>>

(* host_res_len--; bytes that were sent are forgotten. *)
Length ==
  /\ Step("length", "result")
  /\ resLen' = resLen - 1
  /\ res' = IF resLen = 1 THEN 0 ELSE res
  /\ UNCHANGED <<port, hand, resIdx, flag, mode, sciQ, sem, ack, pend,
                 envr, aux>>

PendProcessing == SciPending \/ resLen > 0

Result ==
  /\ Step("result", "delay")
  /\ pend' = PendProcessing
  /\ UNCHANGED <<port, hand, resp, flag, mode, sciQ, sem, ack, envr, aux>>

Again == IF pend THEN "burst" ELSE "wait"

(* k_msleep() only while events wait *)
Delay ==
  /\ Step("delay", IF SciPending THEN "sleep" ELSE Again)
  /\ UNCHANGED <<port, hand, resp, flag, mode, sciQ, sem, ack, pend, envr, aux>>

Wake ==
  /\ Step("sleep", Again)
  /\ UNCHANGED <<port, hand, resp, flag, mode, sciQ, sem, ack, pend, envr, aux>>

-----------------------------------------------------------------------------
(* smchost_host_rst_warn_handler(), smchost_pltrst_handler(): an orderly   *)
(* reset of the host, which sends nothing from the warning until PLT_RST#  *)
(* is high again; and the moves of the power sequencer, a cooperative      *)
(* thread like this one, out of and into S0.                               *)

ResetWarn ==
  /\ isr = "idle" /\ ~InputFull /\ rst = "run" /\ rst' = "warned"
  /\ faults < MaxFaults /\ MayAct /\ faults' = faults + 1
  /\ sciEnabled' = FALSE
  /\ sciQ' = << >>
  /\ flushed' = flushed \cup ToSet(sciQ)
  /\ UNCHANGED <<port, hand, resp, flag, acpiMode, sem, thr, s0, h, os, txns,
                 events, accepted, seen, gaveUp, overrun, mixed>>

(* The request of the host is gone. *)
PltRstLow ==
  /\ isr = "idle" /\ rst = "warned" /\ rst' = "reset"
  /\ sciEnabled' = FALSE
  /\ h' = Idle /\ os' = FALSE /\ irq' = FALSE
  /\ gaveUp' = (gaveUp \/ h # Idle \/ odr # None)
  /\ UNCHANGED <<ibf, odr, scievt, hand, resp, flag, acpiMode, sciQ, sem, thr,
                 s0, txns, events, faults, accepted, flushed, seen,
                 overrun, mixed>>

PltRstHigh ==
  /\ isr = "idle" /\ rst = "reset" /\ rst' = "run"
  /\ sciEnabled' = TRUE
  /\ UNCHANGED <<port, hand, resp, flag, acpiMode, sciQ, sem, thr, s0, h, os,
                 txns, events, faults, aux>>

LeaveOrEnterS0 ==
  /\ isr = "idle" /\ pc \in Yields
  /\ s0' = ~s0
  /\ s0 => faults < MaxFaults /\ MayAct
  /\ faults' = IF s0 THEN faults + 1 ELSE faults
  /\ UNCHANGED <<port, hand, resp, flag, mode, sciQ, sem, thr, rst, h, os, txns,
                 events, aux>>

-----------------------------------------------------------------------------
(* The host: it waits for IBF to be clear before it writes, and polls OBF  *)
(* for its answer.                                                         *)

Begin(c, id) ==
  /\ rst = "run" /\ h.at = "idle" /\ ~InputFull
  /\ ibf' = [cd |-> TRUE, v |-> [c |-> c, id |-> id]]
  /\ h' = [at |-> "send", c |-> c, id |-> id, sent |-> 0, got |-> 0]
  /\ overrun' = (overrun \/ pc \in {"index", "length"})

Request(c) ==
  /\ txns < MaxTxn /\ txns' = txns + 1
  /\ Begin(c, txns + 1)
  /\ os' = (os /\ c # "disable")
  /\ UNCHANGED <<odr, scievt, irq, hand, resp, flag, mode, sciQ, sem, thr, s0,
                 rst, events, faults, accepted, flushed, seen, gaveUp, mixed>>

(* An SCI was raised and SCI_EVT is set. *)
Query ==
  /\ os /\ irq /\ scievt
  /\ Begin("query", 0)
  /\ irq' = FALSE
  /\ UNCHANGED <<odr, scievt, hand, resp, flag, mode, sciQ, sem, thr, s0, rst,
                 os, txns, events, faults, accepted, flushed, seen, gaveUp,
                 mixed>>

IgnoreSci ==
  /\ irq /\ ~(os /\ scievt) /\ irq' = FALSE
  /\ UNCHANGED <<ibf, odr, scievt, hand, resp, flag, mode, sciQ, sem, thr,
                 envr, aux>>

SendParam ==
  /\ rst = "run" /\ h.at = "send" /\ h.sent < Params(h.c) /\ ~InputFull
  /\ ibf' = [cd |-> FALSE, v |-> [c |-> "data", id |-> h.id]]
  /\ h' = [h EXCEPT !.sent = @ + 1]
  /\ UNCHANGED <<odr, scievt, irq, hand, resp, flag, mode, sciQ, sem, thr, s0,
                 rst, os, txns, events, faults, aux>>

Sent ==
  /\ h.at = "send" /\ h.sent = Params(h.c) /\ ~InputFull
  /\ h' = IF Answers(h.c) > 0 THEN [h EXCEPT !.at = "read"] ELSE Idle
  /\ os' = (os \/ (h.c = "enable" /\ isr = "idle"))
  /\ h.c = "enable" => isr = "idle"
  /\ UNCHANGED <<port, hand, resp, flag, mode, sciQ, sem, thr, s0, rst, txns,
                 events, faults, aux>>

Read ==
  /\ h.at = "read" /\ odr # None
  /\ odr' = None
  /\ h' = IF h.got + 1 = Answers(h.c) THEN Idle ELSE [h EXCEPT !.got = @ + 1]
  /\ mixed' = (mixed \/ odr.id # h.id \/ odr.k # h.got + 1)
  /\ seen' = IF odr.ev = 0 THEN seen ELSE Append(seen, odr.ev)
  /\ UNCHANGED <<ibf, scievt, irq, hand, resp, flag, mode, sciQ, sem, thr, s0,
                 rst, os, txns, events, faults, accepted, flushed,
                 gaveUp, overrun>>

GiveUp ==
  /\ h.at # "idle" /\ faults < MaxFaults /\ MayAct /\ faults' = faults + 1
  /\ h' = Idle
  /\ gaveUp' = TRUE
  /\ UNCHANGED <<port, hand, resp, flag, mode, sciQ, sem, thr, s0, rst, os, txns,
                 events, accepted, flushed, seen, overrun, mixed>>

(* After that it may read what it finds. *)
Drain ==
  /\ h.at = "idle" /\ gaveUp /\ odr # None /\ odr' = None
  /\ UNCHANGED <<ibf, scievt, irq, hand, resp, flag, mode, sciQ, sem, thr, envr,
                 aux>>

-----------------------------------------------------------------------------
Isr == IsrByte \/ IsrSend \/ IsrEnd
Thread == \/ TakeSem \/ Burst \/ AckFree \/ AckTimeout \/ AckWrite
          \/ Check \/ ClearEvt \/ SetEvt \/ Send \/ Write \/ Index \/ Length
          \/ Result \/ Delay \/ Wake
GoOn == SendParam \/ Sent \/ Read
TakeSci == Query \/ IgnoreSci
Environment == \/ Enqueue \/ ResetWarn \/ PltRstLow \/ PltRstHigh
               \/ LeaveOrEnterS0 \/ GiveUp \/ Drain
               \/ \E c \in Cmds : Request(c)

Next == Isr \/ Thread \/ GoOn \/ TakeSci \/ Environment

Spec == Init /\ [][Next]_vars

(* Interrupts are taken, the thread is scheduled, and the host goes on     *)
(* with the request it has begun, or gives up, and looks into SCIs it sees *)
(* announced.                                                              *)
FairSpec == /\ Spec
            /\ WF_vars(Isr) /\ WF_vars(Thread)
            /\ WF_vars(GoOn) /\ WF_vars(Query)

-----------------------------------------------------------------------------
Bytes == [id : 0..MaxTxn, k : 0..BufSize, ev : 0..MaxEvents]
Values == [c : AllCmds \cup {"query", "data", "none"}, id : 0..MaxTxn]

(* Types; the response never has a length below 0 and its index never      *)
(* leaves host_res, wherever the interrupt replaces it.                    *)
TypeOK ==
  /\ ibf \in [cd : BOOLEAN, v : Values] /\ {odr, ans} \subseteq Bytes
  /\ {scievt, irq, normal, pend, s0, os} \subseteq BOOLEAN
  /\ {acpiMode, sciEnabled, gaveUp, overrun, mixed, stale} \subseteq BOOLEAN
  /\ isr \in {"idle", "loop", "send"}
  /\ req \in [0..BufSize - 1 -> Values] /\ reqLen \in 0..BufSize
  /\ res \in 0..MaxTxn
  /\ resLen \in 0..BufSize /\ resIdx \in 0..BufSize
  /\ pc \in {"write", "index", "length"} \/ resIdx + resLen <= BufSize
  /\ burst \in 0..MaxTxn /\ ack \in 0..MaxTxn
  /\ sciQ \in Seq(1..MaxEvents) /\ Len(sciQ) <= QueueSize
  /\ sem \in 0..1
  /\ pc \in {"wait", "burst", "ack", "ack_write", "check", "clear",
             "set", "send", "write", "index", "length", "result", "delay",
             "sleep"}
  /\ rst \in {"run", "warned", "reset"}
  /\ h \in [at : {"idle", "send", "read"}, c : AllCmds \cup {"query", "none"},
            id : 0..MaxTxn, sent : 0..2, got : 0..BufSize]
  /\ txns \in 0..MaxTxn /\ events \in 0..MaxEvents
  /\ faults \in 0..MaxFaults
  /\ accepted \subseteq 1..MaxEvents /\ flushed \subseteq accepted
  /\ seen \in Seq(accepted)

(* The host waits for its answers, and does not begin the next request     *)
(* while proc_host_send() is between the write of the last byte and        *)
(* host_res_len--.                                                         *)
Orderly == ~gaveUp /\ ~overrun

(* An orderly host gets, byte by byte, the answers to its own request,     *)
(* though three writers share ODR, the interrupt, the burst acknowledge    *)
(* and the response the thread sends, and the interrupt may come late.     *)
AnswersMatch == Orderly => ~mixed

(* A command never runs with parameters of an earlier request, also when   *)
(* the host gave that one up half sent.                                    *)
OwnParameters == ~stale

(* Every event that entered the queue is read by the OS once and in order, *)
(* or was flushed by a reset warning, or is still on its way.              *)
EventsKept ==
  LET onWay == seen \o (IF odr.ev = 0 THEN << >> ELSE <<odr.ev>>) \o sciQ IN
  Orderly =>
    /\ ToSet(onWay) \cup flushed = accepted
    /\ \A i, j \in 1..Len(onWay) : i < j => onWay[i] < onWay[j]

(* While events can be announced and an OS serves them, the queue empties, *)
(* even if single SCIs are lost on the way out of and into S0.  A host     *)
(* that has lost an answer queries no more.                                *)
EventsServed == []<>(sciQ = << >> \/ ~(CanSend /\ s0 /\ os) \/ overrun)

(* An orderly host that waits for an answer gets one.                      *)
OrderlyAnswered == []<>(h.at # "read" \/ overrun)

(* smchost.h:67 "Send data to SMC host.": the host does not wait for its   *)
(* answer for ever, whenever it began its request.                         *)
RequestsAnswered == []<>(h.at # "read")
=============================================================================
