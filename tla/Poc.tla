-------------------------------- MODULE Poc --------------------------------
(***************************************************************************)
(* The firmware as the default configuration builds it: main() brings the  *)
(* eSPI hub (EspiHub) up, then the power sequencer of the proof of concept *)
(* (app/power_sequencing/poc_pwrseq.c) follows the sleep signals and the   *)
(* command port (app/smchost/poc_smchost.c over drivers/acpi_ls.c) serves  *)
(* the host's EC commands in a thread of its own.                          *)
(*                                                                         *)
(* Bus events and the input-buffer interrupt come between any two steps.   *)
(* The KCS hardware is external: IBF is cleared by the EC's read of  *)
(* the data, OBF by the host's.                                            *)
(*                                                                         *)
(* Left out: the functions nobody calls in this build (pwrseq_error(),     *)
(* therm_shutdown(), set_next_state_to_S5()), the software registers used  *)
(* without a KCS device, the values in the ACPI table, the SCI pulse a     *)
(* byte of a request sends in S0, the simulated power sequence.            *)
(***************************************************************************)
EXTENDS EspiHub, FiniteSets

CONSTANTS
  BufSize,       (* SMCHOST_MAX_BUF_SIZE                                     *)
  Tries,         (* HOST_TIMEOUT, polls of OBF                               *)
  Cmds,          (* the commands the host uses                               *)
  Data,          (* the data it writes: "write" is 81h, which looks like     *)
                 (* EC_WRITE                                                 *)
  Sent,          (* the warnings the host sends                              *)
  MaxEvents,     (* bound: bus events                                        *)
  MaxReqs,       (* bound: requests                                          *)
  MaxStray,      (* bound: data bytes outside a request                      *)
  MaxWork        (* bound: bus events, requests and stray bytes together     *)

ASSUME PocAssumption ==
  /\ BufSize \in Nat /\ BufSize > 3
  /\ Tries \in Nat \ {0}
  /\ Cmds \subseteq {"read", "write", "query", "burst"}
  /\ Data \subseteq {"data", "write"} /\ Sent \subseteq Warns
  /\ {MaxEvents, MaxReqs, MaxStray, MaxWork} \subseteq Nat

VARIABLES
  pcM, val,            (* main(): step of espihub_init(), level it has read  *)
  missed,              (* auxiliary: the channel changed between the two     *)
  pcP, cur, nxt, slp, led,   (* the power sequencer; slp_s3, slp_s4, slp_s5  *)
  pcS, sem,            (* the command thread; smc_evt                        *)
  req, len, tries,     (* host_req, host_req_len, polls left for OBF         *)
  ibf, odr,            (* the KCS registers, NoByte when empty               *)
  h,                   (* the host's request                                 *)
  lost,                (* auxiliary: the EC gave an answer up                *)
  events, stray

main == <<pcM, val, missed>>
seq == <<pcP, cur, nxt, slp, led>>
thread == <<pcS, req, len, tries>>
port == <<sem, ibf, odr>>
host == <<h, stray>>
hostAll == <<host, lost>>
MayWork == events + h.id + stray < MaxWork
vars == <<hub, handlers, bus, main, seq, thread, port, hostAll, events>>

(* A byte: a command or data, whether it was written to the command port,  *)
(* and the request it belongs to (0: to none).                             *)
NoByte == [v |-> "none", cd |-> FALSE, id |-> 0]
Bytes == [v : Cmds \cup Data \cup {"none", "rsp"}, cd : BOOLEAN, id : 0..MaxReqs]

(* smchost_req_length() *)
ReqLength(c) == CASE c = "read" -> 1 [] c = "write" -> 2 [] OTHER -> 0

TypeOK ==
  /\ HubTypeOK
  /\ pcM \in {"config", "read", "store", "rstRead", "rstStore", "run"}
  /\ {val, missed} \subseteq BOOLEAN
  /\ pcP \in {"off", "warn", "test", "set", "sleep"}
  /\ {cur, nxt} \subseteq {"G3", "S0", "S3", "S4", "S5"}
  /\ slp \in [Slps -> BOOLEAN] /\ led \in BOOLEAN
  /\ pcS \in {"off", "wait", "take", "exec", "send"}
  /\ req \in [0..BufSize - 1 -> Bytes] /\ len \in 0..BufSize /\ tries \in 0..Tries
  /\ {ibf, odr} \subseteq Bytes /\ {sem, lost} \subseteq BOOLEAN
  /\ h \in [at : {"idle", "params", "await", "drain"}, id : 0..MaxReqs,
            c : Cmds \cup {"none"}, sent : 0..1, stale : BOOLEAN]
  /\ events \in 0..MaxEvents /\ stray \in 0..MaxStray

Init ==
  /\ HubInit /\ pcM = "config" /\ val = FALSE /\ missed = FALSE
  /\ pcP = "off" /\ cur = "G3" /\ nxt = "G3"
  /\ slp = [w \in Slps |-> TRUE] /\ led = FALSE
  /\ pcS = "off" /\ sem = FALSE
  /\ req = [i \in 0..BufSize - 1 |-> NoByte] /\ len = 0 /\ tries = 0
  /\ ibf = NoByte /\ odr = NoByte
  /\ h = [at |-> "idle", id |-> 0, c |-> "none", sent |-> 0, stale |-> FALSE]
  /\ lost = FALSE /\ events = 0 /\ stray = 0

(***************************************************************************)
(* main(): espihub_init(), then the threads.                               *)
(***************************************************************************)
Boot(from, to) == pcM = from /\ pcM' = to

Configure ==
  /\ Boot("config", "read") /\ AddCallbacks
  /\ UNCHANGED <<handlers, bus, val, missed, seq, thread, port, hostAll, events>>

ReadReady ==
  /\ Boot("read", "store") /\ val' = chan
  /\ UNCHANGED <<hub, handlers, bus, missed, seq, thread, port, hostAll, events>>

StoreReadyStep ==
  /\ Boot("store", "rstRead") /\ StoreReady(val) /\ val' = FALSE
  /\ missed' = (val # chan)
  /\ UNCHANGED <<handlers, bus, seq, thread, port, hostAll, events>>

ReadReset ==
  /\ Boot("rstRead", "rstStore") /\ val' = reset
  /\ UNCHANGED <<hub, handlers, bus, missed, seq, thread, port, hostAll, events>>

StartTasks ==
  /\ Boot("rstStore", "run") /\ StoreReset(val) /\ val' = FALSE
  /\ pcP' = "warn" /\ pcS' = "wait" /\ AddHandler("state")
  /\ UNCHANGED <<bus, missed, cur, nxt, slp, led, req, len, tries>>
  /\ UNCHANGED <<port, hostAll, events>>

(* The threads are cooperative: one runs while no other is between two of  *)
(* its sleeps.                                                             *)
PwrMay == pcS \in {"off", "wait"}
SmcMay == pcP = "sleep"

(***************************************************************************)
(* The power sequencer.  The thread registers its handlers, then compares  *)
(* and copies next_state every period; the handler may change it between.  *)
(***************************************************************************)
Register ==
  /\ pcP = "warn" /\ pcP' = "test" /\ AddHandler("sus")
  /\ UNCHANGED <<hub, bus, main, cur, nxt, slp, led, thread, port, hostAll, events>>

Compare ==
  /\ pcP = "test" /\ pcP' = IF cur # nxt THEN "set" ELSE "sleep"
  /\ UNCHANGED <<hub, handlers, bus, main, cur, nxt, slp, led, thread, port, hostAll, events>>

(* next_state is read again; the LED shows S0. *)
Commit ==
  /\ pcP = "set" /\ pcP' = "sleep" /\ cur' = nxt /\ led' = (nxt = "S0")
  /\ UNCHANGED <<hub, handlers, bus, main, nxt, slp, thread, port, hostAll, events>>

Sleep ==
  /\ PwrMay /\ pcP = "sleep" /\ pcP' = "test"
  /\ UNCHANGED <<hub, handlers, bus, main, cur, nxt, slp, led, thread, port, hostAll, events>>

(* pwrseq_slp_handler(): the state the recorded levels mean.               *)
StateOfNoS3(s) == IF s["s5"] THEN IF s["s4"] THEN "S0" ELSE "S4" ELSE "S5"
StateOf(s) ==
  CASE s["s5"] /\ s["s4"] /\ s["s3"]  -> "S0"
    [] s["s5"] /\ s["s4"] /\ ~s["s3"] -> "S3"
    [] s["s5"] /\ ~s["s4"]            -> "S4"
    [] ~s["s5"]                       -> "S5"

(***************************************************************************)
(* Bus events.                                                             *)
(***************************************************************************)
BusMay == MayWork /\ events < MaxEvents /\ events' = events + 1

Slp(w) ==
  /\ BusMay /\ SlpEvent(w)
  /\ LET s == [slp EXCEPT ![w] = ~wires[w]]
     IN  IF SlpTold THEN slp' = s /\ nxt' = StateOf(s) ELSE UNCHANGED <<slp, nxt>>
  /\ UNCHANGED <<main, pcP, cur, led, thread, port, hostAll>>

(* pwrseq_sus_handler() answers every SUS_WARN. *)
Warn(w) ==
  /\ BusMay /\ WarnEvent(w, TRUE)
  /\ UNCHANGED <<main, seq, thread, port, hostAll>>

Channel(on) ==
  /\ BusMay /\ ChannelEvent(on) /\ missed' = FALSE
  /\ UNCHANGED <<pcM, val, seq, thread, port, hostAll>>

Reset ==
  /\ BusMay /\ ResetEvent
  /\ UNCHANGED <<main, seq, thread, port, hostAll>>

BusEvent ==
  \/ \E w \in Slps : Slp(w)
  \/ \E w \in Sent : Warn(w)
  \/ \E on \in BOOLEAN : Channel(on)
  \/ Reset

(***************************************************************************)
(* The command thread: it waits for smc_evt or a period, then takes bytes  *)
(* while IBF is set.                                                       *)
(***************************************************************************)
Step(from, to) == SmcMay /\ pcS = from /\ pcS' = to

TakeSem ==
  /\ Step("wait", "take") /\ sem' = FALSE
  /\ UNCHANGED <<hub, handlers, bus, main, seq, req, len, tries, ibf, odr, hostAll, events>>

NoInput ==
  /\ ibf = NoByte /\ Step("take", "wait")
  /\ UNCHANGED <<hub, handlers, bus, main, seq, req, len, tries, port, hostAll, events>>

(* Where the byte goes: a command to the front; data at the running count. *)
PositionSticks == IF ibf.cd /\ req[0] = NoByte THEN 0 ELSE len
Position == IF ibf.cd THEN 0 ELSE len

Fits == Position < BufSize

Take ==
  /\ ibf # NoByte /\ Fits
  /\ Step("take", "exec") /\ ibf' = NoByte
  /\ req' = [i \in DOMAIN req \cup {Position} |-> IF i = Position THEN ibf ELSE req[i]]
  /\ len' = Position
  /\ UNCHANGED <<hub, handlers, bus, main, seq, tries, sem, odr, hostAll, events>>

(* The buffer is full: the byte is read and dropped, the poll ends. *)
Drop == ibf' = NoByte

Overflow ==
  /\ ibf # NoByte /\ ~Fits
  /\ Step("take", "wait") /\ Drop
  /\ UNCHANGED <<hub, handlers, bus, main, seq, req, len, tries, sem, odr, hostAll, events>>

Complete == req[0] # NoByte /\ ReqLength(req[0].v) = len

(* The byte is done with: the count moves on after every byte, whether a   *)
(* request is complete, incomplete or was never begun.                     *)
Count == len' = len + 1

Continue ==
  /\ ~Complete /\ Step("exec", "take") /\ Count
  /\ UNCHANGED <<hub, handlers, bus, main, seq, req, tries, port, hostAll, events>>

(* handle_ec_command(): EC_WRITE stores a byte; EC_READ and EC_QUERY send  *)
(* one; the rest does nothing.                                             *)
AnsweringRead == {"read"}
Answering == {"read", "query"}

ExecQuiet ==
  /\ Complete /\ req[0].v \notin Answering /\ Step("exec", "take")
  /\ req' = [req EXCEPT ![0] = NoByte] /\ Count
  /\ UNCHANGED <<hub, handlers, bus, main, seq, tries, port, hostAll, events>>

ExecAnswer ==
  /\ Complete /\ req[0].v \in Answering /\ Step("exec", "send")
  /\ tries' = Tries
  /\ UNCHANGED <<hub, handlers, bus, main, seq, req, len, port, hostAll, events>>

(* acpi_send_byte(): write when OBF is clear; give the byte up after too   *)
(* many polls.                                                             *)
SendDone(drop) ==
  /\ Step("send", "take") /\ req' = [req EXCEPT ![0] = NoByte] /\ Count /\ tries' = 0
  /\ lost' = (lost \/ drop)
  /\ odr' = IF drop THEN odr
            ELSE [v |-> "rsp", cd |-> FALSE, id |-> req[0].id]
  /\ UNCHANGED <<hub, handlers, bus, main, seq, sem, ibf, host, events>>

PollObf ==
  /\ SmcMay /\ pcS = "send" /\ odr # NoByte /\ tries > 0 /\ tries' = tries - 1
  /\ UNCHANGED <<hub, handlers, bus, main, seq, pcS, req, len, port, hostAll, events>>

Send == odr = NoByte /\ tries > 0 /\ SendDone(FALSE)
GiveByteUp == pcS = "send" /\ tries = 0 /\ SendDone(TRUE)

(***************************************************************************)
(* The host.  It writes when the threads run (a byte written before would  *)
(* wait in IBF for the first poll) and only while IBF is clear, and may    *)
(* abandon a request before its last parameter.  Having sent all of it, it *)
(* gives an answer up and goes on when the EC is idle; a byte it finds in  *)
(* ODR when it begins a request is stale and dropped, perhaps late.        *)
(* Between requests it may write data nobody asked for, but its first byte *)
(* is a command.                                                           *)
(***************************************************************************)
Write(byte) == pcS # "off" /\ ibf = NoByte /\ ibf' = byte /\ sem' = TRUE

HostOnly == UNCHANGED <<hub, handlers, bus, main, seq, thread, events, lost>>

Params == [read |-> 1, write |-> 2]

Begin(c) ==
  /\ h.at \in {"idle", "params"} /\ h.id < MaxReqs /\ MayWork
  /\ Write([v |-> c, cd |-> TRUE, id |-> h.id + 1])
  /\ h' = [at |-> IF c \in DOMAIN Params THEN "params"
                  ELSE IF c = "query" THEN "await" ELSE "idle",
           c |-> IF c \in DOMAIN Params THEN c ELSE "none",
           id |-> h.id + 1, sent |-> 0, stale |-> odr # NoByte]
  /\ UNCHANGED <<odr, stray>> /\ HostOnly

Param(v) ==
  /\ h.at = "params" /\ Write([v |-> v, cd |-> FALSE, id |-> h.id])
  /\ h' = IF h.sent + 1 < Params[h.c] THEN [h EXCEPT !.sent = 1]
          ELSE [h EXCEPT !.at = IF h.c = "read" THEN "await" ELSE "idle",
                         !.c = "none", !.sent = 0]
  /\ UNCHANGED <<odr, stray>> /\ HostOnly

Read ==
  /\ h.at = "await" /\ ~h.stale /\ odr # NoByte /\ odr' = NoByte
  /\ h' = [h EXCEPT !.at = "idle"]
  /\ UNCHANGED <<ibf, sem, stray>> /\ HostOnly

DropStale ==
  /\ h.stale /\ odr' = NoByte /\ h' = [h EXCEPT !.stale = FALSE]
  /\ UNCHANGED <<ibf, sem, stray>> /\ HostOnly

GiveUp ==
  /\ h.at = "await" /\ h' = [h EXCEPT !.at = "drain"]
  /\ UNCHANGED <<port, stray>> /\ HostOnly

Resume ==
  /\ h.at = "drain" /\ pcS = "wait" /\ ibf = NoByte
  /\ h' = [h EXCEPT !.at = "idle"]
  /\ UNCHANGED <<port, stray>> /\ HostOnly

Stray(v) ==
  /\ h.at = "idle" /\ h.id > 0 /\ MayWork /\ stray < MaxStray /\ stray' = stray + 1
  /\ Write([v |-> v, cd |-> FALSE, id |-> 0])
  /\ UNCHANGED <<odr, h>> /\ HostOnly

Host ==
  \/ \E c \in Cmds : Begin(c)
  \/ \E v \in Data : Param(v) \/ Stray(v)
  \/ Read \/ DropStale \/ GiveUp \/ Resume

Main == Configure \/ ReadReady \/ StoreReadyStep \/ ReadReset \/ StartTasks
PwrThread == Register \/ Compare \/ Commit \/ Sleep
SmcThread ==
  \/ TakeSem \/ NoInput \/ Take \/ Overflow \/ Continue
  \/ ExecQuiet \/ ExecAnswer \/ PollObf \/ Send \/ GiveByteUp

Next == Main \/ PwrThread \/ SmcThread \/ BusEvent \/ Host

Spec == Init /\ [][Next]_vars

(* Each thread sleeps once a pass and the scheduler keeps the other, ready *)
(* meanwhile, in its queue: a thread that is ready again and again runs.   *)
FairSpec == Spec /\ WF_vars(Main) /\ SF_vars(PwrThread) /\ SF_vars(SmcThread)

(***************************************************************************)
(* Properties                                                              *)
(***************************************************************************)
(* Every warning the EC was told of is answered with its level, SUS_WARN   *)
(* only by the power sequencer and through espihub_send_vw(), whatever the *)
(* channel went through.  The exception is what espihub_init() does when   *)
(* the channel changes between the read of its status and the store        *)
(* (espi_hub.c:427): until it changes again SUS_ACK is withheld.           *)
WarningsAnswered ==
  \A w \in heard \cap Warns : acks[w] = wires[w] \/ (w = "sus" /\ missed)

(* A command is executed with the parameters of its own request, however   *)
(* many requests were abandoned and stray bytes written before.            *)
OwnParameters ==
  pcS \in {"exec", "send"} /\ Complete =>
    \A i \in 1..ReqLength(req[0].v) : req[i].id = req[0].id

(* Once each sleep signal was heard of, the state of the system in the end *)
(* is the deepest one the signals ask for, and the LED shows S0.           *)
Asked == IF ~wires["s5"] THEN "S5" ELSE IF ~wires["s4"] THEN "S4"
         ELSE IF ~wires["s3"] THEN "S3" ELSE "S0"

FollowsSignals ==
  <>[](Slps \subseteq heard => cur = Asked /\ led = (Asked = "S0"))

(* The port does not jam: every byte the host writes is taken, one beyond  *)
(* the buffer too (poc_smchost.c:129-133), and a host that waits for an    *)
(* answer finds a byte, unless it has left a stale one in ODR for so long  *)
(* that the EC gave the answer up.                                         *)
RequestsAnswered ==
  /\ []<>(ibf = NoByte)
  /\ (h.at = "await") ~> (odr # NoByte \/ h.at # "await" \/ lost)
=============================================================================
