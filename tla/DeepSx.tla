------------------------------- MODULE DeepSx ------------------------------
(***************************************************************************)
(* Deep Sx, the build with CONFIG_PWRMGMT_DEEPSX: deepsx.c and dswmode.c   *)
(* of app/power_sequencing, as a pass of pwrseq_thread() calls them, over  *)
(* the eSPI hub (EspiHub) and the EEPROM (drivers/eeprom.c).               *)
(*                                                                         *)
(* In S4 or S5 the SoC warns (SUS_WARN# low); the EC acknowledges, waits   *)
(* for SLP_SUS#, asserts RSMRST#.  The SoC's rails go off and with them    *)
(* the eSPI bus.  On a wake the rails and RSMRST# come back, the bus       *)
(* leaves its reset, the SoC raises SUS_WARN# and goes on to S0 once that  *)
(* is acknowledged.                                                        *)
(*                                                                         *)
(* The transitions between S0, S4 and S5 are those of PwrPlane and one     *)
(* step here.  The SoC is external.  Left out: deep S3, which does not     *)
(* compile (deepsx.c:95 assigns a variable nobody declares), the VCI of    *)
(* another SoC family, pseudo G3.                                          *)
(***************************************************************************)
EXTENDS EspiHub, FiniteSets

CONSTANTS
  Modes,         (* the deep Sx modes the BIOS uses, see dswmode.h           *)
  Polls,         (* PM_SLP_SUS_TIMEOUT, ESPI_RST_TIMEOUT                     *)
  MaxSleeps,     (* bound: entries into S4 or S5                             *)
  MaxUpdates,    (* bound: modes the BIOS sends                              *)
  MaxFaults      (* bound: failed pin reads, EEPROM writes and reads         *)

ASSUME DeepSxAssumption ==
  /\ Modes \subseteq 0..7 /\ Polls \in Nat \ {0}
  /\ {MaxSleeps, MaxUpdates, MaxFaults} \subseteq Nat

VARIABLES
  pc,                (* the PWR thread                                       *)
  cur, nxt,          (* current_state, next_state: "S0", "S4", "S5"          *)
  deep, slpM,        (* sys_deep_sx, slp_m                                   *)
  left, warn,        (* polls left; the SUS_WARN# level read                 *)
  valid, tmp, upd,   (* dsw_valid_config, dsw_tmp_config, dsw_mode_update    *)
  rom,               (* the mode in the EEPROM                               *)
  rsmrst, ds3,       (* the pins PM_RSMRST and PM_DS3                        *)
  seen,              (* g_pwrflags.pm_rsmrst: RSMRST_PWRGD as last read      *)
  soc,               (* what the SoC does                                    *)
  slpSus, pwrgd, slpA,   (* SLP_SUS#, RSMRST_PWRGD, the wire SLP_A#          *)
  bios,              (* auxiliary: the last mode the BIOS sent or found      *)
  sleeps, updates, faults

ec == <<pc, cur, deep, slpM, left, warn, rsmrst, ds3, seen>>
mode == <<valid, tmp, upd, rom>>
pch == <<soc, slpSus, pwrgd, slpA>>
count == <<sleeps, updates, faults>>
hubAll == <<hub, handlers, bus>>
vars == <<ec, nxt, mode, pch, bios, count, hubAll>>

Suspended == {"sus", "off", "waking", "rails", "reset", "chan", "resume"}

TypeOK ==
  /\ HubTypeOK
  /\ pc \in {"sleep", "ramp", "deep", "ack", "sendLow", "pin", "assert", "drop",
             "exit", "release", "await", "ackHigh", "sendHigh", "update", "save", "store", "write"}
  /\ {cur, nxt} \subseteq {"S0", "S4", "S5"}
  /\ {deep, slpM, warn, upd, rsmrst, ds3, seen, slpSus, pwrgd, slpA} \subseteq BOOLEAN
  /\ left \in 0..Polls /\ {valid, tmp, rom, bios} \subseteq Modes \cup {0}
  /\ soc \in {"on", "sx", "warned"} \cup Suspended
  /\ sleeps \in 0..MaxSleeps /\ updates \in 0..MaxUpdates /\ faults \in 0..MaxFaults

(* A running system with a mode saved earlier. *)
Init ==
  /\ hub = [on |-> TRUE, ready |-> TRUE, rst |-> TRUE, dnx |-> FALSE]
  /\ handlers = {"state", "sus"} /\ heard = {} /\ chan = TRUE /\ reset = TRUE
  /\ wires = [w \in Slps \cup Warns |-> w \in Slps \cup {"sus"}]
  /\ acks = [w \in Warns |-> w = "sus"]
  /\ pc = "sleep" /\ cur = "S0" /\ nxt = "S0"
  /\ deep = FALSE /\ slpM = FALSE /\ left = 0 /\ warn = FALSE
  /\ rom \in Modes \cup {0} /\ valid = rom /\ tmp = rom /\ bios = rom /\ upd = FALSE
  /\ rsmrst = TRUE /\ ds3 = FALSE /\ seen = TRUE
  /\ soc = "on" /\ slpSus = TRUE /\ pwrgd = TRUE /\ slpA = TRUE
  /\ sleeps = 0 /\ updates = 0 /\ faults = 0

Goto(from, to) == pc = from /\ pc' = to
Fault == faults < MaxFaults /\ faults' = faults + 1 /\ UNCHANGED <<sleeps, updates>>
ECOnly == UNCHANGED <<pch, bios, hubAll, nxt>>

(***************************************************************************)
(* A pass of pwrseq_thread().                                              *)
(***************************************************************************)
(* RSMRST# follows RSMRST_PWRGD in every pass; the thread delays when it   *)
(* reads a level that rose since it last did, whatever RSMRST# is.         *)
Sample ==
  /\ \/ pwrgd /\ ~seen /\ Goto("sleep", "ramp") /\ UNCHANGED <<rsmrst, seen>>
     \/ ~(pwrgd /\ ~seen) /\ Goto("sleep", "deep") /\ rsmrst' = pwrgd /\ seen' = pwrgd
  /\ UNCHANGED <<cur, deep, slpM, left, warn, ds3, mode, count>> /\ ECOnly

Ramp ==
  /\ Goto("ramp", "deep") /\ rsmrst' = TRUE /\ seen' = TRUE
  /\ UNCHANGED <<cur, deep, slpM, left, warn, ds3, mode, count>> /\ ECOnly

(* manage_deep_s4s5() runs in S4 and S5 when a mode is enabled.            *)
Enabled == valid # 0
Managed == Enabled /\ cur \in {"S4", "S5"}

(* The conditions of the modes; the thread reads SLP_A# anew every pass.   *)
Allowed(m, state, mOn) == m # 0 /\ ~mOn /\ (m \in {1, 2} => state = "S5")

(* The warning of deep_sx_enter(); ack_deep_sleep_transition() reads       *)
(* SUS_WARN# once more.                                                    *)
MayEnter == hub.rst /\ ~wires["sus"]

Deep ==
  /\ LET entering == Managed /\ ~deep /\ Allowed(valid, cur, slpA) /\ MayEnter
     IN  /\ Goto("deep", CASE Managed /\ deep -> "exit" [] entering -> "ack"
                           [] OTHER -> "update")
         /\ slpM' = IF Managed /\ ~deep THEN slpA ELSE slpM
         /\ ds3' = (ds3 \/ entering)
  /\ UNCHANGED <<seen, cur, deep, left, warn, rsmrst, mode, count>> /\ ECOnly

(* ack_deep_sleep_transition(): refuse unless the warning is the expected  *)
(* one, then send back what was read; the host may change it in between.   *)
ReadWarn(from, to, level) ==
  /\ warn' = wires["sus"]
  /\ Goto(from, IF wires["sus"] = level THEN to ELSE "update")
  /\ UNCHANGED <<seen, cur, slpM, left, rsmrst, ds3, mode, count>> /\ ECOnly

Acknowledge == IF CanSend THEN acks' = [acks EXCEPT !["sus"] = warn] ELSE UNCHANGED acks

AckLow == ReadWarn("ack", "sendLow", FALSE) /\ UNCHANGED deep

SendLow ==
  /\ Goto("sendLow", IF hub.ready THEN "pin" ELSE "update") /\ Acknowledge
  /\ left' = Polls
  /\ UNCHANGED <<seen, cur, deep, slpM, warn, rsmrst, ds3, mode, count, pch, bios, nxt>>
  /\ UNCHANGED <<hub, handlers, chan, reset, wires, heard>>

(* wait_for_pin_monitor_vwire(): a warning that rises aborts; the pin low  *)
(* or the count at zero ends the wait, and zero is a timeout in any case.  *)
PollPin ==
  /\ left' = left - 1
  /\ Goto("pin", IF chan /\ wires["sus"] THEN "update"
                 ELSE IF slpSus /\ PollAgain(left - 1, FALSE) THEN "pin"
                 ELSE IF TimedOut(left - 1) THEN "update" ELSE "assert")
  /\ UNCHANGED <<seen, cur, deep, slpM, warn, rsmrst, ds3, mode, count>> /\ ECOnly

(* The battery-only modes drop PM_DS3 for 100 ms. *)
Assert ==
  /\ Goto("assert", IF valid \in {1, 3} THEN "drop" ELSE "update")
  /\ rsmrst' = FALSE /\ ds3' = (valid \notin {1, 3}) /\ deep' = (valid \notin {1, 3})
  /\ UNCHANGED <<seen, cur, slpM, left, warn, mode, count>> /\ ECOnly

DropDs3 ==
  /\ Goto("drop", "update") /\ ds3' = TRUE /\ deep' = TRUE
  /\ UNCHANGED <<seen, cur, slpM, left, warn, rsmrst, mode, count>> /\ ECOnly

(* exit_deeps4(): the SoC has left the suspend and its rails are good.     *)
Awake == slpSus /\ pwrgd

Exit ==
  /\ Goto("exit", IF Awake THEN "release" ELSE "update")
  /\ UNCHANGED <<seen, cur, deep, slpM, left, warn, rsmrst, ds3, mode, count>> /\ ECOnly

Release ==
  /\ Goto("release", "await") /\ rsmrst' = TRUE /\ left' = Polls
  /\ UNCHANGED <<seen, cur, deep, slpM, warn, ds3, mode, count>> /\ ECOnly

(* espihub_wait_for_espi_reset() *)
AwaitReset ==
  /\ left' = IF hub.rst THEN left ELSE left - 1
  /\ Goto("await", CASE hub.rst -> IF TimedOut(left) THEN "update" ELSE "ackHigh"
                     [] OTHER -> IF PollAgain(left - 1, FALSE) THEN "await" ELSE "update")
  /\ UNCHANGED <<seen, cur, deep, slpM, warn, rsmrst, ds3, mode, count>> /\ ECOnly

(* Deep Sx ends when SUS_WARN# high has been acknowledged; an exit that    *)
(* fails is tried again by the next pass.                                  *)
StillDeepNever(acked) == FALSE
StillDeep(acked) == deep /\ ~acked

AckHigh ==
  /\ ReadWarn("ackHigh", "sendHigh", TRUE)
  /\ deep' = IF wires["sus"] THEN deep ELSE StillDeep(FALSE)

SendHigh ==
  /\ Goto("sendHigh", "update") /\ Acknowledge /\ deep' = StillDeep(hub.ready)
  /\ UNCHANGED <<seen, cur, slpM, left, warn, rsmrst, ds3, mode, count, pch, bios, nxt>>
  /\ UNCHANGED <<hub, handlers, chan, reset, wires, heard>>

(* A pin that cannot be read ends the pass, or the exit. *)
ReadFails ==
  /\ Fault /\ \/ pc = "sleep" /\ pc' = "sleep"
              \/ Goto("exit", "update")
  /\ UNCHANGED <<seen, cur, deep, slpM, left, warn, rsmrst, ds3, mode>> /\ ECOnly

(* pwrseq_update(), see PwrPlane; on the way to S0 power_on() waits until  *)
(* the rails are good and releases RSMRST#.                                *)
Update ==
  /\ Goto("update", "save") /\ cur' = nxt
  /\ rsmrst' = (rsmrst \/ (cur # nxt /\ nxt = "S0"))
  /\ UNCHANGED <<seen, deep, slpM, left, warn, ds3, mode, count>> /\ ECOnly

(* dsw_save_mode(): the request is cleared before the mode is looked at.   *)
ClearedByLast(step) == step = "write"
ClearedBy(step) == step = "save"

Save ==
  /\ Goto("save", IF upd THEN "store" ELSE "sleep")
  /\ upd' = (upd /\ ~ClearedBy("save"))
  /\ UNCHANGED <<seen, cur, deep, slpM, left, warn, rsmrst, ds3, valid, tmp, rom, count>> /\ ECOnly

Store ==
  /\ Goto("store", IF tmp # valid THEN "write" ELSE "sleep") /\ valid' = tmp
  /\ UNCHANGED <<seen, cur, deep, slpM, left, warn, rsmrst, ds3, tmp, upd, rom, count>> /\ ECOnly

(* A failed write is not repeated: the mode counts as saved.               *)
WriteRom ==
  /\ Goto("write", "sleep")
  /\ \/ rom' = valid /\ UNCHANGED count
     \/ Fault /\ UNCHANGED rom
  /\ upd' = (upd /\ ~ClearedBy("write"))
  /\ UNCHANGED <<seen, cur, deep, slpM, left, warn, rsmrst, ds3, valid, tmp>> /\ ECOnly

PwrThread ==
  \/ Sample \/ Ramp \/ Deep \/ AckLow \/ SendLow \/ PollPin \/ Assert \/ DropDs3
  \/ Exit \/ Release \/ AwaitReset \/ AckHigh \/ SendHigh \/ ReadFails
  \/ Update \/ Save \/ Store \/ WriteRom

(***************************************************************************)
(* The host: the BIOS sets a mode with a command, served in an interrupt   *)
(* (dsw_update_mode()); it knows the mode the EC reported at boot.         *)
(***************************************************************************)
Bios(m) ==
  /\ soc = "on" /\ cur = "S0" /\ updates < MaxUpdates /\ updates' = updates + 1
  /\ tmp' = m /\ upd' = TRUE /\ bios' = m
  /\ UNCHANGED <<ec, nxt, valid, rom, pch, sleeps, faults, hubAll>>

(* The EC is reset while it has a mode to save, or after it failed to: the *)
(* platform boots again, dsw_read_mode() takes the mode from the EEPROM    *)
(* and leaves it disabled when that cannot be read.                        *)
Restart ==
  /\ soc = "on" /\ cur = "S0" /\ nxt = "S0" /\ (upd \/ valid # rom)
  /\ pc \in {"sleep", "save", "store", "write"} /\ pc' = "sleep"
  /\ \/ valid' = rom /\ UNCHANGED count
     \/ Fault /\ valid' = 0
  /\ tmp' = 0 /\ bios' = valid' /\ upd' = FALSE
  /\ UNCHANGED <<cur, deep, slpM, left, warn, rsmrst, ds3, seen>>
  /\ UNCHANGED <<nxt, rom, pch, hubAll>>

(***************************************************************************)
(* The SoC.                                                                *)
(***************************************************************************)
Soc(from, to) == soc = from /\ soc' = to
SocOnly == UNCHANGED <<ec, mode, bios, count>>

(* It goes to S4 or S5 after the EC had time to save the mode.             *)
FallAsleep(s) ==
  /\ Soc("on", "sx") /\ cur = "S0" /\ nxt = "S0" /\ ~upd /\ pc \notin {"store", "write"}
  /\ sleeps < MaxSleeps /\ sleeps' = sleeps + 1
  /\ nxt' = s
  /\ wires' = [w \in DOMAIN wires |-> IF w \in Slps THEN w = "s5" /\ s = "S4" ELSE wires[w]]
  /\ UNCHANGED <<ec, mode, bios, updates, faults, slpSus, pwrgd, slpA>>
  /\ UNCHANGED <<hub, handlers, chan, reset, acks, heard>>

SlpAFalls ==
  /\ soc = "sx" /\ slpA /\ slpA' = FALSE
  /\ UNCHANGED <<soc, slpSus, pwrgd, nxt, hubAll>> /\ SocOnly

(* SUS_WARN# in a mode that suspends this state; pwrseq_sus_handler()      *)
(* answers it only while deep Sx is disabled.                              *)
SusHandlerAnswers == ~Enabled

WarnLow ==
  /\ Soc("sx", "warned") /\ ~slpA /\ wires["sus"] /\ acks["sus"]
  /\ bios # 0 /\ (bios \in {1, 2} => ~wires["s5"])
  /\ WarnEvent("sus", SusHandlerAnswers)
  /\ UNCHANGED <<slpSus, pwrgd, slpA, nxt>> /\ SocOnly

(* A wake event before the suspend: SUS_WARN# rises again.                 *)
Abort ==
  /\ Soc("warned", "sx")
  /\ WarnEvent("sus", SusHandlerAnswers)
  /\ UNCHANGED <<slpSus, pwrgd, slpA, nxt>> /\ SocOnly

Suspend ==
  /\ Soc("warned", "sus") /\ ~acks["sus"] /\ slpSus' = FALSE
  /\ UNCHANGED <<pwrgd, slpA, nxt, hubAll>> /\ SocOnly

(* The rails fall, the bus is reset; espi_bus_reset_handler() asks for S5. *)
RailsOff ==
  /\ Soc("sus", "off") /\ pwrgd' = FALSE
  /\ chan' = FALSE /\ reset' = FALSE
  /\ hub' = [hub EXCEPT !.ready = FALSE, !.rst = FALSE]
  /\ wires' = [wires EXCEPT !["sus"] = FALSE] /\ acks' = [acks EXCEPT !["sus"] = FALSE]
  /\ heard' = heard \ Warns /\ nxt' = "S5"
  /\ UNCHANGED <<handlers, slpSus, slpA>> /\ SocOnly

(* A suspend lasts longer than the EC's entry into deep Sx.                *)
WakeUp ==
  /\ Soc("off", "waking") /\ slpSus' = TRUE
  /\ pc \notin {"ack", "sendLow", "pin", "assert", "drop"}
  /\ UNCHANGED <<pwrgd, slpA, nxt, hubAll>> /\ SocOnly

RailsOn ==
  /\ Soc("waking", "rails") /\ pwrgd' = TRUE
  /\ UNCHANGED <<slpSus, slpA, nxt, hubAll>> /\ SocOnly

LeaveReset ==
  /\ Soc("rails", "reset") /\ rsmrst /\ ResetEvent
  /\ UNCHANGED <<slpSus, pwrgd, slpA, nxt>> /\ SocOnly

ChannelUp ==
  /\ Soc("reset", "chan") /\ ChannelEvent(TRUE)
  /\ UNCHANGED <<slpSus, pwrgd, slpA, nxt>> /\ SocOnly

WarnHigh ==
  /\ Soc("chan", "resume") /\ WarnEvent("sus", SusHandlerAnswers)
  /\ UNCHANGED <<slpSus, pwrgd, slpA, nxt>> /\ SocOnly

(* The sleep signals rise when SUS_WARN# high is acknowledged.             *)
GoOn ==
  /\ soc \in {"sx", "resume"} /\ wires["sus"] /\ acks["sus"] /\ soc' = "on"
  /\ cur # "S0" /\ nxt # "S0" /\ nxt' = "S0" /\ slpA' = TRUE
  /\ wires' = [w \in DOMAIN wires |-> wires[w] \/ w \in Slps]
  /\ UNCHANGED <<slpSus, pwrgd, hub, handlers, chan, reset, acks, heard>> /\ SocOnly

Handshake ==
  \/ Suspend \/ RailsOff \/ WakeUp \/ RailsOn \/ LeaveReset \/ ChannelUp
  \/ WarnHigh \/ GoOn

Host == (\E m \in Modes : Bios(m)) \/ Restart
SocEvent == (\E s \in {"S4", "S5"} : FallAsleep(s)) \/ SlpAFalls \/ WarnLow \/ Abort

Next == PwrThread \/ Host \/ SocEvent \/ Handshake

Spec == Init /\ [][Next]_vars

(* The thread sleeps and wakes; a SoC that has begun a handshake goes on.  *)
FairSpec == Spec /\ WF_vars(PwrThread) /\ WF_vars(Handshake)

(***************************************************************************)
(* Properties                                                              *)
(***************************************************************************)

(* RSMRST# is never low for a SoC whose bus works.                         *)
NoResetWhileUp == ~rsmrst => soc \notin {"on", "sx", "warned", "reset", "chan", "resume"}

(* Between two passes nothing of what the BIOS sent is lost: the mode in   *)
(* use is the last one sent or reported at boot, and the EEPROM holds it   *)
(* unless an access failed, wherever dsw_update_mode() or a restart        *)
(* interrupts dsw_save_mode().                                             *)
ModeKept == pc = "sleep" /\ ~upd => valid = bios /\ (faults = 0 => rom = valid)

(* A SoC that wakes up from a deep Sx the EC knows of is acknowledged and  *)
(* gets on to S0.                                                          *)
Resumes == (soc = "waking" /\ deep) ~> (soc = "on" /\ cur = "S0")
=============================================================================
