----------------------------- MODULE AcpiTable -----------------------------
(***************************************************************************)
(* The ACPI table g_acpi_tbl (app/smchost/smc.c, smchost.c) and the jobs   *)
(* the SMC thread does for the host through it: the command in             *)
(* acpi_host_command, the keyboard backlight, and the power-loss           *)
(* notification (PLN) of an SSD (app/smchost/smchost_pm.c).                *)
(*                                                                         *)
(* Host commands, PLT_RST# and the PLN timer are interrupts and may come   *)
(* between any two accesses of the threads; PERIPH, which reports the      *)
(* power button, and SMC are cooperative threads that wait for events.     *)
(* The byte stream of the command port is the matter of SmcHost.  Left     *)
(* out: the other bytes of the table, acpi_flags2.pwr_btn among them.      *)
(***************************************************************************)
EXTENDS Naturals

CONSTANTS
  Duties,       (* duty cycles of the backlight; 0 is the initial one       *)
  PlnTimes,     (* shutdown times the BIOS may configure, in seconds        *)
  MaxCmds,      (* bound: commands written to the table                     *)
  MaxWrites,    (* bound: other host accesses                               *)
  MaxEvents     (* bound: power button events and resets                    *)

ASSUME AcpiTableAssumption ==
  /\ Duties \subseteq Nat /\ PlnTimes \subseteq 0..255
  /\ {MaxCmds, MaxWrites, MaxEvents} \subseteq Nat

VARIABLES
  command,      (* acpi_host_command: the number of a command, 0 for none   *)
  duty,         (* kb_bklt_pwm_duty                                         *)
  acpiMode,     (* g_acpi_state_flags.acpi_mode                             *)
  sem,          (* acpi_lock                                                *)
  pc,           (* the SMC thread                                           *)
  prevDuty, lamp,      (* prev_kb_bklt_pwm_duty, what the LED was set to    *)
  plnSts, plnCnt, plnTimer, plnPin,
                (* pln_pin_sts, pln_timer_cnt, pln_timer runs, level of pin *)
  pcB,          (* the PERIPH thread                                        *)
  pressed, plt, (* the debounced button, the level of PLT_RST#              *)
  ran,          (* auxiliary: commands of the table that have run           *)
  raced,        (* auxiliary: jobs an interrupt came too close to           *)
  cmds, writes, events  (* what the model has spent of its bounds           *)

table  == <<command, duty>>
smc    == <<pc, prevDuty, lamp>>
pln    == <<plnSts, plnCnt, plnTimer, plnPin>>
board  == <<pcB, pressed, plt>>
aux    == <<ran, raced>>
bounds == <<cmds, writes, events>>
vars   == <<table, acpiMode, sem, smc, pln, board, aux, bounds>>

(* PLN_PIN_ASSERT, PLN_PIN_DEASSERT, PLN_PIN_NC; MINIMUM_PLN_TIME *)
Levels == {"assert", "deassert"}
MinimumPlnTime == 2

TypeOK ==
  /\ command \in 0..MaxCmds /\ {duty, prevDuty, lamp} \subseteq Duties \cup {0}
  /\ {acpiMode, sem, plnTimer, pressed, plt} \subseteq BOOLEAN
  /\ pc \in {"wait", "pln", "drive", "clear", "service", "run", "finish",
             "test", "blink", "keep"}
  /\ plnSts \in Levels \cup {"nc"} /\ plnPin \in Levels
  /\ plnCnt \in 0..(255 - MinimumPlnTime) /\ pcB \in {"idle", "stop"}
  /\ ran \in 0..MaxCmds /\ raced \subseteq {"pln", "backlight"}
  /\ cmds \in 0..MaxCmds /\ writes \in 0..MaxWrites /\ events \in 0..MaxEvents

(* After smchost_task_init(). *)
Init ==
  /\ command = 0 /\ duty = 0 /\ acpiMode = FALSE
  /\ sem = FALSE /\ pc = "wait" /\ prevDuty = 0 /\ lamp = 0
  /\ plnSts = "nc" /\ plnCnt = 0 /\ plnTimer = FALSE /\ plnPin = "deassert"
  /\ pcB = "idle" /\ pressed = FALSE /\ plt = FALSE
  /\ ran = 0 /\ raced = {} /\ cmds = 0 /\ writes = 0 /\ events = 0

(* Faulty variant of SetPln: the thread is not told.                       *)
SetPlnSilent(sts) == plnSts' = sts /\ UNCHANGED sem

(* set_pln_pin_sts(): a level is a job for the thread. *)
SetPln(sts) == plnSts' = sts /\ sem' = (sem \/ sts \in Levels)

(* What an interrupt sets between the read and the reset of the status in  *)
(* manage_pln_signal() is overwritten.                                     *)
Overwritten == pc = "clear"
Races(job, close) == raced' = IF close THEN raced \cup {job} ELSE raced

(***************************************************************************)
(* The SMC thread: smchost_process_tasks().  A pass repeated for pending   *)
(* events is one more pass for the jobs modelled here.                     *)
(***************************************************************************)
Goto(from, to) == pc = from /\ pc' = to

TakeSem ==
  /\ Goto("wait", "pln") /\ sem /\ sem' = FALSE /\ pcB = "idle"
  /\ UNCHANGED <<table, acpiMode, prevDuty, lamp, pln, board, aux, bounds>>

PlnTest ==
  /\ Goto("pln", IF plnSts \in Levels THEN "drive" ELSE "service")
  /\ UNCHANGED <<table, acpiMode, sem, prevDuty, lamp, pln, board, aux, bounds>>

PlnDrive ==
  /\ Goto("drive", "clear") /\ plnPin' = plnSts
  /\ UNCHANGED <<table, acpiMode, sem, prevDuty, lamp>>
  /\ UNCHANGED <<plnSts, plnCnt, plnTimer, board, aux, bounds>>

PlnClear ==
  /\ Goto("clear", "service") /\ SetPln("nc")
  /\ UNCHANGED <<table, acpiMode, prevDuty, lamp>>
  /\ UNCHANGED <<plnCnt, plnTimer, plnPin, board, aux, bounds>>

(* Faulty variant of Service: a command outside ACPI mode is cleared.      *)
ServiceDrops ==
  /\ pc = "service" /\ pcB = "idle"
  /\ pc' = IF command = 0 THEN "test" ELSE IF acpiMode THEN "run" ELSE "finish"
  /\ UNCHANGED <<table, acpiMode, sem, prevDuty, lamp, pln, board, aux, bounds>>

(* service_system_acpi_cmds() *)
Service ==
  /\ pcB = "idle"
  /\ Goto("service", IF acpiMode /\ command # 0 THEN "run" ELSE "test")
  /\ UNCHANGED <<table, acpiMode, sem, prevDuty, lamp, pln, board, aux, bounds>>

Run ==
  /\ Goto("run", "finish") /\ ran' = ran + 1
  /\ UNCHANGED <<table, acpiMode, sem, prevDuty, lamp, pln, board, raced, bounds>>

Finish ==
  /\ Goto("finish", "test") /\ command' = 0
  /\ UNCHANGED <<duty, acpiMode, sem, prevDuty, lamp, pln, board, aux, bounds>>

(* Faulty variant of DutyTest: the light is never switched off.            *)
DutyTestLit ==
  /\ Goto("test", IF prevDuty # duty /\ duty # 0 THEN "blink" ELSE "wait")
  /\ UNCHANGED <<table, acpiMode, sem, prevDuty, lamp, pln, board, aux, bounds>>

(* handle_kb_backlight_pwm() reads the duty three times. *)
DutyTest ==
  /\ Goto("test", IF prevDuty # duty THEN "blink" ELSE "wait")
  /\ UNCHANGED <<table, acpiMode, sem, prevDuty, lamp, pln, board, aux, bounds>>

Blink ==
  /\ Goto("blink", "keep") /\ lamp' = duty
  /\ UNCHANGED <<table, acpiMode, sem, prevDuty, pln, board, aux, bounds>>

Keep ==
  /\ Goto("keep", "wait") /\ prevDuty' = duty
  /\ UNCHANGED <<table, acpiMode, sem, lamp, pln, board, aux, bounds>>

SmcThread ==
  \/ TakeSem \/ PlnTest \/ PlnDrive \/ PlnClear
  \/ Service \/ Run \/ Finish \/ DutyTest \/ Blink \/ Keep

(***************************************************************************)
(* The interrupt of the command port, which always ends with a give of the *)
(* semaphore.                                                              *)
(***************************************************************************)
(* Both bytes are writable, so that acpi_write_ec(), which tests it, and   *)
(* write_acpi_space(), which does not, do the same to them.                *)

(* To the command: a host that writes the next one once it sees the last   *)
(* one cleared.                                                            *)
WriteCommand ==
  /\ command = 0 /\ cmds < MaxCmds
  /\ cmds' = cmds + 1 /\ command' = cmds + 1 /\ sem' = TRUE
  /\ UNCHANGED <<duty, acpiMode, smc, pln, board, aux, writes, events>>

Access == writes < MaxWrites /\ writes' = writes + 1 /\ sem' = TRUE

WriteDuty(d) ==
  /\ Access /\ duty' = d
  /\ Races("backlight", pc = "keep" /\ d # duty)
  /\ UNCHANGED <<command, acpiMode, smc, pln, board, ran, cmds, events>>

(* enable_acpi(), disable_acpi() *)
SetMode(on) ==
  /\ Access /\ acpiMode' = on
  /\ UNCHANGED <<table, smc, pln, board, aux, cmds, events>>

(* config_ssd_pln(); without its test the difference wraps in eight bits.  *)
Lead(seconds) ==
  IF seconds > MinimumPlnTime THEN seconds - MinimumPlnTime ELSE 0
ConfigPln(seconds) ==
  /\ Access /\ plnCnt' = Lead(seconds)
  /\ UNCHANGED <<table, acpiMode, smc, plnSts, plnTimer, plnPin, board, aux, cmds, events>>

Host ==
  \/ WriteCommand \/ (\E d \in Duties : WriteDuty(d))
  \/ (\E on \in BOOLEAN : SetMode(on)) \/ (\E s \in PlnTimes : ConfigPln(s))

(***************************************************************************)
(* The power button, in the PERIPH thread: smchost_pwrbtn_pln_handler()    *)
(* starts and stops the timer.  It runs while SMC waits or sleeps: after a *)
(* pass or for a burst.                                                    *)
(***************************************************************************)
Event == events < MaxEvents /\ events' = events + 1
PeriphMay == pc \in {"wait", "service"} /\ pcB = "idle"

Press ==
  /\ PeriphMay /\ ~pressed /\ Event
  /\ pressed' = TRUE /\ plnTimer' = (plnTimer \/ plnCnt > 0)
  /\ UNCHANGED <<table, acpiMode, sem, smc, plnSts, plnCnt, plnPin>>
  /\ UNCHANGED <<pcB, plt, aux, cmds, writes>>

Release ==
  /\ PeriphMay /\ pressed /\ Event
  /\ pressed' = FALSE /\ SetPln("deassert") /\ pcB' = "stop"
  /\ UNCHANGED <<table, acpiMode, smc, plnCnt, plnTimer, plnPin>>
  /\ UNCHANGED <<plt, aux, cmds, writes>>

(* Faulty variant of StopTimer: the timer runs on.                         *)
StopNothing ==
  /\ pcB = "stop" /\ pcB' = "idle"
  /\ UNCHANGED <<table, acpiMode, sem, smc, pln, pressed, plt, aux, bounds>>

StopTimer ==
  /\ pcB = "stop" /\ pcB' = "idle" /\ plnTimer' = FALSE
  /\ UNCHANGED <<table, acpiMode, sem, smc, plnSts, plnCnt, plnPin>>
  /\ UNCHANGED <<pressed, plt, aux, bounds>>

(* timer_pwrbtn_pln(); between the two statements of the button's release  *)
(* it overtakes the release.                                               *)
Expire ==
  /\ plnTimer /\ plnTimer' = FALSE
  /\ IF plt THEN SetPln("assert") ELSE UNCHANGED <<plnSts, sem>>
  /\ Races("pln", plt /\ (Overwritten \/ pcB = "stop"))
  /\ UNCHANGED <<table, acpiMode, smc, plnCnt, plnPin, board, ran, bounds>>

(* smchost_pltrst_handler() with smchost_pln_pltreset_handler() *)
Reset ==
  /\ plt /\ Event /\ plt' = FALSE /\ SetPln("deassert") /\ plnTimer' = FALSE
  /\ Races("pln", Overwritten)
  /\ UNCHANGED <<table, acpiMode, smc, plnCnt, plnPin, pcB, pressed>>
  /\ UNCHANGED <<ran, cmds, writes>>

OutOfReset ==
  /\ ~plt /\ Event /\ plt' = TRUE
  /\ UNCHANGED <<table, acpiMode, sem, smc, pln, pcB, pressed, aux, cmds, writes>>

Periph == Press \/ Release \/ StopTimer
Next == SmcThread \/ Host \/ Periph \/ Expire \/ Reset \/ OutOfReset

Spec == Init /\ [][Next]_vars

(* The threads are scheduled and a running timer expires. *)
FairSpec ==
  /\ Spec
  /\ WF_vars(SmcThread) /\ WF_vars(StopTimer) /\ WF_vars(Expire)

(***************************************************************************)
(* Properties                                                              *)
(***************************************************************************)
(* When the host sees its command cleared it has run, and it has run once. *)
(* The test, the execution and the clearing are three accesses (lines      *)
(* 446-459 of smchost.c); the mode may change and other commands come in   *)
(* between.                                                                *)
CommandsRunOnce ==
  ran = IF command = 0 \/ pc = "finish" THEN cmds ELSE cmds - 1

(* At rest the SSD is told of a loss of power only while the button is     *)
(* held and the platform is out of reset, unless an interrupt was          *)
(* overwritten or overtook a release (smchost_pm.c:113-114 and 146-148).   *)
NoFalseNotice ==
  pc = "wait" /\ pcB = "idle" /\ ~sem /\ "pln" \notin raced
    => (plnPin = "assert" => pressed /\ plt)

(* A button that stays pressed in S0 with PLN configured ends in a notice. *)
NoticeGiven ==
  (plnTimer /\ plt) ~> (plnPin = "assert" \/ ~pressed \/ ~plt \/ "pln" \in raced)

(* In the end the keyboard is lit as the host wrote, unless it wrote       *)
(* between the LED's read and the read that is remembered (line 713).      *)
BacklightFollows == <>[](lamp = duty \/ "backlight" \in raced)
=============================================================================
