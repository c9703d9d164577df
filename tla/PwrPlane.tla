------------------------------ MODULE PwrPlane ------------------------------
(***************************************************************************)
(* The power sequencer, app/power_sequencing/pwrplane.c.                   *)
(*                                                                         *)
(* Three kinds of actors share current_state (cur), next_state (nxt) and   *)
(* the power pins:                                                         *)
(*   - the PWR thread (pwrseq_thread), one action per stretch of code      *)
(*     between two points where another actor's write can be observed;     *)
(*   - the eSPI interrupt handlers, which preempt the PWR thread anywhere  *)
(*     and only write nxt;                                                 *)
(*   - the THERMAL thread inside therm_shutdown().                         *)
(* All threads run at the one cooperative priority K_PRIO_COOP(5): a       *)
(* thread takes over only where the running one sleeps (YieldPoints).      *)
(* Deep-Sx is compiled out (CONFIG_PWRMGMT_DEEPSX unset).  LEDs, port 80,  *)
(* the KBC interface and g_pwrflags bits nobody reads are left out.        *)
(***************************************************************************)
EXTENDS Pg3States

CONSTANTS
  Hosts,          (* how a host may move SLP_Sx: "any" way, "in_order", or   *)
                  (* in order and "patient": it waits for the EC             *)
  Faults,         (* GPIO and eSPI accesses may return an error              *)
  Thermal,        (* the THERMAL thread may trip                             *)
  Pg3Settings,    (* values the BIOS may give pg3_enable_status              *)
  TimeoutStraps   (* values ec_evaluate_timeout() may read (TRUE: disabled)  *)

ASSUME PwrPlaneAssumption ==
  /\ Hosts \subseteq {"any", "in_order", "patient"} /\ Hosts # {}
  /\ {Faults, Thermal} \subseteq BOOLEAN
  /\ Pg3Settings \subseteq BOOLEAN /\ Pg3Settings # {}
  /\ TimeoutStraps \subseteq BOOLEAN /\ TimeoutStraps # {}

VARIABLES
  pc,         (* where the PWR thread is                                     *)
  cur,        (* current_state                                               *)
  nxt,        (* next_state, written by interrupts and by both threads       *)
  tgt,        (* the value of next_state pwrseq_update() switched on; G3     *)
              (* outside it                                                  *)
  failure,    (* pwrseq_failure                                              *)
  noTimeout,  (* pwrseq_timeout_disabled                                     *)
  registered, (* the three handlers are installed in espi_hub                *)
  host,       (* the kind of host this run of the system has                 *)
  level,      (* local rsmrst_level, until its last use in the tick          *)
  pmRsmrst,   (* g_pwrflags.pm_rsmrst: the level of the last tick            *)
  turnOn,     (* g_pwrflags.turn_pwr_on                                      *)
  resumeSci,  (* SCI_RESUME reached the SCI queue                            *)
  RSMRST, PCH_PWROK, SYS_PWROK,  (* output pins PM_RSMRST, PCH_PWROK, SYS_PWROK *)
  vw,         (* levels of the sleep virtual wires; TRUE = high, released    *)
  pg3, pg3prev,  (* pg3_state and pg3_prev_state of pseudog3.c               *)
  tpc,        (* where the THERMAL thread is                                 *)
  inTherm,    (* in_therm_shutdown                                           *)
  ticked      (* the PWR thread decided on next_state during the 100 ms      *)
              (* sleep of therm_shutdown(), which spans several ticks        *)

pins   == <<RSMRST, PCH_PWROK, SYS_PWROK>>
therm  == <<tpc, inTherm>>
pg3s   == <<pg3, pg3prev>>
setup  == <<noTimeout, registered, host>>
vars   == <<pc, cur, nxt, tgt, failure, setup, level, pmRsmrst, turnOn,
            resumeSci, pins, vw, pg3s, therm, ticked>>

-----------------------------------------------------------------------------
(* Program points *)

Slp == {"slp3", "slp4", "slp5"}

(* check_slp_signals() before power_on(), and again inside it *)
SlpWaited == [chk_s5 |-> "slp5", chk_s4 |-> "slp4", chk_s3 |-> "slp3",
              on_s5  |-> "slp5", on_s4  |-> "slp4", on_s3  |-> "slp3"]
SlpWaits  == DOMAIN SlpWaited
CheckWaits == {"chk_s5", "chk_s4", "chk_s3"}
InitWaits == {"init_pwrgd", "init_espi", "init_sus"}
OnWaits   == {"on_pwrgd", "on_s5", "on_s4", "on_s3", "on_slpa", "on_allsys",
              "on_pltrst"}
Waits     == InitWaits \cup CheckWaits \cup OnWaits

(* The PWR thread inside power_on() *)
PowerOnPath == OnWaits \cup {"on_t99"}

(* Where the PWR thread sleeps, hence where THERMAL may run *)
YieldPoints == {"sleep", "delay", "tail", "err_init", "err_update", "on_t99"}
                 \cup Waits
(* Sleeps that may outlast the 100 ms therm_shutdown() waits *)
LongSleeps  == {"delay", "err_init", "err_update", "on_t99"} \cup Waits
(* Code no thread switch can interrupt, only the eSPI interrupts *)
NonYield    == {"boot", "apply", "g3_check", "g3_set", "decide", "switch",
                "err_init_sys", "err_update_sys", "suspend", "suspend_sys",
                "off", "off_pch", "off_spin", "commit", "reject"}
Points      == YieldPoints \cup NonYield

Goto(p, q) == pc = p /\ pc' = q

(* k_thread_suspend() stops the PWR thread while THERMAL waits for the     *)
(* power button; no thread runs between two pin writes of THERMAL.         *)
Running == tpc \notin {"trip", "flash"}

-----------------------------------------------------------------------------
Init ==
  /\ pc = "boot"
  /\ cur = "G3" /\ nxt = "G3" /\ tgt = "G3"
  /\ failure = FALSE /\ noTimeout = FALSE /\ registered = FALSE
  /\ host \in Hosts
  /\ level = FALSE /\ pmRsmrst = FALSE /\ turnOn = FALSE /\ resumeSci = FALSE
  /\ RSMRST = FALSE /\ PCH_PWROK = FALSE /\ SYS_PWROK = FALSE
  /\ vw = [s \in Slp |-> FALSE]
  /\ pg3 = "disabled" /\ pg3prev = "disabled"
  /\ tpc = "idle" /\ inTherm = FALSE /\ ticked = FALSE

(***************************************************************************)
(* Interrupts                                                              *)
(***************************************************************************)

(* pseudo_g3_get_prev_state() || pseudo_g3_get_state() *)
Pg3Recent == pg3 = "entered" \/ pg3prev = "entered"

(* The state the low level of a wire stands for *)
SleepOf == [slp3 |-> "S3", slp4 |-> "S4", slp5 |-> "S5"]

(* Faulty variant: S3 has no case of its own for a release.                *)
SlpRequestNoS3(s, high) ==
  IF ~high THEN SleepOf[s]
  ELSE IF cur \in {"G3", "S4", "S5"} THEN "S0" ELSE nxt

(* The next_state pwrseq_slp_handler() leaves for a change of wire s.      *)
SlpRequest(s, high) ==
  IF ~high THEN SleepOf[s]
  ELSE IF s = "slp5" /\ cur \in DeepStates /\ Pg3Recent THEN "S4"
  ELSE IF cur # "S0" THEN "S0" ELSE nxt

(* In order: S3, S4, S5 are asserted in this order and released in the     *)
(* opposite one, once the EC has acknowledged SUS_WARN.                    *)
InOrder(s, high) ==
  /\ registered
  /\ IF high THEN /\ s = "slp4" => vw["slp5"]
                  /\ s = "slp3" => vw["slp4"]
             ELSE /\ s = "slp4" => ~vw["slp3"]
                  /\ s = "slp5" => ~vw["slp4"]

(* A patient host asserts only while the PWR thread is between passes, and *)
(* releases only when its last request was taken or while the EC waits for *)
(* the releases.                                                           *)
Patient(high) ==
  \/ pc = "sleep" /\ (high => nxt = cur)
  \/ high /\ pc \in CheckWaits \cup PowerOnPath

HostMayMove(s, high) ==
  /\ host # "any" => InOrder(s, high)
  /\ host = "patient" => Patient(high)

(* A sleep wire changes; without a registered handler espi_hub drops it.   *)
SlpEvent(s) ==
  /\ HostMayMove(s, ~vw[s])
  /\ vw' = [vw EXCEPT ![s] = ~@]
  /\ nxt' = IF registered THEN SlpRequest(s, ~vw[s]) ELSE nxt
  /\ UNCHANGED <<pc, cur, tgt, failure, setup, level, pmRsmrst, turnOn,
                 resumeSci, pins, pg3s, therm, ticked>>

(* espi_bus_reset_handler(0): the eSPI bus enters reset.                   *)
BusReset ==
  /\ host = "any" /\ registered
  /\ nxt' = "S5"
  /\ UNCHANGED <<pc, cur, tgt, failure, setup, level, pmRsmrst, turnOn,
                 resumeSci, pins, vw, pg3s, therm, ticked>>

(***************************************************************************)
(* Waiting loops: wait_for_pin(), wait_for_vwire(), wait_for_espi_reset()  *)
(***************************************************************************)

(* A sleep wire must be high; the other inputs may be at any level.        *)
Seen(p) == p \in SlpWaits => vw[SlpWaited[p]]

(* A loop gives up when its count reaches 0.  With timeouts disabled it    *)
(* runs on until the level is seen, yet still reports a timeout when the   *)
(* count happens to be 0 at that moment.                                   *)
GivesUp(p) ==
  \/ ~noTimeout /\ (p \in SlpWaits => ~Seen(p))
  \/ noTimeout /\ Seen(p)
  \/ Faults

(* pwrseq_error(): latch the failure, then 100 ms later drop both PWROKs.  *)
PwrseqError(p, q) ==
  /\ Goto(p, q)
  /\ failure' = TRUE

(* The two pin writes, PCH_PWROK first, with no sleep between them.        *)
ErrorDropsPch ==
  /\ Running
  /\ Goto("err_init", "err_init_sys") \/ Goto("err_update", "err_update_sys")
  /\ PCH_PWROK' = FALSE
  /\ UNCHANGED <<cur, nxt, tgt, failure, setup, level, pmRsmrst, turnOn,
                 resumeSci, RSMRST, SYS_PWROK, vw, pg3s, therm, ticked>>

(* Faulty variant: the second write is missing.                            *)
ErrorDoneLit ==
  /\ Goto("err_init_sys", "sleep") \/ Goto("err_update_sys", "reject")
  /\ UNCHANGED <<cur, nxt, tgt, failure, setup, level, pmRsmrst, turnOn,
                 resumeSci, pins, vw, pg3s, therm, ticked>>

ErrorDone ==
  /\ Goto("err_init_sys", "sleep") \/ Goto("err_update_sys", "reject")
  /\ SYS_PWROK' = FALSE
  /\ UNCHANGED <<cur, nxt, tgt, failure, setup, level, pmRsmrst, turnOn,
                 resumeSci, RSMRST, PCH_PWROK, vw, pg3s, therm, ticked>>

(***************************************************************************)
(* pwrseq_task_init()                                                      *)
(***************************************************************************)

(* ec_evaluate_timeout() reads the strap *)
Boot ==
  /\ Goto("boot", "init_pwrgd")
  /\ noTimeout' \in TimeoutStraps
  /\ UNCHANGED <<cur, nxt, tgt, failure, registered, host, level, pmRsmrst, turnOn,
                 resumeSci, pins, vw, pg3s, therm, ticked>>

(* Only without master-attached flash does the EC release RSMRST here.     *)
InitPwrgd(maf) ==
  /\ Goto("init_pwrgd", "init_espi")
  /\ RSMRST' = IF maf THEN RSMRST ELSE TRUE
  /\ UNCHANGED <<cur, nxt, tgt, failure, setup, level, pmRsmrst, turnOn,
                 resumeSci, PCH_PWROK, SYS_PWROK, vw, pg3s, therm, ticked>>

(* Writing PM_RSMRST fails: the thread goes on, without any handler.       *)
InitRsmrstFault ==
  /\ Faults
  /\ Goto("init_pwrgd", "sleep")
  /\ UNCHANGED <<cur, nxt, tgt, failure, setup, level, pmRsmrst, turnOn,
                 resumeSci, pins, vw, pg3s, therm, ticked>>

InitEspi ==
  /\ Goto("init_espi", "init_sus")
  /\ UNCHANGED <<cur, nxt, tgt, failure, setup, level, pmRsmrst, turnOn,
                 resumeSci, pins, vw, pg3s, therm, ticked>>

InitError ==
  /\ \E p \in {"init_pwrgd", "init_espi"} :
       GivesUp(p) /\ PwrseqError(p, "err_init")
  /\ UNCHANGED <<cur, nxt, tgt, setup, level, pmRsmrst, turnOn,
                 resumeSci, pins, vw, pg3s, therm, ticked>>

(* SUS_WARN seen and acknowledged, or timed out: with Deep-Sx off both     *)
(* lead to the registration of the handlers.                               *)
InitSus ==
  /\ Goto("init_sus", "sleep")
  /\ registered' = TRUE
  /\ UNCHANGED <<cur, nxt, tgt, failure, noTimeout, host, level, pmRsmrst,
                 turnOn, resumeSci, pins, vw, pg3s, therm, ticked>>

(***************************************************************************)
(* One pass of the loop of pwrseq_thread()                                 *)
(***************************************************************************)

(* RSMRST_PWRGD is read; a rising edge is followed by PM_RSMRST_DELAY.  A  *)
(* failed read skips the pass.                                             *)
Sample(l) ==
  /\ Running
  /\ pc = "sleep"
  /\ pc' = IF l /\ ~pmRsmrst THEN "delay" ELSE "apply"
  /\ level' = l
  /\ UNCHANGED <<cur, nxt, tgt, failure, setup, pmRsmrst, turnOn,
                 resumeSci, pins, vw, pg3s, therm, ticked>>

DelayDone ==
  /\ Running
  /\ Goto("delay", "apply")
  /\ UNCHANGED <<cur, nxt, tgt, failure, setup, level, pmRsmrst, turnOn,
                 resumeSci, pins, vw, pg3s, therm, ticked>>

(* PM_RSMRST follows RSMRST_PWRGD unless THERMAL holds it low; a pending   *)
(* power-on request becomes next_state.  (turn_pwr_off has no writer.)     *)
Apply ==
  /\ Goto("apply", "g3_check")
  /\ pmRsmrst' = level
  /\ RSMRST' = IF inTherm THEN RSMRST ELSE level
  /\ nxt' = IF turnOn THEN "S0" ELSE nxt
  /\ turnOn' = FALSE
  /\ UNCHANGED <<cur, tgt, failure, setup, level, resumeSci, PCH_PWROK,
                 SYS_PWROK, vw, pg3s, therm, ticked>>

G3Check ==
  /\ pc = "g3_check"
  /\ pc' = IF cur = "G3" /\ nxt = "G3" /\ level THEN "g3_set" ELSE "decide"
  /\ level' = FALSE
  /\ UNCHANGED <<cur, nxt, tgt, failure, setup, pmRsmrst, turnOn,
                 resumeSci, pins, vw, pg3s, therm, ticked>>

G3Set ==
  /\ Goto("g3_set", "decide")
  /\ nxt' = "S5"
  /\ UNCHANGED <<cur, tgt, failure, setup, level, pmRsmrst, turnOn,
                 resumeSci, pins, vw, pg3s, therm, ticked>>

(* Faulty variant: the failure is not looked at.                           *)
MayUpdateAfterFailure == nxt # cur

MayUpdate == nxt # cur /\ ~failure

Decide ==
  /\ pc = "decide"
  /\ pc' = IF MayUpdate THEN "switch" ELSE "tail"
  /\ ticked' = (tpc = "hold")
  /\ UNCHANGED <<cur, nxt, tgt, failure, setup, level, pmRsmrst, turnOn,
                 resumeSci, pins, vw, pg3s, therm>>

(* dsw_save_mode(), PM_BATLOW, the OOB poll and manage_pseudog3().         *)
Tail ==
  /\ Running
  /\ Goto("tail", "sleep")
  /\ \E en \in Pg3Settings, cond, ac \in BOOLEAN :
       LET st == Pg3Next(pg3, cur, en, cond, ac, RSMRST) IN
         /\ pg3' = st
         /\ pg3prev' = IF st # pg3 THEN pg3 ELSE pg3prev
  /\ UNCHANGED <<cur, nxt, tgt, failure, setup, level, pmRsmrst, turnOn,
                 resumeSci, pins, vw, therm, ticked>>

(***************************************************************************)
(* pwrseq_update().  Its default case is never taken: next_state is G3     *)
(* only while current_state is, and the two are known to differ.           *)
(***************************************************************************)

(* power_on() starts with pwrseq_reset().                                  *)
PowerOnEntry(p) ==
  /\ Goto(p, "on_pwrgd")
  /\ failure' = FALSE

SwitchToS0 ==
  /\ pc = "switch" /\ nxt = "S0"
  /\ tgt' = nxt
  /\ \/ /\ cur \in {"G3", "S5", "S4"}
        /\ Goto("switch", "chk_s5")
        /\ UNCHANGED failure
     \/ cur = "S3" /\ PowerOnEntry("switch")
     \/ /\ cur = "S0"
        /\ Goto("switch", "reject")
        /\ UNCHANGED failure
  /\ UNCHANGED <<cur, nxt, setup, level, pmRsmrst, turnOn, resumeSci, pins,
                 vw, pg3s, therm, ticked>>

(* suspend() is called on the way from S0; the other sleep states need no  *)
(* action.                                                                 *)
SwitchToS3 ==
  /\ pc = "switch" /\ nxt = "S3"
  /\ tgt' = nxt
  /\ pc' = IF cur = "S0" THEN "suspend" ELSE IF cur = "S3" THEN "reject"
           ELSE "commit"
  /\ UNCHANGED <<cur, nxt, failure, setup, level, pmRsmrst, turnOn,
                 resumeSci, pins, vw, pg3s, therm, ticked>>

(* suspend() lowers PCH_PWROK, then SYS_PWROK.                             *)
SuspendDropsPch ==
  /\ Goto("suspend", "suspend_sys")
  /\ PCH_PWROK' = FALSE
  /\ UNCHANGED <<cur, nxt, tgt, failure, setup, level, pmRsmrst, turnOn,
                 resumeSci, RSMRST, SYS_PWROK, vw, pg3s, therm, ticked>>

SuspendDropsSys ==
  /\ Goto("suspend_sys", "commit")
  /\ SYS_PWROK' = FALSE
  /\ UNCHANGED <<cur, nxt, tgt, failure, setup, level, pmRsmrst, turnOn,
                 resumeSci, RSMRST, PCH_PWROK, vw, pg3s, therm, ticked>>

(* Faulty variant: only S3 is powered off.                                 *)
NeedsPowerOffS3Only == cur = "S3"

(* S4 and S5 are reached through power_off() from S0 and S3 only.          *)
NeedsPowerOff == cur \in {"S0", "S3"}

SwitchToSoftOff ==
  /\ pc = "switch" /\ nxt \in DeepStates
  /\ tgt' = nxt
  /\ pc' = IF NeedsPowerOff THEN "off" ELSE IF cur = nxt THEN "reject"
           ELSE "commit"
  /\ UNCHANGED <<cur, nxt, failure, setup, level, pmRsmrst, turnOn,
                 resumeSci, pins, vw, pg3s, therm, ticked>>

(* Faulty variant: power_off() writes the pins in the order of suspend().  *)
PowerOffDropsSwapped ==
  /\ Goto("off", "off_pch")
  /\ PCH_PWROK' = FALSE
  /\ UNCHANGED <<cur, nxt, tgt, failure, setup, level, pmRsmrst, turnOn,
                 resumeSci, RSMRST, SYS_PWROK, vw, pg3s, therm, ticked>>

(* power_off() lowers SYS_PWROK, then PCH_PWROK.                           *)
PowerOffDropsSys ==
  /\ Goto("off", "off_pch")
  /\ SYS_PWROK' = FALSE
  /\ UNCHANGED <<cur, nxt, tgt, failure, setup, level, pmRsmrst, turnOn,
                 resumeSci, RSMRST, PCH_PWROK, vw, pg3s, therm, ticked>>

PowerOffDropsPch ==
  /\ Goto("off_pch", "off_spin")
  /\ PCH_PWROK' = FALSE
  /\ UNCHANGED <<cur, nxt, tgt, failure, setup, level, pmRsmrst, turnOn,
                 resumeSci, RSMRST, SYS_PWROK, vw, pg3s, therm, ticked>>

(* power_off() spins, without sleeping, until the button is released.      *)
ButtonReleased ==
  /\ Goto("off_spin", "commit")
  /\ UNCHANGED <<cur, nxt, tgt, failure, setup, level, pmRsmrst, turnOn,
                 resumeSci, pins, vw, pg3s, therm, ticked>>

(* current_state = next_state: next_state is read again.                   *)
CommittedState == nxt

Commit ==
  /\ Goto("commit", "tail")
  /\ cur' = CommittedState
  /\ tgt' = "G3"
  /\ UNCHANGED <<nxt, failure, setup, level, pmRsmrst, turnOn,
                 resumeSci, pins, vw, pg3s, therm, ticked>>

(* "Do not transition to invalid state, stay in current valid role."       *)
Reject ==
  /\ Goto("reject", "tail")
  /\ nxt' = cur
  /\ tgt' = "G3"
  /\ UNCHANGED <<cur, failure, setup, level, pmRsmrst, turnOn,
                 resumeSci, pins, vw, pg3s, therm, ticked>>

(***************************************************************************)
(* check_slp_signals() and power_on()                                      *)
(***************************************************************************)
AfterWait == [chk_s5 |-> "chk_s4", chk_s4 |-> "chk_s3", on_s5 |-> "on_s4",
              on_s4 |-> "on_s3", on_s3 |-> "on_slpa", on_slpa |-> "on_allsys"]

WaitSeen ==
  /\ Running
  /\ \E p \in DOMAIN AfterWait : Seen(p) /\ Goto(p, AfterWait[p])
  /\ UNCHANGED <<cur, nxt, tgt, failure, setup, level, pmRsmrst, turnOn,
                 resumeSci, pins, vw, pg3s, therm, ticked>>

ChecksDone ==
  /\ Running
  /\ Seen("chk_s3")
  /\ PowerOnEntry("chk_s3")
  /\ UNCHANGED <<cur, nxt, tgt, setup, level, pmRsmrst, turnOn,
                 resumeSci, pins, vw, pg3s, therm, ticked>>

(* Faulty variant: RSMRST is left as the last pass set it.                 *)
ReleaseRsmrstForgotten ==
  /\ Running
  /\ Goto("on_pwrgd", "on_s5")
  /\ UNCHANGED <<cur, nxt, tgt, failure, setup, level, pmRsmrst, turnOn,
                 resumeSci, pins, vw, pg3s, therm, ticked>>

(* RSMRST_PWRGD is good: release RSMRST.                                   *)
ReleaseRsmrst ==
  /\ Running
  /\ Goto("on_pwrgd", "on_s5")
  /\ RSMRST' = TRUE
  /\ UNCHANGED <<cur, nxt, tgt, failure, setup, level, pmRsmrst, turnOn,
                 resumeSci, PCH_PWROK, SYS_PWROK, vw, pg3s, therm, ticked>>

(* ALL_SYS_PWRGD is high: drive PCH_PWROK and sleep SYS_PWR_OK_DELAY.      *)
DrivePchPwrok ==
  /\ Running
  /\ Goto("on_allsys", "on_t99")
  /\ PCH_PWROK' = TRUE
  /\ UNCHANGED <<cur, nxt, tgt, failure, setup, level, pmRsmrst, turnOn,
                 resumeSci, RSMRST, SYS_PWROK, vw, pg3s, therm, ticked>>

DriveSysPwrok ==
  /\ Running
  /\ Goto("on_t99", "on_pltrst")
  /\ SYS_PWROK' = TRUE
  /\ UNCHANGED <<cur, nxt, tgt, failure, setup, level, pmRsmrst, turnOn,
                 resumeSci, RSMRST, PCH_PWROK, vw, pg3s, therm, ticked>>

(* enqueue_sci() takes an event only while the system state is S0.         *)
EnqueueSciAccepts == cur = "S0"

(* PLTRST released.  resume() then notifies the BIOS before returning.     *)
PlatformUp ==
  /\ Running
  /\ Goto("on_pltrst", "commit")
  /\ resumeSci' = IF cur = "S3" THEN EnqueueSciAccepts ELSE resumeSci
  /\ UNCHANGED <<cur, nxt, tgt, failure, setup, level, pmRsmrst, turnOn,
                 pins, vw, pg3s, therm, ticked>>

(* A wait of the sequence gives up: pwrseq_error(), then back to update.   *)
SequenceError ==
  /\ Running
  /\ \E p \in CheckWaits \cup OnWaits :
       GivesUp(p) /\ PwrseqError(p, "err_update")
  /\ UNCHANGED <<cur, nxt, tgt, setup, level, pmRsmrst, turnOn,
                 resumeSci, pins, vw, pg3s, therm, ticked>>

(* gpio_write_pin() fails in power_on(): it returns without pwrseq_error() *)
(* and leaves the pins driven so far as they are.                          *)
WriteFault ==
  /\ Running /\ Faults
  /\ \/ \E p \in {"on_pwrgd", "on_allsys", "on_t99"} : Goto(p, "reject")
        /\ UNCHANGED SYS_PWROK
     \/ (* WAKE_SCI, right after SYS_PWROK was driven *)
        Goto("on_t99", "reject") /\ SYS_PWROK' = TRUE
  /\ UNCHANGED <<cur, nxt, tgt, failure, setup, level, pmRsmrst, turnOn,
                 resumeSci, RSMRST, PCH_PWROK, vw, pg3s, therm, ticked>>

(***************************************************************************)
(* The THERMAL thread: manage_cpu_thermal() and therm_shutdown()           *)
(***************************************************************************)
ThermalRuns == Thermal /\ pc \in YieldPoints

(* The system state is checked, then peci_get_temp() sleeps.               *)
ReadCpuTemp ==
  /\ ThermalRuns
  /\ tpc = "idle" /\ cur = "S0"
  /\ tpc' = "peci"
  /\ UNCHANGED <<pc, cur, nxt, tgt, failure, setup, level, pmRsmrst, turnOn,
                 resumeSci, pins, vw, pg3s, inTherm, ticked>>

CpuTempOk ==
  /\ ThermalRuns
  /\ tpc = "peci" /\ tpc' = "idle"
  /\ UNCHANGED <<pc, cur, nxt, tgt, failure, setup, level, pmRsmrst, turnOn,
                 resumeSci, pins, vw, pg3s, inTherm, ticked>>

(* Critical temperature: SYS_PWROK drops, then PCH_PWROK, then the eSPI    *)
(* reset is awaited.                                                       *)
ThermTrip ==
  /\ ThermalRuns
  /\ tpc = "peci" /\ tpc' = "trip"
  /\ inTherm' = TRUE
  /\ SYS_PWROK' = FALSE
  /\ UNCHANGED <<pc, cur, nxt, tgt, failure, setup, level, pmRsmrst, turnOn,
                 resumeSci, RSMRST, PCH_PWROK, vw, pg3s, ticked>>

TripDropsPch ==
  /\ tpc = "trip" /\ tpc' = "espi_reset"
  /\ PCH_PWROK' = FALSE
  /\ UNCHANGED <<pc, cur, nxt, tgt, failure, setup, level, pmRsmrst, turnOn,
                 resumeSci, RSMRST, SYS_PWROK, vw, pg3s, inTherm, ticked>>

(* The reset came or its wait timed out: request S5, hold RSMRST low and   *)
(* sleep 100 ms "as pwr_seq state machine needs to move S5 state".         *)
ThermRequestS5 ==
  /\ ThermalRuns
  /\ tpc = "espi_reset" /\ tpc' = "hold"
  /\ nxt' = "S5"
  /\ RSMRST' = FALSE
  /\ ticked' = FALSE
  /\ UNCHANGED <<pc, cur, tgt, failure, setup, level, pmRsmrst, turnOn,
                 resumeSci, PCH_PWROK, SYS_PWROK, vw, pg3s, inTherm>>

(* 100 ms are over: unless it sleeps longer than that, the PWR thread has  *)
(* made a full pass.  suspend_all_tasks() stops it.                        *)
ThermSuspendTasks ==
  /\ ThermalRuns
  /\ tpc = "hold" /\ tpc' = "flash"
  /\ ticked \/ pc \in LongSleeps
  /\ ticked' = FALSE
  /\ UNCHANGED <<pc, cur, nxt, tgt, failure, setup, level, pmRsmrst, turnOn,
                 resumeSci, pins, vw, pg3s, inTherm>>

(* The power button: ask for power on and resume the tasks.                *)
ThermButton ==
  /\ ThermalRuns
  /\ tpc = "flash" /\ tpc' = "idle"
  /\ turnOn' = TRUE
  /\ inTherm' = FALSE
  /\ UNCHANGED <<pc, cur, nxt, tgt, failure, setup, level, pmRsmrst,
                 resumeSci, pins, vw, pg3s, ticked>>

-----------------------------------------------------------------------------
Update  == SwitchToS0 \/ SwitchToS3 \/ SuspendDropsPch \/ SuspendDropsSys
             \/ SwitchToSoftOff \/ PowerOffDropsSys \/ PowerOffDropsPch
             \/ ButtonReleased \/ Commit \/ Reject
PowerOn == WaitSeen \/ ChecksDone \/ ReleaseRsmrst \/ DrivePchPwrok
             \/ DriveSysPwrok \/ PlatformUp \/ SequenceError \/ WriteFault
TaskInit == Boot \/ (\E maf \in BOOLEAN : InitPwrgd(maf)) \/ InitRsmrstFault
             \/ InitEspi \/ InitError \/ InitSus
Pass    == (\E l \in BOOLEAN : Sample(l)) \/ DelayDone \/ Apply \/ G3Check
             \/ G3Set \/ Decide \/ Tail
PwrThread     == TaskInit \/ Pass \/ Update \/ PowerOn \/ ErrorDropsPch
                   \/ ErrorDone
Interrupts    == (\E s \in Slp : SlpEvent(s)) \/ BusReset
ThermalThread == ReadCpuTemp \/ CpuTempOk \/ ThermTrip \/ TripDropsPch
                   \/ ThermRequestS5 \/ ThermSuspendTasks \/ ThermButton

Next == PwrThread \/ Interrupts \/ ThermalThread

Spec == Init /\ [][Next]_vars

(* The scheduler runs a ready thread, sleeps and bounded waits end, and a  *)
(* pressed power button is released.                                       *)
FairSpec == Spec /\ WF_vars(PwrThread)

-----------------------------------------------------------------------------
(* Every variable holds a value of its C type; the locals of a pass are    *)
(* only set where the pass still uses them.                                *)
TypeOK ==
  /\ pc \in Points
  /\ cur \in SysStates /\ nxt \in SysStates /\ tgt \in SysStates
  /\ host \in Hosts
  /\ failure \in BOOLEAN /\ noTimeout \in BOOLEAN /\ registered \in BOOLEAN
  /\ level \in BOOLEAN /\ pmRsmrst \in BOOLEAN /\ turnOn \in BOOLEAN
  /\ resumeSci \in BOOLEAN /\ inTherm \in BOOLEAN /\ ticked \in BOOLEAN
  /\ RSMRST \in BOOLEAN /\ PCH_PWROK \in BOOLEAN /\ SYS_PWROK \in BOOLEAN
  /\ vw \in [Slp -> BOOLEAN]
  /\ pg3 \in Pg3StateSet /\ pg3prev \in Pg3StateSet
  /\ tpc \in {"idle", "peci", "trip", "espi_reset", "hold", "flash"}

(* pwrseq_error() leaves the platform dark: once its 100 ms are over, both *)
(* power-good pins are low, whatever pins a failed write or the thermal    *)
(* shutdown had left on before, and no later request raises them again.    *)
FailedIsDark ==
  failure /\ pc \notin {"err_init", "err_update", "err_init_sys",
                        "err_update_sys"}
    => ~PCH_PWROK /\ ~SYS_PWROK

(* pwrplane.h:62 pwrseq_error() "stops any power sequencing": a latched    *)
(* failure is never cleared (the pwrseq_reset() of power_on() is reached   *)
(* only without one), the system state freezes and no PWROK rises.         *)
FailureStops ==
  [][failure => /\ failure' /\ cur' = cur
                /\ PCH_PWROK' => PCH_PWROK
                /\ SYS_PWROK' => SYS_PWROK]_vars

(* power_on() (897-913) and power_off() (807-808) keep SYS_PWROK inside    *)
(* PCH_PWROK; suspend() (947-948) and pwrseq_error() (336-337) write in    *)
(* the other order.  Without thermal shutdowns SYS_PWROK is high alone     *)
(* only between the two writes of these, never where a thread sleeps, over *)
(* all abort paths, failed writes and late requests.                       *)
PwrokOrder ==
  SYS_PWROK /\ ~PCH_PWROK => pc \in {"suspend_sys", "err_update_sys"}

(* PCH_PWROK rises only while RSMRST is released, in power_on() as after a *)
(* sleep that kept the rails.                                              *)
PwrokNeedsRsmrst == [][~PCH_PWROK /\ PCH_PWROK' => RSMRST]_vars

(* manage_pseudog3() lags the system state, yet between two passes of the  *)
(* PWR thread pseudo G3 is waited for, entered or left only in S4 and S5.  *)
Pg3OnlyInDeep ==
  pc = "sleep" /\ pg3 \notin {"disabled", "idle"} => cur \in DeepStates

(* pwrseq_system_state() and the pins as the promise of SystemPower: what  *)
(* is committed has the pins of the request pwrseq_update() switched on,   *)
(* though by then next_state may be another one (588).                     *)
Contract == INSTANCE SystemPower WITH
  state   <- cur,
  goal    <- IF tgt = "G3" THEN "none" ELSE tgt,
  rails   <- IF PCH_PWROK /\ SYS_PWROK THEN "on"
             ELSE IF PCH_PWROK \/ SYS_PWROK THEN "partly" ELSE "off",
  stopped <- failure
KeepsContract == Contract!Spec

(* The sleep state the host signals *)
HostState ==
  IF ~vw["slp5"] THEN "S5" ELSE IF ~vw["slp4"] THEN "S4"
  ELSE IF ~vw["slp3"] THEN "S3" ELSE "S0"

(* The EC follows a patient host: a state the host keeps signalling is     *)
(* reached, or an error stops the sequencer.  (S5 may be represented by G3 *)
(* as long as RSMRST_PWRGD is low.)                                        *)
FollowsHost ==
  \A h \in SysStates \ {"G3"} :
    host = "patient" /\ HostState = h
      ~> \/ HostState # h \/ failure \/ cur = h
         \/ h = "S5" /\ cur = "G3"
=============================================================================
