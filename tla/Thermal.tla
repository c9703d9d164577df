------------------------------ MODULE Thermal ------------------------------
(***************************************************************************)
(* Thermal management: the thread of                                       *)
(* app/thermal_management/thermalmgmt.c, the host commands of              *)
(* app/smchost/smchost_thermal.c and the fan driver drivers/fan_ls.c, over *)
(* the PECI hub (PeciHub) and the thermistors of drivers/adc_sensors.c.    *)
(*                                                                         *)
(* A pass of the thread sets the fan, reads the sensors, the processors'   *)
(* temperature and the PCH's, and sleeps.  Threads are cooperative: other  *)
(* threads run where this one sleeps or waits (Yields).  Host commands and *)
(* PLT_RST# are served in interrupts and come between any two steps.       *)
(*                                                                         *)
(* A step of a pass that fails draws on the budget of the hub, MaxFaults.  *)
(*                                                                         *)
(* Only the CPU fan is kept, and the thermistors without their conversion  *)
(* table.  The GPU and PCH temperatures are read but not kept: nothing in  *)
(* the firmware uses them.                                                 *)
(***************************************************************************)
EXTENDS PeciHub

CONSTANTS
  Temps,        (* temperatures the CPU can have                             *)
  Limits,       (* what the host sends with SET_SHDWN_THRESHOLD              *)
  Duties,       (* fan duty cycles the host uses, in percent                 *)
  StackBytes,   (* what a TjMax that did not come may read as                *)
  StackWords,   (* what a temperature that did not come may read as          *)
  Clients,      (* other users of the hub                                    *)
  ClientCmds,   (* the commands they use                                     *)
  FanOverride,  (* fan_override: strap or CONFIG_THERMAL_FAN_OVERRIDE        *)
  QuietInCs,    (* CONFIG_PECI_ACCESS_DISABLE_IN_CS                          *)
  Gpu,          (* a graphics card is present and powered                    *)
  PchPeriod,    (* PCH_TEMP_POLLING_CNT_TIME_DIVISION                        *)
  MaxHost,      (* bound: host commands                                      *)
  MaxOutside,   (* bound: host commands, changes of the CPU's temperature,   *)
                (* moves of S0, of C10 and of PLT_RST#, calls of the clients *)
  MaxCalls      (* bound: calls of the clients                               *)

ASSUME ThermalAssumption ==
  /\ Temps \subseteq 0..TjMax /\ Temps # {}
  /\ StackBytes \subseteq 0..255 /\ StackWords \subseteq Nat
  /\ Limits \subseteq 0..255 /\ Duties \subseteq 0..100
  /\ Callers = Clients \cup {"therm"} /\ "therm" \notin Clients
  /\ ClientCmds \subseteq Commands
  /\ {FanOverride, QuietInCs, Gpu} \subseteq BOOLEAN
  /\ {PchPeriod, MaxHost, MaxOutside, MaxCalls} \subseteq Nat

OverrideDuty == 50     (* CONFIG_THERMAL_FAN_OVERRIDE_VALUE                *)
ShutdownDefault == 103 (* THERM_SHTDWN_THRSD                               *)
Tolerance == 3         (* THERM_SHTDWN_EC_TOLERANCE                        *)
AlertDelta == 3        (* CPU_TEMP_ALERT_DELTA                             *)
ResetTemp == 28        (* CPU_FAIL_SAFE_TEMPERATURE                        *)
FailTemp == 72         (* CPU_FAIL_CRITICAL_TEMPERATURE                    *)
FanOffTemp == 40       (* TEMP_BSOD_FAN_OFF                                *)
BsodTemp == 85         (* TEMP_OVERRIDE_ACPI, FAN_OVERRIDE_ACPI            *)
BsodFan == 75
AdcTries == 3          (* MAX_ADC_READ_RETRIES                             *)

VARIABLES
  pc,
  (* fan *)
  hostCtl,          (* bios_fan_override, bios_fan_speed (0 when off)        *)
  duty, change,     (* fan_duty_cycle[FAN_CPU], fan_duty_cycle_change        *)
  hw, power,        (* the PWM as it is, the fan's supply                    *)
  bsod, crossed,    (* is_bsod_setting_en, is_bsod_temp_crossed              *)
  setBy,            (* auxiliary: the PWM is as the "duty" cycle asked for,  *)
                    (* or the "bsod" override, or the last write "failed"    *)
  (* sensors *)
  adcTry,
  cpuTemp, lastTold,   (* cpu_temp, prev_notify_temp                         *)
  reply,               (* auxiliary: what the last GetTemp gave, or -1       *)
  short,               (* auxiliary: data that never came have been used     *)
  pchCnt,              (* temp_poll_cnt                                      *)
  (* shared with the host: fields of the ACPI table, the SCI queue           *)
  crit, pwmEnd, shown, (* acpi_crit_temp, acpi_pwm_end_val, acpi_remote_temp *)
  acpi, sci,           (* acpi_mode, an SCI_THERMAL is queued                *)
  delay, cs,           (* peci_delay_timer runs, cs_state                    *)
  (* the rest of the machine *)
  s0, rst, tripped,    (* system is in S0, PLT_RST# low, therm_shutdown()    *)
  real,                (* the CPU's temperature                              *)
  told,                (* what the OS read last on SCI_THERMAL, or -1        *)
  lost,                (* auxiliary: an alert met a full SCI queue, and the  *)
                       (* OS has not read since                              *)
  hosted, outside, called

fan == <<hostCtl, duty, change, hw, power, bsod, crossed, setBy>>
sense == <<adcTry, cpuTemp, lastTold, reply, short, pchCnt>>
table == <<crit, pwmEnd, shown, acpi, sci, delay, cs>>
world == <<s0, rst, tripped, real, told, lost, hosted, outside, called>>
vars == <<pc, fan, sense, table, world, hubVars>>

Steps == {"sleep", "duty", "apply", "pwm", "bsod", "cs", "adc", "cpu",
          "tjmax", "temp", "gpu", "gpuTjmax", "gpuTemp", "alert", "pch",
          "pchWait"}

TypeOK ==
  /\ HubTypeOK /\ pc \in Steps
  /\ hostCtl \in Duties \cup {0} /\ duty \in 0..255 /\ hw \in 0..100
  /\ {change, power, bsod, crossed, short, lost} \subseteq BOOLEAN
  /\ setBy \in {"duty", "bsod", "failed"}
  /\ adcTry \in 0..AdcTries /\ pchCnt \in 0..PchPeriod
  /\ {cpuTemp, lastTold} \subseteq -1023..255 /\ reply \in -1..TjMax
  /\ crit \in 0..255 /\ pwmEnd \in Duties \cup {0} /\ shown \in 0..255
  /\ {acpi, sci, delay, cs, s0, rst, tripped} \subseteq BOOLEAN
  /\ real \in Temps /\ told \in -1..255
  /\ hosted \in 0..MaxHost /\ outside \in 0..MaxOutside /\ called \in 0..MaxCalls

(* After init_fans(), init_therm_sensors() and peci_init().                *)
Init ==
  /\ HubInit /\ pc = "sleep"
  /\ hostCtl = 0 /\ duty = OverrideDuty /\ change = TRUE
  /\ hw = 0 /\ power = FALSE /\ bsod = FALSE /\ crossed = FALSE
  /\ setBy = "duty" /\ adcTry = 0
  /\ cpuTemp = 0 /\ lastTold = 0 /\ reply = -1 /\ short = FALSE
  /\ pchCnt = PchPeriod
  /\ crit = ShutdownDefault /\ pwmEnd = 0 /\ shown = 0
  /\ acpi = FALSE /\ sci = FALSE /\ delay = FALSE /\ cs = FALSE
  /\ s0 = TRUE /\ rst = FALSE /\ tripped = FALSE
  /\ real \in Temps /\ told = -1 /\ lost = FALSE
  /\ hosted = 0 /\ outside = 0 /\ called = 0

(***************************************************************************)
(* The fan part of a pass, manage_fan().                                   *)
(***************************************************************************)
Goto(next) == pc' = next

(* is_fan_controlled_by_host()                                             *)
HostControls == hostCtl # 0 \/ acpi

(* The fan has no power outside S0 and in connected standby.  Who controls *)
(* it is looked up once; the host may change its mind before the next step.*)
Wake ==
  /\ pc = "sleep"
  /\ power' = (s0 /\ ~cs)
  /\ Goto(CASE ~(s0 /\ ~cs) -> "cs" [] HostControls -> "apply" [] OTHER -> "duty")
  /\ UNCHANGED <<hostCtl, duty, change, hw, bsod, crossed, setBy>>
  /\ UNCHANGED <<sense, table, world, hubVars>>

FanSpeed(t) == (8 * (t \div 8)) % 256

OwnDuty ==
  /\ pc = "duty" /\ Goto("apply")
  /\ duty' = FanSpeed(cpuTemp)
  /\ change' = (change \/ duty # FanSpeed(cpuTemp))
  /\ UNCHANGED <<hostCtl, hw, power, bsod, crossed, setBy>>
  /\ UNCHANGED <<sense, table, world, hubVars>>

(* The flag is cleared before the duty cycle is handed to the PWM: what    *)
(* the host asks for in between is set now and once more by the next pass. *)
Apply ==
  /\ pc = "apply"
  /\ duty' = IF FanOverride THEN OverrideDuty ELSE duty
  /\ Goto(IF FanOverride \/ change THEN "pwm" ELSE "bsod")
  /\ change' = FALSE
  /\ UNCHANGED <<hostCtl, hw, power, bsod, crossed, setBy>>
  /\ UNCHANGED <<sense, table, world, hubVars>>

(* fan_set_duty_cycle()                                                    *)
Driven(d) == IF d > 100 THEN 100 ELSE d

SetPwm ==
  /\ pc = "pwm" /\ Goto("bsod")
  /\ hw' = Driven(duty) /\ setBy' = "duty"
  /\ UNCHANGED <<hostCtl, duty, change, power, bsod, crossed>>
  /\ UNCHANGED <<sense, table, world, hubVars>>

(* fan_set_duty_cycle() fails, of which manage_fan() takes no notice.      *)
PwmFails ==
  /\ Fault
  /\ pc = "pwm" /\ Goto("bsod")
  /\ setBy' = "failed"
  /\ UNCHANGED <<hostCtl, duty, change, hw, power, bsod, crossed>>
  /\ UNCHANGED <<sense, table, world>>
  /\ UNCHANGED <<owner, mode, hubReady, tjmax, call, c10>>

(* A mutant: the change flag is cleared after the PWM has been written.    *)
BsodClearsLate ==
  /\ pc = "bsod" /\ Goto("cs") /\ change' = FALSE
  /\ UNCHANGED <<hostCtl, duty, hw, power, bsod, crossed, setBy>>
  /\ UNCHANGED <<sense, table, world, hubVars>>

(* The override for an OS that hangs: it looks at the duty cycle the host  *)
(* wrote last, not at the fan.  It does not touch fan_duty_cycle.          *)
Bsod ==
  LET force == bsod /\ cpuTemp > BsodTemp /\ pwmEnd < BsodFan
      release == bsod /\ ~force /\ cpuTemp < FanOffTemp /\ crossed
      write == force \/ release IN
  /\ pc = "bsod" /\ Goto("cs")
  /\ crossed' = IF force THEN TRUE ELSE IF release THEN FALSE ELSE crossed
  /\ \/ /\ hw' = IF force THEN BsodFan ELSE IF release THEN 0 ELSE hw
        /\ setBy' = IF write THEN "bsod" ELSE setBy
        /\ UNCHANGED hubVars
     \/ /\ write /\ Fault
        /\ UNCHANGED <<hw, setBy, owner, mode, hubReady, tjmax, call, c10>>
  /\ UNCHANGED <<hostCtl, duty, change, power, bsod>>
  /\ UNCHANGED <<sense, table, world>>

(***************************************************************************)
(* The sensors.  adc_sensors_read_all() tries three times; when all fail   *)
(* the thermistor fields of the table get what was on the stack.           *)
(***************************************************************************)
Quiet == QuietInCs /\ cs
Sensing == pc = "adc" \/ (pc = "cs" /\ ~Quiet)

CsCheck ==
  /\ pc = "cs" /\ Quiet /\ Goto("sleep")
  /\ UNCHANGED <<fan, sense, table, world, hubVars>>

AdcRead ==
  /\ Sensing
  /\ Goto("cpu") /\ adcTry' = 0
  /\ UNCHANGED <<cpuTemp, lastTold, reply, short, pchCnt>>
  /\ UNCHANGED <<fan, table, world, hubVars>>

AdcFails ==
  /\ Sensing
  /\ Fault
  /\ adcTry' = IF adcTry + 1 < AdcTries THEN adcTry + 1 ELSE 0
  /\ Goto(IF adcTry + 1 < AdcTries THEN "adc" ELSE "cpu")
  /\ UNCHANGED <<cpuTemp, lastTold, reply, short, pchCnt, fan, table, world>>
  /\ UNCHANGED <<owner, mode, hubReady, tjmax, call, c10>>

(***************************************************************************)
(* The processors, manage_cpu_thermal() over peci_get_temp(): TjMax first, *)
(* until it has been read once, then the temperature.                      *)
(***************************************************************************)
Me == call["therm"]
Done == Me.pc = "idle"

(* Ask a device: for its TjMax or, when that is known, its temperature.    *)
Ask(dev, atTjmax, atTemp) ==
  IF tjmax[dev] = 0
    THEN Start("therm", dev, "RdPkg") /\ Goto(atTjmax)
    ELSE Start("therm", dev, "GetTemp") /\ Goto(atTemp)

CpuCheck ==
  /\ pc = "cpu"
  /\ IF hubReady /\ ~delay /\ s0
       THEN Ask("CPU", "tjmax", "temp")
       ELSE Goto("pch") /\ UNCHANGED call
  /\ UNCHANGED <<owner, mode, hubReady, tjmax, c10, faults>>
  /\ UNCHANGED <<fan, sense, table, world>>

(* A temperature has been found: it is shown to the host and compared with *)
(* the critical one.                                                       *)
Found(t, r) ==
  /\ cpuTemp' = t /\ shown' = t % 256 /\ reply' = r
  /\ short' = (short \/ Me.junk)
  /\ tripped' = (tripped \/ t >= crit)
  /\ Goto(IF t >= crit THEN "pch" ELSE IF Gpu THEN "gpu" ELSE "alert")
  /\ UNCHANGED <<fan, adcTry, lastTold, pchCnt, crit, pwmEnd, acpi, sci, delay,
                 cs, s0, rst, real, told, lost, hosted, outside, called>>

GotTjmax ==
  /\ pc = "tjmax" /\ Done
  /\ IF Me.ok
       THEN /\ \E t \in IF Me.junk THEN StackBytes ELSE {TjMax} :
                 tjmax' = [tjmax EXCEPT !["CPU"] = t]
            /\ short' = (short \/ Me.junk)
            /\ Start("therm", "CPU", "GetTemp") /\ Goto("temp")
            /\ UNCHANGED <<fan, adcTry, cpuTemp, lastTold, reply, pchCnt>>
            /\ UNCHANGED <<table, world>>
       ELSE Found(FailTemp, -1) /\ UNCHANGED <<tjmax, call>>
  /\ UNCHANGED <<owner, mode, hubReady, c10, faults>>

(* What peci_get_temp() makes of an answer; r: what was really said.       *)
Answered(raw, r) ==
  Found(IF Readable(raw) THEN Degrees("CPU", raw) ELSE FailTemp, r)

(* The answer of a reset host is 0 whatever the temperature.               *)
GotTemp ==
  /\ pc = "temp" /\ Done
  /\ \/ ~Me.ok /\ Found(FailTemp, -1) /\ UNCHANGED hubVars
     \/ Me.ok /\ ~Me.junk /\ Answered(Raw(real), real) /\ UNCHANGED hubVars
     \/ /\ Me.ok /\ Me.junk
        /\ \E raw \in StackWords : Answered(raw, -1)
        /\ UNCHANGED hubVars
     \/ /\ Me.ok /\ ~Me.junk /\ Fault
        /\ \E raw \in {0, SensorError} : Answered(raw, -1)
        /\ UNCHANGED <<owner, mode, hubReady, tjmax, call, c10>>

GpuCheck ==
  /\ pc = "gpu" /\ Ask("GPU", "gpuTjmax", "gpuTemp")
  /\ UNCHANGED <<owner, mode, hubReady, tjmax, c10, faults>>
  /\ UNCHANGED <<fan, sense, table, world>>

GotGpuTjmax ==
  /\ pc = "gpuTjmax" /\ Done
  /\ IF Me.ok
       THEN /\ tjmax' = [tjmax EXCEPT !["GPU"] = TjMax]
            /\ Start("therm", "GPU", "GetTemp") /\ Goto("gpuTemp")
       ELSE Goto("alert") /\ UNCHANGED <<tjmax, call>>
  /\ UNCHANGED <<owner, mode, hubReady, c10, faults, fan, sense, table, world>>

GotGpuTemp ==
  /\ pc = "gpuTemp" /\ Done /\ Goto("alert")
  /\ UNCHANGED <<fan, sense, table, world, hubVars>>

(* A mutant: only a rise counts as a change.                               *)
AwayUp(a, b) == IF a >= b THEN a - b ELSE 0

(* The OS is told of a change by an SCI, if it listens and the queue has   *)
(* room; the temperature counts as told in any case.                       *)
Away(a, b) == IF a >= b THEN a - b ELSE b - a
ScisOn == acpi /\ ~rst /\ s0

(* enqueue_sci()                                                           *)
EnqueueSci ==
  IF ~ScisOn THEN UNCHANGED <<sci, lost, hubVars>>
  ELSE \/ sci' = TRUE /\ UNCHANGED <<lost, hubVars>>
       \/ /\ Fault /\ lost' = TRUE
          /\ UNCHANGED <<sci, owner, mode, hubReady, tjmax, call, c10>>

Alert ==
  LET news == Away(cpuTemp, lastTold) > AlertDelta IN
  /\ pc = "alert" /\ Goto("pch")
  /\ IF news THEN EnqueueSci ELSE UNCHANGED <<sci, lost, hubVars>>
  /\ lastTold' = IF news THEN cpuTemp ELSE lastTold
  /\ UNCHANGED <<adcTry, cpuTemp, reply, short, pchCnt>>
  /\ UNCHANGED <<crit, pwmEnd, shown, acpi, delay, cs, fan>>
  /\ UNCHANGED <<s0, rst, tripped, real, told, hosted, outside, called>>

(* The PCH is asked over eSPI, every PchPeriod + 1 passes; its answer, or  *)
(* the end of the wait, is a step of its own.                              *)
Pch ==
  /\ pc = "pch"
  /\ IF s0 /\ ~cs
       THEN /\ pchCnt' = IF pchCnt = 0 THEN PchPeriod ELSE pchCnt - 1
            /\ Goto(IF pchCnt = 0 THEN "pchWait" ELSE "sleep")
       ELSE Goto("sleep") /\ UNCHANGED pchCnt
  /\ UNCHANGED <<adcTry, cpuTemp, lastTold, reply, short>>
  /\ UNCHANGED <<fan, table, world, hubVars>>

PchDone ==
  /\ pc = "pchWait" /\ Goto("sleep")
  /\ UNCHANGED <<fan, sense, table, world, hubVars>>

ThreadStep ==
  \/ Wake \/ OwnDuty \/ Apply \/ SetPwm \/ PwmFails \/ Bsod
  \/ CsCheck \/ AdcRead \/ AdcFails
  \/ CpuCheck \/ GotTjmax \/ GotTemp
  \/ GpuCheck \/ GotGpuTjmax \/ GotGpuTemp \/ Alert
  \/ Pch \/ PchDone

(* The step of the hub that a caller is in.  A thread that has taken the   *)
(* mutex or slept goes on to its next wait before another one runs.        *)
Yields ==
  pc \in {"sleep", "pchWait"} \/ Me.pc \in {"lock", "wait", "nap"}
    \/ pc = "adc"

NoClientRuns == \A c \in Clients : call[c].pc # "try"

Transfer(c) ==
  /\ IF c = "therm" THEN NoClientRuns
     ELSE Yields /\ \A d \in Clients \ {c} : call[d].pc # "try"
  /\ HubStep(c) /\ UNCHANGED <<pc, fan, sense, table, world>>

(***************************************************************************)
(* Host commands and signals, in interrupts.                               *)
(***************************************************************************)
Outside == outside < MaxOutside /\ outside' = outside + 1
Hosts == Outside /\ hosted < MaxHost /\ hosted' = hosted + 1 /\ s0 /\ ~rst
HostRest == <<s0, rst, tripped, real, told, lost, called>>

(* host_update_crit_temp(): 8 bits wide.                                   *)
CritFor(limit) ==
  IF limit = 0 THEN ShutdownDefault ELSE (limit + Tolerance) % 256

SetShutdownThreshold(limit) ==
  /\ Hosts /\ crit' = CritFor(limit)
  /\ UNCHANGED <<pc, fan, sense, pwmEnd, shown, acpi, sci, delay, cs>>
  /\ UNCHANGED <<HostRest, hubVars>>

(* host_set_bios_bsod_override()                                           *)
SetOsActiveTrip ==
  /\ Hosts /\ ~bsod /\ bsod' = TRUE
  /\ UNCHANGED <<pc, hostCtl, duty, change, hw, power, crossed, setBy>>
  /\ UNCHANGED <<sense, table, HostRest, hubVars>>

(* The host writes acpi_pwm_end_val, then UPDATE_PWM for a fan: the CPU's  *)
(* or another one, which is not kept here.                                 *)
WritePwm(d) ==
  /\ Hosts /\ pwmEnd # d /\ pwmEnd' = d
  /\ UNCHANGED <<pc, fan, sense, crit, shown, acpi, sci, delay, cs>>
  /\ UNCHANGED <<HostRest, hubVars>>

UpdateFan(ctl, on, d) ==
  /\ hostCtl' = ctl
  /\ IF ctl # 0 \/ acpi
       THEN /\ duty' = IF ~on THEN duty ELSE IF ctl # 0 THEN ctl ELSE d
            /\ change' = TRUE
       ELSE UNCHANGED <<duty, change>>

UpdatePwm(cpuFan) ==
  /\ Hosts /\ UpdateFan(hostCtl, cpuFan, pwmEnd)
  /\ UNCHANGED <<pc, hw, power, bsod, crossed, setBy>>
  /\ UNCHANGED <<sense, table, HostRest, hubVars>>

(* BIOS_FAN_CONTROL: a speed of 0 ends the override and is then also the   *)
(* duty cycle, if an ACPI OS is there.                                     *)
BiosFanControl(d) ==
  /\ Hosts /\ UpdateFan(d, TRUE, d)
  /\ UNCHANGED <<pc, hw, power, bsod, crossed, setBy>>
  /\ UNCHANGED <<sense, table, HostRest, hubVars>>

AccessMode(m) ==
  /\ Hosts /\ mode' = Configured(m)
  /\ UNCHANGED <<pc, fan, sense, table, HostRest>>
  /\ UNCHANGED <<owner, hubReady, tjmax, call, c10, faults>>

AcpiMode(on) ==
  /\ Hosts /\ acpi # on /\ acpi' = on
  /\ told' = IF on THEN told ELSE -1
  /\ UNCHANGED <<pc, fan, sense, crit, pwmEnd, shown, sci, delay, cs>>
  /\ UNCHANGED <<s0, rst, tripped, real, lost, called, hubVars>>

(* Connected standby; its end wakes the thread, which sleeps no longer     *)
(* than it likes here.                                                     *)
Standby(on) ==
  /\ Hosts /\ cs # on /\ cs' = on
  /\ UNCHANGED <<pc, fan, sense, crit, pwmEnd, shown, acpi, sci, delay>>
  /\ UNCHANGED <<HostRest, hubVars>>

(* The OS serves SCI_THERMAL: it reads the temperature.                    *)
OsReads ==
  /\ sci /\ ScisOn /\ ~delay
  /\ sci' = FALSE /\ told' = shown /\ lost' = FALSE
  /\ UNCHANGED <<pc, fan, sense, crit, pwmEnd, shown, acpi, delay, cs>>
  /\ UNCHANGED <<s0, rst, tripped, real, hosted, outside, called, hubVars>>

(* PLT_RST#.  When it is released the processor is left alone for a second *)
(* and the table shows the fail safe temperature.                          *)
PltRst(low) ==
  /\ Outside /\ s0 /\ rst # low /\ rst' = low
  /\ delay' = (delay \/ ~low)
  /\ shown' = IF low THEN shown ELSE ResetTemp
  /\ told' = -1
  /\ UNCHANGED <<pc, fan, sense, crit, pwmEnd, acpi, sci, cs>>
  /\ UNCHANGED <<s0, tripped, real, lost, hosted, called, hubVars>>

DelayOver ==
  /\ delay /\ delay' = FALSE
  /\ UNCHANGED <<pc, fan, sense, crit, pwmEnd, shown, acpi, sci, cs, world>>
  /\ UNCHANGED hubVars

HostStep ==
  \/ \E l \in Limits : SetShutdownThreshold(l)
  \/ SetOsActiveTrip
  \/ \E d \in Duties : WritePwm(d) \/ BiosFanControl(d)
  \/ \E b \in BOOLEAN : UpdatePwm(b) \/ AcpiMode(b) \/ Standby(b) \/ PltRst(b)
  \/ \E m \in {"legacy", "espi", "wrong"} : AccessMode(m)
  \/ OsReads

(***************************************************************************)
(* The machine, and other threads: only where the thermal thread yields.   *)
(***************************************************************************)
Heat(t) ==
  /\ Outside /\ real # t /\ real' = t
  /\ UNCHANGED <<pc, fan, sense, table, hubVars>>
  /\ UNCHANGED <<s0, rst, tripped, told, lost, hosted, called>>

C10(low) ==
  /\ Outside /\ c10 # low /\ c10' = low
  /\ UNCHANGED <<pc, fan, sense, table, s0, rst, tripped, real, told, lost, hosted>>
  /\ UNCHANGED <<called, owner, mode, hubReady, tjmax, call, faults>>

(* The PWR thread takes the machine out of S0: after a thermal shutdown,   *)
(* or because the host went to sleep; and back, unless it has tripped.     *)
Power(on) ==
  /\ Yields /\ s0 # on /\ s0' = on
  /\ IF on \/ ~tripped THEN Outside
                       ELSE UNCHANGED outside
  /\ on => ~tripped
  /\ told' = -1
  /\ UNCHANGED <<pc, fan, sense, table, rst, tripped, real, lost, hosted, called>>
  /\ UNCHANGED hubVars

(* Another thread calls the hub; none in this repository does.             *)
Client(c, dev, cmd) ==
  /\ Yields /\ Outside /\ called < MaxCalls /\ called' = called + 1
  /\ Start(c, dev, cmd)
  /\ UNCHANGED <<pc, fan, sense, table, s0, rst, tripped, real, told, lost, hosted>>
  /\ UNCHANGED <<owner, mode, hubReady, tjmax, c10, faults>>

Machine ==
  \/ \E t \in Temps : Heat(t)
  \/ \E b \in BOOLEAN : C10(b) \/ Power(b)
  \/ \E c \in Clients, d \in Devices, cmd \in ClientCmds : Client(c, d, cmd)

Next ==
  \/ NoClientRuns /\ ThreadStep
  \/ HostStep \/ DelayOver \/ Machine
  \/ \E c \in Callers : Transfer(c)

(* Threads go on, the link answers, the timer and the PWR thread's way     *)
(* down end.  A client that is ready runs at one of the next switches: the *)
(* scheduler keeps it in its queue, though its step is not enabled while   *)
(* the thermal thread runs.                                                *)
Fairness ==
  /\ WF_vars(NoClientRuns /\ ThreadStep) /\ WF_vars(DelayOver)
  /\ WF_vars(Transfer("therm")) /\ \A c \in Clients : SF_vars(Transfer(c))
  /\ WF_vars(tripped /\ Power(FALSE))

Spec == Init /\ [][Next]_vars
FairSpec == Spec /\ Fairness

(***************************************************************************)
(* Properties.                                                             *)
(***************************************************************************)
(* What the host or the thread asked of the fan reaches the PWM: when the  *)
(* thread sleeps, a PWM that does not drive fan_duty_cycle has its change  *)
(* flag still up, or was set by the BSOD override since, or the driver     *)
(* refused the last duty: the code does not try again.  An interrupt that  *)
(* changes the duty cycle while the pass writes it must not be lost        *)
(* (thermalmgmt.c:282-288, fan_ls.c:71-85).                                *)
FanSettles == pc = "sleep" /\ hw # Driven(duty) => change \/ setBy # "duty"

(* The machine is only shut down for heat when the CPU really was at the   *)
(* critical temperature when it was asked, or when the host put the limit  *)
(* at or under the fail safe temperature: no unreadable or invalid answer  *)
(* of the link does it, but one over eSPI without its data may             *)
(* (thermalmgmt.c:380-384, peci_hub.c:299-308, 766-781).                   *)
ShutdownJustified ==
  [][tripped' /\ ~tripped => reply' >= crit \/ crit <= FailTemp \/ short']_vars

(* An OS that listens does not work with an old temperature: when the      *)
(* thread sleeps and no SCI is outstanding, what the OS read is within     *)
(* twice CPU_TEMP_ALERT_DELTA of what the table shows, unless it read the  *)
(* fail safe temperature a reset puts there, or an alert was lost in a     *)
(* full queue since: the temperature counts as told all the same           *)
(* (thermalmgmt.c:400-411, sci.c:141-144).                                 *)
ToldCurrent ==
  pc = "sleep" /\ ScisOn /\ ~sci /\ ~lost /\ told \notin {-1, ResetTemp}
    /\ ~delay /\ ~tripped /\ ~short
    => Away(told, shown) <= 2 * AlertDelta

(* A CPU that stays at or over the critical temperature, short of TjMax,   *)
(* is shut down, whatever other users of the hub, C10, resets and failed   *)
(* transfers do on the way.  At TjMax itself the answer is 0 and is taken  *)
(* for a fault (peci_hub.c:771-781); a TjMax that never came is kept for   *)
(* good.                                                                   *)
Overheats ==
  /\ ~short
  /\ s0 /\ hubReady /\ ~c10 /\ ~(QuietInCs /\ cs)
  /\ real >= crit /\ real < TjMax

HotShutsDown == []<>~Overheats \/ <>tripped

=============================================================================
