# A verification project for the EC firmware

This directory holds TLA+ models of the embedded controller firmware in
`src/`, the TLC configurations that check them, and TLAPS proofs about them.

    tlc -workers 2 -config PwrPlaneRace.cfg PwrPlane
    tlapm PwrPlaneProofs.tla

`PROJECT.json` is the machine-readable index: the components, the runs with
their properties, a faulty variant ("mutant") for every checked property, the
source lines behind every definition, the hazards, the findings and the
theorems.

Contents: [the system](#1-the-system), [the modules](#2-the-modules),
[runs](#3-runs-and-bounds), [proofs](#4-proofs),
[findings](#5-findings), [what is left out](#6-what-is-not-modelled),
[plan](#7-plan).


## 1. The system

The firmware runs on Zephyr. `main()` (`app/app.c`) initialises the eSPI hub
and the board and starts the threads of `misc/task_handler.c`. **All threads
have the one cooperative priority K_PRIO_COOP(5)**: a thread is replaced only
where it sleeps or blocks, while interrupts cut in between any two memory
accesses. Nearly all of the shared state of the firmware is plain static
variables, so that these two facts decide what can go wrong, and every module
here is built on them.

| thread   | period | body |
|----------|--------|------|
| PERIPH   | 1 ms   | button debouncing |
| PWR      | 10 ms  | power sequencer; the only one that can be suspended |
| SMC      | 10 ms  | ACPI EC commands, SCI events |
| OOB      | -      | out-of-band messages over eSPI |
| THERMAL  | 250 ms | sensors, PECI, fans, thermal shutdown |
| KBC, KB  | -      | keyboard controller and keyboard scan |
| POST     | 125 ms | post-code display |

The default build (`prj.conf`) links the PoC sequencer and command port
(`poc_pwrseq.c`, `poc_smchost.c`); the full ones (`pwrplane.c`, `smchost.c`
and what goes with them) are in the tree and are what those replace in a
simplified form. Both are modelled; the full ones hold most of the logic.

### Inventory

**Power sequencer** (`pwrplane.c`, `pwrseq_utils.c`). State: `current_state`,
`next_state`, `pwrseq_failure`, the pins PM_RSMRST, PCH_PWROK and SYS_PWROK,
`g_pwrflags`. Operations: `pwrseq_task_init()`, a pass of `pwrseq_thread()`,
`pwrseq_update()` with power on, suspend, resume and power off,
`pwrseq_error()`, the handlers of the sleep virtual wires and of the bus
reset, `therm_shutdown()`. It is the master of the system state: the SCI
queue, thermal management, pseudo G3 and the command port ask it for
`pwrseq_system_state()`. Hard: interrupts and the THERMAL thread write
`next_state` while a transition sleeps; a rail or a write may fail halfway;
every wait can time out. Correct means: power goods rise and fall in order, a
failure leaves them low and stops the sequencer, a state is entered with its
rails as they must be, and what the host asks for is reached in the end.

**PoC power sequencer** (`poc_pwrseq.c`). Three sleep levels, `cur_state`,
`next_state`; the state follows the levels. Hard: the initial levels, the
callback order of the hub.

**Pseudo G3** (`pseudog3.c`). `pg3_state`, previous state, DC counter, wake
flag. A state machine run once per pass of the PWR thread, a timer that counts
in interrupt context, the exit pulse. Correct means: entered only in S4/S5, on
battery, and left by every wake source.

**Deep Sx and DSW mode** (`deepsx.c`, `dswmode.c`). A SUS_WARN handshake with
aborts; a mode kept in EEPROM. Hard: the host takes a request back, a restart
between the change in memory and the write.

**Button debouncing and power button** (`periphmgmt.c`, `pwrbtnmgmt.c`). A
table of buttons with `debouncing`, `deb_cnt`, `prev_level`; a semaphore; the
pin to the SoC. The GPIO interrupt restarts a debounce, the PERIPH thread
counts it down and reports the level; the PWR thread pulses the same pin to
wake the SoC. Hard: the interrupt between any two accesses, registration with
the interrupt already live, failed reads of expander pins. Correct means: no
change of a button is lost, the SoC never sees a press that ended.

**eSPI hub** (`espi_hub.c`, `espi_hub_stub.c`). Handler tables, the status of
the channel and of the bus reset, wait loops with a timeout. Hard: the status
is read after the callback that maintains it was registered and then stored;
a handler registered later than its first event. Correct means: every warning
the EC was told of is acknowledged.

**OOB manager** (`espioob_mngr.c`). Per master a mutex, a semaphore and the
packets of the call; a queue of asynchronous requests and messages. Callers
are thermal management, `pmc.c` and the PECI hub. The receive handler decides
from the count of the semaphore alone whether a message answers a request.
Hard: late answers, three exits, a buffer on the caller's stack. Correct
means: no copy into a buffer that is gone, lock and semaphore restored, each
accepted asynchronous request called back.

**SMC command port and SCI queue** (`smchost.c`, `sci.c`, `acpi_ls.c`). IBF,
OBF and SCI_EVT of the ACPI EC interface, the request and response buffers
with length and index, flags for burst and normal mode, the SCI queue and the
semaphore of the thread. The eSPI interrupt executes most commands at once;
the SMC thread sends the rest of a response and announces events. Hard: three
writers of the output register, the interrupt between the steps of the thread,
events dropped or purged, a host that stops halfway. Correct means: every
request gets its own answer, each accepted event reaches the OS once and in
order, no work is left while the thread waits.

**SMC command handlers** (`smc.c`, `smchost_info.c`, `smchost_pm.c`,
`smchost_thermal.c`). The table of ACPI values, which the host writes and the
SMC thread works through: a command with a test, an execution and a clearing,
the backlight, the power-loss notification of an SSD with a button, a timer
and a reset behind it. Hard: each job reads what it works on more than once.
Correct means: a command runs once before the host sees it cleared, the SSD is
told of a loss when there is one and only then.

**PoC command port** (`poc_smchost.c`). A small KCS command set over
`acpi_ls.c`; the place of a data byte comes from a counter that runs on after a
command. Hard: stray bytes, requests given up, a full buffer, a host that does
not read. Correct means: a command executes with its own parameters and is
answered.

**Keyboard controller** (`kbchost.c`, `ps2kbaux.c`). The 8042 command state
machine, the queue of key bytes and the queue of host bytes, the wake of a
sleeping host. Hard: two threads and an interrupt share the output register;
retries that give up; commands that purge a queue in use. Correct means: every
command gets its own answer, a disabled keyboard is quiet, a key wakes the
host.

**Keyboard scan** (`kbs_matrix.c`, `keyboard_utility.c`, key maps). Make and
break codes, Fn combinations, the typematic timer. Hard: a break is translated
with the modifiers of its own time; the timer is an interrupt. Correct means:
the host believes no released key down, only a held key repeats.

**Thermal management** (`thermalmgmt.c`, `thermal_sensor.c`,
`adc_sensors.c`, `fan_ls.c`). Temperatures against limits the BIOS may change,
fan control with an OS override, a shutdown, notifications of the OS. Hard: a
request and its change flag are two variables the host writes at any time;
failed sensors; a processor that resets or sleeps while it is asked. Correct
means: the fan ends at what was asked for, a hot processor is shut down, a cool
one is not.

**PECI hub** (`peci_hub.c`). A mutex around a transfer, retries with a retry
bit, completion codes, TjMax fetched on first use; over the wire or over OOB.
Hard: what an attempt leaves for the next; a value the processor never had.

**Post codes** (`postcodemgmt.c`, `port80display.c`, `max6958.c`). The host's
codes and the sequencer's error, a semaphore, a display on a bus shared with
the EEPROM. Hard: the thread reads its data in several steps. Correct means:
the last code or error is shown.

**EEPROM and I2C** (`eeprom.c`, `i2c_hub.c`), **PMC and SoC debug awareness**
(`pmc.c`, `soc_debug.c`), **task handler** (`task_handler.c`), **GPIO, VCI,
straps, flash header, boards**: small, mostly I/O; their notes in
`PROJECT.json` say what of them appears where.

### How they interact

    host / SoC --virtual wires--> eSPI hub --callbacks (interrupt)--> power sequencer
    buttons --GPIO interrupt--> PERIPH thread --handlers--> PM_PWRBTN, SMC events
    host --KCS/ACPI bytes (interrupt)--> SMC port <--events-- thermal, KBC, sequencer
    thermal, PMC, PECI --calls--> OOB manager --packets--> PCH
    thermal --therm_shutdown(): pins, next_state, suspend--> power sequencer
    thermal --requests--> PECI hub --wire or OOB packets--> processor
    scan matrix --bytes--> keyboard controller --ODR, wake pulse--> host, sequencer
    sequencer --suspend in S4/S5--> deep Sx --SUS_ACK, RSMRST--> SoC
    sequencer --pwrseq_error(), host --port 80h (interrupt)--> POST thread --I2C--> display
    sequencer --pwrseq_system_state()--> SCI queue, thermal, pseudo G3


## 2. The modules

| module | models | kind |
|--------|--------|------|
| `SystemPower` | what the sequencer promises the rest of the firmware | abstract specification |
| `Pg3States` | the pseudo-G3 transition function and the system states | pure operators |
| `PwrPlane` | power sequencer, pseudo G3 as part of its pass, thermal shutdown | detailed specification |
| `PwrPlaneProofs` | types, failures, pin order and pseudo G3 for all constants; `PwrPlane` implements `SystemPower` | proofs |
| `EspiHub` | eSPI hub | a part: state and events, composed by the next two |
| `Poc` | the default build: start, hub, PoC sequencer, PoC command port | composition with `EspiHub` |
| `PocProofs` | types, warnings and parameters for all constants | proofs |
| `DeepSx` | deep Sx, the mode in EEPROM, restarts | composition with `EspiHub` |
| `Buttons` | debouncing and the power button | detailed specification |
| `Oob` | OOB manager | detailed specification |
| `OobProofs` | types, ownership of a master and of its packets for all constants | proofs |
| `SmcHost` | command port and SCI queue | detailed specification |
| `SmcHostProofs` | types, parameters, answers and events for all constants | proofs |
| `AcpiTable` | the jobs of the SMC thread that come through the ACPI table | detailed specification |
| `AcpiTableProofs` | types, commands, power-loss notice for all constants | proofs |
| `KbsMatrix` | scan matrix, Fn layer, typematic timer | a part: state and operators |
| `KbcHost` | keyboard controller | composition with `KbsMatrix` |
| `InputProofs` | for `Buttons` and `KbcHost`, what the user does: types, reported levels, the power button, repeated keys, the disabled keyboard, stuck keys, answers, for all constants | proofs |
| `PeciHub` | PECI requests, retries, access modes, conversions | a part: state and steps of a call |
| `Thermal` | thermal thread, sensors, fan, host commands | composition with `PeciHub` |
| `ThermalProofs` | types, the justified shutdown, the fan, what the OS is told, for all constants | proofs |
| `Postcode` | post codes, display, its bus | detailed specification |
| `I2cClientsProofs` | for `Postcode` and `DeepSx`, whose threads share the I2C bus: types, what is displayed, RSMRST# and the stored mode, for all constants | proofs |

Each module names its actors in its head comment; operators called "Faulty
variant" are the mutants of `PROJECT.json` and are used nowhere else.

### PwrPlane

One action of the PWR thread is a stretch of code between two points where the
write of another actor can be seen. `pc` names the points; those in
`YieldPoints` sleep, and only there the THERMAL thread may run. The interrupt
actions (`SlpEvent`, `BusReset`) are enabled everywhere and write only `nxt`,
as the handlers do.

| model | code |
|-------|------|
| `cur`, `nxt`, `failure` | `current_state`, `next_state`, `pwrseq_failure` |
| `tgt` | the value of `next_state` the `switch` of `pwrseq_update()` saw |
| `pc = "on_..."`, `"chk_..."`, `"init_..."` | the wait loops of `power_on()`, `check_slp_signals()` and `pwrseq_task_init()` |
| `tpc`, `inTherm`, `ticked` | the thread inside `therm_shutdown()`; its 100 ms sleep spans a whole pass of PWR unless that one sleeps longer |
| `level`, `pmRsmrst`, `pg3`, `pg3prev` | the PM_RSMRST level of this pass and of the last, pseudo G3 |

Each write of PCH_PWROK or SYS_PWROK is an action of its own, in the order of
the function it is in: `pwrseq_error()` and `suspend()` lower PCH_PWROK first
(`ErrorDropsPch`, `SuspendDropsPch`), `power_off()` and `therm_shutdown()`
SYS_PWROK first (`PowerOffDropsSys`, `ThermTrip`).

The variable `host`, one of the constant `Hosts`, says how the SoC of a run
moves the sleep wires: `"any"` way at any time, `"in_order"`, or in order and
`"patient"`, that is, asserting a wire only between passes. Safety is checked
and proved for `"any"`; only `FollowsHost` speaks of a patient one, because a
host that changes its mind can overtake the sequencer for ever.

`SystemPower` has four variables: the state, the goal the sequencer works for,
the rails, and whether an error stopped it. A state is entered with the rails
as the goal needs them. A request that comes while the sequencer works for
another is committed in place of that goal: `Overtaken`, the one step in which
state and rails may disagree, and what `pwrplane.c:588` does. `Contract` in
`PwrPlane` instantiates it with `state <- cur`, `goal` from `tgt`,
`stopped <- failure` and the rails read off the two PWROK pins.

### Buttons

Each memory access the interrupt can come between is an action: the load and
the store of `deb_cnt--`, the test, the clearing of the flag, the reset of the
count, the read of the level, the store of `prev_level`. Registration is
modelled the same way, from the PERIPH thread (power button) and the SMC
thread (the others), since the handler is installed before `prev_level` is
read. `sem` and `semReady` are the debounce semaphore and whether
`k_sem_init()` has run; a give before that has no effect. `early` records that
such an edge happened, `dropped` that the last debounced level could not be
read: the properties exclude exactly these two.

### Oob

`owner`, `sem` and `rxOf` are `txn_lock`, `txn_sync` and `master->rx` of each
master. A call moves through `lock`, `sending`, `wait`, `woken`, `done`, `give`;
`Unlock` and `Return` are the unlock and the give at the end of
`oob_send_sync()`: another thread cannot come between them, the receive
interrupt can. `Route` is the receive handler; it may run between
any two steps, and `Response` may deliver the answer to a request long after
it timed out, in any order, or never.

### SmcHost

The variables follow the statics of `smchost.c` and `sci.c`. The interrupt is
`IsrByte` (one turn of the loop), `IsrSend` (its wait for OBF) and `IsrEnd`
(the give of the semaphore); nothing but the host runs between them. The SMC
thread is cut at every access to state the interrupt shares; `Write`, `Index`
and `Length` are the three statements of `proc_host_send()`. Other threads,
the power sequencer included, act only where this one yields; a PS/2 interrupt
may queue an event anywhere.

The interrupt may come late, anywhere between two steps of the thread. A host
whose next request begins between the thread's write of ODR and its update of
`host_res_len` has its response shortened; `overrun` records that this
happened. `SmcHostLost` shows that requests then go unanswered; the properties
about answers and events speak of the runs in which it did not (`Orderly`), and
show that this window and a host that gives a request up are the only things
that break the stream. After an overrun also an event in ODR can be overwritten.

### AcpiTable

`command` and `duty` are the bytes of `g_acpi_tbl` the jobs read.
`acpi_write_ec()` and `write_acpi_space()` do the same to them.
A pass of the SMC thread is cut at every access to what an interrupt may
write: `PlnTest`, `PlnDrive`, `PlnClear` are the three statements of
`manage_pln_signal()`, `Service`, `Run`, `Finish` those of
`service_system_acpi_cmds()`, `DutyTest`, `Blink`, `Keep` the three reads of
`handle_kb_backlight_pwm()`. `raced` marks a job whose input an interrupt
changed between its last two accesses; the properties exclude these jobs and
no others.

### EspiHub, Poc and DeepSx

`EspiHub` keeps what the firmware knows (`hub`), the channel, the reset and the
levels of the wires, who is registered and what has been acknowledged; `heard`
are the wires
whose last event reached a handler. A bus event is one action, composed with
what the handlers of the composing module do: `Slp` in `Poc` is `SlpEvent` of
the hub and `pwrseq_slp_handler()`.

`Poc` starts in `main()` with the hub not configured and cuts `espihub_init()`
at the read and the store of both states. `missed` records that the channel
changed between them. The command thread takes one byte per step; `h` is the
host with its request, `Stray` a data byte nobody asked for. Bytes carry the
number of their request, so that `OwnParameters` can compare them.

In `DeepSx` the PWR thread goes through `deep_sx_enter()` and `exit_deeps4()`
wait by wait; `soc` is the place of the SoC in the handshake, from which it may
also turn back. `seen` is the level of RSMRST_PWRGD the last pass read, which
decides on the delay. `Bios` is the BIOS's update of the mode, an interrupt;
`Restart` resets the EC between any two steps of `dsw_save_mode()`, after which
the EEPROM may be unreadable.

### KbsMatrix and KbcHost

`KbsMatrix` translates a press or a release of one key of each kind (an
ordinary one, Fn, ctrl, num lock, a key with a code on the Fn layer, a hotkey,
pause, print screen) with the flags of that moment. Bytes are records that say
which key they make or break, so that `down` can hold what the host believes.
`KbcHost` adds the queues and the two threads: `toSend` are the bytes the KBC
thread still has to send, `tries` and `triesK` the retries of the two write
loops. One command stands for each kind of effect and of answer
(`CommandEffect`, `Answer`). `asleep` is the host's own S3 and `s3` what
`pwrseq_system_state()` says, which the PWR thread commits later (`Commit`) and
takes back at the end of `resume()`, where it also enables the keyboard
interface (`Resume`). `Disciplined` excludes the key orders listed as
observations below.

### PeciHub and Thermal

A call of the hub is a record per caller: device, command, attempts left,
access mode, result. `Transfer` is one attempt with every answer the wire or
OOB may give. `Thermal` calls it from the thermal thread and from the host
commands' thread; a pass is cut where an interrupt may change the duty, the
limits or the C10 state. `real` is the temperature the processor has, `reply`
the one it had when it answered, so that `ShutdownJustified` can tell an
answer from a fault. Three steps of the code lose something for good, and each
leaves a mark: `short`, an answer over eSPI without its data, of which the
caller reads what is on its stack (`StackBytes`, `StackWords`); `setBy`, which
says whether the PWM was set last by the duty, the BSOD override or a write
that failed; `lost`, an alert that met a full SCI queue.

### Postcode

The POST thread is cut at the test of the error, both writes of the ports,
both reads for the word and each transfer. `excused` says that nothing was
signalled since a signal came before the semaphore existed or a transfer of
the word failed, the two cases in which the code does not show a value.


## 3. Runs and bounds

The properties are stated, with the code they are about, above their
definitions. Each module also has a type invariant `TypeOK` (`KbcTypeOK`,
`PostTypeOK`), which is proved.

| run | asks | bounds and choices |
|-----|------|--------------------|
| `PwrPlaneRace` | Does a failure leave the platform dark and stopped, is pseudo G3 confined, whatever the SoC, the inputs and a thermal shutdown do, in any order? (`FailedIsDark`, `FailureStops`, `Pg3OnlyInDeep`) | no bound: the state is finite. Any host, faults, thermal trips, all settings |
| `PwrPlaneOrderly` | Are the pins ordered, does the sequencer implement `SystemPower` and follow the host? (`PwrokOrder`, `PwrokNeedsRsmrst`, `KeepsContract`, `FollowsHost`) | no bound; any host and a patient one, no faults, no trips; fair. The three safety properties are proved for every fault as well |
| `ButtonsRace` | Is any change of a button lost or a press stuck? (`QuietMeansReported`, `NoStuckPress`, `Settles`) | two buttons, one registered by each thread; debounce count 3; three edges |
| `OobRace` | Late and lost answers, competing callers: stray copies, false success, lost callbacks? (`NoStrayCopy`, `AnswerArrived`, `AsyncAnswered`) | one master, one client and the OOB thread; queue of 2; three requests, one unsolicited message; two packet sizes |
| `SmcHostRace` | Answers, parameters and events under every interleaving? (`AnswersMatch`, `OwnParameters`, `EventsKept`, `EventsServed`, `OrderlyAnswered`) | buffer of 3, queue of 1, responses of 2 bytes; five commands, two requests, two events, one fault, two of events and faults together |
| `SmcHostLost` | Expected to be violated: see [findings](#5-findings) | the same with one command, no events and no faults |
| `TableRace` | Commands, the power-loss notice and the backlight against the host, the timer and resets? (`CommandsRunOnce`, `NoFalseNotice`, `NoticeGiven`, `BacklightFollows`) | two commands, three other accesses, four button events and resets; times below and above the minimum |
| `KbcRace` | Stuck or repeated keys, mixed or missing answers, a keyboard that is not quiet, a host that sleeps on? (`NoStuckKey`, `RepeatsHeldKey`, `DisabledIsQuiet`, `AnswersMatch`, `CommandsAnswered`, `KeyWakesHost`) | keys `right`, `fn`, `a`; seven commands; queues of 3 and 2; one retry; three slow reads; four units of work |
| `ThermalRace` | Is a shutdown justified and does a hot processor get one, does the fan settle, does the OS know? (`ShutdownJustified`, `HotShutsDown`, `FanSettles`, `ToldCurrent`) | one other PECI client, two tries, one fault; four temperatures, two limits and duties, two junk bytes; two host commands, two outside events, one call |
| `PocRace` | The default build: warnings, states, parameters, answers? (`WarningsAnswered`, `FollowsSignals`, `OwnParameters`, `RequestsAnswered`) | buffer of 4, two polls; a command of each length; two requests, two stray bytes, four bus events, four together |
| `DeepSxRace` | Is a live SoC ever reset, is the mode kept, does a resume end? (`NoResetWhileUp`, `ModeKept`, `Resumes`) | the modes off, S5 on battery and S4/S5; two polls, suspends and updates; one fault |
| `PostcodeRace` | Is the last code or error displayed? (`NothingStranded`) | two codes, one error; two tries; three codes, two error reports, three failed transfers |

**Why the bounds are enough.** `PwrPlane` is checked without bounds.

*Buttons*: entries of the table share only the semaphore and the loop index,
so two show every interaction; the count only needs room for an edge at the
start, in the middle and at the end of a countdown (3 instead of
`GPIO_DEBOUNCE_CNT`); three edges allow a press, its bounce and a release with
one of them anywhere.

*Oob*: masters share nothing but the queue and each lock is per master, so one
is enough for the lock; three requests allow one to time out, the next to run
when the late answer comes, and a third to compete. The second size makes an
answer that does not fit.

*SmcHost*: the longest request has three bytes, which is the smallest buffer
the code could have; a queue of one is full and empty in turn; a response of
two bytes has a first, a last and a step between; two requests are one that is
broken off and its successor. The five commands are one for each way a command
ends: an answer by the interrupt, a response by the thread, the burst
acknowledge and the two that change the ACPI mode. The remaining commands
(`space`, `write`, `normal`, `sx_entry`, `sx_exit`, `other`) add no way; to
check them, replace `Cmds` in `SmcHostRace.cfg`.

*AcpiTable*: a second command is one that follows a clearing; four events allow
a press, an expiry with a reset or a release around it, and the next press.
Commands and the notice are proved without these bounds, and so are the
safety properties of `ButtonsRace`, `OobRace`, `SmcHostRace`, `PocRace`,
`DeepSxRace`, `ThermalRace` and `KbcRace` without theirs.

*Poc*: the buffer holds one byte more than the longest request (a command and
two parameters), so that it is overrun by stray bytes; a second request meets
what the first left; an event of each kind can fall into each gap of the start.

*KbcHost*: `a` is an ordinary key, `right` one with a prefix and a code on the
Fn layer, `fn` the modifier; num lock, ctrl, print screen, pause and the
hotkeys are in the module and can be put into `Keys`. The queue of three holds
an extended make and one more byte, so that it overflows; the commands cover
each effect (off, on, purge, stop, clear), each answer length and the
parameter state.

*PeciHub, Thermal*: two tries are a first and a retried one; one fault makes
either of them fail; 95 is above the limit 90, and the limit 0 asks for the
default; 33, 36 and 39 are one and two alert steps apart. A chain of two
readings that stay just below the step needs more outside events than the run
has; the theorem covers every temperature. TjMax is 100, under the default limit 103.

*DeepSx*: two polls are one that waits and one that times out; two suspends
are one after an abort or a restart.

*Postcode*: a third code meets a thread that is showing the second while the
first is on the display; two tries are a failed one and the last. Proved
without these bounds.

**Fairness.** `PwrPlane`: weak fairness of the PWR thread: the scheduler runs
a ready thread, its sleeps and its waits end (each has a timeout), and a
pressed power button is released some time. Nothing is assumed about the host
beyond `host`. `Buttons`: weak fairness of PERIPH and SMC, for the same
reason; none of the edges, the reads or the wake pulse. `Oob`: weak fairness
of every calling thread and of the OOB thread; all waits in `oob_send_sync()`
are bounded; none of the masters. `SmcHost`: the interrupt is taken, the SMC
thread is scheduled; the host goes on with a request it has begun, or gives it
up, and the OS looks into an SCI it sees announced. No fairness makes the host
begin a request. `AcpiTable`: the SMC and PERIPH threads are scheduled and a
running timer expires. `KbcHost`: both threads are scheduled, and the host
reads the output register, goes on with its command and wakes up when told to;
it may let `MaxSlow` sleeps of the threads pass first, more than the retries. `Thermal`: the thread is scheduled, the delay after a
reset ends, a transfer of the thermal thread ends, and after a trip the power
goes down; strong fairness of the other clients' transfers, because they
compete for the mutex with the thread, and a mutex of Zephyr passes to the
thread that waits. `Poc`: `main()` ends; strong fairness of the two threads:
each sleeps once a pass, and a thread made ready meanwhile stays in the ready
queue until it has run. `DeepSx`: the PWR thread is scheduled and a live SoC
goes on with its handshake; none of suspends, aborts or wakes. `Postcode`: POST
is scheduled and gets the bus although others use it again and again; a
transfer of another thread ends.

**Deadlock** is checked in `PwrPlane` and in `ButtonsRace`, which never stop.
The other runs end when their bounded environment has nothing left to do, so
the check for deadlock is off there; a thread that hangs would show in their
liveness properties.


## 4. Proofs

TLC shows the properties on the instances above, the following theorems for
every value of the constants that satisfies the module's assumption (types of
the constants, nothing else).

| theorem | statement | further assumption |
|---------|-----------|--------------------|
| `PwrPlaneProofs!TypeCorrect` | `Spec => []TypeOK` | |
| `PwrPlaneProofs!FailureIsDark` | `Spec => []FailedIsDark` | |
| `PwrPlaneProofs!FailureStopsSequencing` | `Spec => FailureStops` | |
| `PwrPlaneProofs!PwrokOrdered` | `Spec => []PwrokOrder` | `~Thermal` |
| `PwrPlaneProofs!PwrokAfterRsmrst` | `Spec => PwrokNeedsRsmrst` | `~Thermal` |
| `PwrPlaneProofs!Pg3Confined` | `Spec => []Pg3OnlyInDeep` | |
| `PwrPlaneProofs!Refinement` | `Spec => KeepsContract` | `~Thermal` |
| `InputProofs!ButtonTypes` | `Spec => []TypeOK` | |
| `InputProofs!QuietIsReported` | `Spec => []QuietMeansReported` | |
| `InputProofs!NeverStuck` | `Spec => []NoStuckPress` | |
| `InputProofs!KbcTypes` | `KbcSpec => []KbcTypeOK` | |
| `InputProofs!NoKeyIsStuck` | `KbcSpec => []NoStuckKey` | |
| `InputProofs!OnlyHeldKeysRepeat` | `KbcSpec => []RepeatsHeldKey` | |
| `InputProofs!DisableEndsTheStream` | `KbcSpec => []DisabledIsQuiet` | |
| `InputProofs!AnswersAreInOrder` | `KbcSpec => []AnswersMatch` | |
| `OobProofs!OobTypes` | `Spec => []TypeOK` | |
| `OobProofs!SuccessMeansAnswer` | `Spec => []AnswerArrived` | |
| `OobProofs!PacketsAreOwn` | `Spec => []NoStrayCopy` | `~EarlyRx` |
| `SmcHostProofs!SmcTypes` | `Spec => []TypeOK` | |
| `SmcHostProofs!ParametersAreOwn` | `Spec => []OwnParameters` | |
| `SmcHostProofs!AnswersAreOwn` | `Spec => []AnswersMatch` | |
| `SmcHostProofs!EventsReachTheOS` | `Spec => []EventsKept` | |
| `PocProofs!PocTypes` | `Spec => []TypeOK` | |
| `PocProofs!EveryWarningAnswered` | `Spec => []WarningsAnswered` | |
| `PocProofs!ParametersAreOwn` | `Spec => []OwnParameters` | |
| `I2cClientsProofs!DeepSxTypes` | `Spec => []TypeOK` | |
| `I2cClientsProofs!ResetOnlyInSuspend` | `Spec => []NoResetWhileUp` | |
| `I2cClientsProofs!ModeIsKept` | `Spec => []ModeKept` | |
| `I2cClientsProofs!PostTypes` | `PostSpec => []PostTypeOK` | |
| `I2cClientsProofs!NothingLeftToShow` | `PostSpec => []NothingStranded` | |
| `I2cClientsProofs!ErrorIsLit` | `PostSpec => []ErrorLit` | |
| `ThermalProofs!ThermalTypes` | `Spec => []TypeOK` | |
| `ThermalProofs!ShutdownsAreJustified` | `Spec => ShutdownJustified` | |
| `ThermalProofs!FanKeepsUp` | `Spec => []FanSettles` | |
| `ThermalProofs!OsIsToldInTime` | `Spec => []ToldCurrent` | |
| `AcpiTableProofs!TableTypes` | `Spec => []TypeOK` | |
| `AcpiTableProofs!EachCommandOnce` | `Spec => []CommandsRunOnce` | |
| `AcpiTableProofs!NoticeJustified` | `Spec => []NoFalseNotice` | |

The argument, from the bottom up:

* *Types.* `TypeOK` is inductive, or nearly so: `Postcode` also needs that a
  thread about to switch the display on has a try left (`TriesLeft`), and
  `Buttons` that a debounce count is 0 only between its decrement and its reset
  (`CountsOK`), which is why the `uint8_t` never wraps. The
  proofs split it into parts by kind of value, each with a step lemma of one
  case per action or group of actions.
* *Failure.* `FailedIsDark` alone is not inductive: nothing in it says that a
  failed sequencer is not inside `power_on()`, about to raise a pin.
  `FailureInv` adds that with a failure the PWR thread is at one of
  `FailedPoints`. `FailureStops` then follows step by step: at these points no
  action clears the flag, commits a state or raises a pin.
* *Pins.* SYS_PWROK is raised at `on_t99`, so `PinInv` records that PCH_PWROK
  is up there and that RSMRST is released at every point of the sequence after
  the one that releases it (`AfterRsmrst`). Where SYS_PWROK may be alone is one
  point of `suspend()` and one of `pwrseq_error()`; that the second write
  follows at once is in the program points. A thermal trip drops both power
  goods while the PWR thread sleeps at `on_t99`, after which the thread raises
  SYS_PWROK alone: this is why the two theorems exclude trips. (The failure
  theorems do not.)
* *Pseudo G3.* Between two passes the machine is outside S4/S5 only in
  `disabled` or `idle`; inductive once the initialisation is known to run with
  it disabled (`Pg3Inv`).
* *Refinement.* The mapping reads the goal off `tgt` and the rails off the
  pins. `JobInv` says which goal each program point works for and from which
  states, `RailInv` which pins have been written by then, `RequestInv` that a
  request is never G3. None of them relates `next_state` to `tgt`, since an
  interrupt may change it at any point: the commit is `Enter` when both agree
  and `Overtaken` when they do not. Together with types, failures and pins they
  form `RefInv`; under it each action is a step of `SystemPower` or a stutter.
* *Buttons.* `QuietMeansReported` speaks of a thread that waits. At the other
  points `Accounted` says where the level of each button that is not marked for
  debouncing is: read by registration and not yet stored, about to be read by
  the loop, read and not yet reported, or stored. An edge marks the button,
  which ends the obligation; this is where the order of `debounce_pins()`
  matters, which clears the mark before it reads the level. `dropped` excuses
  only a stored level: one that has just been read is current whatever failed
  before. `NoStuckPress` adds what the handler of the power button knows
  (`HandlerKnows`): a stored release has been passed on, and without a pulse
  the pin is up whenever the last level passed on was.
* *Stuck keys.* What the host will believe once it has read the register and
  the queue (`Stays`) must be held down by a key the user holds (`HeldDown`),
  and with `hotkey_detected` set it must be nothing, because the release will
  not be sent (`Keyed`). The lemmas before it say what the bytes do whatever
  lies between them: a code that is appended is read after the rest
  (`StaysAppended`), each byte that moves or is read keeps what is believed
  (`StreamWritten`, `KeyRead`), answers among the keys change nothing
  (`OtherRegister`, `AnswersSilent`). A prefix must stay before its key
  (`Framed`). `MakeEffect` and `BreakEffect` say that a release takes back what
  the press of the same key, on the same layer, has sent.
* *Repeated keys.* A key that repeats is held because the timer runs only while
  the scan does (`Held`): a break of another key restarts the timer only with
  the code of a key that is down, and what stops the scan stops the timer.
* *Disabled keyboard.* The command clears the bit first and empties the queue
  afterwards, with a place between where the user may type. `QuietInv`: with
  the bit clear no callback adds a key, and until the purge has run it is still
  among the effects to come (`OffThenPurge`).
* *Keyboard answers.* Each moment is one of three (`Account`): commands wait
  in the queue and nothing of an answer is about (`Queued`); the last
  has been taken and what the host still waits for is, in order, the byte in
  the register, what the thread has to send or what it left in the queue of key
  bytes, never split between the last two (`Flows`); or nothing
  comes any more (`Stuck`: `ENABLE` sends a byte it does not count, a parameter
  is taken for another command's). That the thread has no more to say than
  the host waits for needs the state each command leaves (`StateOK`, `NextOK`)
  and, for `RESEND`, that both remember the same bytes (`Recalled`).
* *Display.* `NothingStranded` speaks of a thread that waits; what makes it
  inductive is what the thread has in its hands at each earlier point while
  nobody has signalled (`Fresh`): the ports hold the error, the first half of
  the word is current, the word is current. An interrupt or an error raises
  the semaphore, which ends the obligation, or changes nothing; each step of
  the thread hands the knowledge on. `NotYet` covers the time before the
  semaphore exists.
* *ACPI commands.* `CommandsRunOnce` needs that a command that runs or has run
  is still in the table (`RunsOne`); the bound on `ran` follows from both, so
  that they are proved together.
* *Power-loss notice.* Five facts chain the timer to the pin: a timer that runs
  means a held button, unless its release is on the way (`TimerMeansPressed`);
  an assertion asked for is justified (`AssertJustified`); a job not yet begun
  has its semaphore (`JobAnnounced`); a job about to be cleared has been done
  as it was asked (`DoneAsAsked`); a pin that asserts is justified or about to
  be taken back (`PinJustified`).

* *OOB manager.* `NoStrayCopy` follows from who owns a master: a thread between
  the reset of the semaphore and its return holds the lock of its master, and
  `rx` points to its packet (`Holds`); a lock that is held is held by such a
  thread (`HeldByCaller`); the semaphore of a free master is given, so that the
  handler queues what comes then (`FreeIsGiven`), unless a thread is about to
  give it. The last of these is false
  before `oobmngr_init()`, hence `~EarlyRx`. `AnswerArrived` adds what a
  call that was woken finds in its packet (`Packets`).
* *SMC parameters.* A request that is not complete carries one number: its
  bytes, the byte in the input register and the request the host is sending
  agree, unless a command byte, which starts over, is on its way (`Given`).
  This needs nothing of the timing of the interrupt.
* *SMC answers.* `AnswersMatch` is about three writers of ODR that do not know
  of each other. `Sending` ties the input register and the buffer to what the
  host has sent, so that a command is executed once, when its last byte has
  come (`Executed`). Before that nothing of an answer is about
  (`NothingYet`); after it each writer acts for one kind of command only
  (`AnsOwn`, `BurstOwn`, `RespOwn`, `OdrOwn`), and the bytes the thread has
  written, those in the response and those the host has read add up, with the
  two points `index` and `length` at which they are one off. The first byte of
  the next request (`FitsByBegin`) is where it can break: it must not find the
  response of the last half counted down, which is what `overrun` marks, nor a
  request given up. Both marks stay (`OrderlyBefore`).
* *SMC events.* What the OS has read, what is in ODR and the queue are one
  sequence that rises (`Kept`): a query moves its middle, a new event goes to
  its end, a reset warning cuts the queue off. That no other writer overwrites
  an event in ODR is the argument for the answers, so this theorem speaks of
  orderly runs as well.
* *Default build.* `WarningsAnswered` needs that the hub knows the bus
  (`HubKnows`). `OwnParameters` needs an account of the request: taken, in the
  register and still owed by the host add up to its length (`Flow`).
* *Deep Sx.* The pins say where the SoC is (`PinsTell`), and a pass that may
  assert RSMRST# began in a suspend that lasts (`PassInSuspend`). `ModeKept`
  speaks of a thread that sleeps; `Saving` says at the other points which of
  the BIOS's mode, the mode in use and the EEPROM may be behind.
* *Shutdown.* A call of the hub keeps its promise in `HubOK`: an attempt under
  way is one that is left. `ReadingExact` says what `peci_get_temp()` makes of
  an answer once TjMax is known (`TjKnown`); so a temperature is the one
  the processor sent or the fail safe one, and the pass that compares it with
  the limit is the pass that asked (`Finding`).
* *Fan.* Except between the clearing of the flag and the write, the PWM drives
  the duty, or the flag, the override or a failed write says why not
  (`FanFollows`). The
  driver cuts a duty to 100 %, which is why the property compares with `Driven`.
* *What the OS knows.* The table shows what was found last (`TableShows`); it
  is near the temperature the OS was alerted with, except from a reading to
  the comparison (`AlertKeepsUp`), and so is what the OS read last
  (`HeardIsNear`). Twice the step is what the two together allow. A lost alert
  stays marked until the OS reads a later one.

Only model-checked: liveness (`FollowsHost`, `Settles`,
`AsyncAnswered`, `EventsServed`, `OrderlyAnswered`, `RequestsAnswered`, `NoticeGiven`,
`BacklightFollows`, `CommandsAnswered`, `KeyWakesHost`, `HotShutsDown`,
`FollowsSignals`, `Resumes`), because TLAPS does not reason about fairness and
ENABLED here. No module declares a RECURSIVE operator.

## 5. Findings

`SmcHostLost` shows the one that a statement in the source contradicts:
`proc_host_send()` writes ODR and then updates `host_res_idx` and
`host_res_len` without keeping the interrupt out (`smchost.c:414-418`). A host
that answers at once with its next request has the length of the new response
taken away and waits for ever.

The following were met while modelling. The models take these steps wherever
the code can; the properties excuse exactly these cases, by the constant, the
step or the auxiliary variable named here in brackets.

*Power sequencing*
* `pwrplane.c:588` commits `next_state` as it is after the handler slept: an
  interrupt in between makes the sequencer enter a state whose handler did not
  run [`Overtaken`].
* `pwrplane.c:336-337` and `947-948` lower PCH_PWROK before SYS_PWROK, against
  the order of `power_off()` (807-808) [`PwrokOrder` names the two points]. A
  thermal trip while `power_on()` sleeps before the last write leaves SYS_PWROK
  to be raised alone [`Thermal`]; the write of SYS_PWROK that fails (913-917)
  returns without `pwrseq_error()`.
* `pwrplane.c:964` queues the resume SCI before S0 is committed, and
  `enqueue_sci()` takes events in S0 only: the BIOS is never told.
* `pwrplane.c:447`: `dsw_enabled()` is always false there, because
  `dsw_read_mode()` runs later; the comment at 446 expects otherwise.
* `poc_pwrseq.c:47`: the recorded levels start at 1, so the first event after
  a power-up means S0; an event before the handler is registered is not made up
  for [`heard`].
* Deep Sx: after an aborted or timed-out entry `sys_deep_sx` is false while
  the mode is enabled, and neither the thread nor `pwrseq_sus_handler()`
  (`pwrplane.c:190-197`) acknowledges SUS_WARN# high [`deep` in `Resumes`]. A
  failed EEPROM write is not retried (`dswmode.c:87`); an erased EEPROM passes
  the test of `DSW_VALID_MASK` (`dswmode.c:65`).
* `espi_hub.c:427` stores a channel status that may be stale: SUS_WARN is not
  acknowledged until the channel changes again [`missed`]. `espi_hub.c:484` and
  `542` report a timeout when the level comes with the last poll.

*Buttons and OOB*
* `periphmgmt.c:263` initialises the semaphore after button interrupts are
  live: an early edge is not debounced until another follows [`early`].
* `periphmgmt.c:70-75`, `189-193`: after a failed read the change is not
  reported until the next edge [`dropped`].
* `espioob_mngr.c:362` before `oobmngr_init()` takes a message for an answer
  and copies it through a pointer no call has set [`EarlyRx`].

*Command ports*
* `smchost.c:397` goes round without sleeping while a response waits for a
  host that does not read; other threads wait with it.
* `smchost_pm.c:113-114`: a status set between the use and the clearing is
  lost; 145-147: a timer that expires before it is stopped overtakes the
  release [`raced`]. `smchost.c:712-713`: a duty written between the LED and
  the read that is remembered is lost [`raced`]. `smchost.c:459`: a command
  written before the clearing of the last one is lost [the host waits].
* `poc_smchost.c:139`: a data byte before the first command could be taken for
  a parameter [the host's first byte is a command].

*Keyboard*
* Ctrl with Print Screen (`kbs_matrix.c:478-486`), Fn or num lock pressed or
  released while another key is down, and Fn with a key its table does not know
  (`kbs_matrix.c:703`, uninitialised data) can leave a key down
  [`Disciplined`]; after a hotkey with an SCI `hotkey_detected` stays set.
* `kbchost.c:393`: the ACK of EN_KEYBOARD is stored but not counted, so it is
  not sent. `HOTKEY_EVENT_STATE` is never left; the data port state survives
  a power cycle. With a full output register a key does not wake the host
  (`kbchost.c:570`); so a key typed after the host fell asleep and before S3
  is committed (`pwrplane.c:588`) fills the register without a wake, against
  the comment at 572-574, and the keys after it do not wake either [`odr`, `s3`
  in `KeyWakesHost`]. `resume()` enables a keyboard the host had disabled. A key
  written after `power_on()` released WAKE_SCI and before the commit leaves the
  pin low.

*Thermal*
* The default critical temperature 103 is above the TjMax of 100 of this
  platform's parts, and an answer of 0, which is TjMax, is taken for a fault
  (`peci_hub.c:771-781`): only a lower limit of the BIOS leads to a shutdown.
* `thermalmgmt.c:306` compares the override with the last duty of the host,
  the comment above it speaks of the fan [`setBy`]. After the release the PWM
  is 0 while `fan_duty_cycle` keeps its value (313).
* `thermalmgmt.c:80`: a limit of 253 or more overflows; a limit of 69 or less
  makes a single failed read (72) a shutdown [`crit <= FailTemp`].
* `thermalmgmt.c:408` remembers a temperature as told even if the event was
  refused [`ScisOn`] or met a full queue (`sci.c:141-144`) [`lost`]: an OS that
  listens is not told until the temperature moves on by another step.
* `thermalmgmt.c:284-287` ignores that `fan_set_duty_cycle()` failed
  (`fan_ls.c:71-85`) and has cleared the flag: the fan keeps its old speed
  until the host asks for another one [`setBy`].
* `peci_hub.c:299-308` counts a short answer over eSPI as a success and leaves
  the caller what was on its stack. Junk taken for TjMax is kept for good: it
  can shut a cool processor down or hide that it overheats [`short`].
* `adc_sensors.c:291-313` converts an uninitialised value after three failures.

*Post codes*
* A signal between the registration of the handler and `k_sem_init()`
  (`postcodemgmt.c:146-147`), or a failed transfer, leaves a value unshown
  until the next signal [`excused`].


## 6. What is not modelled

* Formatting, logging, LEDs, the contents of packets and responses, frame
  layouts, checksums, the thermistors' table and the key maps.
* Real time. A timeout may expire at any moment before the awaited event, a
  sleep may last any time; only the relation of `therm_shutdown()`'s 100 ms to
  a pass of 10 ms is kept.
* In `PwrPlane`: deep Sx, which `DeepSx` models on its own, the DC counter and
  the exit pulse of pseudo G3, whose pins no board defines, the KBC calls.
* In `DeepSx`: deep S3; its code does not compile (`deepsx.c:95` assigns a
  variable nobody declares).
* In `Oob`: `oob_respond_master()`, which takes and gives back the lock
  without a trace in the state.
* In `SmcHost`: the BURST status bit, resets without a warning; what comes
  through the ACPI table is in `AcpiTable`.
* In `Poc`: functions without a caller, the software registers of a build
  without a KCS device.
* In `KbcHost` and `KbsMatrix`: the mouse and PS/2 devices (not in the build
  with a scanned keyboard), LEDs, early key sequences, shift, alt and scroll
  lock (they behave as ctrl and num lock do), scan sets other than 2.
* In `EspiHub`: flash and SAF accesses and the detection of the boot mode,
  which have no caller or leave no state.
* `pmc.c` and `soc_debug.c` are straight-line helpers; their one call with a
  state is `oob_send_async()`, which `Oob` models. GPIO, VCI, straps, the flash
  header and the boards are register accesses and tables.


## 7. Plan

Every part of the firmware with a state of its own has a model. What is left,
in order of what it would add:

1. An abstract request and answer channel that `Oob`, `SmcHost` and `Poc`
   implement, as `PwrPlane` implements `SystemPower`.
2. `PeciHub` over `Oob`: the out-of-band transport as the composition of both
   instead of an answer that may fail.
3. Pseudo G3's counter and pulse, should a board define their pins.
