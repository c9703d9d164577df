--------------------------- MODULE PwrPlaneProofs ---------------------------
(***************************************************************************)
(* Theorems about PwrPlane, for every host, with or without faults and     *)
(* thermal shutdowns, whatever the BIOS and the straps select: types, the  *)
(* failure latch, the order of the power pins, pseudo G3; and that without *)
(* thermal shutdowns the sequencer implements SystemPower, whatever the    *)
(* host asks for and when, and whichever access fails.                     *)
(***************************************************************************)
EXTENDS PwrPlane, TLAPS

(* The pseudo-G3 machine stays within its states. *)
LEMMA Pg3NextType ==
  ASSUME NEW st \in Pg3StateSet, NEW sys, NEW en, NEW cond, NEW ac, NEW rsmrst
  PROVE  Pg3Next(st, sys, en, cond, ac, rsmrst) \in Pg3StateSet
BY DEF Pg3Next, Pg3StateSet

(* The sleep-wire handler asks for a system state, if one was asked for. *)
LEMMA SlpRequestType ==
  ASSUME nxt \in SysStates, NEW s \in Slp, NEW high
  PROVE  SlpRequest(s, high) \in SysStates
BY DEF SlpRequest, SleepOf, Slp, SysStates

(* The program points and system states, spelled out for the provers. *)
LEMMA PointsAre ==
  /\ "sleep" \in Points /\ "delay" \in Points /\ "tail" \in Points
  /\ "err_init" \in Points /\ "err_update" \in Points /\ "on_t99" \in Points
  /\ "init_pwrgd" \in Points /\ "init_espi" \in Points /\ "init_sus" \in Points
  /\ "chk_s5" \in Points /\ "chk_s4" \in Points /\ "chk_s3" \in Points
  /\ "on_pwrgd" \in Points /\ "on_s5" \in Points /\ "on_s4" \in Points
  /\ "on_s3" \in Points /\ "on_slpa" \in Points /\ "on_allsys" \in Points
  /\ "on_pltrst" \in Points /\ "boot" \in Points /\ "apply" \in Points
  /\ "g3_check" \in Points /\ "g3_set" \in Points /\ "decide" \in Points
  /\ "switch" \in Points /\ "suspend" \in Points /\ "suspend_sys" \in Points
  /\ "off" \in Points /\ "off_pch" \in Points /\ "off_spin" \in Points
  /\ "commit" \in Points /\ "reject" \in Points
  /\ "err_init_sys" \in Points /\ "err_update_sys" \in Points
BY DEF Points, YieldPoints, NonYield, Waits, InitWaits, CheckWaits, OnWaits

(* The system states, and the constants among them that the steps name. *)
LEMMA StatesAre ==
  /\ "G3" \in SysStates /\ "S0" \in SysStates /\ "S3" \in SysStates
  /\ "S4" \in SysStates /\ "S5" \in SysStates
  /\ DeepStates \subseteq SysStates
BY DEF SysStates, DeepStates

(* Wherever a wait loop ends well, it ends at a program point. *)
LEMMA AfterWaitPoints == \A p \in DOMAIN AfterWait : AfterWait[p] \in Points
BY PointsAre DEF AfterWait

(* TypeOK in three parts, so that each leaf has one kind of value to       *)
(* follow.                                                                 *)
StatesOK ==
  /\ pc \in Points
  /\ cur \in SysStates /\ nxt \in SysStates /\ tgt \in SysStates
  /\ pg3 \in Pg3StateSet /\ pg3prev \in Pg3StateSet
  /\ tpc \in {"idle", "peci", "trip", "espi_reset", "hold", "flash"}
  /\ host \in Hosts
FlagsOK ==
  /\ failure \in BOOLEAN /\ noTimeout \in BOOLEAN /\ registered \in BOOLEAN
  /\ level \in BOOLEAN /\ pmRsmrst \in BOOLEAN /\ turnOn \in BOOLEAN
  /\ resumeSci \in BOOLEAN /\ inTherm \in BOOLEAN /\ ticked \in BOOLEAN
PinsOK ==
  /\ RSMRST \in BOOLEAN /\ PCH_PWROK \in BOOLEAN /\ SYS_PWROK \in BOOLEAN
  /\ vw \in [Slp -> BOOLEAN]

(* The first state of the sequencer is typed. *)
LEMMA TypeInit == Init => TypeOK
BY PointsAre DEF Init, TypeOK, SysStates, Pg3StateSet, Slp

(* Each step keeps the state variables, the flags and the pins typed. *)
LEMMA StatesStep == StatesOK /\ [Next]_vars => StatesOK'
<1> SUFFICES ASSUME StatesOK, [Next]_vars PROVE StatesOK'
  OBVIOUS
<1> USE DEF StatesOK, Goto, setup, pins, therm, pg3s
<1>1. CASE TaskInit
  BY <1>1, PointsAre
  DEF TaskInit, Boot, InitPwrgd, InitRsmrstFault, InitEspi, InitError,
      PwrseqError, InitSus
<1>2. CASE Pass
  BY <1>2, PointsAre, StatesAre, Pg3NextType
  DEF Pass, Sample, DelayDone, Apply, G3Check, G3Set, Decide, Tail
<1>3. CASE Update
  BY <1>3, PointsAre, StatesAre
  DEF Update, SwitchToS0, PowerOnEntry, SwitchToS3, SuspendDropsPch,
      SuspendDropsSys, SwitchToSoftOff, PowerOffDropsSys, PowerOffDropsPch,
      ButtonReleased, Commit, CommittedState,
      Reject
<1>4. CASE PowerOn
  BY <1>4, AfterWaitPoints, PointsAre
  DEF PowerOn, WaitSeen, ChecksDone, PowerOnEntry, ReleaseRsmrst,
      DrivePchPwrok, DriveSysPwrok, PlatformUp, EnqueueSciAccepts,
      SequenceError, PwrseqError, WriteFault
<1>5. CASE ErrorDropsPch \/ ErrorDone
  BY <1>5, PointsAre DEF ErrorDropsPch, ErrorDone
<1>6. CASE Interrupts
  BY <1>6, SlpRequestType, StatesAre
  DEF Interrupts, SlpEvent, BusReset
<1>7. CASE ThermalThread
  BY <1>7, StatesAre
  DEF ThermalThread, ReadCpuTemp, CpuTempOk, ThermTrip, TripDropsPch,
      ThermRequestS5, ThermSuspendTasks, ThermButton
<1>8. CASE UNCHANGED vars
  BY <1>8 DEF vars
<1> QED
  BY <1>1, <1>2, <1>3, <1>4, <1>5, <1>6, <1>7, <1>8 DEF Next, PwrThread

(* The same for the flags of the sequencer and the thermal thread. *)
LEMMA FlagsStep == FlagsOK /\ [Next]_vars => FlagsOK'
<1> SUFFICES ASSUME FlagsOK, [Next]_vars PROVE FlagsOK'
  OBVIOUS
<1> USE DEF FlagsOK, Goto, setup, pins, therm, pg3s
<1>1. CASE TaskInit
  <2>1. CASE Boot
    BY <2>1, PwrPlaneAssumption DEF Boot
  <2>2. CASE (\E maf \in BOOLEAN : InitPwrgd(maf)) \/ InitRsmrstFault \/ InitEspi
             \/ InitError \/ InitSus
    BY <2>2, PwrPlaneAssumption, ZenonT(40)
    DEF InitPwrgd, InitRsmrstFault, InitEspi, InitError, PwrseqError, InitSus
  <2> QED BY <1>1, <2>1, <2>2 DEF TaskInit
<1>2. CASE Pass
  <2>1. CASE \E l \in BOOLEAN : Sample(l)
    BY <2>1 DEF Sample
  <2>2. CASE DelayDone
    BY <2>2 DEF DelayDone
  <2>3. CASE Apply
    BY <2>3 DEF Apply
  <2>4. CASE G3Check
    BY <2>4 DEF G3Check
  <2>5. CASE G3Set
    BY <2>5 DEF G3Set
  <2>6. CASE Decide
    BY <2>6 DEF Decide
  <2>7. CASE Tail
    BY <2>7 DEF Tail
  <2> QED BY <1>2, <2>1, <2>2, <2>3, <2>4, <2>5, <2>6, <2>7 DEF Pass
<1>3. CASE Update
  <2>1. CASE SwitchToS0
    BY <2>1 DEF SwitchToS0, PowerOnEntry
  <2>2. CASE SwitchToS3 \/ SuspendDropsPch \/ SuspendDropsSys
    BY <2>2 DEF SwitchToS3, SuspendDropsPch, SuspendDropsSys
  <2>3. CASE SwitchToSoftOff \/ PowerOffDropsSys \/ PowerOffDropsPch
    BY <2>3 DEF SwitchToSoftOff, PowerOffDropsSys, PowerOffDropsPch
  <2>4. CASE ButtonReleased
    BY <2>4 DEF ButtonReleased
  <2>5. CASE Commit
    BY <2>5 DEF Commit, CommittedState
  <2>6. CASE Reject
    BY <2>6 DEF Reject
  <2> QED BY <1>3, <2>1, <2>2, <2>3, <2>4, <2>5, <2>6 DEF Update
<1>4. CASE PowerOn
  <2>1. CASE WaitSeen
    BY <2>1 DEF WaitSeen
  <2>2. CASE ChecksDone
    BY <2>2 DEF ChecksDone, PowerOnEntry
  <2>3. CASE ReleaseRsmrst
    BY <2>3 DEF ReleaseRsmrst
  <2>4. CASE DrivePchPwrok
    BY <2>4 DEF DrivePchPwrok
  <2>5. CASE DriveSysPwrok
    BY <2>5 DEF DriveSysPwrok
  <2>6. CASE PlatformUp
    BY <2>6 DEF PlatformUp, EnqueueSciAccepts
  <2>7. CASE SequenceError
    BY <2>7 DEF SequenceError, PwrseqError
  <2>8. CASE WriteFault
    BY <2>8 DEF WriteFault
  <2> QED BY <1>4, <2>1, <2>2, <2>3, <2>4, <2>5, <2>6, <2>7, <2>8 DEF PowerOn
<1>5. CASE ErrorDropsPch \/ ErrorDone
  BY <1>5 DEF ErrorDropsPch, ErrorDone
<1>6. CASE Interrupts
  BY <1>6
  DEF Interrupts, SlpEvent, BusReset
<1>7. CASE ThermalThread
  <2>1. CASE ReadCpuTemp \/ CpuTempOk \/ ThermTrip \/ TripDropsPch
    BY <2>1, ZenonT(40) DEF ReadCpuTemp, CpuTempOk, ThermTrip, TripDropsPch
  <2>2. CASE ThermRequestS5 \/ ThermSuspendTasks \/ ThermButton
    BY <2>2 DEF ThermRequestS5, ThermSuspendTasks, ThermButton
  <2> QED BY <1>7, <2>1, <2>2 DEF ThermalThread
<1>8. CASE UNCHANGED vars
  BY <1>8 DEF vars
<1> QED
  BY <1>1, <1>2, <1>3, <1>4, <1>5, <1>6, <1>7, <1>8 DEF Next, PwrThread

(* The same for the output pins and the sleep wires. *)
LEMMA PinsStep == PinsOK /\ FlagsOK /\ [Next]_vars => PinsOK'
<1> SUFFICES ASSUME PinsOK /\ FlagsOK, [Next]_vars PROVE PinsOK'
  OBVIOUS
<1> USE DEF PinsOK, FlagsOK, Goto, setup, pins, therm, pg3s
<1>1. CASE TaskInit
  BY <1>1
  DEF TaskInit, Boot, InitPwrgd, InitRsmrstFault, InitEspi, InitError,
      PwrseqError, InitSus
<1>2. CASE Pass
  BY <1>2
  DEF Pass, Sample, DelayDone, Apply, G3Check, G3Set, Decide, Tail
<1>3. CASE Update
  <2>1. CASE SwitchToS0
    BY <2>1 DEF SwitchToS0, PowerOnEntry
  <2>2. CASE SwitchToS3 \/ SuspendDropsPch \/ SuspendDropsSys
    BY <2>2 DEF SwitchToS3, SuspendDropsPch, SuspendDropsSys
  <2>3. CASE SwitchToSoftOff \/ PowerOffDropsSys \/ PowerOffDropsPch
    BY <2>3 DEF SwitchToSoftOff, PowerOffDropsSys, PowerOffDropsPch
  <2>4. CASE ButtonReleased
    BY <2>4 DEF ButtonReleased
  <2>5. CASE Commit
    BY <2>5 DEF Commit, CommittedState
  <2>6. CASE Reject
    BY <2>6 DEF Reject
  <2> QED BY <1>3, <2>1, <2>2, <2>3, <2>4, <2>5, <2>6 DEF Update
<1>4. CASE PowerOn
  <2>1. CASE WaitSeen
    BY <2>1 DEF WaitSeen
  <2>2. CASE ChecksDone
    BY <2>2 DEF ChecksDone, PowerOnEntry
  <2>3. CASE ReleaseRsmrst
    BY <2>3 DEF ReleaseRsmrst
  <2>4. CASE DrivePchPwrok
    BY <2>4 DEF DrivePchPwrok
  <2>5. CASE DriveSysPwrok
    BY <2>5 DEF DriveSysPwrok
  <2>6. CASE PlatformUp
    BY <2>6 DEF PlatformUp, EnqueueSciAccepts
  <2>7. CASE SequenceError
    BY <2>7 DEF SequenceError, PwrseqError
  <2>8. CASE WriteFault
    BY <2>8 DEF WriteFault
  <2> QED BY <1>4, <2>1, <2>2, <2>3, <2>4, <2>5, <2>6, <2>7, <2>8 DEF PowerOn
<1>5. CASE ErrorDropsPch \/ ErrorDone
  BY <1>5 DEF ErrorDropsPch, ErrorDone
<1>6. CASE Interrupts
  BY <1>6
  DEF Interrupts, SlpEvent, BusReset
<1>7. CASE ThermalThread
  BY <1>7
  DEF ThermalThread, ReadCpuTemp, CpuTempOk, ThermTrip, TripDropsPch,
      ThermRequestS5, ThermSuspendTasks, ThermButton
<1>8. CASE UNCHANGED vars
  BY <1>8 DEF vars
<1> QED
  BY <1>1, <1>2, <1>3, <1>4, <1>5, <1>6, <1>7, <1>8 DEF Next, PwrThread

(* No step breaks the type of a variable. *)
LEMMA TypeStep == TypeOK /\ [Next]_vars => TypeOK'
BY StatesStep, FlagsStep, PinsStep DEF TypeOK, StatesOK, FlagsOK, PinsOK

(* Every variable of the sequencer keeps its type: the locals of a pass,   *)
(* the states that two threads and the interrupts write, the pins.         *)
THEOREM TypeCorrect == Spec => []TypeOK
BY TypeInit, TypeStep, PTL DEF Spec

(***************************************************************************)
(* A latched failure                                                       *)
(*                                                                         *)
(* FailedIsDark alone is not inductive: were a failure latched while the   *)
(* thread is inside power_on(), the next step could raise a PWROK.  The    *)
(* strengthening is that a failed sequencer is never past the test of      *)
(* pwrseq_update(), save for the way out of pwrseq_error(), whose second   *)
(* write finds the first one done.                                         *)
(***************************************************************************)
FailedPoints == {"err_init", "err_update", "err_init_sys", "err_update_sys",
                 "reject", "tail", "sleep", "delay", "apply", "g3_check",
                 "g3_set", "decide"}
FailureInv ==
  /\ FailedIsDark
  /\ failure => pc \in FailedPoints
  /\ pc \in {"err_init_sys", "err_update_sys"} => ~PCH_PWROK

(* The sequencer starts without a failure. *)
LEMMA FailureInit == Init => FailureInv
BY DEF Init, FailureInv, FailedIsDark

(* The wait points of the sequence are none of the failed ones. *)
LEMMA WaitsNotFailed ==
  /\ \A p \in DOMAIN AfterWait : /\ p \notin FailedPoints
                                  /\ AfterWait[p] \notin FailedPoints
  /\ \A p \in CheckWaits \cup OnWaits : p \notin FailedPoints
BY DEF AfterWait, FailedPoints, CheckWaits, OnWaits

(* No step leaves a failed sequencer on its way, or lit after the error. *)
LEMMA FailureStep == FailureInv /\ [Next]_vars => FailureInv'
<1> SUFFICES ASSUME FailureInv, [Next]_vars PROVE FailureInv'
  OBVIOUS
<1> USE DEF FailureInv, FailedIsDark, FailedPoints, Goto, setup, pins, therm, pg3s
<1>1. CASE TaskInit
  <2>1. CASE InitError
    BY <2>1 DEF InitError, PwrseqError
  <2>2. CASE Boot
    BY <2>2 DEF Boot
  <2>3. CASE \E maf \in BOOLEAN : InitPwrgd(maf)
    BY <2>3 DEF InitPwrgd
  <2>4. CASE InitRsmrstFault
    BY <2>4 DEF InitRsmrstFault
  <2>5. CASE InitEspi
    BY <2>5 DEF InitEspi
  <2>6. CASE InitSus
    BY <2>6 DEF InitSus
  <2> QED BY <1>1, <2>1, <2>2, <2>3, <2>4, <2>5, <2>6 DEF TaskInit
<1>2. CASE Pass
  BY <1>2
  DEF Pass, Sample, DelayDone, Apply, G3Check, G3Set, Decide, MayUpdate, Tail
<1>3. CASE Update
  BY <1>3
  DEF Update, SwitchToS0, PowerOnEntry, SwitchToS3, SuspendDropsPch,
      SuspendDropsSys, SwitchToSoftOff, PowerOffDropsSys, PowerOffDropsPch,
      ButtonReleased, Commit, CommittedState,
      Reject
<1>4. CASE PowerOn
  BY <1>4, WaitsNotFailed
  DEF PowerOn, WaitSeen, ChecksDone, PowerOnEntry, ReleaseRsmrst,
      DrivePchPwrok, DriveSysPwrok, PlatformUp, EnqueueSciAccepts,
      SequenceError, PwrseqError, WriteFault
<1>5. CASE ErrorDropsPch \/ ErrorDone
  BY <1>5
  DEF ErrorDropsPch, ErrorDone
<1>6. CASE Interrupts
  BY <1>6
  DEF Interrupts, SlpEvent, BusReset
<1>7. CASE ThermalThread
  BY <1>7
  DEF ThermalThread, ReadCpuTemp, CpuTempOk, ThermTrip, TripDropsPch,
      ThermRequestS5, ThermSuspendTasks, ThermButton
<1>8. CASE UNCHANGED vars
  BY <1>8 DEF vars
<1> QED
  BY <1>1, <1>2, <1>3, <1>4, <1>5, <1>6, <1>7, <1>8 DEF Next, PwrThread

(* Whatever pins a failed write, a signal that never came or a thermal     *)
(* shutdown left on, 100 ms after pwrseq_error() both PWROKs are low.      *)
THEOREM FailureIsDark == Spec => []FailedIsDark
<1>1. FailureInv => FailedIsDark
  BY DEF FailureInv
<1> QED
  BY <1>1, FailureInit, FailureStep, PTL DEF Spec

(* pwrplane.h:62 "Stops any power sequencing": a step taken with a latched *)
(* failure keeps it and the system state, and raises no PWROK.             *)
THEOREM FailureStopsSequencing == Spec => FailureStops
<1> DEFINE A == failure => /\ failure' /\ cur' = cur
                           /\ PCH_PWROK' => PCH_PWROK
                           /\ SYS_PWROK' => SYS_PWROK
<1>1. FailureInv /\ [Next]_vars => A
  <2> SUFFICES ASSUME FailureInv, [Next]_vars, failure PROVE A
    OBVIOUS
  <2> USE DEF FailureInv, FailedPoints, Goto, setup, pins, therm, pg3s
  <2>1. CASE TaskInit
    BY <2>1 DEF TaskInit, Boot, InitPwrgd, InitRsmrstFault, InitEspi,
                InitError, InitSus, PwrseqError
  <2>2. CASE Pass
    BY <2>2 DEF Pass, Sample, DelayDone, Apply, G3Check, G3Set, Decide, Tail
  <2>3. CASE Update
    BY <2>3 DEF Update, SwitchToS0, SwitchToS3, SuspendDropsPch,
                SuspendDropsSys, SwitchToSoftOff, PowerOffDropsSys,
                PowerOffDropsPch, ButtonReleased, Commit, Reject
  <2>4. CASE PowerOn
    BY <2>4, WaitsNotFailed
    DEF PowerOn, WaitSeen, ChecksDone, PowerOnEntry, ReleaseRsmrst,
        DrivePchPwrok, DriveSysPwrok, PlatformUp, SequenceError, PwrseqError,
        WriteFault
  <2>5. CASE ErrorDropsPch \/ ErrorDone
    BY <2>5 DEF ErrorDropsPch, ErrorDone
  <2>6. CASE Interrupts
    BY <2>6 DEF Interrupts, SlpEvent, BusReset
  <2>7. CASE ThermalThread
    BY <2>7 DEF ThermalThread, ReadCpuTemp, CpuTempOk, ThermTrip, TripDropsPch,
                ThermRequestS5, ThermSuspendTasks, ThermButton
  <2>8. CASE UNCHANGED vars
    BY <2>8 DEF vars
  <2> QED
    BY <2>1, <2>2, <2>3, <2>4, <2>5, <2>6, <2>7, <2>8 DEF Next, PwrThread
<1> QED
  BY <1>1, FailureInit, FailureStep, PTL DEF Spec, FailureStops

(***************************************************************************)
(* The order of the power pins, without thermal shutdowns                  *)
(*                                                                         *)
(* SYS_PWROK is driven after a sleep, and PCH_PWROK four waits after       *)
(* RSMRST: the invariant carries what was driven to the point where it is  *)
(* used, and the half done power_off() to its second write.  A thermal     *)
(* shutdown can break both while power_on() sleeps.                        *)
(***************************************************************************)
InitPoints  == {"boot", "init_pwrgd", "init_espi", "init_sus", "err_init",
                "err_init_sys"}
AfterRsmrst == {"on_s5", "on_s4", "on_s3", "on_slpa", "on_allsys"}
PinInv == /\ tpc = "idle"
          /\ PwrokOrder
          /\ pc = "on_t99" => PCH_PWROK
          /\ pc \in AfterRsmrst => RSMRST
          /\ pc \in InitPoints \cup {"off_pch"} => ~SYS_PWROK

(* The power goods start low. *)
LEMMA PinInit == Init => PinInv
BY DEF Init, PinInv, PwrokOrder, AfterRsmrst, InitPoints

(* Within the sequence, RSMRST is driven before any later wait, and no     *)
(* wait comes between the two writes of a pin pair.                        *)
LEMMA WaitsAfterRsmrst ==
  /\ \A p \in DOMAIN AfterWait :
       /\ AfterWait[p] \notin InitPoints \cup {"on_t99", "off_pch"}
       /\ AfterWait[p] \in AfterRsmrst => p \in AfterRsmrst
       /\ p \notin {"suspend_sys", "err_update_sys"}
  /\ \A p \in CheckWaits \cup OnWaits : p \notin {"suspend_sys", "err_update_sys"}
BY DEF AfterWait, AfterRsmrst, InitPoints, CheckWaits, OnWaits

(* Without trips no step of either kind breaks the order of the pins. *)
LEMMA PinStep == PinInv /\ ~Thermal /\ [Next]_vars => PinInv'
<1> SUFFICES ASSUME PinInv /\ ~Thermal, [Next]_vars PROVE PinInv'
  OBVIOUS
<1> USE DEF PinInv, PwrokOrder, AfterRsmrst, InitPoints, Goto, setup, pins, therm, pg3s
<1>1. CASE TaskInit
  <2>1. CASE InitError
    BY <2>1 DEF InitError, PwrseqError
  <2>2. CASE Boot
    BY <2>2 DEF Boot
  <2>3. CASE \E maf \in BOOLEAN : InitPwrgd(maf)
    BY <2>3 DEF InitPwrgd
  <2>4. CASE InitRsmrstFault
    BY <2>4 DEF InitRsmrstFault
  <2>5. CASE InitEspi
    BY <2>5 DEF InitEspi
  <2>6. CASE InitSus
    BY <2>6 DEF InitSus
  <2> QED BY <1>1, <2>1, <2>2, <2>3, <2>4, <2>5, <2>6 DEF TaskInit
<1>2. CASE Pass
  BY <1>2
  DEF Pass, Sample, DelayDone, Apply, G3Check, G3Set, Decide, Tail
<1>3. CASE Update
  BY <1>3
  DEF Update, SwitchToS0, PowerOnEntry, SwitchToS3, SuspendDropsPch,
      SuspendDropsSys, SwitchToSoftOff, PowerOffDropsSys, PowerOffDropsPch,
      ButtonReleased, Commit, CommittedState,
      Reject
<1>4. CASE PowerOn
  BY <1>4, WaitsAfterRsmrst
  DEF PowerOn, WaitSeen, ChecksDone, PowerOnEntry, ReleaseRsmrst,
      DrivePchPwrok, DriveSysPwrok, PlatformUp, EnqueueSciAccepts,
      SequenceError, PwrseqError, WriteFault
<1>5. CASE ErrorDropsPch \/ ErrorDone
  BY <1>5
  DEF ErrorDropsPch, ErrorDone
<1>6. CASE Interrupts
  BY <1>6
  DEF Interrupts, SlpEvent, BusReset
<1>7. CASE ThermalThread
  BY <1>7
  DEF ThermalThread, ThermalRuns, ReadCpuTemp, CpuTempOk, ThermTrip, TripDropsPch,
      ThermRequestS5, ThermSuspendTasks, ThermButton
<1>8. CASE UNCHANGED vars
  BY <1>8 DEF vars
<1> QED
  BY <1>1, <1>2, <1>3, <1>4, <1>5, <1>6, <1>7, <1>8 DEF Next, PwrThread

(* Without thermal shutdowns, SYS_PWROK is high alone only between the two *)
(* pin writes of suspend() and of pwrseq_error() (947-948, 336-337): every *)
(* other path keeps it inside PCH_PWROK.                                   *)
THEOREM PwrokOrdered ==
  ASSUME ~Thermal
  PROVE  Spec => []PwrokOrder
<1>1. PinInv => PwrokOrder
  BY DEF PinInv
<1>2. PinInv /\ [Next]_vars => PinInv'
  BY PinStep
<1> QED
  BY <1>1, <1>2, PinInit, PTL DEF Spec

(* Without thermal shutdowns, PCH_PWROK rises only with RSMRST released.   *)
THEOREM PwrokAfterRsmrst ==
  ASSUME ~Thermal
  PROVE  Spec => PwrokNeedsRsmrst
<1>1. PinInv /\ [Next]_vars => (~PCH_PWROK /\ PCH_PWROK' => RSMRST)
  <2> SUFFICES ASSUME PinInv, [Next]_vars, ~PCH_PWROK, PCH_PWROK'
               PROVE RSMRST
    OBVIOUS
  <2> USE DEF PinInv, AfterRsmrst, Goto, setup, pins, therm, pg3s
  <2>1. CASE TaskInit
    BY <2>1
    DEF TaskInit, Boot, InitPwrgd, InitRsmrstFault, InitEspi, InitError,
        PwrseqError, InitSus
  <2>2. CASE Pass
    BY <2>2
    DEF Pass, Sample, DelayDone, Apply, G3Check, G3Set, Decide, Tail
  <2>3. CASE Update
    BY <2>3
    DEF Update, SwitchToS0, PowerOnEntry, SwitchToS3, SuspendDropsPch,
        SuspendDropsSys, SwitchToSoftOff, PowerOffDropsSys, PowerOffDropsPch,
        ButtonReleased, Commit, CommittedState,
        Reject
  <2>4. CASE PowerOn
    BY <2>4
    DEF PowerOn, WaitSeen, ChecksDone, PowerOnEntry, ReleaseRsmrst,
        DrivePchPwrok, DriveSysPwrok, PlatformUp, EnqueueSciAccepts,
        SequenceError, PwrseqError, WriteFault
  <2>5. CASE ErrorDropsPch \/ ErrorDone
    BY <2>5
    DEF ErrorDropsPch, ErrorDone
  <2>6. CASE Interrupts
    BY <2>6
    DEF Interrupts, SlpEvent, BusReset
  <2>7. CASE ThermalThread
    BY <2>7
    DEF ThermalThread, ReadCpuTemp, CpuTempOk, ThermTrip, TripDropsPch,
        ThermRequestS5, ThermSuspendTasks, ThermButton
  <2>8. CASE UNCHANGED vars
    BY <2>8 DEF vars
  <2> QED
    BY <2>1, <2>2, <2>3, <2>4, <2>5, <2>6, <2>7, <2>8 DEF Next, PwrThread
<1>2. PinInv /\ [Next]_vars => PinInv'
  BY PinStep
<1> QED
  BY <1>1, <1>2, PinInit, PTL DEF Spec, PwrokNeedsRsmrst

(***************************************************************************)
(* Pseudo G3.  Pg3OnlyInDeep speaks of the sleep between two passes; it is *)
(* established by manage_pseudog3() at the end of a pass and, before the   *)
(* first pass, by the state machine still being disabled.                  *)
(***************************************************************************)
Pg3Inv == Pg3OnlyInDeep /\ (pc \in InitPoints => pg3 = "disabled")

(* What manage_pseudog3_states() selects outside S4 and S5. *)
LEMMA Pg3NextShallow ==
  ASSUME NEW st, NEW sys, NEW en, NEW cond, NEW ac, NEW rsmrst,
         Pg3Next(st, sys, en, cond, ac, rsmrst) \notin {"disabled", "idle"}
  PROVE  sys \in DeepStates
BY DEF Pg3Next

(* Pseudo G3 starts disabled. *)
LEMMA Pg3Init == Init => Pg3Inv
BY DEF Init, Pg3Inv, Pg3OnlyInDeep

(* Wherever a wait loop ends well, it ends inside the sequence. *)
LEMMA AfterWaitInside ==
  \A p \in DOMAIN AfterWait :
    /\ AfterWait[p] \in CheckWaits \cup (OnWaits \ {"on_pltrst", "on_pwrgd"})
    /\ p \in CheckWaits \cup (OnWaits \ {"on_pltrst"})
BY DEF AfterWait, CheckWaits, OnWaits

(* The sets of program points, spelled out for the provers. *)
LEMMA WaitsAre ==
  /\ CheckWaits = {"chk_s5", "chk_s4", "chk_s3"}
  /\ OnWaits = {"on_pwrgd", "on_s5", "on_s4", "on_s3", "on_slpa", "on_allsys",
                "on_pltrst"}
  /\ PowerOnPath = OnWaits \cup {"on_t99"}
BY DEF CheckWaits, OnWaits, PowerOnPath

(* No step leaves pseudo G3 active outside S4 and S5 between two passes. *)
LEMMA Pg3Step == Pg3Inv /\ [Next]_vars => Pg3Inv'
<1> SUFFICES ASSUME Pg3Inv, [Next]_vars PROVE Pg3Inv'
  OBVIOUS
<1> USE DEF Pg3Inv, Pg3OnlyInDeep, InitPoints, Goto, setup, pins, therm, pg3s
<1>1. CASE TaskInit
  BY <1>1
  DEF TaskInit, Boot, InitPwrgd, InitRsmrstFault, InitEspi, InitError,
      PwrseqError, InitSus
<1>2. CASE Pass
  <2>1. CASE \E l \in BOOLEAN : Sample(l)
    BY <2>1 DEF Sample
  <2>2. CASE DelayDone
    BY <2>2 DEF DelayDone
  <2>3. CASE Apply
    BY <2>3 DEF Apply
  <2>4. CASE G3Check
    BY <2>4 DEF G3Check
  <2>5. CASE G3Set
    BY <2>5 DEF G3Set
  <2>6. CASE Decide
    BY <2>6 DEF Decide, MayUpdate
  <2>7. CASE Tail
    <3>1. PICK en \in Pg3Settings, cond \in BOOLEAN, ac \in BOOLEAN :
            pg3' = Pg3Next(pg3, cur, en, cond, ac, RSMRST)
      BY <2>7 DEF Tail
    <3>2. pg3' \notin {"disabled", "idle"} => cur \in DeepStates
      BY <3>1, Pg3NextShallow
    <3> QED BY <2>7, <3>2 DEF Tail
  <2> QED BY <1>2, <2>1, <2>2, <2>3, <2>4, <2>5, <2>6, <2>7 DEF Pass
<1>3. CASE Update
  BY <1>3
  DEF Update, SwitchToS0, PowerOnEntry, SwitchToS3, SuspendDropsPch,
      SuspendDropsSys, SwitchToSoftOff, PowerOffDropsSys, PowerOffDropsPch,
      NeedsPowerOff, ButtonReleased, Commit,
      CommittedState, Reject
<1>4. CASE PowerOn
  BY <1>4, AfterWaitInside, WaitsAre
  DEF PowerOn, WaitSeen, ChecksDone, PowerOnEntry, ReleaseRsmrst,
      DrivePchPwrok, DriveSysPwrok, PlatformUp, EnqueueSciAccepts,
      SequenceError, PwrseqError, WriteFault
<1>5. CASE ErrorDropsPch \/ ErrorDone
  BY <1>5 DEF ErrorDropsPch, ErrorDone
<1>6. CASE Interrupts
  BY <1>6
  DEF Interrupts, SlpEvent, BusReset
<1>7. CASE ThermalThread
  BY <1>7
  DEF ThermalThread, ReadCpuTemp, CpuTempOk, ThermTrip, TripDropsPch,
      ThermRequestS5, ThermSuspendTasks, ThermButton
<1>8. CASE UNCHANGED vars
  BY <1>8 DEF vars
<1> QED
  BY <1>1, <1>2, <1>3, <1>4, <1>5, <1>6, <1>7, <1>8 DEF Next, PwrThread

(* Pseudo G3 is waited for, entered or left only in S4 and S5, as seen     *)
(* between two passes of the PWR thread (pseudog3.c, 144-294).             *)
THEOREM Pg3Confined == Spec => []Pg3OnlyInDeep
<1>1. Pg3Inv => Pg3OnlyInDeep
  BY DEF Pg3Inv
<1> QED
  BY <1>1, Pg3Init, Pg3Step, PTL DEF Spec

(***************************************************************************)
(* Refinement                                                              *)
(*                                                                         *)
(* The mapping reads the goal off tgt and the rails off the two PWROK      *)
(* pins.  JobInv says which goal every program point works for, from which *)
(* states, and RailInv which of the pins were written by then.  Neither    *)
(* mentions next_state but to say that it is a request: an interrupt may   *)
(* change it at any point of pwrseq_update().                              *)
(***************************************************************************)
PassPoints == {"sleep", "delay", "apply", "g3_check", "g3_set", "decide",
               "tail", "switch"}
OffPoints  == {"off", "off_pch", "off_spin"}
ErrPoints  == {"err_init", "err_init_sys", "err_update", "err_update_sys"}

JobInv ==
  /\ pc \in InitPoints => cur = "G3"
  /\ pc \in InitPoints \cup PassPoints => tgt = "G3"
  /\ pc \in CheckWaits \cup PowerOnPath \cup {"err_update", "err_update_sys"}
       => tgt = "S0" /\ cur # "S0"
  /\ pc \in {"suspend", "suspend_sys"} => tgt = "S3" /\ cur = "S0"
  /\ pc \in OffPoints => tgt \in DeepStates /\ cur \in {"S0", "S3"}
  /\ pc = "reject" => tgt \in {"S0", cur}
  /\ pc = "commit" => tgt # "G3" /\ (tgt = "S0" => cur # "S0")
  /\ pc \in ErrPoints => failure

RequestInv ==
  /\ nxt = "G3" => cur = "G3"
  /\ pc \in {"switch", "suspend", "suspend_sys", "commit"} \cup OffPoints
            \cup CheckWaits \cup PowerOnPath => nxt # "G3"

RailInv ==
  /\ pc = "on_pltrst" => PCH_PWROK /\ SYS_PWROK
  /\ pc \in {"suspend_sys", "off_spin"} => ~PCH_PWROK
  /\ pc = "off_spin" => ~SYS_PWROK
  /\ pc = "commit" /\ tgt = "S0" => PCH_PWROK /\ SYS_PWROK
  /\ pc = "commit" /\ tgt # "S0" /\ cur \in {"S0", "S3"}
       => ~PCH_PWROK /\ ~SYS_PWROK

RefInv == TypeOK /\ FailureInv /\ PinInv /\ JobInv /\ RequestInv /\ RailInv

(* The first state is on its way to nothing, with all rails down. *)
LEMMA RefInit == Init => RefInv
BY WaitsAre, TypeInit, FailureInit, PinInit
DEF Init, RefInv, JobInv, RequestInv, RailInv, InitPoints, PassPoints,
    OffPoints, ErrPoints

(* Every point keeps the goal it was reached with. *)
LEMMA JobStep == RefInv /\ ~Thermal /\ [Next]_vars => JobInv'
<1> SUFFICES ASSUME RefInv, ~Thermal, [Next]_vars PROVE JobInv'
  OBVIOUS
<1> USE DEF RefInv, TypeOK, SysStates, FailureInv, FailedPoints, PinInv, PwrokOrder,
       JobInv, RequestInv, RailInv, InitPoints, PassPoints, OffPoints, ErrPoints,
       DeepStates, Goto, setup, pins, therm, pg3s
<1>1. CASE TaskInit
  <2>1. CASE Boot
    BY <2>1, WaitsAre DEF Boot
  <2>2. CASE \E maf \in BOOLEAN : InitPwrgd(maf)
    BY <2>2, WaitsAre DEF InitPwrgd
  <2>3. CASE InitRsmrstFault
    BY <2>3, WaitsAre DEF InitRsmrstFault
  <2>4. CASE InitEspi
    BY <2>4, WaitsAre DEF InitEspi
  <2>5. CASE InitError
    BY <2>5, WaitsAre DEF InitError, PwrseqError
  <2>6. CASE InitSus
    BY <2>6, WaitsAre DEF InitSus
  <2> QED BY <1>1, <2>1, <2>2, <2>3, <2>4, <2>5, <2>6 DEF TaskInit
<1>2. CASE Pass
  <2>1. CASE \E l \in BOOLEAN : Sample(l)
    BY <2>1, WaitsAre DEF Sample
  <2>2. CASE DelayDone
    BY <2>2, WaitsAre DEF DelayDone
  <2>3. CASE Apply
    BY <2>3, WaitsAre DEF Apply
  <2>4. CASE G3Check
    BY <2>4, WaitsAre DEF G3Check
  <2>5. CASE G3Set
    BY <2>5, WaitsAre DEF G3Set
  <2>6. CASE Decide
    BY <2>6, WaitsAre DEF Decide, MayUpdate
  <2>7. CASE Tail
    BY <2>7, WaitsAre DEF Tail
  <2> QED BY <1>2, <2>1, <2>2, <2>3, <2>4, <2>5, <2>6, <2>7 DEF Pass
<1>3. CASE Update
  <2>1. CASE SwitchToS0
    BY <2>1, WaitsAre DEF SwitchToS0, PowerOnEntry
  <2>2. CASE SwitchToS3
    BY <2>2, WaitsAre DEF SwitchToS3
  <2>3. CASE SuspendDropsPch
    BY <2>3, WaitsAre DEF SuspendDropsPch
  <2>4. CASE SuspendDropsSys
    BY <2>4, WaitsAre DEF SuspendDropsSys
  <2>5. CASE SwitchToSoftOff
    BY <2>5, WaitsAre DEF SwitchToSoftOff, NeedsPowerOff
  <2>6. CASE PowerOffDropsSys
    BY <2>6, WaitsAre DEF PowerOffDropsSys
  <2>7. CASE PowerOffDropsPch
    BY <2>7, WaitsAre DEF PowerOffDropsPch
  <2>8. CASE ButtonReleased
    BY <2>8, WaitsAre DEF ButtonReleased
  <2>9. CASE Commit
    BY <2>9, WaitsAre DEF Commit, CommittedState
  <2>10. CASE Reject
    BY <2>10, WaitsAre DEF Reject
  <2> QED BY <1>3, <2>1, <2>2, <2>3, <2>4, <2>5, <2>6, <2>7, <2>8, <2>9, <2>10 DEF Update
<1>4. CASE PowerOn
  <2>1. CASE WaitSeen
    BY <2>1, AfterWaitInside, WaitsAre DEF WaitSeen
  <2>2. CASE ChecksDone
    BY <2>2, WaitsAre DEF ChecksDone, PowerOnEntry
  <2>3. CASE ReleaseRsmrst
    BY <2>3, WaitsAre DEF ReleaseRsmrst
  <2>4. CASE DrivePchPwrok
    BY <2>4, WaitsAre DEF DrivePchPwrok
  <2>5. CASE DriveSysPwrok
    BY <2>5, WaitsAre DEF DriveSysPwrok
  <2>6. CASE PlatformUp
    BY <2>6, WaitsAre DEF PlatformUp, EnqueueSciAccepts
  <2>7. CASE SequenceError
    BY <2>7, WaitsAre DEF SequenceError, PwrseqError
  <2>8. CASE WriteFault
    BY <2>8, WaitsAre DEF WriteFault
  <2> QED BY <1>4, <2>1, <2>2, <2>3, <2>4, <2>5, <2>6, <2>7, <2>8 DEF PowerOn
<1>5. CASE ErrorDropsPch \/ ErrorDone
  BY <1>5, WaitsAre DEF ErrorDropsPch, ErrorDone
<1>6. CASE Interrupts
  BY <1>6, WaitsAre DEF Interrupts, SlpEvent, SlpRequest, SleepOf, Slp, BusReset
<1>7. CASE ThermalThread
  BY <1>7 DEF ThermalThread, ReadCpuTemp, ThermalRuns, CpuTempOk, ThermTrip,
     TripDropsPch, ThermRequestS5, ThermSuspendTasks, ThermButton
<1>8. CASE UNCHANGED vars
  BY <1>8 DEF vars
<1> QED
  BY <1>1, <1>2, <1>3, <1>4, <1>5, <1>6, <1>7, <1>8 DEF Next, PwrThread

(* No interrupt takes a request back to G3. *)
LEMMA RequestStep == RefInv /\ ~Thermal /\ [Next]_vars => RequestInv'
<1> SUFFICES ASSUME RefInv, ~Thermal, [Next]_vars PROVE RequestInv'
  OBVIOUS
<1> USE DEF RefInv, TypeOK, SysStates, FailureInv, FailedPoints, PinInv, PwrokOrder,
       JobInv, RequestInv, RailInv, InitPoints, PassPoints, OffPoints, ErrPoints,
       DeepStates, Goto, setup, pins, therm, pg3s
<1>1. CASE TaskInit
  <2>1. CASE Boot
    BY <2>1, WaitsAre DEF Boot
  <2>2. CASE \E maf \in BOOLEAN : InitPwrgd(maf)
    BY <2>2, WaitsAre DEF InitPwrgd
  <2>3. CASE InitRsmrstFault
    BY <2>3, WaitsAre DEF InitRsmrstFault
  <2>4. CASE InitEspi
    BY <2>4, WaitsAre DEF InitEspi
  <2>5. CASE InitError
    BY <2>5, WaitsAre DEF InitError, PwrseqError
  <2>6. CASE InitSus
    BY <2>6, WaitsAre DEF InitSus
  <2> QED BY <1>1, <2>1, <2>2, <2>3, <2>4, <2>5, <2>6 DEF TaskInit
<1>2. CASE Pass
  <2>1. CASE \E l \in BOOLEAN : Sample(l)
    BY <2>1, WaitsAre DEF Sample
  <2>2. CASE DelayDone
    BY <2>2, WaitsAre DEF DelayDone
  <2>3. CASE Apply
    BY <2>3, WaitsAre DEF Apply
  <2>4. CASE G3Check
    BY <2>4, WaitsAre DEF G3Check
  <2>5. CASE G3Set
    BY <2>5, WaitsAre DEF G3Set
  <2>6. CASE Decide
    BY <2>6, WaitsAre DEF Decide, MayUpdate
  <2>7. CASE Tail
    BY <2>7, WaitsAre DEF Tail
  <2> QED BY <1>2, <2>1, <2>2, <2>3, <2>4, <2>5, <2>6, <2>7 DEF Pass
<1>3. CASE Update
  <2>1. CASE SwitchToS0
    BY <2>1, WaitsAre DEF SwitchToS0, PowerOnEntry
  <2>2. CASE SwitchToS3
    BY <2>2, WaitsAre DEF SwitchToS3
  <2>3. CASE SuspendDropsPch
    BY <2>3, WaitsAre DEF SuspendDropsPch
  <2>4. CASE SuspendDropsSys
    BY <2>4, WaitsAre DEF SuspendDropsSys
  <2>5. CASE SwitchToSoftOff
    BY <2>5, WaitsAre DEF SwitchToSoftOff, NeedsPowerOff
  <2>6. CASE PowerOffDropsSys
    BY <2>6, WaitsAre DEF PowerOffDropsSys
  <2>7. CASE PowerOffDropsPch
    BY <2>7, WaitsAre DEF PowerOffDropsPch
  <2>8. CASE ButtonReleased
    BY <2>8, WaitsAre DEF ButtonReleased
  <2>9. CASE Commit
    BY <2>9, WaitsAre DEF Commit, CommittedState
  <2>10. CASE Reject
    BY <2>10, WaitsAre DEF Reject
  <2> QED BY <1>3, <2>1, <2>2, <2>3, <2>4, <2>5, <2>6, <2>7, <2>8, <2>9, <2>10 DEF Update
<1>4. CASE PowerOn
  <2>1. CASE WaitSeen
    BY <2>1, AfterWaitInside, WaitsAre DEF WaitSeen
  <2>2. CASE ChecksDone
    BY <2>2, WaitsAre DEF ChecksDone, PowerOnEntry
  <2>3. CASE ReleaseRsmrst
    BY <2>3, WaitsAre DEF ReleaseRsmrst
  <2>4. CASE DrivePchPwrok
    BY <2>4, WaitsAre DEF DrivePchPwrok
  <2>5. CASE DriveSysPwrok
    BY <2>5, WaitsAre DEF DriveSysPwrok
  <2>6. CASE PlatformUp
    BY <2>6, WaitsAre DEF PlatformUp, EnqueueSciAccepts
  <2>7. CASE SequenceError
    BY <2>7, WaitsAre DEF SequenceError, PwrseqError
  <2>8. CASE WriteFault
    BY <2>8, WaitsAre DEF WriteFault
  <2> QED BY <1>4, <2>1, <2>2, <2>3, <2>4, <2>5, <2>6, <2>7, <2>8 DEF PowerOn
<1>5. CASE ErrorDropsPch \/ ErrorDone
  BY <1>5, WaitsAre DEF ErrorDropsPch, ErrorDone
<1>6. CASE Interrupts
  BY <1>6, WaitsAre DEF Interrupts, SlpEvent, SlpRequest, SleepOf, Slp, BusReset
<1>7. CASE ThermalThread
  BY <1>7 DEF ThermalThread, ReadCpuTemp, ThermalRuns, CpuTempOk, ThermTrip,
     TripDropsPch, ThermRequestS5, ThermSuspendTasks, ThermButton
<1>8. CASE UNCHANGED vars
  BY <1>8 DEF vars
<1> QED
  BY <1>1, <1>2, <1>3, <1>4, <1>5, <1>6, <1>7, <1>8 DEF Next, PwrThread

(* Every point keeps the pins written on the way to it. *)
LEMMA RailStep == RefInv /\ ~Thermal /\ [Next]_vars => RailInv'
<1> SUFFICES ASSUME RefInv, ~Thermal, [Next]_vars PROVE RailInv'
  OBVIOUS
<1> USE DEF RefInv, TypeOK, SysStates, FailureInv, FailedPoints, PinInv, PwrokOrder,
       JobInv, RequestInv, RailInv, InitPoints, PassPoints, OffPoints, ErrPoints,
       DeepStates, Goto, setup, pins, therm, pg3s
<1>1. CASE TaskInit
  <2>1. CASE Boot
    BY <2>1, WaitsAre DEF Boot
  <2>2. CASE \E maf \in BOOLEAN : InitPwrgd(maf)
    BY <2>2, WaitsAre DEF InitPwrgd
  <2>3. CASE InitRsmrstFault
    BY <2>3, WaitsAre DEF InitRsmrstFault
  <2>4. CASE InitEspi
    BY <2>4, WaitsAre DEF InitEspi
  <2>5. CASE InitError
    BY <2>5, WaitsAre DEF InitError, PwrseqError
  <2>6. CASE InitSus
    BY <2>6, WaitsAre DEF InitSus
  <2> QED BY <1>1, <2>1, <2>2, <2>3, <2>4, <2>5, <2>6 DEF TaskInit
<1>2. CASE Pass
  <2>1. CASE \E l \in BOOLEAN : Sample(l)
    BY <2>1, WaitsAre DEF Sample
  <2>2. CASE DelayDone
    BY <2>2, WaitsAre DEF DelayDone
  <2>3. CASE Apply
    BY <2>3, WaitsAre DEF Apply
  <2>4. CASE G3Check
    BY <2>4, WaitsAre DEF G3Check
  <2>5. CASE G3Set
    BY <2>5, WaitsAre DEF G3Set
  <2>6. CASE Decide
    BY <2>6, WaitsAre DEF Decide, MayUpdate
  <2>7. CASE Tail
    BY <2>7, WaitsAre DEF Tail
  <2> QED BY <1>2, <2>1, <2>2, <2>3, <2>4, <2>5, <2>6, <2>7 DEF Pass
<1>3. CASE Update
  <2>1. CASE SwitchToS0
    BY <2>1, WaitsAre DEF SwitchToS0, PowerOnEntry
  <2>2. CASE SwitchToS3
    BY <2>2, WaitsAre DEF SwitchToS3
  <2>3. CASE SuspendDropsPch
    BY <2>3, WaitsAre DEF SuspendDropsPch
  <2>4. CASE SuspendDropsSys
    BY <2>4, WaitsAre DEF SuspendDropsSys
  <2>5. CASE SwitchToSoftOff
    BY <2>5, WaitsAre DEF SwitchToSoftOff, NeedsPowerOff
  <2>6. CASE PowerOffDropsSys
    BY <2>6, WaitsAre DEF PowerOffDropsSys
  <2>7. CASE PowerOffDropsPch
    BY <2>7, WaitsAre DEF PowerOffDropsPch
  <2>8. CASE ButtonReleased
    BY <2>8, WaitsAre DEF ButtonReleased
  <2>9. CASE Commit
    BY <2>9, WaitsAre DEF Commit, CommittedState
  <2>10. CASE Reject
    BY <2>10, WaitsAre DEF Reject
  <2> QED BY <1>3, <2>1, <2>2, <2>3, <2>4, <2>5, <2>6, <2>7, <2>8, <2>9, <2>10 DEF Update
<1>4. CASE PowerOn
  <2>1. CASE WaitSeen
    BY <2>1, AfterWaitInside, WaitsAre DEF WaitSeen
  <2>2. CASE ChecksDone
    BY <2>2, WaitsAre DEF ChecksDone, PowerOnEntry
  <2>3. CASE ReleaseRsmrst
    BY <2>3, WaitsAre DEF ReleaseRsmrst
  <2>4. CASE DrivePchPwrok
    BY <2>4, WaitsAre DEF DrivePchPwrok
  <2>5. CASE DriveSysPwrok
    BY <2>5, WaitsAre DEF DriveSysPwrok
  <2>6. CASE PlatformUp
    BY <2>6, WaitsAre DEF PlatformUp, EnqueueSciAccepts
  <2>7. CASE SequenceError
    BY <2>7, WaitsAre DEF SequenceError, PwrseqError
  <2>8. CASE WriteFault
    BY <2>8, WaitsAre DEF WriteFault
  <2> QED BY <1>4, <2>1, <2>2, <2>3, <2>4, <2>5, <2>6, <2>7, <2>8 DEF PowerOn
<1>5. CASE ErrorDropsPch \/ ErrorDone
  BY <1>5, WaitsAre DEF ErrorDropsPch, ErrorDone
<1>6. CASE Interrupts
  BY <1>6, WaitsAre DEF Interrupts, SlpEvent, SlpRequest, SleepOf, Slp, BusReset
<1>7. CASE ThermalThread
  BY <1>7 DEF ThermalThread, ReadCpuTemp, ThermalRuns, CpuTempOk, ThermTrip,
     TripDropsPch, ThermRequestS5, ThermSuspendTasks, ThermButton
<1>8. CASE UNCHANGED vars
  BY <1>8 DEF vars
<1> QED
  BY <1>1, <1>2, <1>3, <1>4, <1>5, <1>6, <1>7, <1>8 DEF Next, PwrThread

(* The strengthened invariant of the refinement is inductive. *)
LEMMA RefStep == RefInv /\ ~Thermal /\ [Next]_vars => RefInv'
BY TypeStep, FailureStep, PinStep, JobStep, RequestStep, RailStep DEF RefInv

(* Without thermal shutdowns the sequencer implements SystemPower, for any *)
(* host and any failing access: the pins are those of the request that     *)
(* pwrseq_update() switched on, S0 only with both power goods up, a sleep  *)
(* state reached from S0 or S3 only with both down, and a request that     *)
(* comes in between is committed in its place (588) and nothing else; from *)
(* an error there is no way on.                                            *)
THEOREM Refinement ==
  ASSUME ~Thermal
  PROVE  Spec => KeepsContract
<1>1. Init => Contract!Init
  BY DEF Init, Contract!Init
<1>2. RefInv /\ [Next]_vars => [Contract!Next]_(Contract!vars)
  <2> SUFFICES ASSUME RefInv, [Next]_vars
               PROVE [Contract!Next]_(Contract!vars)
    OBVIOUS
  <2> USE DEF Contract!vars, Contract!Next, Contract!Take, Contract!Abandon,
       Contract!RailsUp, Contract!RailsDown, Contract!Ready, Contract!Enter,
       Contract!Overtaken, Contract!Stop, Contract!Sleeping, Contract!Goals,
       RefInv, TypeOK, SysStates, FailureInv, FailedPoints, PinInv, PwrokOrder,
       JobInv, RequestInv, RailInv, InitPoints, PassPoints, OffPoints, ErrPoints,
       DeepStates, Goto, setup, pins, therm, pg3s
  <2>1. CASE TaskInit
    <3>1. CASE Boot
      BY <3>1, WaitsAre DEF Boot
    <3>2. CASE \E maf \in BOOLEAN : InitPwrgd(maf)
      BY <3>2, WaitsAre DEF InitPwrgd
    <3>3. CASE InitRsmrstFault
      BY <3>3, WaitsAre DEF InitRsmrstFault
    <3>4. CASE InitEspi
      BY <3>4, WaitsAre DEF InitEspi
    <3>5. CASE InitError
      BY <3>5, WaitsAre DEF InitError, PwrseqError
    <3>6. CASE InitSus
      BY <3>6, WaitsAre DEF InitSus
    <3> QED BY <2>1, <3>1, <3>2, <3>3, <3>4, <3>5, <3>6 DEF TaskInit
  <2>2. CASE Pass
    <3>1. CASE \E l \in BOOLEAN : Sample(l)
      BY <3>1, WaitsAre DEF Sample
    <3>2. CASE DelayDone
      BY <3>2, WaitsAre DEF DelayDone
    <3>3. CASE Apply
      BY <3>3, WaitsAre DEF Apply
    <3>4. CASE G3Check
      BY <3>4, WaitsAre DEF G3Check
    <3>5. CASE G3Set
      BY <3>5, WaitsAre DEF G3Set
    <3>6. CASE Decide
      BY <3>6, WaitsAre DEF Decide, MayUpdate
    <3>7. CASE Tail
      BY <3>7, WaitsAre DEF Tail
    <3> QED BY <2>2, <3>1, <3>2, <3>3, <3>4, <3>5, <3>6, <3>7 DEF Pass
  <2>3. CASE Update
    <3>1. CASE SwitchToS0
      BY <3>1, WaitsAre DEF SwitchToS0, PowerOnEntry
    <3>2. CASE SwitchToS3
      BY <3>2, WaitsAre DEF SwitchToS3
    <3>3. CASE SuspendDropsPch
      BY <3>3, WaitsAre DEF SuspendDropsPch
    <3>4. CASE SuspendDropsSys
      BY <3>4, WaitsAre DEF SuspendDropsSys
    <3>5. CASE SwitchToSoftOff
      BY <3>5, WaitsAre DEF SwitchToSoftOff, NeedsPowerOff
    <3>6. CASE PowerOffDropsSys
      BY <3>6, WaitsAre DEF PowerOffDropsSys
    <3>7. CASE PowerOffDropsPch
      BY <3>7, WaitsAre DEF PowerOffDropsPch
    <3>8. CASE ButtonReleased
      BY <3>8, WaitsAre DEF ButtonReleased
    <3>9. CASE Commit
      BY <3>9, WaitsAre DEF Commit, CommittedState
    <3>10. CASE Reject
      BY <3>10, WaitsAre DEF Reject
    <3> QED BY <2>3, <3>1, <3>2, <3>3, <3>4, <3>5, <3>6, <3>7, <3>8, <3>9, <3>10 DEF Update
  <2>4. CASE PowerOn
    <3>1. CASE WaitSeen
      BY <3>1, AfterWaitInside, WaitsAre DEF WaitSeen
    <3>2. CASE ChecksDone
      BY <3>2, WaitsAre DEF ChecksDone, PowerOnEntry
    <3>3. CASE ReleaseRsmrst
      BY <3>3, WaitsAre DEF ReleaseRsmrst
    <3>4. CASE DrivePchPwrok
      BY <3>4, WaitsAre DEF DrivePchPwrok
    <3>5. CASE DriveSysPwrok
      BY <3>5, WaitsAre DEF DriveSysPwrok
    <3>6. CASE PlatformUp
      BY <3>6, WaitsAre DEF PlatformUp, EnqueueSciAccepts
    <3>7. CASE SequenceError
      BY <3>7, WaitsAre DEF SequenceError, PwrseqError
    <3>8. CASE WriteFault
      BY <3>8, WaitsAre DEF WriteFault
    <3> QED BY <2>4, <3>1, <3>2, <3>3, <3>4, <3>5, <3>6, <3>7, <3>8 DEF PowerOn
  <2>5. CASE ErrorDropsPch \/ ErrorDone
    BY <2>5, WaitsAre DEF ErrorDropsPch, ErrorDone
  <2>6. CASE Interrupts
    BY <2>6, WaitsAre DEF Interrupts, SlpEvent, SlpRequest, SleepOf, Slp, BusReset
  <2>7. CASE ThermalThread
    BY <2>7 DEF ThermalThread, ReadCpuTemp, ThermalRuns, CpuTempOk, ThermTrip,
       TripDropsPch, ThermRequestS5, ThermSuspendTasks, ThermButton
  <2>8. CASE UNCHANGED vars
    BY <2>8 DEF vars
  <2> QED
    BY <2>1, <2>2, <2>3, <2>4, <2>5, <2>6, <2>7, <2>8 DEF Next, PwrThread
<1>3. RefInv /\ [Next]_vars => RefInv'
  BY RefStep
<1> QED
  BY <1>1, <1>2, <1>3, RefInit, PTL DEF Spec, KeepsContract, Contract!Spec
=============================================================================
