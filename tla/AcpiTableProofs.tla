-------------------------- MODULE AcpiTableProofs --------------------------
(***************************************************************************)
(* The invariants of AcpiTable, for all values of its constants.           *)
(***************************************************************************)
EXTENDS AcpiTable, TLAPS

(* The interrupts and the other thread, one by one, in place of Next. *)
Other ==
  \/ WriteCommand \/ (\E d \in Duties : WriteDuty(d))
  \/ (\E on \in BOOLEAN : SetMode(on)) \/ (\E s \in PlnTimes : ConfigPln(s))
  \/ Press \/ Release \/ StopTimer \/ Expire \/ Reset \/ OutOfReset

LEMMA Steps == Next => SmcThread \/ Other
BY DEF Next, Other, Host, Periph

(***************************************************************************)
(* Commands.  The bound on the commands that have run is the property that *)
(* each one runs once; it needs that what runs has not been cleared.       *)
(***************************************************************************)
RunsOne == pc \in {"run", "finish"} => command # 0
CommandsOK ==
  /\ command \in 0..MaxCmds /\ ran \in 0..MaxCmds /\ cmds \in 0..MaxCmds
  /\ RunsOne /\ CommandsRunOnce

LEMMA CommandsStep == CommandsOK /\ [Next]_vars => CommandsOK'
<1> SUFFICES ASSUME CommandsOK, [Next]_vars PROVE CommandsOK'
  OBVIOUS
<1> USE AcpiTableAssumption DEF CommandsOK, RunsOne, CommandsRunOnce
<1>1. CASE WriteCommand
  BY <1>1 DEF WriteCommand, smc, aux
<1>2. CASE Run
  BY <1>2 DEF Run, Goto, table, bounds
<1>3. CASE Finish
  BY <1>3 DEF Finish, Goto, aux, bounds
<1>4. CASE Service
  BY <1>4 DEF Service, Goto, table, aux, bounds
<1>5. CASE TakeSem \/ PlnTest \/ PlnDrive \/ PlnClear \/ DutyTest \/ Blink \/ Keep
  BY <1>5 DEF TakeSem, PlnTest, PlnDrive, PlnClear, DutyTest, Blink, Keep, Goto,
              table, aux, bounds
<1>6. CASE Other /\ ~WriteCommand
  <2>1. UNCHANGED <<command, pc, ran, cmds>>
    BY <1>6 DEF Other, WriteDuty, SetMode, ConfigPln, Press, Release,
                StopTimer, Expire, Reset, OutOfReset, Access, Event, Races,
                table, smc, aux, bounds
  <2> QED BY <2>1
<1>7. CASE UNCHANGED vars
  BY <1>7 DEF vars, table, smc, aux, bounds
<1> QED
  BY <1>1, <1>2, <1>3, <1>4, <1>5, <1>6, <1>7, Steps DEF SmcThread

LEMMA CommandsInductive == Spec => []CommandsOK
<1>1. Init => CommandsOK
  BY AcpiTableAssumption DEF Init, CommandsOK, RunsOne, CommandsRunOnce
<1> QED BY <1>1, CommandsStep, PTL DEF Spec

(* When the host sees its command cleared it has run, and has run once,    *)
(* whatever is written between test, execution and clearing                *)
(* (smchost.c:446-459).                                                    *)
THEOREM EachCommandOnce == Spec => []CommandsRunOnce
BY CommandsInductive, PTL DEF CommandsOK

(***************************************************************************)
(* The other types, in parts.                                              *)
(***************************************************************************)
Points == {"wait", "pln", "drive", "clear", "service", "run", "finish",
           "test", "blink", "keep"}
DutiesOK ==
  /\ duty \in Duties \cup {0} /\ prevDuty \in Duties \cup {0}
  /\ lamp \in Duties \cup {0} /\ pc \in Points
FlagsOK ==
  /\ acpiMode \in BOOLEAN /\ sem \in BOOLEAN
  /\ plnTimer \in BOOLEAN /\ pressed \in BOOLEAN /\ plt \in BOOLEAN
  /\ pcB \in {"idle", "stop"} /\ raced \subseteq {"pln", "backlight"}
PlnOK ==
  /\ plnSts \in Levels \cup {"nc"} /\ plnPin \in Levels
  /\ plnCnt \in 0..(255 - MinimumPlnTime)
  /\ pc = "drive" => plnSts \in Levels
BoundsOK == writes \in 0..MaxWrites /\ events \in 0..MaxEvents
TypeInv == CommandsOK /\ DutiesOK /\ FlagsOK /\ PlnOK /\ BoundsOK

LEMMA Parts == TypeInv => TypeOK
BY DEF TypeInv, TypeOK, CommandsOK, DutiesOK, FlagsOK, PlnOK, BoundsOK, Points

LEMMA DutiesStep == DutiesOK /\ [Next]_vars => DutiesOK'
<1> SUFFICES ASSUME DutiesOK, [Next]_vars PROVE DutiesOK'
  OBVIOUS
<1> USE DEF DutiesOK, Points, table, smc
<1>1. CASE TakeSem \/ PlnTest \/ PlnDrive \/ PlnClear \/ Service
  BY <1>1 DEF TakeSem, PlnTest, PlnDrive, PlnClear, Service, Goto
<1>2. CASE Run \/ Finish \/ DutyTest \/ Blink \/ Keep
  BY <1>2 DEF Run, Finish, DutyTest, Blink, Keep, Goto
<1>3. CASE \E d \in Duties : WriteDuty(d)
  BY <1>3 DEF WriteDuty
<1>4. CASE Other /\ ~(\E d \in Duties : WriteDuty(d))
  <2>1. UNCHANGED <<duty, prevDuty, lamp, pc>>
    BY <1>4 DEF Other, WriteCommand, SetMode, ConfigPln, Press, Release,
                StopTimer, Expire, Reset, OutOfReset
  <2> QED BY <2>1
<1>5. CASE UNCHANGED vars
  BY <1>5 DEF vars
<1> QED BY <1>1, <1>2, <1>3, <1>4, <1>5, Steps DEF SmcThread

LEMMA FlagsStep == FlagsOK /\ [Next]_vars => FlagsOK'
<1> SUFFICES ASSUME FlagsOK, [Next]_vars PROVE FlagsOK'
  OBVIOUS
<1> USE DEF FlagsOK, table, pln, board, aux
<1>1. CASE TakeSem \/ PlnTest \/ PlnDrive \/ PlnClear \/ Service
  BY <1>1 DEF TakeSem, PlnTest, PlnDrive, PlnClear, Service, SetPln
<1>2. CASE Run \/ Finish \/ DutyTest \/ Blink \/ Keep
  BY <1>2 DEF Run, Finish, DutyTest, Blink, Keep
<1>3. CASE WriteCommand \/ (\E d \in Duties : WriteDuty(d))
  BY <1>3 DEF WriteCommand, WriteDuty, Access, Races
<1>4. CASE (\E on \in BOOLEAN : SetMode(on)) \/ (\E s \in PlnTimes : ConfigPln(s))
  BY <1>4 DEF SetMode, ConfigPln, Access
<1>5. CASE Press \/ Release
  BY <1>5 DEF Press, Release, SetPln
<1>6. CASE StopTimer \/ Expire \/ Reset \/ OutOfReset
  BY <1>6 DEF StopTimer, Expire, Reset, OutOfReset, SetPln, Races
<1>7. CASE UNCHANGED vars
  BY <1>7 DEF vars
<1> QED BY <1>1, <1>2, <1>3, <1>4, <1>5, <1>6, <1>7, Steps DEF SmcThread, Other

(* config_ssd_pln() keeps the lead time a byte. *)
LEMMA LeadIsByte == \A s \in PlnTimes : Lead(s) \in 0..(255 - MinimumPlnTime)
BY AcpiTableAssumption DEF Lead, MinimumPlnTime

LEMMA PlnStep == PlnOK /\ [Next]_vars => PlnOK'
<1> SUFFICES ASSUME PlnOK, [Next]_vars PROVE PlnOK'
  OBVIOUS
<1> USE DEF PlnOK, Levels, pln, smc
<1>1. CASE TakeSem \/ PlnTest \/ PlnDrive \/ PlnClear \/ Service
  BY <1>1 DEF TakeSem, PlnTest, PlnDrive, PlnClear, Service, SetPln, Goto
<1>2. CASE Run \/ Finish \/ DutyTest \/ Blink \/ Keep
  BY <1>2 DEF Run, Finish, DutyTest, Blink, Keep, Goto
<1>3. CASE WriteCommand \/ (\E d \in Duties : WriteDuty(d))
  BY <1>3 DEF WriteCommand, WriteDuty
<1>4. CASE \E on \in BOOLEAN : SetMode(on)
  BY <1>4 DEF SetMode
<1>5. CASE \E s \in PlnTimes : ConfigPln(s)
  BY <1>5, LeadIsByte DEF ConfigPln
<1>6. CASE Press \/ Release \/ StopTimer
  BY <1>6 DEF Press, Release, StopTimer, SetPln
<1>7. CASE Expire \/ Reset \/ OutOfReset
  BY <1>7 DEF Expire, Reset, OutOfReset, SetPln
<1>8. CASE UNCHANGED vars
  BY <1>8 DEF vars
<1> QED BY <1>1, <1>2, <1>3, <1>4, <1>5, <1>6, <1>7, <1>8, Steps DEF SmcThread, Other

LEMMA BoundsStep == BoundsOK /\ [Next]_vars => BoundsOK'
<1> SUFFICES ASSUME BoundsOK, [Next]_vars PROVE BoundsOK'
  OBVIOUS
<1> USE AcpiTableAssumption DEF BoundsOK, bounds
<1>1. CASE SmcThread
  BY <1>1 DEF SmcThread, TakeSem, PlnTest, PlnDrive, PlnClear, Service, Run, Finish,
              DutyTest, Blink, Keep
<1>2. CASE WriteCommand \/ (\E d \in Duties : WriteDuty(d))
  BY <1>2 DEF WriteCommand, WriteDuty, Access
<1>3. CASE (\E on \in BOOLEAN : SetMode(on)) \/ (\E s \in PlnTimes : ConfigPln(s))
  BY <1>3 DEF SetMode, ConfigPln, Access
<1>4. CASE Press \/ Release \/ StopTimer
  BY <1>4 DEF Press, Release, StopTimer, Event
<1>5. CASE Expire \/ Reset \/ OutOfReset
  BY <1>5 DEF Expire, Reset, OutOfReset, Event
<1>6. CASE UNCHANGED vars
  BY <1>6 DEF vars
<1> QED BY <1>1, <1>2, <1>3, <1>4, <1>5, <1>6, Steps DEF Other

LEMMA TypesInductive == Spec => []TypeInv
<1>1. Init => DutiesOK
  BY DEF Init, DutiesOK, Points
<1>2. Init => FlagsOK
  BY DEF Init, FlagsOK
<1>3. Init => PlnOK
  BY DEF Init, PlnOK, Levels, MinimumPlnTime
<1>4. Init => BoundsOK
  BY AcpiTableAssumption DEF Init, BoundsOK
<1> QED
  BY <1>1, <1>2, <1>3, <1>4, CommandsInductive, DutiesStep, FlagsStep, PlnStep, BoundsStep, PTL
     DEF Spec, TypeInv

(* The type invariant, with the lead time of config_ssd_pln() a byte.      *)
THEOREM TableTypes == Spec => []TypeOK
BY TypesInductive, Parts, PTL

(***************************************************************************)
(* The power-loss notice.                                                  *)
(***************************************************************************)
Clean == "pln" \notin raced
TimerMeansPressed == plnTimer /\ pcB # "stop" => pressed
AssertJustified == Clean /\ plnSts = "assert" => pressed /\ plt
JobAnnounced == plnSts \in Levels /\ pc \notin {"pln", "drive", "clear"} => sem
DoneAsAsked == Clean /\ pc = "clear" => plnPin = plnSts
PinJustified ==
  Clean /\ plnPin = "assert" => (pressed /\ plt) \/ plnSts = "deassert"
NoticeInv ==
  /\ TimerMeansPressed /\ AssertJustified /\ JobAnnounced
  /\ DoneAsAsked /\ PinJustified

LEMMA NoticeInit == Init => NoticeInv
BY DEF Init, NoticeInv, TimerMeansPressed, AssertJustified, JobAnnounced, DoneAsAsked,
       PinJustified, Levels

LEMMA NoticeStep == TypeInv /\ NoticeInv /\ [Next]_vars => NoticeInv'
<1> SUFFICES ASSUME FlagsOK, PlnOK, NoticeInv, [Next]_vars PROVE NoticeInv'
  BY DEF TypeInv
<1> USE DEF FlagsOK, PlnOK, NoticeInv, TimerMeansPressed, AssertJustified, JobAnnounced,
            DoneAsAsked, PinJustified, Clean, Levels, Goto
<1>1. CASE TakeSem \/ PlnTest
  BY <1>1 DEF TakeSem, PlnTest, pln, board, aux
<1>2. CASE PlnDrive
  BY <1>2 DEF PlnDrive, board, aux
<1>3. CASE PlnClear
  BY <1>3 DEF PlnClear, SetPln, board, aux
<1>4. CASE Service \/ Run \/ Finish \/ DutyTest \/ Blink \/ Keep
  BY <1>4 DEF Service, Run, Finish, DutyTest, Blink, Keep, pln, board, aux
<1>5. CASE WriteCommand \/ (\E d \in Duties : WriteDuty(d))
  BY <1>5 DEF WriteCommand, WriteDuty, Access, Races, smc, pln, board, aux
<1>6. CASE (\E on \in BOOLEAN : SetMode(on)) \/ (\E s \in PlnTimes : ConfigPln(s))
  BY <1>6 DEF SetMode, ConfigPln, Access, smc, pln, board, aux
<1>7. CASE Press
  BY <1>7 DEF Press, smc, aux
<1>8. CASE Release
  BY <1>8 DEF Release, PeriphMay, SetPln, smc, aux
<1>9. CASE StopTimer
  BY <1>9 DEF StopTimer, smc, aux
<1>10. CASE Expire
  BY <1>10 DEF Expire, SetPln, Races, Overwritten, smc, board
<1>11. CASE Reset
  BY <1>11 DEF Reset, SetPln, Races, Overwritten, smc
<1>12. CASE OutOfReset
  BY <1>12 DEF OutOfReset, smc, pln, aux
<1>13. CASE UNCHANGED vars
  BY <1>13 DEF vars, smc, pln, board, aux
<1> QED
  BY <1>1, <1>2, <1>3, <1>4, <1>5, <1>6, <1>7, <1>8, <1>9, <1>10, <1>11, <1>12, <1>13,
     Steps DEF SmcThread, Other

(* At rest the SSD is told of a loss of power only while the button is     *)
(* held out of reset, however the timer, a release and a reset interleave  *)
(* with manage_pln_signal() (smchost_pm.c:106-115), unless one of them     *)
(* comes between its last two accesses or the timer overtakes a release.   *)
THEOREM NoticeJustified == Spec => []NoFalseNotice
<1>1. NoticeInv => NoFalseNotice
  BY DEF NoticeInv, JobAnnounced, PinJustified, Clean, NoFalseNotice, Levels
<1> QED BY <1>1, NoticeInit, NoticeStep, TypesInductive, PTL DEF Spec
=============================================================================
