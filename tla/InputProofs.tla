---------------------------- MODULE InputProofs ----------------------------
(***************************************************************************)
(* What the user does: the invariants of Buttons, for any number of        *)
(* buttons and of edges, and of KbcHost, for any set of keys and commands, *)
(* any lengths of the queues and any number of retries.                    *)
(***************************************************************************)
EXTENDS Buttons, KbcHost, SequenceTheorems, TLAPS

(***************************************************************************)
(* Buttons                                                                 *)
(***************************************************************************)

(* The points of registration and of the loop over the buttons. *)
RegPoints == {"reg_irq", "reg_level", "reg_prev"}
LoopPoints == {"load", "store", "test", "clear", "reset", "notify", "report", "count"}

(***************************************************************************)
(* Types, in parts.                                                        *)
(***************************************************************************)
PinsOK ==
  /\ pin \in [Btns -> BOOLEAN] /\ irq \in [Btns -> BOOLEAN]
  /\ debouncing \in [Btns -> BOOLEAN] /\ prev \in [Btns -> BOOLEAN]
  /\ dropped \in [Btns -> BOOLEAN]

(* Inside the loop i is a button, and no more are counted than were seen.  *)
PointsOK ==
  /\ pc \in RegPoints \cup LoopPoints \cup Yields
  /\ i \in 0..N /\ ongoing \in 0..N
  /\ pc \in LoopPoints => i \in Btns /\ ongoing < i

(* A count is 0 only between its decrement and its reset. *)
CountsOK ==
  /\ cnt \in [Btns -> 0..DebounceCnt] /\ tmp \in 0..DebounceCnt
  /\ pc = "store" => tmp > 0
  /\ \A b \in Btns : cnt[b] = 0 => b = i /\ pc \in {"test", "clear", "reset"}

(* The SMC thread registers while PERIPH yields, and not the power button. *)
RegOK ==
  /\ reg \in [b : 0..N, at : {"idle", "level", "prev"}, level : BOOLEAN]
  /\ reg.at = "idle" => reg.b = 0
  /\ reg.at # "idle" => reg.b \in Btns \ {Pwr} /\ pc \in Yields

FlagsOK ==
  /\ semReady \in BOOLEAN /\ early \in BOOLEAN
  /\ PM_PWRBTN \in BOOLEAN /\ out \in BOOLEAN
RestOK == sem \in 0..1 /\ wake \in {"idle", "high", "low"} /\ edges \in 0..MaxEdges

LEMMA Ground == N \in Nat /\ Pwr \in Btns /\ DebounceCnt \in 1..255 /\ MaxEdges \in Nat
BY ButtonsAssumption DEF Btns

(***************************************************************************)
(* The steps in groups: those of PERIPH, one by one, and the others.       *)
(***************************************************************************)
LEMMA Steps ==
  Next => \/ RegIrq \/ RegLevel \/ RegPrev \/ SemInit \/ TakeSem \/ Tick
          \/ Load \/ Store \/ Test \/ Clear \/ Reset \/ ReadLevel \/ ReadFails
          \/ Report \/ Count
          \/ (\E b \in Btns : SmcIrq(b)) \/ SmcLevel \/ SmcPrev
          \/ (\E b \in Btns : Edge(b)) \/ TriggerWake
BY DEF Next, Periph, Registers, Debounces, Smc, Isr

LEMMA PinsStep == PinsOK /\ RegOK /\ [Next]_vars => PinsOK'
<1> SUFFICES ASSUME PinsOK, RegOK, [Next]_vars PROVE PinsOK'
  OBVIOUS
<1> USE DEF PinsOK, btn, aux
<1>1. CASE RegIrq BY <1>1 DEF RegIrq
<1>2. CASE RegLevel BY <1>2 DEF RegLevel
<1>3. CASE RegPrev BY <1>3 DEF RegPrev
<1>4. CASE SemInit \/ TakeSem \/ Tick \/ Load \/ Store \/ Test \/ Reset \/ ReadLevel \/ Count
  BY <1>4 DEF SemInit, TakeSem, Tick, Load, Store, Test, Reset, ReadLevel, Count
<1>5. CASE Clear BY <1>5 DEF Clear
<1>6. CASE ReadFails BY <1>6 DEF ReadFails
<1>7. CASE Report BY <1>7 DEF Report, ReportTo
<1>8. CASE \E b \in Btns : SmcIrq(b) BY <1>8 DEF SmcIrq
<1>9. CASE SmcLevel BY <1>9 DEF SmcLevel
<1>10. CASE SmcPrev BY <1>10 DEF SmcPrev, RegOK
<1>11. CASE \E b \in Btns : Edge(b) BY <1>11 DEF Edge
<1>12. CASE TriggerWake BY <1>12 DEF TriggerWake, WakeStep
<1>13. CASE UNCHANGED vars BY <1>13 DEF vars
<1> QED
  BY <1>1, <1>2, <1>3, <1>4, <1>5, <1>6, <1>7, <1>8, <1>9, <1>10, <1>11, <1>12, <1>13, Steps

LEMMA PointsStep == PointsOK /\ [Next]_vars => PointsOK'
<1> SUFFICES ASSUME PointsOK, [Next]_vars PROVE PointsOK'
  OBVIOUS
<1> USE Ground DEF PointsOK, RegPoints, LoopPoints, Yields, Btns
<1>1. CASE RegIrq \/ RegLevel \/ RegPrev \/ SemInit \/ TakeSem
  BY <1>1 DEF RegIrq, RegLevel, RegPrev, SemInit, TakeSem
<1>2. CASE Tick
  BY <1>2 DEF Tick
<1>3. CASE Load \/ Store \/ Test \/ Clear
  BY <1>3 DEF Load, Store, Test, Clear
<1>4. CASE Reset \/ ReadLevel \/ ReadFails \/ Report
  BY <1>4 DEF Reset, ReadLevel, ReadFails, Report, ReportTo
<1>5. CASE Count
  BY <1>5 DEF Count
<1>6. CASE (\E b \in Btns : SmcIrq(b)) \/ SmcLevel \/ SmcPrev
  BY <1>6 DEF SmcIrq, SmcLevel, SmcPrev
<1>7. CASE (\E b \in Btns : Edge(b)) \/ TriggerWake
  BY <1>7 DEF Edge, TriggerWake, WakeStep
<1>8. CASE UNCHANGED vars
  BY <1>8 DEF vars
<1> QED BY <1>1, <1>2, <1>3, <1>4, <1>5, <1>6, <1>7, <1>8, Steps

(* The decrement of a uint8_t that is not 0. *)
LEMMA Decrement == \A n \in 1..DebounceCnt : (n + 255) % 256 = n - 1
BY Ground

LEMMA CountsStep == PointsOK /\ CountsOK /\ [Next]_vars => CountsOK'
<1> SUFFICES ASSUME PointsOK, CountsOK, [Next]_vars PROVE CountsOK'
  OBVIOUS
<1> USE Ground DEF CountsOK, PointsOK, LoopPoints, btn
<1>1. CASE RegIrq \/ RegLevel \/ RegPrev
  BY <1>1 DEF RegIrq, RegLevel, RegPrev
<1>2. CASE SemInit \/ TakeSem \/ Tick
  BY <1>2 DEF SemInit, TakeSem, Tick
<1>3. CASE Load
  BY <1>3 DEF Load
<1>4. CASE Store
  <2>1. tmp \in 1..DebounceCnt /\ i \in Btns
    BY <1>4 DEF Store
  <2>2. Decremented \in 0..DebounceCnt
    BY <2>1, Decrement DEF Decremented
  <2> QED BY <1>4, <2>1, <2>2 DEF Store
<1>5. CASE Test
  BY <1>5 DEF Test
<1>6. CASE Clear
  BY <1>6 DEF Clear
<1>7. CASE Reset
  BY <1>7 DEF Reset
<1>8. CASE ReadLevel \/ ReadFails \/ Report
  BY <1>8 DEF ReadLevel, ReadFails, Report, ReportTo
<1>9. CASE Count
  BY <1>9 DEF Count
<1>10. CASE (\E b \in Btns : SmcIrq(b)) \/ SmcLevel \/ SmcPrev \/ TriggerWake
  BY <1>10 DEF SmcIrq, SmcLevel, SmcPrev, TriggerWake, WakeStep
<1>11. CASE \E b \in Btns : Edge(b)
  BY <1>11 DEF Edge
<1>12. CASE UNCHANGED vars
  BY <1>12 DEF vars
<1> QED
  BY <1>1, <1>2, <1>3, <1>4, <1>5, <1>6, <1>7, <1>8, <1>9, <1>10, <1>11, <1>12, Steps

LEMMA RegStep == PinsOK /\ RegOK /\ [Next]_vars => RegOK'
<1> SUFFICES ASSUME PinsOK, RegOK, [Next]_vars PROVE RegOK'
  OBVIOUS
<1> USE Ground DEF RegOK, Yields, Btns
<1>1. CASE RegIrq \/ RegLevel \/ RegPrev \/ SemInit \/ TakeSem \/ Tick
  BY <1>1 DEF RegIrq, RegLevel, RegPrev, SemInit, TakeSem, Tick, PeriphMay
<1>2. CASE Load \/ Store \/ Test \/ Clear \/ Reset
  BY <1>2 DEF Load, Store, Test, Clear, Reset
<1>3. CASE ReadLevel \/ ReadFails \/ Report \/ Count
  BY <1>3 DEF ReadLevel, ReadFails, Report, ReportTo, Count
<1>4. CASE \E b \in Btns : SmcIrq(b)
  BY <1>4 DEF SmcIrq
<1>5. CASE SmcLevel
  <2>1. CASE reg' = Idle
    BY <2>1 DEF Idle
  <2>2. CASE reg' = [reg EXCEPT !.at = "prev", !.level = pin[reg.b]]
    BY <1>5, <2>2 DEF SmcLevel, PinsOK
  <2> QED BY <1>5, <2>1, <2>2 DEF SmcLevel
<1>6. CASE SmcPrev
  BY <1>6 DEF SmcPrev, Idle
<1>7. CASE (\E b \in Btns : Edge(b)) \/ TriggerWake
  BY <1>7 DEF Edge, TriggerWake, WakeStep
<1>8. CASE UNCHANGED vars
  BY <1>8 DEF vars
<1> QED BY <1>1, <1>2, <1>3, <1>4, <1>5, <1>6, <1>7, <1>8, Steps

LEMMA FlagsStep == FlagsOK /\ [Next]_vars => FlagsOK'
<1> SUFFICES ASSUME FlagsOK, [Next]_vars PROVE FlagsOK'
  OBVIOUS
<1> USE DEF FlagsOK, pwr, aux
<1>1. CASE RegIrq \/ RegLevel \/ RegPrev \/ TakeSem \/ Tick
  BY <1>1 DEF RegIrq, RegLevel, RegPrev, TakeSem, Tick
<1>2. CASE SemInit
  BY <1>2 DEF SemInit
<1>3. CASE Load \/ Store \/ Test \/ Clear \/ Reset
  BY <1>3 DEF Load, Store, Test, Clear, Reset
<1>4. CASE ReadLevel \/ ReadFails \/ Count
  BY <1>4 DEF ReadLevel, ReadFails, Count
<1>5. CASE Report
  BY <1>5 DEF Report, ReportTo, PwrBtnEvent
<1>6. CASE (\E b \in Btns : SmcIrq(b)) \/ SmcLevel \/ SmcPrev
  BY <1>6 DEF SmcIrq, SmcLevel, SmcPrev
<1>7. CASE \E b \in Btns : Edge(b)
  BY <1>7 DEF Edge
<1>8. CASE TriggerWake
  BY <1>8 DEF TriggerWake, WakeStep
<1>9. CASE UNCHANGED vars
  BY <1>9 DEF vars
<1> QED BY <1>1, <1>2, <1>3, <1>4, <1>5, <1>6, <1>7, <1>8, <1>9, Steps

LEMMA RestStep == RestOK /\ [Next]_vars => RestOK'
<1> SUFFICES ASSUME RestOK, [Next]_vars PROVE RestOK'
  OBVIOUS
<1> USE Ground DEF RestOK, pwr, aux
<1>1. CASE RegIrq \/ RegLevel \/ RegPrev \/ TakeSem \/ Tick
  BY <1>1 DEF RegIrq, RegLevel, RegPrev, TakeSem, Tick
<1>2. CASE SemInit
  BY <1>2 DEF SemInit
<1>3. CASE Load \/ Store \/ Test \/ Clear \/ Reset
  BY <1>3 DEF Load, Store, Test, Clear, Reset
<1>4. CASE ReadLevel \/ ReadFails \/ Count
  BY <1>4 DEF ReadLevel, ReadFails, Count
<1>5. CASE Report
  BY <1>5 DEF Report, ReportTo, PwrBtnEvent
<1>6. CASE (\E b \in Btns : SmcIrq(b)) \/ SmcLevel \/ SmcPrev
  BY <1>6 DEF SmcIrq, SmcLevel, SmcPrev
<1>7. CASE \E b \in Btns : Edge(b)
  BY <1>7 DEF Edge, SemGiven
<1>8. CASE TriggerWake
  BY <1>8 DEF TriggerWake, WakeStep
<1>9. CASE UNCHANGED vars
  BY <1>9 DEF vars
<1> QED BY <1>1, <1>2, <1>3, <1>4, <1>5, <1>6, <1>7, <1>8, <1>9, Steps

TypeInv == PinsOK /\ PointsOK /\ CountsOK /\ RegOK /\ FlagsOK /\ RestOK

LEMMA TypesInductive == Spec => []TypeInv
<1>1. Init => PinsOK /\ RegOK
  BY Ground DEF Init, PinsOK, RegOK, Idle
<1>2. Init => PointsOK /\ CountsOK
  BY Ground DEF Init, PointsOK, CountsOK, RegPoints, LoopPoints
<1>3. Init => FlagsOK
  BY DEF Init, FlagsOK
<1>4. Init => RestOK
  BY Ground DEF Init, RestOK
<1>5. TypeInv /\ [Next]_vars => TypeInv'
  BY PinsStep, PointsStep, CountsStep, RegStep, FlagsStep, RestStep DEF TypeInv
<1> QED BY <1>1, <1>2, <1>3, <1>4, <1>5, PTL DEF Spec, TypeInv

(* The type invariant: among others deb_cnt, a uint8_t that the interrupt  *)
(* writes between the load and the store of its decrement, never wraps     *)
(* (periphmgmt.c:113).                                                     *)
THEOREM ButtonTypes == Spec => []TypeOK
<1>1. TypeInv => TypeOK
  BY DEF TypeInv, TypeOK, PinsOK, PointsOK, CountsOK, RegOK, FlagsOK, RestOK,
         RegPoints, LoopPoints
<1> QED BY <1>1, TypesInductive, PTL

-----------------------------------------------------------------------------
(* Where the level of button b is, when it is not about to be debounced    *)
(* (again): read by registration, read by the loop, or stored, unless the  *)
(* last read failed.                                                       *)
Accounted(b) ==
  irq[b] /\ ~debouncing[b] =>
    IF reg.b = b THEN reg.at = "prev" => reg.level = pin[b]
    ELSE IF b = Pwr /\ pc \in {"reg_level", "reg_prev"}
    THEN pc = "reg_prev" => ((tmp = 1) <=> pin[b])
    ELSE IF b = i /\ pc \in {"reset", "notify", "report"}
    THEN pc = "report" => ((tmp = 1) <=> pin[b])
    ELSE dropped[b] \/ prev[b] = pin[b]

AllAccounted == \A b \in Btns : Accounted(b)

(* What the power button's handler knows; it is called after registration. *)
HandlerKnows ==
  /\ pc \in RegPoints => out
  /\ pc # "reg_irq" => irq[Pwr]
  /\ prev[Pwr] => out
  /\ wake = "idle" /\ out => PM_PWRBTN

LEMMA Written ==
  ASSUME NEW S, NEW f \in [S -> BOOLEAN], NEW s \in S, NEW v
  PROVE  [f EXCEPT ![s] = v][s] = v
OBVIOUS

(* For one button, from one state to the next. *)
LEMMA AccountedStep ==
  ASSUME PinsOK, PointsOK, RegOK, [Next]_vars, NEW b \in Btns, Accounted(b)
  PROVE  Accounted(b)'
<1> USE DEF Accounted, PinsOK, btn, aux
<1>1. CASE RegIrq
  BY <1>1 DEF RegIrq, PeriphMay
<1>2. CASE RegLevel
  <2>1. reg.b # b
    BY <1>2, Ground DEF RegLevel, RegOK, Yields, Btns
  <2> QED BY <1>2, <2>1 DEF RegLevel
<1>3. CASE RegPrev
  BY <1>3 DEF RegPrev
<1>4. CASE SemInit \/ TakeSem
  BY <1>4 DEF SemInit, TakeSem
<1>5. CASE Tick
  BY <1>5 DEF Tick
<1>6. CASE Load
  BY <1>6 DEF Load
<1>7. CASE Store
  BY <1>7 DEF Store
<1>8. CASE Test
  BY <1>8 DEF Test
<1>9. CASE Clear
  BY <1>9, Ground DEF Clear, RegOK, Yields, Btns
<1>10. CASE Reset
  BY <1>10 DEF Reset
<1>11. CASE ReadLevel
  BY <1>11, Ground DEF ReadLevel
<1>12. CASE ReadFails
  BY <1>12 DEF ReadFails
<1>13. CASE Report
  <2>1. /\ reg.b # b /\ i \in Btns /\ pc = "report" /\ pc' = "count"
        /\ reg' = reg /\ i' = i /\ pin' = pin /\ irq' = irq
        /\ debouncing' = debouncing
    BY <1>13, Ground DEF Report, ReportTo, RegOK, PointsOK, LoopPoints, Yields, Btns
  <2>2. CASE b = i
    <3>1. prev'[b] = (tmp = 1)
      <4>1. prev' = [prev EXCEPT ![b] = (tmp = 1)]
        BY <1>13, <2>2 DEF Report
      <4> QED BY <4>1, Written
    <3>2. irq[b] /\ ~debouncing[b] => (prev'[b] <=> pin[b])
      BY <2>1, <2>2, <3>1
    <3>3. prev'[b] \in BOOLEAN /\ pin[b] \in BOOLEAN
      BY <3>1
    <3> QED BY <2>1, <2>2, <3>2, <3>3
  <2>3. CASE b # i
    <3>1. prev'[b] = prev[b] /\ dropped'[b] = dropped[b]
      BY <1>13, <2>1, <2>3 DEF Report, ReportTo
    <3> QED BY <2>1, <2>3, <3>1
  <2> QED BY <2>2, <2>3
<1>14. CASE Count
  BY <1>14 DEF Count
<1>15. CASE \E c \in Btns : SmcIrq(c)
  <2> PICK c \in Btns : SmcIrq(c)
    BY <1>15
  <2>1. CASE b = c
    <3>1. reg'.b = b /\ reg'.at = "level"
      BY <2>1 DEF SmcIrq
    <3> QED BY <3>1
  <2>2. CASE b # c
    <3>1. /\ reg'.b # b /\ irq'[b] = irq[b] /\ reg.at = "idle"
          /\ pc \in Yields /\ pc' = pc
      BY <2>2 DEF SmcIrq
    <3>2. reg.b # b
      BY <3>1, Ground DEF RegOK, Btns
    <3> QED BY <3>1, <3>2 DEF SmcIrq, Yields
  <2> QED BY <2>1, <2>2
<1>16. CASE SmcLevel
  <2>1. /\ reg.b \in Btns /\ reg.b # Pwr /\ pc \in Yields
        /\ UNCHANGED <<pin, irq, debouncing, prev, pc, i, tmp>>
    BY <1>16 DEF SmcLevel, RegOK
  <2>2. CASE reg' = Idle
    <3>1. reg'.b = 0 /\ reg'.at = "idle" /\ b # 0
      BY <2>2, Ground DEF Idle, Btns
    <3>1a. dropped' = [dropped EXCEPT ![reg.b] = (reg'.at = "idle")]
      BY <1>16 DEF SmcLevel
    <3>1b. dropped'[reg.b] = (reg'.at = "idle")
      BY <2>1, <3>1a, Written
    <3>2. CASE reg.b = b BY <2>1, <3>1, <3>1b, <3>2 DEF Yields
    <3>3. CASE reg.b # b
      <4>1. dropped'[b] = dropped[b] BY <1>16, <3>3 DEF SmcLevel
      <4> QED BY <2>1, <3>1, <3>3, <4>1 DEF Yields
    <3> QED BY <3>2, <3>3
  <2>3. CASE reg' # Idle
    <3>1. reg' = [reg EXCEPT !.at = "prev", !.level = pin[reg.b]]
      BY <1>16, <2>3 DEF SmcLevel
    <3>2. reg'.b = reg.b /\ reg'.at = "prev" /\ reg'.level = pin[reg.b]
      BY <3>1 DEF RegOK
    <3>3. CASE reg.b = b BY <2>1, <3>2, <3>3
    <3>4. CASE reg.b # b
      <4>1. dropped'[b] = dropped[b] BY <1>16, <3>4 DEF SmcLevel
      <4> QED BY <2>1, <3>2, <3>4, <4>1
    <3> QED BY <3>3, <3>4
  <2> QED BY <2>2, <2>3
<1>17. CASE SmcPrev
  BY <1>17 DEF SmcPrev, RegOK, Yields, Idle
<1>18. CASE \E c \in Btns : Edge(c)
  BY <1>18 DEF Edge
<1>19. CASE TriggerWake
  BY <1>19 DEF TriggerWake, WakeStep
<1>20. CASE UNCHANGED vars
  BY <1>20 DEF vars
<1> QED
  BY <1>1, <1>2, <1>3, <1>4, <1>5, <1>6, <1>7, <1>8, <1>9, <1>10, <1>11, <1>12,
     <1>13, <1>14, <1>15, <1>16, <1>17, <1>18, <1>19, <1>20, Steps

LEMMA HandlerStep ==
  PinsOK /\ PointsOK /\ RegOK /\ FlagsOK /\ HandlerKnows /\ [Next]_vars => HandlerKnows'
<1> SUFFICES ASSUME PinsOK, PointsOK, RegOK, FlagsOK, HandlerKnows, [Next]_vars
             PROVE  HandlerKnows'
  OBVIOUS
<1> USE Ground DEF HandlerKnows, PinsOK, RegPoints, btn, pwr, aux
<1>1. CASE RegIrq
  BY <1>1 DEF RegIrq
<1>2. CASE RegLevel
  BY <1>2 DEF RegLevel
<1>3. CASE RegPrev
  BY <1>3 DEF RegPrev
<1>4. CASE SemInit \/ TakeSem \/ Tick
  BY <1>4 DEF SemInit, TakeSem, Tick
<1>5. CASE Load \/ Store \/ Test \/ Clear \/ Reset
  BY <1>5 DEF Load, Store, Test, Clear, Reset
<1>6. CASE ReadLevel \/ ReadFails \/ Count
  BY <1>6 DEF ReadLevel, ReadFails, Count
<1>7. CASE Report
  BY <1>7 DEF Report, ReportTo, PwrBtnEvent, FlagsOK, PointsOK, LoopPoints, Btns
<1>8. CASE \E b \in Btns : SmcIrq(b)
  BY <1>8 DEF SmcIrq
<1>9. CASE SmcLevel
  BY <1>9 DEF SmcLevel
<1>10. CASE SmcPrev
  BY <1>10 DEF SmcPrev, RegOK
<1>11. CASE \E b \in Btns : Edge(b)
  BY <1>11 DEF Edge
<1>12. CASE TriggerWake
  BY <1>12 DEF TriggerWake, WakeStep, Yields
<1>13. CASE UNCHANGED vars
  BY <1>13 DEF vars
<1> QED
  BY <1>1, <1>2, <1>3, <1>4, <1>5, <1>6, <1>7, <1>8, <1>9, <1>10, <1>11, <1>12,
     <1>13, Steps

IInv == AllAccounted /\ HandlerKnows

LEMMA Inductive == Spec => []IInv
<1>1. Init => AllAccounted
  BY DEF Init, AllAccounted, Accounted
<1>2. Init => HandlerKnows
  BY Ground DEF Init, HandlerKnows
<1>3. TypeInv /\ AllAccounted /\ [Next]_vars => AllAccounted'
  BY AccountedStep DEF TypeInv, AllAccounted
<1>4. TypeInv /\ HandlerKnows /\ [Next]_vars => HandlerKnows'
  BY HandlerStep DEF TypeInv
<1> QED BY <1>1, <1>2, <1>3, <1>4, TypesInductive, PTL DEF Spec, IInv

(* However edges fall between the steps of registration and of the loop, a *)
(* thread that waits for the next edge has passed on the level of every    *)
(* button that it will not debounce (periphmgmt.c:94 to 126).              *)
THEOREM QuietIsReported == Spec => []QuietMeansReported
<1>1. TypeInv /\ AllAccounted => QuietMeansReported
  BY DEF TypeInv, QuietMeansReported, Asleep, AllAccounted, Accounted
<1> QED BY <1>1, TypesInductive, Inductive, PTL DEF IInv

(* While PERIPH waits for the next edge, the power button is up and no     *)
(* wake pulse runs, the SoC sees the button released, whichever of pulse   *)
(* and release came last (pwrbtnmgmt.c:34 to 64, 95 to 102).               *)
THEOREM NeverStuck == Spec => []NoStuckPress
<1>1. TypeInv /\ AllAccounted /\ HandlerKnows => NoStuckPress
  <2> SUFFICES ASSUME TypeInv, AllAccounted, HandlerKnows, Asleep, wake = "idle",
                      pin[Pwr], ~debouncing[Pwr], ~dropped[Pwr]
               PROVE  PM_PWRBTN
    BY DEF NoStuckPress
  <2>1. irq[Pwr] /\ reg.b # Pwr
    BY Ground DEF HandlerKnows, Asleep, TypeInv, RegOK, Btns
  <2>2. prev[Pwr]
    BY <2>1, Ground DEF AllAccounted, Accounted, Asleep
  <2> QED BY <2>2 DEF HandlerKnows
<1> QED BY <1>1, TypesInductive, Inductive, PTL DEF IInv

-----------------------------------------------------------------------------
(***************************************************************************)
(* KbcHost                                                                 *)
(***************************************************************************)

(***************************************************************************)
(* Types.  A byte is of a key or of an answer.                             *)
(***************************************************************************)
KeyNames == AllKeys \cup {"E0", "end", "pad4", "break", "fakeshift", "junk"}
KeyBytes == [key : KeyNames, up : BOOLEAN]
KeyCodes == {c \in Seq(KeyBytes) : Len(c) <= 4}
AnswerBytes == [key : {"answer"}, id : Nat, i : Nat]
Bytes == KeyBytes \cup AnswerBytes

Commands == Port64 \cup Port60
Entries == [port : {60, 64}, c : Commands, id : Nat, from : {0, 10}]
States == {"default", "wr_cmd", "out_reg", "out_port", "hotkey", "leds", "code", "typematic"}
Effects == {"purge", "off", "on", "stop", "clear"}

MatrixOK ==
  /\ held \subseteq Keys /\ flags \subseteq {"ctrl", "num", "fn"}
  /\ hotkey \in BOOLEAN /\ timer \in BOOLEAN /\ kscan \in BOOLEAN /\ kbdOn \in BOOLEAN
  /\ tp \in KeyCodes
QueuesOK ==
  /\ kbQ \in Seq(Bytes) /\ Len(kbQ) <= KbLen /\ kbSem \in 0..1
  /\ odr \in Bytes \cup {None}
  /\ fromQ \in Seq(Entries) /\ Len(fromQ) <= FromLen
ThreadOK ==
  /\ pcC \in {"wait", "op", "gap", "send", "sleep"} /\ tries \in 0..Retries
  /\ pcC \in {"send", "sleep"} => tries < Retries
  /\ ops \in Seq(Effects) /\ st \in States
  /\ toSend \in Seq(AnswerBytes) /\ Len(toSend) <= 3
  /\ resend \in Seq(AnswerBytes) /\ Len(resend) <= 3
  /\ toSend = << >> => pcC \in {"wait", "op"}
  /\ pcC = "wait" => toSend = << >>
  /\ ops = << >> <=> pcC # "op"
KbOK == pcK \in {"wait", "loop", "sleep"} /\ triesK \in 0..Retries + 1
Hosts == [c : Commands \cup {"none"}, id : Nat, want : Seq(AnswerBytes), par : BOOLEAN,
          last : Seq(AnswerBytes)]
HostOK == h \in Hosts /\ (h.par => HasParameter(h.c))
Types == MatrixOK /\ QueuesOK /\ ThreadOK /\ KbOK /\ HostOK

(***************************************************************************)
(* What the operators return                                               *)
(***************************************************************************)
LEMMA ShortSeqs ==
  ASSUME NEW S, NEW a \in S, NEW b \in S
  PROVE  /\ <<a>> \in Seq(S) /\ Len(<<a>>) = 1 /\ <<a>>[1] = a
         /\ <<a, b>> \in Seq(S) /\ Len(<<a, b>>) = 2
         /\ <<a, b>>[1] = a /\ <<a, b>>[2] = b
OBVIOUS

LEMMA CodeType == \A id \in KeyNames, up \in BOOLEAN : Code(id, up) \in KeyCodes
<1> SUFFICES ASSUME NEW id \in KeyNames, NEW up \in BOOLEAN PROVE Code(id, up) \in KeyCodes
  OBVIOUS
<1>1. Prefix \in KeyBytes /\ [key |-> id, up |-> up] \in KeyBytes
  BY DEF Prefix, KeyBytes, KeyNames
<1> QED BY <1>1, ShortSeqs DEF Code, KeyCodes

LEMMA PrintScreenType ==
  \A ctrl \in BOOLEAN, up \in BOOLEAN : PrintScreen(ctrl, up) \in KeyCodes
<1> SUFFICES ASSUME NEW ctrl \in BOOLEAN, NEW up \in BOOLEAN
             PROVE  PrintScreen(ctrl, up) \in KeyCodes
  OBVIOUS
<1> DEFINE key == <<Prefix, [key |-> "prtsc", up |-> up /\ ~ctrl]>>
           shift == <<Prefix, [key |-> "fakeshift", up |-> up]>>
<1>1. Prefix \in KeyBytes /\ [key |-> "prtsc", up |-> up /\ ~ctrl] \in KeyBytes
      /\ [key |-> "fakeshift", up |-> up] \in KeyBytes
  BY DEF Prefix, KeyBytes, KeyNames, AllKeys
<1>2. key \in Seq(KeyBytes) /\ Len(key) = 2 /\ shift \in Seq(KeyBytes) /\ Len(shift) = 2
  BY <1>1, ShortSeqs
<1>3. PrintScreen(ctrl, up) = key \/ PrintScreen(ctrl, up) = key \o shift
      \/ PrintScreen(ctrl, up) = shift \o key
  BY DEF PrintScreen
<1> HIDE DEF key, shift
<1>4. /\ key \o shift \in Seq(KeyBytes) /\ Len(key \o shift) = Len(key) + Len(shift)
      /\ shift \o key \in Seq(KeyBytes) /\ Len(shift \o key) = Len(shift) + Len(key)
  BY <1>2, ConcatProperties, Zenon
<1>5. {key, key \o shift, shift \o key} \subseteq KeyCodes BY <1>2, <1>4 DEF KeyCodes
<1> QED BY <1>3, <1>5, Zenon

LEMMA ScanCodeType ==
  ASSUME NEW k \in AllKeys, NEW fl
  PROVE  \A pressed \in BOOLEAN : ScanCode(k, fl, pressed) \in KeyCodes
<1>1. /\ k \in KeyNames /\ "pad4" \in KeyNames /\ "break" \in KeyNames
      /\ "pause" \in KeyNames
  BY DEF KeyNames, AllKeys
<1>2. \A id \in KeyNames : Code(id, TRUE) \in KeyCodes /\ Code(id, FALSE) \in KeyCodes
  BY CodeType
<1>3. ("ctrl" \in fl) \in BOOLEAN OBVIOUS
<1>4. PrintScreen("ctrl" \in fl, TRUE) \in KeyCodes
      /\ PrintScreen("ctrl" \in fl, FALSE) \in KeyCodes
  BY <1>3, PrintScreenType
<1>5. ScanCode(k, fl, TRUE) \in
        {Code("pad4", FALSE), PrintScreen("ctrl" \in fl, FALSE),
         Code("break", FALSE), Code("pause", FALSE), Code(k, FALSE)}
  BY DEF ScanCode
<1>6. ScanCode(k, fl, FALSE) \in
        {Code("pad4", TRUE), PrintScreen("ctrl" \in fl, TRUE),
         Code("break", FALSE), Code("pause", FALSE), Code(k, TRUE)}
  BY DEF ScanCode
<1>7. ScanCode(k, fl, TRUE) \in KeyCodes BY <1>1, <1>2, <1>4, <1>5, Zenon
<1>8. ScanCode(k, fl, FALSE) \in KeyCodes BY <1>1, <1>2, <1>4, <1>6, Zenon
<1> QED BY <1>7, <1>8

(* The flags, the code and the timer a key event may leave *)
Flags == SUBSET {"ctrl", "num", "fn"}
Outcomes == [flags : Flags, hotkey : BOOLEAN, code : KeyCodes, repeats : BOOLEAN]

LEMMA OutcomeType ==
  ASSUME MatrixOK, NEW k \in Keys
  PROVE  /\ Make(k) \subseteq Outcomes
         /\ Break(k) \subseteq Outcomes /\ \A o \in Break(k) : ~o.repeats
<1>1. k \in AllKeys BY KbsMatrixAssumption
<1>2. Nothing \in Outcomes /\ ~Nothing.repeats
  BY EmptySeq DEF Nothing, Outcome, Outcomes, MatrixOK, Flags, KeyCodes
<1>3. \A fl \in Flags, hot \in BOOLEAN, c \in KeyCodes, r \in BOOLEAN :
        Outcome(fl, hot, c, r) \in Outcomes /\ Outcome(fl, hot, c, r).repeats = r
  BY DEF Outcome, Outcomes
<1>4. \A o \in Outcomes, c \in KeyCodes, r \in BOOLEAN :
        /\ [o EXCEPT !.code = c] \in Outcomes /\ [o EXCEPT !.repeats = r] \in Outcomes
        /\ [o EXCEPT !.code = c, !.repeats = r] \in Outcomes
        /\ [o EXCEPT !.repeats = r].repeats = r /\ [o EXCEPT !.code = c].repeats = o.repeats
  BY DEF Outcomes
<1>5. flags \in Flags /\ hotkey \in BOOLEAN BY DEF MatrixOK, Flags
<1>6. Code("end", TRUE) \in KeyCodes /\ Code("end", FALSE) \in KeyCodes
  BY CodeType DEF KeyNames
<1>7. Junk \subseteq Outcomes
  <2>1. <<[key |-> "junk", up |-> FALSE]>> \in KeyCodes
    BY ShortSeqs DEF KeyBytes, KeyNames, KeyCodes
  <2> DEFINE junk(r) == [Nothing EXCEPT !.code = <<[key |-> "junk", up |-> FALSE]>>, !.repeats = r]
  <2>2. \A r \in BOOLEAN : junk(r) \in Outcomes BY <1>2, <1>4, <2>1
  <2>3. Junk = {junk(r) : r \in BOOLEAN} BY DEF Junk
  <2> HIDE DEF junk
  <2> QED BY <2>2, <2>3
<1>8. ASSUME NEW pressed \in BOOLEAN
      PROVE  /\ Modifiers(k, pressed) \in Flags
             /\ ScanCode(k, Modifiers(k, pressed), pressed) \in KeyCodes
  <2>1. Modifiers(k, pressed) \in Flags BY <1>5 DEF Modifiers, Flags
  <2> QED BY <1>1, <2>1, ScanCodeType
<1>9. Make(k) \subseteq Outcomes
  <2>1. [Nothing EXCEPT !.hotkey = TRUE] \in Outcomes BY <1>2 DEF Outcomes
  <2>2. [Nothing EXCEPT !.flags = flags \cup {"fn"}] \in Outcomes
    BY <1>2, <1>5 DEF Outcomes, Flags
  <2>3. FnMake(k) \subseteq Outcomes
    <3>1. [Nothing EXCEPT !.code = Code("end", FALSE), !.repeats = TRUE] \in Outcomes
      BY <1>2, <1>4, <1>6
    <3> QED BY <1>2, <1>7, <2>1, <3>1 DEF FnMake
  <2>4. OrdinaryMake(k) \subseteq Outcomes BY <1>3, <1>8 DEF OrdinaryMake
  <2> QED BY <2>2, <2>3, <2>4 DEF Make
<1>10. Break(k) \subseteq Outcomes /\ \A o \in Break(k) : ~o.repeats
  <2>1. [Nothing EXCEPT !.flags = flags \ {"fn"}] \in Outcomes
        /\ ~[Nothing EXCEPT !.flags = flags \ {"fn"}].repeats
    BY <1>2, <1>5 DEF Outcomes, Flags
  <2>2. FnBreak(k) \subseteq Outcomes /\ \A o \in FnBreak(k) : ~o.repeats
    <3>1. [Nothing EXCEPT !.code = Code("end", TRUE)] \in Outcomes
          /\ ~[Nothing EXCEPT !.code = Code("end", TRUE)].repeats
      BY <1>2, <1>4, <1>6
    <3>2. ASSUME NEW j \in Junk
          PROVE  [j EXCEPT !.repeats = FALSE] \in Outcomes
                 /\ ~[j EXCEPT !.repeats = FALSE].repeats
      BY <1>7 DEF Outcomes
    <3> QED BY <1>2, <3>1, <3>2 DEF FnBreak
  <2>3. OrdinaryBreak(k) \subseteq Outcomes /\ \A o \in OrdinaryBreak(k) : ~o.repeats
    <3>1. Outcome(Modifiers(k, FALSE), hotkey, ScanCode(k, Modifiers(k, FALSE), FALSE), FALSE)
            \in Outcomes
      BY <1>3, <1>5, <1>8
    <3> QED BY <1>3, <1>5, <1>8, <3>1 DEF OrdinaryBreak
  <2> QED BY <2>1, <2>2, <2>3 DEF Break
<1> QED BY <1>9, <1>10
(***************************************************************************)
(* The commands and the queues                                             *)
(***************************************************************************)
LEMMA MeaningType ==
  ASSUME NEW e \in Entries, st \in States
  PROVE  Meaning(e).ops \in Seq(Effects) /\ Meaning(e).n \in 0..3 /\ Meaning(e).st \in States
<1> DEFINE Meanings == {Effect(t, n, s) : t \in Seq(Effects), n \in 0..3, s \in States}
<1>1. /\ << >> \in Seq(Effects) /\ <<"purge">> \in Seq(Effects) /\ <<"on">> \in Seq(Effects)
      /\ <<"stop">> \in Seq(Effects) /\ <<"off", "purge">> \in Seq(Effects)
      /\ <<"purge", "stop", "off">> \in Seq(Effects) /\ <<"purge", "stop">> \in Seq(Effects)
      /\ <<"clear", "purge", "stop">> \in Seq(Effects)
  BY DEF Effects
<1>2. \A t \in Seq(Effects), n \in 0..3, s \in States : Effect(t, n, s) \in Meanings
  OBVIOUS
<1>3. \A m \in Meanings : m.ops \in Seq(Effects) /\ m.n \in 0..3 /\ m.st \in States
  BY DEF Effect
<1>4. st \in States /\ {"default", "wr_cmd", "out_reg", "out_port", "hotkey", "leds", "code",
                        "typematic"} \subseteq States
  BY DEF States
<1>5. {0, 1, 2, 3} \subseteq 0..3 OBVIOUS
<1> HIDE DEF Meanings
<1>6. CommandEffect(e.c) \in Meanings
  <2>1. CASE e.c \in {"out_reg", "out_port", "hotkey"}
    BY <1>1, <1>2, <1>4, <1>5, <2>1 DEF CommandEffect
  <2>2. CASE e.c \notin {"out_reg", "out_port", "hotkey"}
    BY <1>1, <1>2, <1>4, <1>5, <2>2 DEF CommandEffect
  <2> QED BY <2>1, <2>2
<1>7. ParameterEffect(e.c) \in Meanings BY <1>1, <1>2, <1>4, <1>5 DEF ParameterEffect
<1>8. KeyboardEffect(e.c) \in Meanings BY <1>1, <1>2, <1>4, <1>5 DEF KeyboardEffect
<1> QED BY <1>3, <1>6, <1>7, <1>8 DEF Meaning

LEMMA AnswerType ==
  ASSUME NEW id \in Nat, NEW from \in Nat, NEW n \in Nat
  PROVE  /\ Answer(id, from, n) \in Seq(AnswerBytes) /\ Len(Answer(id, from, n)) = n
         /\ \A j \in 1..n : Answer(id, from, n)[j] = [key |-> "answer", id |-> id, i |-> from + j]
         /\ n = 0 => Answer(id, from, n) = << >>
BY DEF Answer, AnswerBytes

LEMMA ExpectedType == \A c : Expected(c) \in 0..3 /\ ExpectedAfter(c) \in 0..2
BY DEF Expected, ExpectedAfter

LEMMA Empty ==
  /\ << >> \in Seq(Bytes) /\ << >> \in Seq(AnswerBytes) /\ << >> \in KeyCodes
  /\ << >> \in Seq(Effects) /\ << >> \in Seq(Entries) /\ Len(<< >>) = 0
BY EmptySeq DEF KeyCodes

LEMMA LengthsAreNat == KbLen \in Nat \ {0} /\ FromLen \in Nat \ {0} /\ Retries \in Nat \ {0}
BY KbcHostAssumption

LEMMA EmptyFits == \A q : q = << >> => q \in Seq(Bytes) /\ Len(q) <= KbLen
<1>1. 0 <= KbLen BY LengthsAreNat
<1> QED BY <1>1, Empty, Zenon

(* What SendToHost() does to the queue: it appends a part of the bytes.     *)
LEMMA SendType ==
  ASSUME NEW bytes \in Seq(Bytes), kbQ \in Seq(Bytes), Len(kbQ) <= KbLen
  PROVE  /\ Fitting(bytes) \in Seq(Bytes) /\ kbQ \o Fitting(bytes) \in Seq(Bytes)
         /\ Len(kbQ \o Fitting(bytes)) <= KbLen
         /\ Len(Fitting(bytes)) <= Len(bytes)
         /\ \A j \in 1..Len(Fitting(bytes)) : Fitting(bytes)[j] = bytes[j]
         /\ ~Overflows(bytes) => Fitting(bytes) = bytes
         /\ bytes = << >> => kbQ \o Fitting(bytes) = kbQ
<1> DEFINE n == IF Len(bytes) < Room THEN Len(bytes) ELSE Room
<1>1. Len(kbQ) \in Nat /\ Len(bytes) \in Nat /\ Room \in Nat
  BY LengthsAreNat DEF Room
<1>2. n \in 0..Len(bytes) /\ n <= Room BY <1>1
<1>3. Fitting(bytes) = SubSeq(bytes, 1, n) BY DEF Fitting
<1> HIDE DEF n
<1>4. \A x \in 1..n : bytes[x] \in Bytes BY <1>1, <1>2, ElementOfSeq
<1>5. /\ Fitting(bytes) \in Seq(Bytes) /\ Len(Fitting(bytes)) = n
      /\ \A j \in 1..n : Fitting(bytes)[j] = bytes[j]
  <2>1. SubSeq(bytes, 1, n) \in Seq(Bytes)
        /\ Len(SubSeq(bytes, 1, n)) = (IF 1 <= n THEN n - 1 + 1 ELSE 0)
        /\ \A x \in 1..(n - 1 + 1) : SubSeq(bytes, 1, n)[x] = bytes[1 + x - 1]
    <3>1. 1 \in Int /\ n \in Int BY <1>2
    <3> QED BY <1>4, <3>1, SubSeqProperties
  <2>2. n \in Nat BY <1>2
  <2> QED BY <1>3, <2>1, <2>2
<1>6. kbQ \o Fitting(bytes) \in Seq(Bytes) /\ Len(kbQ \o Fitting(bytes)) = Len(kbQ) + n
  BY <1>5, ConcatProperties
<1>7. Len(kbQ \o Fitting(bytes)) <= KbLen BY <1>1, <1>2, <1>6, LengthsAreNat DEF Room
<1>8. ASSUME ~Overflows(bytes) PROVE Fitting(bytes) = bytes
  <2>1. n = Len(bytes) BY <1>1, <1>8 DEF Overflows, n
  <2> QED BY <1>3, <2>1, SubSeqFull
<1>9. ASSUME bytes = << >> PROVE kbQ \o Fitting(bytes) = kbQ
  <2>1. ~Overflows(bytes) BY <1>1, <1>9 DEF Overflows
  <2> QED BY <1>8, <1>9, <2>1, ConcatEmptySeq
<1> QED BY <1>2, <1>5, <1>6, <1>7, <1>8, <1>9
(***************************************************************************)
(* The steps keep the types                                                *)
(***************************************************************************)
LEMMA KeysAreBytes == KeyCodes \subseteq Seq(Bytes) /\ \A c \in KeyCodes : Len(c) <= 4
<1>1. KeyBytes \subseteq Bytes BY DEF Bytes
<1>2. \A c \in Seq(KeyBytes) : c \in Seq(Bytes) BY <1>1, SeqMonotonic
<1> QED BY <1>2 DEF KeyCodes

LEMMA AnswersAreBytes == \A s \in Seq(AnswerBytes) : s \in Seq(Bytes)
<1>1. AnswerBytes \subseteq Bytes BY DEF Bytes
<1> QED BY <1>1, SeqMonotonic

LEMMA AcceptedType == \A c \in KeyCodes : \A hot : Accepted(c, hot) \in KeyCodes
BY EmptySeq DEF Accepted, KeyCodes

(* The queue of key bytes after the callback *)
LEMMA CallbackType ==
  ASSUME NEW c \in KeyCodes, NEW hot, Callback(c, hot), kbQ \in Seq(Bytes), Len(kbQ) <= KbLen,
         kbSem \in 0..1
  PROVE  kbQ' \in Seq(Bytes) /\ Len(kbQ') <= KbLen /\ kbSem' \in 0..1
<1>1. Accepted(c, hot) \in Seq(Bytes) BY AcceptedType, KeysAreBytes
<1> QED BY <1>1, SendType DEF Callback, SendToHost

LEMMA EventTypes ==
  ASSUME Types, NEW k \in Keys, NEW pressed \in BOOLEAN, NEW outs,
         outs \subseteq Outcomes, Key(k, pressed, outs)
  PROVE  Types'
<1>1. held' \subseteq Keys BY DEF Key, Types, MatrixOK
<1>2. CASE kscan
  <2>1. PICK o \in outs : Settle(o, pressed) /\ Callback(o.code, o.hotkey)
    BY <1>2 DEF Key
  <2>2. o.flags \in Flags /\ o.hotkey \in BOOLEAN /\ o.code \in KeyCodes /\ o.repeats \in BOOLEAN
    BY DEF Outcomes
  <2>3. flags' \in Flags /\ hotkey' \in BOOLEAN /\ tp' \in KeyCodes /\ kscan' \in BOOLEAN
    BY <2>1, <2>2 DEF Settle, Types, MatrixOK
  <2>4. timer' \in BOOLEAN BY <2>1, <2>2 DEF Settle, TimerAfter
  <2>5. kbQ' \in Seq(Bytes) /\ Len(kbQ') <= KbLen /\ kbSem' \in 0..1
    BY <2>1, <2>2, CallbackType DEF Types, QueuesOK
  <2>6. UNCHANGED <<kbdOn, st, resend, fromQ, odr, threads, h>> BY DEF Key, kbc, host
  <2> QED
    BY <1>1, <2>3, <2>4, <2>5, <2>6
    DEF Types, MatrixOK, QueuesOK, ThreadOK, KbOK, HostOK, Flags, threads
<1>3. CASE ~kscan
  <2>1. UNCHANGED <<flags, hotkey, tp, timer, kscan, kbdOn, queues, st, resend, threads, h>>
    BY <1>3 DEF Key, kbc, host, queues
  <2> QED
    BY <1>1, <2>1
    DEF Types, MatrixOK, QueuesOK, ThreadOK, KbOK, HostOK, threads, queues
<1> QED BY <1>2, <1>3

LEMMA UserTypes == Types /\ User => Types'
<1> SUFFICES ASSUME Types, User PROVE Types' OBVIOUS
<1>1. held \subseteq Keys BY DEF Types, MatrixOK
<1>2. CASE Press BY <1>2, EventTypes, OutcomeType DEF Press, Types
<1>3. CASE Release BY <1>1, <1>3, EventTypes, OutcomeType DEF Release, Types
<1>4. CASE Repeat
  <2>1. kbQ' \in Seq(Bytes) /\ Len(kbQ') <= KbLen /\ kbSem' \in 0..1
    BY <1>4, CallbackType DEF Repeat, Types, QueuesOK, MatrixOK
  <2>2. UNCHANGED <<kbsVars, kbdOn, st, resend, fromQ, odr, threads, h>>
    BY <1>4 DEF Repeat, kbc, host
  <2> QED
    BY <2>1, <2>2
    DEF Types, MatrixOK, QueuesOK, ThreadOK, KbOK, HostOK, threads, kbsVars
<1> QED BY <1>2, <1>3, <1>4 DEF User

LEMMA TailType ==
  ASSUME NEW S, NEW s \in Seq(S), s # << >>
  PROVE  Head(s) \in S /\ Tail(s) \in Seq(S) /\ Len(Tail(s)) = Len(s) - 1 /\ Len(s) \in Nat \ {0}
         /\ (Len(s) = 1 <=> Tail(s) = << >>)
<1>1. Head(s) \in S /\ Tail(s) \in Seq(S) /\ Len(Tail(s)) = Len(s) - 1 BY HeadTailProperties
<1>2. Len(s) \in Nat \ {0} /\ Len(Tail(s)) \in Nat BY <1>1, EmptySeq
<1>3. Tail(s) = << >> => Len(Tail(s)) = 0 BY EmptySeq
<1>4. Tail(s) # << >> => Len(Tail(s)) \in Nat \ {0} BY <1>1, EmptySeq
<1> QED BY <1>1, <1>2, <1>3, <1>4
LEMMA GetTypes == Types /\ KbcGet => Types'
<1> SUFFICES ASSUME Types, KbcGet PROVE Types' OBVIOUS
<1> DEFINE e == Head(fromQ)
           m == Meaning(e)
           answer == IF Replayed(e) THEN resend ELSE Answer(e.id, e.from, m.n)
<1>1. e \in Entries /\ fromQ' \in Seq(Entries) /\ Len(fromQ') <= FromLen
  <2>1. Len(Tail(fromQ)) <= Len(fromQ) /\ Len(fromQ) <= FromLen
    BY TailType, LengthsAreNat DEF KbcGet, Types, QueuesOK
  <2>2. Len(Tail(fromQ)) \in Nat /\ Len(fromQ) \in Nat
    BY TailType DEF KbcGet, Types, QueuesOK
  <2> QED BY <2>1, <2>2, TailType, LengthsAreNat DEF KbcGet, Types, QueuesOK
<1>2. m.ops \in Seq(Effects) /\ m.n \in 0..3 /\ m.st \in States
  BY <1>1, MeaningType DEF Types, ThreadOK
<1>3. answer \in Seq(AnswerBytes) /\ Len(answer) <= 3
  <2>1. e.id \in Nat /\ e.from \in Nat /\ m.n \in Nat BY <1>1, <1>2 DEF Entries
  <2>2. Answer(e.id, e.from, m.n) \in Seq(AnswerBytes) /\ Len(Answer(e.id, e.from, m.n)) = m.n
    BY <2>1, AnswerType, ZenonT(40)
  <2> QED BY <1>2, <2>2 DEF Types, ThreadOK
<1>4. /\ ops' = m.ops /\ st' = m.st /\ toSend' = answer /\ pcC' = After(m.ops, answer)
      /\ resend' = answer \/ resend' = resend
  BY DEF KbcGet
<1>5. UNCHANGED <<kbsVars, kbdOn, kbQ, kbSem, odr, tries, pcK, triesK, h>> BY DEF KbcGet, host
<1> HIDE DEF answer, m, e
<1>6. ThreadOK'
  BY <1>2, <1>3, <1>4, <1>5 DEF After, Types, ThreadOK
<1>7. MatrixOK' /\ KbOK' /\ HostOK' BY <1>5 DEF Types, MatrixOK, KbOK, HostOK, kbsVars
<1>8. QueuesOK' BY <1>1, <1>5 DEF Types, QueuesOK
<1> QED BY <1>6, <1>7, <1>8 DEF Types

LEMMA OpTypes == Types /\ KbcOp => Types'
<1> SUFFICES ASSUME Types, KbcOp PROVE Types' OBVIOUS
<1>1. ops \in Seq(Effects) /\ ops # << >> /\ Tail(ops) \in Seq(Effects)
  BY TailType DEF KbcOp, Types, ThreadOK
<1>2. UNCHANGED <<held, flags, hotkey, tp, kscan>>
      /\ timer' \in BOOLEAN /\ kbdOn' \in BOOLEAN
  BY DEF KbcOp, StopRepeat, kbsVars, Types, MatrixOK
<1>3. kbQ' \in {kbQ, << >>} /\ odr' \in {odr, None}
  BY DEF KbcOp, Purge, StopRepeat
<1>4. UNCHANGED <<st, resend, fromQ, kbSem, toSend, tries, pcK, triesK, h>>
      /\ ops' = Tail(ops) /\ pcC' = After(Tail(ops), toSend)
  BY DEF KbcOp, host
<1>5. kbQ' \in Seq(Bytes) /\ Len(kbQ') <= KbLen
  BY <1>3, EmptyFits, Zenon DEF Types, QueuesOK
<1>6. ThreadOK' BY <1>1, <1>4 DEF After, Types, ThreadOK
<1>7. MatrixOK' /\ KbOK' /\ HostOK' BY <1>2, <1>4 DEF Types, MatrixOK, KbOK, HostOK
<1>8. QueuesOK' BY <1>3, <1>4, <1>5 DEF Types, QueuesOK
<1> QED BY <1>6, <1>7, <1>8 DEF Types

LEMMA SendTypes == Types /\ (KbcGap \/ KbcSend) => Types'
<1> SUFFICES ASSUME Types, KbcGap \/ KbcSend PROVE Types' OBVIOUS
<1>1. UNCHANGED <<kbsVars, kbdOn, st, resend, fromQ, kbQ, kbSem, ops, pcK, triesK, h>>
  BY DEF KbcGap, KbcSend, kbc, queues, host
<1>2. toSend # << >> /\ toSend \in Seq(AnswerBytes) /\ Len(toSend) <= 3 /\ ops = << >>
  BY DEF KbcGap, KbcSend, Types, ThreadOK
<1>3. /\ Head(toSend) \in AnswerBytes /\ Tail(toSend) \in Seq(AnswerBytes) /\ Len(Tail(toSend)) <= 3
      /\ (Len(toSend) = 1 <=> Tail(toSend) = << >>)
  BY <1>2, TailType
<1>4. odr' \in Bytes \cup {None}
  BY <1>3 DEF KbcGap, KbcSend, queues, Types, QueuesOK, Bytes
<1>5. ThreadOK'
  <2>1. 0 \in 0..Retries /\ 0 < Retries BY LengthsAreNat
  <2>2. CASE KbcGap BY <1>1, <1>2, <2>1, <2>2 DEF KbcGap, Types, ThreadOK
  <2>3. CASE KbcSend /\ odr = None
    <3>1. toSend' = Tail(toSend) /\ tries' = 0 /\ pcC' = (IF Len(toSend) = 1 THEN "wait" ELSE "send")
      BY <2>3 DEF KbcSend
    <3> QED BY <1>1, <1>2, <1>3, <2>1, <3>1 DEF Types, ThreadOK
  <2>4. CASE KbcSend /\ odr # None
    BY <1>1, <1>2, <2>4 DEF KbcSend, Types, ThreadOK
  <2> QED BY <2>2, <2>3, <2>4
<1>6. MatrixOK' /\ KbOK' /\ HostOK' BY <1>1 DEF Types, MatrixOK, KbOK, HostOK, kbsVars
<1>7. QueuesOK' BY <1>1, <1>4 DEF Types, QueuesOK
<1> QED BY <1>5, <1>6, <1>7 DEF Types

LEMMA RetryTypes == Types /\ KbcRetry => Types'
<1> SUFFICES ASSUME Types, KbcRetry PROVE Types' OBVIOUS
<1>1. UNCHANGED <<kbsVars, kbdOn, st, resend, fromQ, odr, ops, pcK, triesK, h>>
  BY DEF KbcRetry, kbc, host
<1>2. toSend \in Seq(Bytes) BY AnswersAreBytes DEF Types, ThreadOK
<1>3. kbQ' \in Seq(Bytes) /\ Len(kbQ') <= KbLen /\ kbSem' \in 0..1
  <2>1. kbQ \in Seq(Bytes) /\ Len(kbQ) <= KbLen /\ kbSem \in 0..1 BY DEF Types, QueuesOK
  <2>2. kbQ \o Fitting(toSend) \in Seq(Bytes) /\ Len(kbQ \o Fitting(toSend)) <= KbLen
    BY <1>2, <2>1, SendType
  <2>3. CASE tries + 1 = Retries
    <3>1. kbQ' = kbQ \o Fitting(toSend) /\ kbSem' = (IF toSend = << >> THEN kbSem ELSE 1)
      BY <2>3 DEF KbcRetry, SendToHost
    <3>2. kbSem' \in 0..1 BY <2>1, <3>1
    <3> QED BY <2>2, <3>1, <3>2, Zenon
  <2>4. CASE tries + 1 # Retries
    <3>1. kbQ' = kbQ /\ kbSem' = kbSem BY <2>4 DEF KbcRetry
    <3> QED BY <2>1, <3>1
  <2> QED BY <2>3, <2>4
<1>4. ThreadOK'
  <2>1. pcC = "sleep" /\ tries \in 0..Retries /\ tries < Retries /\ ops = << >>
    BY DEF KbcRetry, Types, ThreadOK
  <2>2. tries' = tries + 1 /\ tries' \in 0..Retries
    BY <2>1, LengthsAreNat DEF KbcRetry
  <2>3. CASE tries + 1 = Retries
    BY <1>1, <2>1, <2>2, <2>3, Empty DEF KbcRetry, Types, ThreadOK
  <2>4. CASE tries + 1 # Retries
    <3>1. tries' < Retries BY <2>1, <2>2, <2>4, LengthsAreNat
    <3> QED BY <1>1, <2>1, <2>2, <2>4, <3>1 DEF KbcRetry, Types, ThreadOK
  <2> QED BY <2>3, <2>4
<1>5. MatrixOK' /\ KbOK' /\ HostOK' BY <1>1 DEF Types, MatrixOK, KbOK, HostOK, kbsVars
<1>6. QueuesOK' BY <1>1, <1>3 DEF Types, QueuesOK
<1> QED BY <1>4, <1>5, <1>6 DEF Types

LEMMA KbTypes == Types /\ KbThread => Types'
<1> SUFFICES ASSUME Types, KbThread PROVE Types' OBVIOUS
<1>1. UNCHANGED <<kbsVars, kbdOn, st, resend, fromQ, ops, toSend, tries, pcC, h>>
  BY DEF KbThread, KbTake, KbEmpty, KbBusy, KbWrite, KbRetry, kbc, queues, host
<1>2. KbOK'
  BY LengthsAreNat DEF KbThread, KbTake, KbEmpty, KbBusy, KbWrite, KbRetry, Types, KbOK
<1>3. kbQ' \in Seq(Bytes) /\ Len(kbQ') <= KbLen /\ odr' \in Bytes \cup {None} /\ kbSem' \in 0..1
  <2>1. kbQ \in Seq(Bytes) /\ Len(kbQ) <= KbLen /\ odr \in Bytes \cup {None} /\ kbSem \in 0..1
    BY DEF Types, QueuesOK
  <2>2. CASE KbWrite
    <3>1. Head(kbQ) \in Bytes /\ Tail(kbQ) \in Seq(Bytes) /\ Len(Tail(kbQ)) = Len(kbQ) - 1
          /\ Len(kbQ) \in Nat
      BY <2>1, <2>2, TailType DEF KbWrite
    <3> QED BY <2>1, <2>2, <3>1, LengthsAreNat DEF KbWrite
  <2>3. CASE KbTake \/ KbEmpty \/ KbRetry \/ KbBusy
    <3>1. kbQ' \in {kbQ, << >>} /\ odr' = odr /\ kbSem' \in {kbSem, 0}
      BY <2>3 DEF KbTake, KbEmpty, KbRetry, KbBusy, Purge, queues
    <3>2. kbQ' \in Seq(Bytes) /\ Len(kbQ') <= KbLen BY <2>1, <3>1, EmptyFits, Zenon
    <3> QED BY <2>1, <3>1, <3>2
  <2> QED BY <2>2, <2>3 DEF KbThread
<1>4. MatrixOK' /\ ThreadOK' /\ HostOK' BY <1>1 DEF Types, MatrixOK, ThreadOK, HostOK, kbsVars
<1>5. QueuesOK' BY <1>1, <1>3 DEF Types, QueuesOK
<1> QED BY <1>2, <1>4, <1>5 DEF Types

LEMMA PowerTypes == Types /\ PwrThread => Types'
<1> SUFFICES ASSUME Types, PwrThread PROVE Types' OBVIOUS
<1>1. UNCHANGED <<held, flags, hotkey, tp, st, resend, fromQ, kbQ, kbSem, threads, h>>
      /\ odr' \in {odr, None}
  BY DEF PwrThread, PowerOff, PowerOn, Resume, Commit, kbsVars, kbc, queues, host
<1>2. timer' \in BOOLEAN /\ kscan' \in BOOLEAN /\ kbdOn' \in BOOLEAN
  BY DEF PwrThread, PowerOff, PowerOn, Resume, Commit, EnableInterface, kbsVars, kbc, Types,
         MatrixOK
<1> QED
  BY <1>1, <1>2 DEF Types, MatrixOK, QueuesOK, ThreadOK, KbOK, HostOK, threads

LEMMA WriteType ==
  ASSUME NEW port \in {60, 64}, NEW c \in Commands, NEW id \in Nat, NEW from \in {0, 10},
         Write(port, c, id, from), fromQ \in Seq(Entries), Len(fromQ) <= FromLen
  PROVE  fromQ' \in Seq(Entries) /\ Len(fromQ') <= FromLen
<1>1. [port |-> port, c |-> c, id |-> id, from |-> from] \in Entries BY DEF Entries
<1>2. Len(fromQ) \in Nat /\ FromLen \in Nat BY LengthsAreNat
<1>3. /\ Append(fromQ, [port |-> port, c |-> c, id |-> id, from |-> from]) \in Seq(Entries)
      /\ Len(Append(fromQ, [port |-> port, c |-> c, id |-> id, from |-> from])) = Len(fromQ) + 1
  BY <1>1, AppendProperties
<1>4. CASE Len(fromQ) < FromLen
  <2>1. fromQ' = Append(fromQ, [port |-> port, c |-> c, id |-> id, from |-> from])
    BY <1>4 DEF Write
  <2>2. Len(fromQ) + 1 <= FromLen BY <1>2, <1>4
  <2> QED BY <1>3, <2>1, <2>2, Zenon
<1>5. CASE ~(Len(fromQ) < FromLen) BY <1>5 DEF Write
<1> QED BY <1>4, <1>5

LEMMA HostTypes == Types /\ Host => Types'
<1> SUFFICES ASSUME Types, Host PROVE Types' OBVIOUS
<1>1. UNCHANGED <<kbsVars, kbdOn, st, resend, kbQ, kbSem, threads>> /\ odr' \in {odr, None}
  BY DEF Host, Request, SendParameter, Done, Read, GiveUp, Suspend, Wakes, kbc, queues
<1>2. h \in Hosts /\ fromQ \in Seq(Entries) /\ Len(fromQ) <= FromLen
      /\ odr \in Bytes \cup {None}
  BY DEF Types, QueuesOK, HostOK
<1>3. h.id \in Nat /\ h.want \in Seq(AnswerBytes) /\ h.last \in Seq(AnswerBytes)
      /\ h.c \in Commands \cup {"none"} /\ (h.par => h.c \in Commands)
  BY DEF Types, HostOK, Hosts, HasParameter, Commands, Port64, Port60
<1>4. HostOK' /\ fromQ' \in Seq(Entries) /\ Len(fromQ') <= FromLen
  <2>1. CASE Request
    <3>1. PICK c \in Cmds :
            /\ Write(IF c \in Port64 THEN 64 ELSE 60, c, h.id + 1, 0)
            /\ h' = [h EXCEPT !.c = c, !.id = h.id + 1, !.par = HasParameter(c),
                              !.want = IF c = "resend" THEN h.last
                                       ELSE Answer(h.id + 1, 0, Expected(c))]
      BY <2>1 DEF Request
    <3>2. c \in Commands BY KbcHostAssumption DEF Commands
    <3>3. Answer(h.id + 1, 0, Expected(c)) \in Seq(AnswerBytes)
      <4>1. h.id + 1 \in Nat /\ 0 \in Nat /\ Expected(c) \in Nat BY <1>3, ExpectedType
      <4> QED BY <4>1, AnswerType
    <3>4. HasParameter(c) \in BOOLEAN BY DEF HasParameter
    <3>5. HostOK'
      <4> DEFINE w == IF c = "resend" THEN h.last ELSE Answer(h.id + 1, 0, Expected(c))
      <4>1. w \in Seq(AnswerBytes) /\ h.id + 1 \in Nat BY <1>3, <3>3
      <4>2. h' = [h EXCEPT !.c = c, !.id = h.id + 1, !.par = HasParameter(c), !.want = w]
        BY <3>1
      <4> HIDE DEF w
      <4> QED BY <1>2, <3>2, <3>4, <4>1, <4>2 DEF Hosts, HostOK
    <3> QED BY <1>2, <1>3, <3>1, <3>2, <3>5, WriteType
  <2>2. CASE SendParameter
    <3>1. Answer(h.id, 10, ExpectedAfter(h.c)) \in Seq(AnswerBytes)
      <4>1. h.id \in Nat /\ 10 \in Nat /\ ExpectedAfter(h.c) \in Nat BY <1>3, ExpectedType
      <4> QED BY <4>1, AnswerType
    <3>2. HostOK' BY <1>2, <1>3, <2>2, <3>1 DEF SendParameter, Hosts, HostOK
    <3> QED BY <1>2, <1>3, <2>2, <3>2, WriteType DEF SendParameter
  <2>3. CASE Done \/ GiveUp
    BY <1>2, <1>3, <2>3, EmptySeq DEF Done, GiveUp, Hosts, HostOK, queues
  <2>4. CASE Read
    <3>1. CASE ReadKey BY <1>2, <2>4, <3>1 DEF Read, ReadKey, Types, HostOK
    <3>2. CASE ReadAnswer
      <4>1. odr \in AnswerBytes
        BY <1>2, <3>2 DEF ReadAnswer, IsAnswer, Bytes, KeyBytes, KeyNames, AllKeys, None
      <4>2. Remembered \in Seq(AnswerBytes)
        BY <1>3, <4>1, ShortSeqs, AppendProperties DEF Remembered
      <4>3. h.want # << >> => Tail(h.want) \in Seq(AnswerBytes) BY <1>3, TailType
      <4>4. HostOK' BY <1>2, <1>3, <3>2, <4>2, <4>3 DEF ReadAnswer, Hosts, HostOK, Types
      <4> QED BY <1>2, <2>4, <4>4 DEF Read
    <3> QED BY <2>4, <3>1, <3>2 DEF Read
  <2>5. CASE Suspend \/ Wakes
    BY <1>2, <2>5 DEF Suspend, Wakes, host, queues, Types, HostOK
  <2> QED BY <2>1, <2>2, <2>3, <2>4, <2>5 DEF Host
<1>5. MatrixOK' /\ ThreadOK' /\ KbOK'
  BY <1>1 DEF Types, MatrixOK, ThreadOK, KbOK, kbsVars, threads
<1>6. QueuesOK' BY <1>1, <1>4 DEF Types, QueuesOK
<1> QED BY <1>4, <1>5, <1>6 DEF Types

LEMMA TypesStep == Types /\ [KbcNext]_kbcVars => Types'
<1> SUFFICES ASSUME Types, [KbcNext]_kbcVars PROVE Types' OBVIOUS
<1>1. CASE UNCHANGED kbcVars
  BY <1>1 DEF kbcVars, kbsVars, kbc, queues, threads, host, Types, MatrixOK, QueuesOK, ThreadOK,
              KbOK, HostOK
<1> QED
  BY <1>1, UserTypes, GetTypes, OpTypes, SendTypes, RetryTypes, KbTypes, PowerTypes, HostTypes
  DEF KbcNext, KbcThread

LEMMA TypesAlways == KbcSpec => []Types
<1>1. KbcInit => Types
  <2> SUFFICES ASSUME KbcInit PROVE Types OBVIOUS
  <2>1. MatrixOK BY Empty DEF KbcInit, KbsInit, MatrixOK
  <2>2. QueuesOK BY EmptySeq, LengthsAreNat DEF KbcInit, QueuesOK
  <2>3. ThreadOK BY EmptySeq, LengthsAreNat DEF KbcInit, ThreadOK, States
  <2>4. KbOK BY LengthsAreNat DEF KbcInit, KbOK
  <2>5. HostOK BY EmptySeq DEF KbcInit, HostOK, Hosts, Resting
  <2> QED BY <2>1, <2>2, <2>3, <2>4, <2>5 DEF Types
<1> QED BY <1>1, TypesStep, PTL DEF KbcSpec

PowerOK == {on, asleep, s3, wakeSci} \subseteq BOOLEAN

LEMMA PowerStep == PowerOK /\ [KbcNext]_kbcVars => PowerOK'
<1> SUFFICES ASSUME PowerOK, [KbcNext]_kbcVars PROVE PowerOK' OBVIOUS
<1> USE DEF PowerOK
<1>1. CASE User BY <1>1 DEF User, Press, Release, Repeat, Key, mode
<1>2. CASE KbcThread BY <1>2 DEF KbcThread, KbcGet, KbcOp, KbcGap, KbcSend, KbcRetry, mode
<1>3. CASE KbThread BY <1>3 DEF KbThread, KbTake, KbEmpty, KbBusy, KbWrite, KbRetry, mode
<1>4. CASE Host
  BY <1>4 DEF Host, Request, SendParameter, Done, Read, GiveUp, Suspend, Wakes, mode
<1>5. CASE PwrThread BY <1>5 DEF PwrThread, PowerOff, PowerOn, Resume, Commit
<1>6. CASE UNCHANGED kbcVars BY <1>6 DEF kbcVars, mode
<1> QED BY <1>1, <1>2, <1>3, <1>4, <1>5, <1>6 DEF KbcNext

(* The types of the keyboard controller's state, the bounds of its queues  *)
(* and of the retries of both threads (kbchost.c).                         *)
THEOREM KbcTypes == KbcSpec => []KbcTypeOK
<1>1. Types /\ PowerOK => KbcTypeOK
  BY DEF Types, MatrixOK, QueuesOK, ThreadOK, KbOK, KbcTypeOK, KbsTypeOK, KeyCodes, PowerOK
<1>2. KbcInit => PowerOK
  BY DEF KbcInit, PowerOK
<1> QED BY <1>1, <1>2, PowerStep, TypesAlways, PTL DEF KbcSpec
(***************************************************************************)
(* The typematic timer: kscan_callback() stops it at every event, and only *)
(* a press starts it, with the code of the key that is pressed.            *)
(***************************************************************************)
Held == (timer => kscan) /\ RepeatsHeldKey

RepeatCode(k, fl) ==
  {ScanCode(k, fl, TRUE), <<[key |-> "junk", up |-> FALSE]>>}
    \cup {c \in {Code("end", FALSE)} : FnType(k) = "code"}

LEMMA MakeRepeats ==
  ASSUME NEW k, NEW o \in Make(k), o.repeats
  PROVE  o.code \in RepeatCode(k, o.flags)
<1>1. ~Nothing.repeats /\ ~[Nothing EXCEPT !.hotkey = TRUE].repeats
      /\ ~[Nothing EXCEPT !.flags = flags \cup {"fn"}].repeats
  BY DEF Nothing, Outcome
<1>2. CASE o \in OrdinaryMake(k)
  <2> DEFINE fl == Modifiers(k, TRUE)
  <2>1. o = Outcome(fl, FALSE, ScanCode(k, fl, TRUE), k # "pause") BY <1>2 DEF OrdinaryMake
  <2> HIDE DEF fl
  <2>2. \A b : Outcome(fl, FALSE, ScanCode(k, fl, TRUE), b).flags = fl
               /\ Outcome(fl, FALSE, ScanCode(k, fl, TRUE), b).code = ScanCode(k, fl, TRUE)
    BY DEF Outcome
  <2>3. o.flags = fl /\ o.code = ScanCode(k, fl, TRUE) BY <2>1, <2>2
  <2> QED BY <2>3 DEF RepeatCode
<1>3. CASE o \in Junk
  <2>1. PICK r : o = [Nothing EXCEPT !.code = <<[key |-> "junk", up |-> FALSE]>>, !.repeats = r]
    BY <1>3 DEF Junk
  <2>2. o.code = <<[key |-> "junk", up |-> FALSE]>> BY <2>1 DEF Nothing, Outcome
  <2> QED BY <2>2 DEF RepeatCode
<1>4. CASE o \in FnMake(k)
  <2>1. CASE FnType(k) = "code"
    BY <1>4, <2>1 DEF FnMake, RepeatCode, Nothing, Outcome
  <2>2. CASE FnType(k) # "code"
    <3>1. o \in Junk \/ o = Nothing \/ o = [Nothing EXCEPT !.hotkey = TRUE]
      BY <1>4, <2>2 DEF FnMake
    <3> QED BY <1>1, <1>3, <3>1
  <2> QED BY <2>1, <2>2
<1>5. o \in FnMake(k) \/ o \in OrdinaryMake(k) \/ o = [Nothing EXCEPT !.flags = flags \cup {"fn"}]
  BY DEF Make
<1> QED BY <1>1, <1>2, <1>4, <1>5

LEMMA HeldStep == Types /\ Held /\ [KbcNext]_kbcVars => Held'
<1> SUFFICES ASSUME Types, Held, [KbcNext]_kbcVars PROVE Held' OBVIOUS
<1>1. CASE UNCHANGED kbsVars BY <1>1 DEF kbsVars, Held, RepeatsHeldKey
<1>2. CASE timer' = FALSE BY <1>2 DEF Held, RepeatsHeldKey
<1>3. ASSUME NEW k \in Keys, Key(k, TRUE, Make(k)) PROVE Held'
  <2>1. CASE kscan
    <3>1. PICK o \in Make(k) : Settle(o, TRUE) BY <1>3, <2>1 DEF Key
    <3>2. CASE timer'
      <4>1. o.repeats /\ o.code # << >> BY <3>1, <3>2 DEF Settle, TimerAfter
      <4>2. tp' = o.code /\ flags' = o.flags /\ kscan' = kscan BY <3>1, <4>1 DEF Settle
      <4>3. k \in held' BY <1>3 DEF Key
      <4>4. o.code \in RepeatCode(k, o.flags) BY <4>1, MakeRepeats
      <4> QED BY <2>1, <4>2, <4>3, <4>4 DEF RepeatCode, Held, RepeatsHeldKey
    <3>3. CASE ~timer' BY <3>3 DEF Held, RepeatsHeldKey
    <3> QED BY <3>2, <3>3
  <2>2. CASE ~kscan BY <1>3, <2>2 DEF Key, Held, RepeatsHeldKey
  <2> QED BY <2>1, <2>2
<1>4. ASSUME NEW k \in held, Key(k, FALSE, Break(k)) PROVE Held'
  <2>1. CASE kscan
    <3>1. PICK o \in Break(k) : Settle(o, FALSE) BY <1>4, <2>1 DEF Key
    <3>2. ~o.repeats BY OutcomeType DEF Types, MatrixOK
    <3> QED BY <3>1, <3>2 DEF Settle, TimerAfter, Held, RepeatsHeldKey
  <2>2. CASE ~kscan BY <1>4, <2>2 DEF Key, Held, RepeatsHeldKey
  <2> QED BY <2>1, <2>2
<1>5. CASE User
  BY <1>1, <1>3, <1>4, <1>5 DEF User, Press, Release, Repeat
<1>6. CASE KbcOp BY <1>1, <1>2, <1>6 DEF KbcOp, StopRepeat
<1>7. CASE PowerOff \/ PowerOn \/ Resume BY <1>2, <1>7 DEF PowerOff, PowerOn, Resume, EnableInterface
<1>12. CASE Commit BY <1>1, <1>12 DEF Commit
<1>8. CASE KbcGet \/ KbcGap \/ KbcSend \/ KbcRetry
  BY <1>1, <1>8 DEF KbcGet, KbcGap, KbcSend, KbcRetry
<1>9. CASE KbThread
  BY <1>1, <1>9 DEF KbThread, KbTake, KbEmpty, KbBusy, KbWrite, KbRetry
<1>10. CASE Host
  BY <1>1, <1>10 DEF Host, Request, SendParameter, Done, Read, GiveUp, Suspend, Wakes
<1>11. CASE UNCHANGED kbcVars BY <1>1, <1>11 DEF kbcVars
<1> QED BY <1>5, <1>6, <1>7, <1>8, <1>9, <1>10, <1>11, <1>12 DEF KbcNext, KbcThread, PwrThread

(* A key repeats only while it is held, whatever keys are pressed and      *)
(* released around it (kbs_matrix.c, make_key() and break_key()).          *)
THEOREM OnlyHeldKeysRepeat == KbcSpec => []RepeatsHeldKey
<1>1. KbcInit => Held BY DEF KbcInit, KbsInit, Held, RepeatsHeldKey
<1>2. Held => RepeatsHeldKey BY DEF Held
<1> QED BY <1>1, <1>2, HeldStep, TypesAlways, PTL DEF KbcSpec

(***************************************************************************)
(* The command that disables the keyboard.  It clears the bit of cmdbyte   *)
(* before it empties the queue (kbchost.c): while the purge is to come the *)
(* queue may hold keys, and no callback adds one.                          *)
(***************************************************************************)
Offs == {"dis_kb", "wr_cmd_off"}
OffThenPurge == "off" \in ToSet(ops) /\ off \in Offs => ops = <<"off", "purge">>
QuietInv ==
  /\ OffThenPurge
  /\ ~kbdOn /\ off \in Offs => "purge" \in ToSet(ops) \/ ~HoldsKeys(kbQ)

LEMMA ToSetElements ==
  ASSUME NEW S, NEW s \in Seq(S)
  PROVE  /\ \A x : x \in ToSet(s) <=> \E j \in 1..Len(s) : s[j] = x
         /\ s = << >> => ToSet(s) = {}
BY DEF ToSet

LEMMA ToSetTail ==
  ASSUME NEW S, NEW s \in Seq(S), s # << >>
  PROVE  ToSet(s) = {Head(s)} \cup ToSet(Tail(s))
<1>1. /\ Head(s) = s[1] /\ Tail(s) \in Seq(S) /\ Len(Tail(s)) = Len(s) - 1
      /\ Len(s) \in Nat \ {0} /\ \A x \in 1..Len(Tail(s)) : Tail(s)[x] = s[x + 1]
  BY HeadTailProperties, EmptySeq
<1>2. ASSUME NEW x \in ToSet(s) PROVE x = Head(s) \/ x \in ToSet(Tail(s))
  <2>1. PICK j \in 1..Len(s) : s[j] = x BY <1>2, ToSetElements
  <2>2. CASE j = 1 BY <1>1, <2>1, <2>2
  <2>3. CASE j # 1
    <3>1. j - 1 \in 1..Len(Tail(s)) BY <1>1, <2>3
    <3>2. Tail(s)[j - 1] = s[(j - 1) + 1] BY <1>1, <3>1
    <3>3. (j - 1) + 1 = j OBVIOUS
    <3>4. Tail(s)[j - 1] = x BY <2>1, <3>2, <3>3
    <3> QED BY <1>1, <3>1, <3>4, ToSetElements
  <2> QED BY <2>2, <2>3
<1>3. ASSUME NEW x \in ToSet(Tail(s)) PROVE x \in ToSet(s)
  <2>1. PICK j \in 1..Len(Tail(s)) : Tail(s)[j] = x BY <1>1, <1>3, ToSetElements
  <2>2. j + 1 \in 1..Len(s) /\ s[j + 1] = x BY <1>1, <2>1
  <2> QED BY <2>2, ToSetElements
<1>4. Head(s) \in ToSet(s)
  <2>1. 1 \in 1..Len(s) BY <1>1
  <2> QED BY <1>1, <2>1, ToSetElements
<1> QED BY <1>2, <1>3, <1>4
LEMMA NoKeysAppended ==
  ASSUME NEW q \in Seq(Bytes), NEW a \in Seq(Bytes), ~HoldsKeys(q),
         \A j \in 1..Len(a) : IsAnswer(a[j])
  PROVE  ~HoldsKeys(q \o a)
<1>1. /\ q \o a \in Seq(Bytes) /\ Len(q \o a) = Len(q) + Len(a)
      /\ \A x \in 1..(Len(q) + Len(a)) : (q \o a)[x] = IF x <= Len(q) THEN q[x] ELSE a[x - Len(q)]
  BY ConcatProperties
<1>2. Len(q) \in Nat /\ Len(a) \in Nat /\ DOMAIN q = 1..Len(q)
      /\ DOMAIN (q \o a) = 1..(Len(q) + Len(a))
  BY <1>1, LenProperties
<1>3. ASSUME NEW x \in 1..(Len(q) + Len(a)) PROVE IsAnswer((q \o a)[x])
  <2>1. CASE x <= Len(q) BY <1>1, <1>2, <2>1 DEF HoldsKeys
  <2>2. CASE ~(x <= Len(q))
    <3>1. x - Len(q) \in 1..Len(a) BY <1>2, <2>2
    <3> QED BY <1>1, <2>2, <3>1
  <2> QED BY <2>1, <2>2
<1> QED BY <1>2, <1>3 DEF HoldsKeys

LEMMA NoKeysInTail ==
  ASSUME NEW q \in Seq(Bytes), q # << >>, ~HoldsKeys(q)
  PROVE  ~HoldsKeys(Tail(q))
<1>1. /\ Tail(q) \in Seq(Bytes) /\ Len(Tail(q)) = Len(q) - 1
      /\ \A x \in 1..Len(Tail(q)) : Tail(q)[x] = q[x + 1]
  BY HeadTailProperties
<1>2. Len(q) \in Nat /\ DOMAIN q = 1..Len(q) /\ DOMAIN Tail(q) = 1..Len(Tail(q))
  BY <1>1, LenProperties
<1>3. \A x \in 1..Len(Tail(q)) : x + 1 \in 1..Len(q) BY <1>1, <1>2
<1> QED BY <1>1, <1>2, <1>3 DEF HoldsKeys

LEMMA OffIsPurged ==
  ASSUME NEW e \in Entries, "off" \in ToSet(Meaning(e).ops)
  PROVE  Meaning(e).ops = <<"off", "purge">> \/ e.c = "default_dis"
<1> DEFINE t == Meaning(e).ops
<1>1. /\ t \in {<< >>, <<"purge">>, <<"on">>, <<"stop">>, <<"purge", "stop">>,
                <<"clear", "purge", "stop">>}
      \/ t = <<"off", "purge">> \/ e.c = "default_dis"
  <2>1. \A a, b, c : Effect(a, b, c).ops = a BY DEF Effect
  <2> QED
    BY <2>1 DEF Meaning, CommandEffect, ParameterEffect, KeyboardEffect
<1>2. "off" \notin ToSet(<< >>) /\ "off" \notin ToSet(<<"purge">>) /\ "off" \notin ToSet(<<"on">>)
      /\ "off" \notin ToSet(<<"stop">>) /\ "off" \notin ToSet(<<"purge", "stop">>)
      /\ "off" \notin ToSet(<<"clear", "purge", "stop">>)
  BY DEF ToSet
<1> QED BY <1>1, <1>2

LEMMA PurgeToCome == "purge" \in ToSet(<<"off", "purge">>) /\ "purge" \in ToSet(<<"purge">>)
                     /\ "off" \notin ToSet(<<"purge">>)
                     /\ Head(<<"off", "purge">>) = "off" /\ Tail(<<"off", "purge">>) = <<"purge">>
<1>1. ToSet(<<"off", "purge">>) = {"off", "purge"} BY DEF ToSet
<1> QED BY <1>1 DEF ToSet

(* A callback while the bit is clear leaves the queue as it is. *)
LEMMA ClosedCallback ==
  ASSUME QueuesOK, NEW c, NEW hot, Callback(c, hot), ~kbdOn
  PROVE  kbQ' = kbQ
<1>1. kbQ' = kbQ \o Fitting(<< >>) BY DEF Callback, SendToHost, Accepted
<1> QED BY <1>1, SendType, Empty DEF QueuesOK

LEMMA QuietByGet == Types /\ QuietInv /\ KbcGet => QuietInv'
<1> SUFFICES ASSUME Types, QuietInv, KbcGet PROVE QuietInv' OBVIOUS
<1> DEFINE e == Head(fromQ)
<1>1. e \in Entries BY TailType DEF KbcGet, Types, QueuesOK
<1>2. ops' = Meaning(e).ops /\ off' = (IF "off" \in ToSet(Meaning(e).ops) THEN e.c ELSE off)
      /\ UNCHANGED <<kbdOn, kbQ>>
  BY DEF KbcGet
<1>3. ops = << >> BY DEF KbcGet, Types, ThreadOK
<1>4. ToSet(ops) = {} BY <1>3, Empty, ToSetElements
<1> HIDE DEF e
<1>5. CASE "off" \in ToSet(ops')
  <2>1. off' = e.c BY <1>2, <1>5
  <2>2. off' \in Offs => ops' = <<"off", "purge">> BY <1>1, <1>2, <1>5, <2>1, OffIsPurged DEF Offs
  <2> QED BY <2>2, PurgeToCome DEF QuietInv, OffThenPurge
<1>6. CASE "off" \notin ToSet(ops')
  <2>1. off' = off BY <1>2, <1>6
  <2>2. ~kbdOn /\ off \in Offs => ~HoldsKeys(kbQ) BY <1>4 DEF QuietInv
  <2> QED BY <1>2, <1>6, <2>1, <2>2 DEF QuietInv, OffThenPurge, HoldsKeys
<1> QED BY <1>5, <1>6

LEMMA QuietByOp == Types /\ QuietInv /\ KbcOp => QuietInv'
<1> SUFFICES ASSUME Types, QuietInv, KbcOp PROVE QuietInv' OBVIOUS
<1>1. ops' = Tail(ops) /\ off' = off BY DEF KbcOp
<1>2. ToSet(ops) = {Head(ops)} \cup ToSet(Tail(ops))
  BY ToSetTail DEF KbcOp, Types, ThreadOK
<1>3. OffThenPurge' /\ (off \in Offs /\ "off" \in ToSet(ops) =>
                          Head(ops) = "off" /\ Tail(ops) = <<"purge">>)
  <2>1. off \in Offs /\ "off" \in ToSet(ops) => Head(ops) = "off" /\ Tail(ops) = <<"purge">>
    BY PurgeToCome DEF QuietInv, OffThenPurge
  <2> QED BY <1>1, <1>2, <2>1, PurgeToCome DEF OffThenPurge
<1>4. CASE Head(ops) = "purge"
  <2>1. kbQ' = << >> BY <1>4 DEF KbcOp, Purge
  <2>2. ~HoldsKeys(kbQ)' BY <2>1 DEF HoldsKeys
  <2> QED BY <1>3, <2>2 DEF QuietInv
<1>5. CASE Head(ops) = "off"
  <2>1. off \in Offs => Tail(ops) = <<"purge">> BY <1>2, <1>3, <1>5
  <2> QED BY <1>1, <1>3, <2>1, PurgeToCome DEF QuietInv
<1>6. CASE Head(ops) = "on"
  <2>1. kbdOn' = TRUE BY <1>6 DEF KbcOp
  <2> QED BY <1>3, <2>1 DEF QuietInv
<1>7. CASE Head(ops) \notin {"purge", "off", "on"}
  <2>1. UNCHANGED <<kbdOn, kbQ>> BY <1>7 DEF KbcOp, StopRepeat
  <2>2. "purge" \in ToSet(ops) => "purge" \in ToSet(Tail(ops)) BY <1>2, <1>7
  <2> QED BY <1>1, <1>3, <2>1, <2>2 DEF QuietInv, HoldsKeys
<1> QED BY <1>4, <1>5, <1>6, <1>7

LEMMA QuietStep == Types /\ QuietInv /\ [KbcNext]_kbcVars => QuietInv'
<1> SUFFICES ASSUME Types, QuietInv, [KbcNext]_kbcVars PROVE QuietInv' OBVIOUS
<1>1. CASE UNCHANGED <<kbdOn, ops, off>> /\ (~kbdOn => kbQ' = kbQ)
  BY <1>1 DEF QuietInv, OffThenPurge, HoldsKeys
<1>2. CASE UNCHANGED <<kbdOn, ops, off>> /\ (~HoldsKeys(kbQ) => ~HoldsKeys(kbQ)')
  BY <1>2 DEF QuietInv, OffThenPurge
<1>3. kbQ \in Seq(Bytes) BY DEF Types, QueuesOK
<1>4. CASE User
  <2>1. UNCHANGED <<kbdOn, ops, off>>
    BY <1>4 DEF User, Press, Release, Repeat, Key, kbc, threads
  <2>2. ASSUME NEW k, NEW p, NEW outs, Key(k, p, outs), ~kbdOn PROVE kbQ' = kbQ
    BY <2>2, ClosedCallback DEF Key, Types
  <2>3. ~kbdOn => kbQ' = kbQ
    BY <1>4, <2>2, ClosedCallback DEF User, Press, Release, Repeat, Types
  <2> QED BY <1>1, <2>1, <2>3
<1>5. CASE KbcGap \/ KbcSend BY <1>1, <1>5 DEF KbcGap, KbcSend, kbc, marks, queues
<1>6. CASE KbcRetry
  <2>1. toSend \in Seq(AnswerBytes) /\ toSend \in Seq(Bytes) BY AnswersAreBytes DEF Types, ThreadOK
  <2>2. Fitting(toSend) \in Seq(Bytes) /\ \A j \in 1..Len(Fitting(toSend)) : IsAnswer(Fitting(toSend)[j])
    <3>1. /\ Fitting(toSend) \in Seq(Bytes) /\ Len(Fitting(toSend)) <= Len(toSend)
          /\ \A j \in 1..Len(Fitting(toSend)) : Fitting(toSend)[j] = toSend[j]
      BY <2>1, SendType DEF Types, QueuesOK
    <3>2. \A j \in 1..Len(Fitting(toSend)) : j \in 1..Len(toSend)
      BY <2>1, <3>1, LenProperties
    <3>3. \A j \in 1..Len(toSend) : toSend[j] \in AnswerBytes BY <2>1, ElementOfSeq
    <3> QED BY <3>1, <3>2, <3>3 DEF AnswerBytes, IsAnswer
  <2>3. kbQ' = kbQ \/ kbQ' = kbQ \o Fitting(toSend) BY <1>6 DEF KbcRetry, SendToHost
  <2>4. ~HoldsKeys(kbQ) => ~HoldsKeys(kbQ \o Fitting(toSend)) BY <1>3, <2>2, NoKeysAppended
  <2> QED BY <1>2, <1>6, <2>3, <2>4 DEF KbcRetry, kbc, HoldsKeys
<1>7. CASE KbThread
  <2>1. UNCHANGED <<kbdOn, ops, off>>
    BY <1>7 DEF KbThread, KbTake, KbEmpty, KbBusy, KbWrite, KbRetry, kbc, marks
  <2>2. kbQ' = kbQ \/ kbQ' = << >> \/ (kbQ # << >> /\ kbQ' = Tail(kbQ))
    BY <1>7 DEF KbThread, KbTake, KbEmpty, KbBusy, KbWrite, KbRetry, Purge, queues
  <2>3. ~HoldsKeys(kbQ) => ~HoldsKeys(kbQ)'
    BY <1>3, <2>2, NoKeysInTail DEF HoldsKeys
  <2> QED BY <1>2, <2>1, <2>3
<1>8. CASE PowerOff
  <2>1. off' = "power" BY <1>8 DEF PowerOff
  <2> QED BY <2>1 DEF QuietInv, OffThenPurge, Offs
<1>9. CASE PowerOn \/ Resume
  <2>1. kbdOn' = TRUE /\ UNCHANGED <<ops, off>>
    BY <1>9 DEF PowerOn, Resume, EnableInterface, threads, marks
  <2> QED BY <2>1 DEF QuietInv, OffThenPurge
<1>10. CASE Host
  BY <1>1, <1>10
  DEF Host, Request, SendParameter, Done, Read, GiveUp, Suspend, Wakes, kbc, queues, threads,
      marks
<1>11. CASE Commit \/ UNCHANGED kbcVars
  BY <1>1, <1>11 DEF Commit, kbcVars, kbc, queues, threads, marks
<1> QED
  BY <1>4, <1>5, <1>6, <1>7, <1>8, <1>9, <1>10, <1>11, QuietByGet, QuietByOp
  DEF KbcNext, KbcThread, PwrThread

(* DIS_KB and the command byte end the stream: once the command has run no *)
(* key byte that was queued before it reaches the host (kbchost.c,         *)
(* process_keyboard_command()).                                            *)
THEOREM DisableEndsTheStream == KbcSpec => []DisabledIsQuiet
<1>1. KbcInit => QuietInv
  <2> SUFFICES ASSUME KbcInit PROVE QuietInv OBVIOUS
  <2>1. kbdOn = TRUE /\ off = "none" BY DEF KbcInit
  <2> QED BY <2>1 DEF QuietInv, OffThenPurge, Offs
<1>2. QuietInv => DisabledIsQuiet
  <2>1. ops = << >> => ToSet(ops) = {} BY Empty, ToSetElements
  <2> QED BY <2>1 DEF QuietInv, DisabledIsQuiet, Offs
<1> QED BY <1>1, <1>2, QuietStep, TypesAlways, PTL DEF KbcSpec
(***************************************************************************)
(* Answers.  While no byte has been dropped, the host waits for exactly    *)
(* the bytes of an answer that are on their way, and they are in one       *)
(* place behind the output register: at the KBC thread or, in a row and in *)
(* order among the keys, in the queue.                                     *)
(*                                                                         *)
(* A command the host has written gets no answer until the thread takes    *)
(* it.  The host sends another one earlier only when it expects nothing    *)
(* of this one; that the thread then has nothing to say to it either needs *)
(* the state the commands leave (data_port_state) and what the host and    *)
(* the thread remember for the command RESEND.                             *)
(***************************************************************************)
Kind(c) ==       (* the state a command with a parameter leaves *)
  CASE c \in {"wr_cmd_on", "wr_cmd_off"} -> "wr_cmd"
    [] c \in {"code_get", "code_set"} -> "code"
    [] OTHER -> c

Leads(e) == e.from = 0 /\ HasParameter(e.c)
Due(e) ==
  IF e.from = 10 THEN Answer(e.id, 10, ExpectedAfter(e.c))
  ELSE IF e.c = "resend" THEN h.last
  ELSE Answer(e.id, 0, Expected(e.c))
Still(e) ==
  IF e.from = 10 THEN ExpectedAfter(e.c) = 0
  ELSE Expected(e.c) = 0 \/ (e.c = "resend" /\ resend = << >>)

(* The answers in q are the bytes r, in a row. *)
Run(q, r) ==
  \E s \in 0..Len(q) :
    /\ s + Len(r) <= Len(q)
    /\ \A j \in 1..Len(q) :
         IF s < j /\ j <= s + Len(r) THEN q[j] = r[j - s] ELSE ~IsAnswer(q[j])

Rest == IF IsAnswer(odr) THEN Tail(h.want) ELSE h.want
NothingComes == ~IsAnswer(odr) /\ toSend = << >> /\ Run(kbQ, << >>)
Coming ==
  /\ IsAnswer(odr) => h.want # << >> /\ Head(h.want) = odr
  /\ (toSend = Rest /\ Run(kbQ, << >>)) \/ (toSend = << >> /\ Run(kbQ, Rest))

(* Commands the thread has not taken yet: the host waits for the answer to *)
(* the last.                                                               *)
EntryOK(e) ==
  /\ e.port = IF e.from = 0 /\ e.c \in Port64 THEN 64 ELSE 60
  /\ e.from = 10 => HasParameter(e.c)
FirstOK(e, s) == IF e.from = 10 THEN s = Kind(e.c) ELSE s \in {"default", "hotkey"}
NextOK(e, f) ==
  /\ Still(e)
  /\ Leads(e) <=> f.from = 10
  /\ Leads(e) => f.c = e.c
LastOK(e) ==
  /\ e.id = h.id /\ h.want = Due(e)
  /\ h.want # << >> => h.c = e.c
  /\ h.par <=> Leads(e)
  /\ h.par => h.c = e.c
Queued ==
  /\ fromQ # << >> /\ NothingComes /\ resend = h.last
  /\ \A j \in 1..Len(fromQ) : EntryOK(fromQ[j])
  /\ \A j \in 1..Len(fromQ) : j < Len(fromQ) => NextOK(fromQ[j], fromQ[j + 1])
  /\ FirstOK(fromQ[1], st) /\ LastOK(fromQ[Len(fromQ)])

(* The last command has been taken: the answer comes, or never will (the   *)
(* byte ENABLE does not count, a keyboard that waits for a hotkey event).  *)
Numbered(w) ==
  /\ \A m \in 1..Len(w) : w[m].i = w[1].i + m - 1
  /\ w[1].i >= 1 /\ (w[1].i >= 11 \/ w[1].i + Len(w) <= 4)
Recalled ==
  IF h.want = << >> \/ h.c = "resend" THEN resend = h.last
  ELSE /\ Numbered(h.want)
       /\ IF h.c \in Port64 /\ h.want[1].i <= 10 THEN resend = h.last
          ELSE IF h.want[1].i \in {1, 11} THEN resend = h.want
          ELSE resend = h.last \o h.want
StateOK == IF h.par THEN st = Kind(h.c) ELSE st \in {"default", "hotkey"}
Flows == fromQ = << >> /\ Coming /\ Recalled /\ StateOK
Stuck == fromQ = << >> /\ NothingComes /\ h.want # << >>

HostIdle ==
  /\ h.c = "none" => h.want = << >> /\ ~h.par
  /\ ~on => h.c = "none"
Account == lost \/ (~mixed /\ HostIdle /\ (Queued \/ Flows \/ Stuck))
LEMMA ConcatParts ==
  ASSUME NEW S, NEW s \in Seq(S), NEW t \in Seq(S)
  PROVE  /\ s \o t \in Seq(S) /\ Len(s \o t) = Len(s) + Len(t)
         /\ Len(s) \in Nat /\ Len(t) \in Nat
         /\ \A j \in 1..Len(s) : (s \o t)[j] = s[j]
         /\ \A j \in 1..Len(s \o t) : ~(j <= Len(s)) =>
              j - Len(s) \in 1..Len(t) /\ (s \o t)[j] = t[j - Len(s)]
<1>1. /\ s \o t \in Seq(S) /\ Len(s \o t) = Len(s) + Len(t)
      /\ \A x \in 1..(Len(s) + Len(t)) : (s \o t)[x] = IF x <= Len(s) THEN s[x] ELSE t[x - Len(s)]
  BY ConcatProperties
<1>2. Len(s) \in Nat /\ Len(t) \in Nat BY LenProperties
<1>3. \A j \in 1..Len(s) : j \in 1..(Len(s) + Len(t)) /\ j <= Len(s) BY <1>2
<1>4. ASSUME NEW j \in 1..Len(s \o t), ~(j <= Len(s)) PROVE j - Len(s) \in 1..Len(t)
  BY <1>1, <1>2, <1>4
<1> QED BY <1>1, <1>2, <1>3, <1>4

LEMMA RunEmpty == Run(<< >>, << >>)
<1>1. Len(<< >>) = 0 BY Empty
<1> QED BY <1>1 DEF Run

LEMMA RunNone ==
  ASSUME NEW q \in Seq(Bytes)
  PROVE  Run(q, << >>) <=> \A j \in 1..Len(q) : ~IsAnswer(q[j])
<1>1. Len(<< >>) = 0 /\ Len(q) \in Nat BY Empty, LenProperties
<1>2. ASSUME Run(q, << >>), NEW j \in 1..Len(q) PROVE ~IsAnswer(q[j])
  <2>1. PICK s \in 0..Len(q) :
          \A x \in 1..Len(q) : IF s < x /\ x <= s + Len(<< >>) THEN q[x] = << >>[x - s]
                               ELSE ~IsAnswer(q[x])
    BY <1>2 DEF Run
  <2>2. ~(s < j /\ j <= s + Len(<< >>)) BY <1>1
  <2> QED BY <2>1, <2>2
<1>3. ASSUME \A j \in 1..Len(q) : ~IsAnswer(q[j]) PROVE Run(q, << >>)
  <2>1. 0 \in 0..Len(q) /\ 0 + Len(<< >>) <= Len(q) BY <1>1
  <2>2. \A j \in 1..Len(q) : ~(0 < j /\ j <= 0 + Len(<< >>)) BY <1>1
  <2> QED BY <1>3, <2>1, <2>2 DEF Run
<1> QED BY <1>2, <1>3

(* Keys may follow the answer. *)
LEMMA RunAppendKeys ==
  ASSUME NEW q \in Seq(Bytes), NEW a \in Seq(Bytes), NEW r \in Seq(AnswerBytes), Run(q, r),
         \A j \in 1..Len(a) : ~IsAnswer(a[j])
  PROVE  Run(q \o a, r)
<1>1. PICK s \in 0..Len(q) :
        /\ s + Len(r) <= Len(q)
        /\ \A j \in 1..Len(q) :
             IF s < j /\ j <= s + Len(r) THEN q[j] = r[j - s] ELSE ~IsAnswer(q[j])
  BY DEF Run
<1>2. /\ Len(q \o a) = Len(q) + Len(a) /\ Len(q) \in Nat /\ Len(a) \in Nat
      /\ \A j \in 1..Len(q) : (q \o a)[j] = q[j]
      /\ \A j \in 1..Len(q \o a) : ~(j <= Len(q)) =>
           j - Len(q) \in 1..Len(a) /\ (q \o a)[j] = a[j - Len(q)]
  BY ConcatParts
<1>3. s \in 0..Len(q \o a) /\ s + Len(r) <= Len(q \o a) /\ Len(r) \in Nat
  BY <1>1, <1>2, LenProperties
<1>4. ASSUME NEW j \in 1..Len(q \o a)
      PROVE  IF s < j /\ j <= s + Len(r) THEN (q \o a)[j] = r[j - s] ELSE ~IsAnswer((q \o a)[j])
  <2>1. CASE j <= Len(q)
    <3>1. j \in 1..Len(q) BY <1>2, <2>1
    <3> QED BY <1>1, <1>2, <3>1
  <2>2. CASE ~(j <= Len(q))
    <3>1. ~(j <= s + Len(r)) BY <1>1, <1>2, <1>3, <2>2
    <3>2. ~IsAnswer((q \o a)[j]) BY <1>2, <2>2
    <3> QED BY <3>1, <3>2
  <2> QED BY <2>1, <2>2
<1> QED BY <1>3, <1>4 DEF Run

(* An answer may follow keys. *)
LEMMA RunAppendAnswer ==
  ASSUME NEW q \in Seq(Bytes), NEW r \in Seq(AnswerBytes), Run(q, << >>)
  PROVE  Run(q \o r, r)
<1>0. r \in Seq(Bytes) BY AnswersAreBytes
<1>1. /\ Len(q \o r) = Len(q) + Len(r) /\ Len(q) \in Nat /\ Len(r) \in Nat
      /\ \A j \in 1..Len(q) : (q \o r)[j] = q[j]
      /\ \A j \in 1..Len(q \o r) : ~(j <= Len(q)) => (q \o r)[j] = r[j - Len(q)]
  BY <1>0, ConcatParts
<1>2. \A j \in 1..Len(q) : ~IsAnswer(q[j]) BY RunNone
<1>3. Len(q) \in 0..Len(q \o r) /\ Len(q) + Len(r) <= Len(q \o r) BY <1>1
<1>4. ASSUME NEW j \in 1..Len(q \o r)
      PROVE  IF Len(q) < j /\ j <= Len(q) + Len(r) THEN (q \o r)[j] = r[j - Len(q)]
             ELSE ~IsAnswer((q \o r)[j])
  <2>1. CASE j <= Len(q)
    <3>1. j \in 1..Len(q) /\ ~(Len(q) < j) BY <1>1, <2>1
    <3> QED BY <1>1, <1>2, <3>1
  <2>2. CASE ~(j <= Len(q))
    <3>1. Len(q) < j /\ j <= Len(q) + Len(r) BY <1>1, <2>2
    <3> QED BY <1>1, <2>2, <3>1
  <2> QED BY <2>1, <2>2
<1> QED BY <1>3, <1>4 DEF Run

LEMMA NthAnswer ==
  ASSUME NEW r \in Seq(AnswerBytes), NEW j \in 1..Len(r)
  PROVE  IsAnswer(r[j])
<1>1. r[j] \in AnswerBytes BY ElementOfSeq
<1> QED BY <1>1 DEF AnswerBytes, IsAnswer

(* The byte that leaves the queue is a key or the next of the answer. *)
LEMMA RunTail ==
  ASSUME NEW q \in Seq(Bytes), q # << >>, NEW r \in Seq(AnswerBytes), Run(q, r)
  PROVE  IF IsAnswer(Head(q)) THEN r # << >> /\ Head(q) = Head(r) /\ Run(Tail(q), Tail(r))
         ELSE Run(Tail(q), r)
<1>1. PICK s \in 0..Len(q) :
        /\ s + Len(r) <= Len(q)
        /\ \A j \in 1..Len(q) :
             IF s < j /\ j <= s + Len(r) THEN q[j] = r[j - s] ELSE ~IsAnswer(q[j])
  BY DEF Run
<1>2. /\ Tail(q) \in Seq(Bytes) /\ Len(Tail(q)) = Len(q) - 1 /\ Len(q) \in Nat \ {0}
      /\ \A x \in 1..Len(Tail(q)) : Tail(q)[x] = q[x + 1]
      /\ Head(q) = q[1] /\ Len(r) \in Nat
  BY HeadTailProperties, EmptySeq, LenProperties
<1>3. 1 \in 1..Len(q) BY <1>2
<1>4. CASE s = 0 /\ Len(r) # 0
  <2>1. /\ Tail(r) \in Seq(AnswerBytes) /\ Len(Tail(r)) = Len(r) - 1 /\ r # << >>
        /\ \A x \in 1..Len(Tail(r)) : Tail(r)[x] = r[x + 1]
        /\ Head(r) = r[1]
    <3>1. r # << >> BY <1>4, Empty
    <3> QED BY <3>1, HeadTailProperties
  <2>2. q[1] = r[1]
    <3>1. s < 1 /\ 1 <= s + Len(r) BY <1>2, <1>4
    <3>2. q[1] = r[1 - s] BY <1>1, <1>3, <3>1
    <3>3. 1 - s = 1 BY <1>4
    <3> QED BY <3>2, <3>3
  <2>3. IsAnswer(r[1])
    <3>1. 1 \in 1..Len(r) BY <1>2, <1>4
    <3> QED BY <3>1, NthAnswer
  <2>4. ASSUME NEW j \in 1..Len(Tail(q))
        PROVE  IF 0 < j /\ j <= 0 + Len(Tail(r)) THEN Tail(q)[j] = Tail(r)[j - 0]
               ELSE ~IsAnswer(Tail(q)[j])
    <3>1. j + 1 \in 1..Len(q) /\ Tail(q)[j] = q[j + 1] /\ j - 0 = j /\ (j + 1) - s = j + 1
      BY <1>2, <1>4
    <3>2. IF s < j + 1 /\ j + 1 <= s + Len(r) THEN q[j + 1] = r[(j + 1) - s]
          ELSE ~IsAnswer(q[j + 1])
      BY <1>1, <3>1
    <3>3. CASE j <= Len(r) - 1
      <4>1. s < j + 1 /\ j + 1 <= s + Len(r) /\ j \in 1..Len(Tail(r)) BY <1>2, <1>4, <2>1, <3>3
      <4>2. Tail(q)[j] = Tail(r)[j] BY <2>1, <3>1, <3>2, <4>1
      <4> QED BY <2>1, <3>1, <3>3, <4>2
    <3>4. CASE ~(j <= Len(r) - 1)
      <4>1. ~(j + 1 <= s + Len(r)) /\ ~(j <= 0 + Len(Tail(r))) BY <1>2, <1>4, <2>1, <3>4
      <4> QED BY <3>1, <3>2, <4>1
    <3> QED BY <3>3, <3>4
  <2>5. 0 \in 0..Len(Tail(q)) /\ 0 + Len(Tail(r)) <= Len(Tail(q)) BY <1>1, <1>2, <1>4, <2>1
  <2>6. Run(Tail(q), Tail(r)) BY <2>4, <2>5 DEF Run
  <2> QED BY <1>2, <2>1, <2>2, <2>3, <2>6
<1>5. CASE s # 0 \/ Len(r) = 0
  <2> DEFINE t == IF s = 0 THEN 0 ELSE s - 1
  <2>1. ~IsAnswer(q[1])
    <3>1. ~(s < 1 /\ 1 <= s + Len(r)) BY <1>2, <1>5
    <3> QED BY <1>1, <1>3, <3>1
  <2>2. t \in 0..Len(Tail(q)) /\ t + Len(r) <= Len(Tail(q)) BY <1>1, <1>2, <1>5
  <2>3. ASSUME NEW j \in 1..Len(Tail(q))
        PROVE  IF t < j /\ j <= t + Len(r) THEN Tail(q)[j] = r[j - t]
               ELSE ~IsAnswer(Tail(q)[j])
    <3>1. j + 1 \in 1..Len(q) /\ Tail(q)[j] = q[j + 1] BY <1>2
    <3>2. IF s < j + 1 /\ j + 1 <= s + Len(r) THEN q[j + 1] = r[(j + 1) - s]
          ELSE ~IsAnswer(q[j + 1])
      BY <1>1, <3>1
    <3>3. CASE s = 0
      <4>1. ~(j + 1 <= s + Len(r)) /\ ~(j <= t + Len(r)) BY <1>2, <1>5, <3>3
      <4> QED BY <3>1, <3>2, <4>1
    <3>4. CASE s # 0
      <4>1. t = s - 1 /\ (j + 1) - s = j - t BY <3>4
      <4>2. (s < j + 1 <=> t < j) /\ (j + 1 <= s + Len(r) <=> j <= t + Len(r))
        BY <1>2, <3>4
      <4> HIDE DEF t
      <4> QED BY <3>1, <3>2, <4>1, <4>2
    <3> QED BY <3>3, <3>4
  <2>4. Run(Tail(q), r) BY <2>2, <2>3 DEF Run
  <2> QED BY <1>2, <2>1, <2>4
<1> QED BY <1>2, <1>4, <1>5

(* A queue that is emptied of keys only held no part of an answer. *)
LEMMA RunOfKeys ==
  ASSUME NEW q \in Seq(Bytes), NEW r \in Seq(AnswerBytes), Run(q, r), ~HoldsAnswer(q)
  PROVE  r = << >>
<1> SUFFICES ASSUME r # << >> PROVE FALSE OBVIOUS
<1>1. PICK s \in 0..Len(q) :
        /\ s + Len(r) <= Len(q)
        /\ \A j \in 1..Len(q) :
             IF s < j /\ j <= s + Len(r) THEN q[j] = r[j - s] ELSE ~IsAnswer(q[j])
  BY DEF Run
<1>2. Len(r) \in Nat \ {0} /\ Len(q) \in Nat /\ DOMAIN q = 1..Len(q) BY EmptySeq, LenProperties
<1>3. s + 1 \in 1..Len(q) /\ s < s + 1 /\ s + 1 <= s + Len(r) /\ (s + 1) - s = 1
      /\ 1 \in 1..Len(r)
  BY <1>1, <1>2
<1>4. q[s + 1] = r[1] BY <1>1, <1>3
<1> QED BY <1>2, <1>3, <1>4, NthAnswer DEF HoldsAnswer
(***************************************************************************)
(* What the thread makes of a command it takes, in the state the commands  *)
(* before it have left: the answer is the one the host expects, or none.   *)
(***************************************************************************)
LEMMA ParameterTaken ==
  ASSUME NEW e \in Entries, EntryOK(e), FirstOK(e, st), e.from = 10
  PROVE  /\ Meaning(e).n = ExpectedAfter(e.c) /\ Meaning(e).st \in {"default", "hotkey"}
         /\ ~Replayed(e) /\ e.port = 60
<1>1. st = Kind(e.c) /\ e.port = 60 BY DEF EntryOK, FirstOK
<1>2. e.c \in {"wr_cmd_on", "wr_cmd_off", "out_reg", "out_port", "hotkey", "leds", "code_get",
               "code_set", "typematic"}
  BY DEF EntryOK, HasParameter
<1>3. st # "default" BY <1>1, <1>2 DEF Kind
<1>4. Meaning(e) = ParameterEffect(e.c) /\ ~Replayed(e) BY <1>1, <1>3 DEF Meaning, Replayed
<1>5. CASE e.c \in {"wr_cmd_on", "wr_cmd_off"}
  BY <1>1, <1>4, <1>5 DEF Kind, ParameterEffect, Effect, ExpectedAfter
<1>6. CASE e.c \in {"code_get", "code_set"}
  BY <1>1, <1>4, <1>6 DEF Kind, ParameterEffect, Effect, ExpectedAfter
<1>7. CASE e.c \in {"out_reg", "out_port", "hotkey", "leds", "typematic"}
  BY <1>1, <1>4, <1>7 DEF Kind, ParameterEffect, Effect, ExpectedAfter
<1> QED BY <1>1, <1>2, <1>4, <1>5, <1>6, <1>7

LEMMA ControllerCommandTaken ==
  ASSUME NEW e \in Entries, EntryOK(e), FirstOK(e, st), e.from = 0, e.c \in Port64
  PROVE  /\ Meaning(e).n = Expected(e.c)
         /\ IF HasParameter(e.c) THEN Meaning(e).st = Kind(e.c)
            ELSE Meaning(e).st \in {"default", "hotkey"}
         /\ ~Replayed(e) /\ e.port = 64
<1>1. e.port = 64 /\ st \in {"default", "hotkey"} BY DEF EntryOK, FirstOK
<1>2. Meaning(e) = CommandEffect(e.c) /\ ~Replayed(e) BY <1>1 DEF Meaning, Replayed
<1>3. CASE e.c \in {"wr_cmd_on", "wr_cmd_off", "out_reg", "out_port", "hotkey"}
  <2>1. CommandEffect(e.c).n = 0 /\ CommandEffect(e.c).st = Kind(e.c)
    <3>1. CASE e.c \in {"wr_cmd_on", "wr_cmd_off"} BY <3>1 DEF CommandEffect, Effect, Kind
    <3>2. CASE e.c = "out_reg" BY <3>2 DEF CommandEffect, Effect, Kind
    <3>3. CASE e.c = "out_port" BY <3>3 DEF CommandEffect, Effect, Kind
    <3>4. CASE e.c = "hotkey" BY <3>4 DEF CommandEffect, Effect, Kind
    <3> QED BY <1>3, <3>1, <3>2, <3>3, <3>4
  <2>2. Expected(e.c) = 0 BY <1>3 DEF Expected, Port64
  <2>3. HasParameter(e.c) BY <1>3 DEF HasParameter
  <2> QED BY <1>1, <1>2, <2>1, <2>2, <2>3
<1>4. CASE e.c \in {"dummy", "self_test", "dis_kb", "ena_kb", "bad64"}
  BY <1>1, <1>2, <1>4 DEF CommandEffect, Effect, Expected, HasParameter, Port64
<1> QED BY <1>1, <1>2, <1>3, <1>4 DEF Port64

LEMMA KeyboardCommandTaken ==
  ASSUME NEW e \in Entries, EntryOK(e), FirstOK(e, st), e.from = 0, e.c \notin Port64
  PROVE  /\ Meaning(e).n \in {0, Expected(e.c)} /\ e.port = 60 /\ Expected(e.c) # 0
         /\ e.c = "resend" \/ ~Replayed(e)
         /\ Replayed(e) \/ e.c # "resend" \/ Meaning(e).n = 0
         /\ HasParameter(e.c) /\ Meaning(e).n # 0 => Meaning(e).st = Kind(e.c)
         /\ ~HasParameter(e.c) => Meaning(e).st \in {"default", "hotkey"}
<1>1. e.port = 60 /\ st \in {"default", "hotkey"} BY DEF EntryOK, FirstOK
<1>2. e.c \in Port60 BY DEF Entries, Commands
<1>3. Expected(e.c) # 0 BY <1>2 DEF Expected, Port60, Port64
<1>4. CASE st = "hotkey"
  <2>1. Meaning(e) = Effect(<< >>, 0, "hotkey") /\ ~Replayed(e)
    BY <1>1, <1>4 DEF Meaning, ParameterEffect, Replayed
  <2> QED BY <1>1, <1>3, <2>1 DEF Effect
<1>5. CASE st = "default"
  <2>1. Meaning(e) = KeyboardEffect(e.c) /\ (Replayed(e) <=> e.c = "resend")
    BY <1>1, <1>5 DEF Meaning, Replayed
  <2>2. CASE e.c \in {"leds", "code_get", "code_set", "typematic"}
    BY <1>1, <1>3, <2>1, <2>2
    DEF Kind, KeyboardEffect, Effect, Expected, HasParameter, Port64
  <2>3. CASE e.c \in {"read_id", "enable", "default_dis", "set_default"}
    BY <1>1, <1>3, <1>5, <2>1, <2>3
    DEF KeyboardEffect, Effect, Expected, HasParameter, Port64
  <2>4. CASE e.c \in {"reset", "echo", "resend", "bad60"}
    BY <1>1, <1>3, <1>5, <2>1, <2>4
    DEF KeyboardEffect, Effect, Expected, HasParameter, Port64
  <2> QED BY <1>2, <2>2, <2>3, <2>4 DEF Port60
<1> QED BY <1>1, <1>4, <1>5

(* The three together, for the answer KbcGet sends *)
Reply(e) == IF Replayed(e) THEN resend ELSE Answer(e.id, e.from, Meaning(e).n)

LEMMA NoAnswer == \A id, from : Answer(id, from, 0) = << >>
BY DEF Answer

LEMMA Taken ==
  ASSUME NEW e \in Entries, EntryOK(e), FirstOK(e, st), resend = h.last
  PROVE  /\ Reply(e) = Due(e) \/ Reply(e) = << >>
         /\ Still(e) => Reply(e) = << >>
         /\ Leads(e) /\ (Still(e) \/ Reply(e) # << >>) => Meaning(e).st = Kind(e.c)
         /\ ~Leads(e) => Meaning(e).st \in {"default", "hotkey"}
         /\ e.port = 64 <=> e.from = 0 /\ e.c \in Port64
<1>1. e.from = 0 \/ e.from = 10 BY DEF Entries
<1>2. e.port = 64 <=> e.from = 0 /\ e.c \in Port64 BY DEF EntryOK
<1>3. CASE e.from = 10
  <2>1. /\ Meaning(e).n = ExpectedAfter(e.c) /\ Meaning(e).st \in {"default", "hotkey"}
        /\ ~Replayed(e)
    BY <1>3, ParameterTaken
  <2>2. Reply(e) = Answer(e.id, 10, ExpectedAfter(e.c)) /\ Due(e) = Reply(e)
    BY <1>3, <2>1 DEF Reply, Due
  <2>3. Still(e) => Reply(e) = << >> BY <1>3, <2>2, NoAnswer DEF Still
  <2>4. ~Leads(e) BY <1>3 DEF Leads
  <2> QED BY <1>2, <2>1, <2>2, <2>3, <2>4
<1>4. CASE e.from = 0 /\ e.c \in Port64
  <2>1. /\ Meaning(e).n = Expected(e.c) /\ ~Replayed(e)
        /\ IF HasParameter(e.c) THEN Meaning(e).st = Kind(e.c)
           ELSE Meaning(e).st \in {"default", "hotkey"}
    BY <1>4, ControllerCommandTaken
  <2>2. e.c # "resend" BY <1>4 DEF Port64
  <2>3. Reply(e) = Answer(e.id, 0, Expected(e.c)) /\ Due(e) = Reply(e)
    BY <1>4, <2>1, <2>2 DEF Reply, Due
  <2>4. Still(e) => Reply(e) = << >> BY <1>4, <2>2, <2>3, NoAnswer DEF Still
  <2>5. Leads(e) <=> HasParameter(e.c) BY <1>4 DEF Leads
  <2> QED BY <1>2, <2>1, <2>3, <2>4, <2>5
<1>5. CASE e.from = 0 /\ e.c \notin Port64
  <2>1. /\ Meaning(e).n \in {0, Expected(e.c)} /\ Expected(e.c) # 0
        /\ e.c = "resend" \/ ~Replayed(e)
        /\ Replayed(e) \/ e.c # "resend" \/ Meaning(e).n = 0
        /\ HasParameter(e.c) /\ Meaning(e).n # 0 => Meaning(e).st = Kind(e.c)
        /\ ~HasParameter(e.c) => Meaning(e).st \in {"default", "hotkey"}
    BY <1>5, KeyboardCommandTaken
  <2>2. Leads(e) <=> HasParameter(e.c) BY <1>5 DEF Leads
  <2>3. HasParameter("resend") = FALSE BY DEF HasParameter
  <2>4. CASE Replayed(e)
    <3>1. e.c = "resend" /\ Reply(e) = resend /\ Due(e) = resend
      BY <1>5, <2>1, <2>4 DEF Reply, Due
    <3>2. Still(e) => resend = << >> BY <1>5, <2>1, <3>1 DEF Still
    <3> QED BY <1>2, <2>1, <2>2, <2>3, <3>1, <3>2
  <2>5. CASE ~Replayed(e) /\ e.c = "resend"
    <3>1. Reply(e) = << >> BY <2>1, <2>5, NoAnswer DEF Reply
    <3> QED BY <1>2, <2>1, <2>2, <2>3, <2>5, <3>1
  <2>6. CASE ~Replayed(e) /\ e.c # "resend"
    <3>1. ~Still(e) BY <1>5, <2>1, <2>6 DEF Still
    <3>2. Due(e) = Answer(e.id, 0, Expected(e.c)) /\ Reply(e) = Answer(e.id, 0, Meaning(e).n)
      BY <1>5, <2>6 DEF Due, Reply
    <3>3. Meaning(e).n = 0 => Reply(e) = << >> BY <3>2, NoAnswer
    <3> QED BY <1>2, <2>1, <2>2, <3>1, <3>2, <3>3
  <2> QED BY <2>4, <2>5, <2>6
<1> QED BY <1>1, <1>3, <1>4, <1>5
(***************************************************************************)
(* The steps.  A byte that is dropped is not found again.                  *)
(***************************************************************************)
LEMMA LostStays == lost /\ [KbcNext]_kbcVars => lost'
<1> SUFFICES ASSUME lost, [KbcNext]_kbcVars PROVE lost' OBVIOUS
<1>1. CASE User BY <1>1 DEF User, Press, Release, Repeat, Key
<1>2. CASE KbcOp BY <1>2 DEF KbcOp, PurgeLoses
<1>3. CASE KbcGet \/ KbcGap \/ KbcSend \/ KbcRetry
  BY <1>3 DEF KbcGet, KbcGap, KbcSend, KbcRetry, marks
<1>4. CASE KbThread
  BY <1>4 DEF KbThread, KbTake, KbEmpty, KbBusy, KbWrite, KbRetry, PurgeLoses, marks
<1>5. CASE PwrThread BY <1>5 DEF PwrThread, PowerOff, PowerOn, Resume, Commit, marks
<1>6. CASE Host
  BY <1>6 DEF Host, Request, SendParameter, Write, Done, Read, GiveUp, Suspend, Wakes, marks
<1>7. CASE UNCHANGED kbcVars BY <1>7 DEF kbcVars, marks
<1> QED BY <1>1, <1>2, <1>3, <1>4, <1>5, <1>6, <1>7 DEF KbcNext, KbcThread

(* Steps that move bytes but no commands *)
LEMMA BytesMove ==
  ASSUME ~lost, Account, UNCHANGED <<fromQ, resend, st, h, mixed>>,
         HostIdle', NothingComes => NothingComes', Coming => Coming'
  PROVE  Account'
<1>1. ~mixed /\ (Queued \/ Flows \/ Stuck) BY DEF Account
<1>2. Queued => Queued'
  <2>1. ASSUME Queued PROVE Queued'
    <3>1. \A e : Still(e)' = Still(e) BY DEF Still
    <3>2. \A e, f : NextOK(e, f)' = NextOK(e, f) BY DEF NextOK, Still
    <3>3. \A e : LastOK(e)' = LastOK(e) BY DEF LastOK, Due
    <3> QED BY <2>1, <3>2, <3>3 DEF Queued
  <2> QED BY <2>1
<1>3. Flows => Flows' BY DEF Flows, Recalled, StateOK
<1>4. Stuck => Stuck' BY DEF Stuck
<1> QED BY <1>1, <1>2, <1>3, <1>4 DEF Account

LEMMA RestType == Types /\ Coming => Rest \in Seq(AnswerBytes)
<1> SUFFICES ASSUME Types, Coming PROVE Rest \in Seq(AnswerBytes) OBVIOUS
<1>1. h.want \in Seq(AnswerBytes) BY DEF Types, HostOK, Hosts
<1> QED BY <1>1, TailType DEF Rest, Coming

LEMMA KeyByte == \A b \in KeyBytes : ~IsAnswer(b)
BY DEF KeyBytes, KeyNames, AllKeys, IsAnswer

LEMMA NoneIsNoAnswer == ~IsAnswer(None)
BY DEF None, IsAnswer

(* A callback puts keys behind everything. *)
LEMMA ChannelByCallback ==
  ASSUME Types, NEW c \in KeyCodes, NEW hot, Callback(c, hot), UNCHANGED <<odr, toSend, h>>
  PROVE  (NothingComes => NothingComes') /\ (Coming => Coming')
<1> DEFINE a == Fitting(Accepted(c, hot))
<1>1. kbQ' = kbQ \o a BY DEF Callback, SendToHost
<1>2. kbQ \in Seq(Bytes) /\ Len(kbQ) <= KbLen BY DEF Types, QueuesOK
<1>3. Accepted(c, hot) \in KeyCodes /\ Accepted(c, hot) \in Seq(Bytes)
  BY AcceptedType, KeysAreBytes
<1>4. /\ a \in Seq(Bytes) /\ Len(a) <= Len(Accepted(c, hot))
      /\ \A j \in 1..Len(a) : a[j] = Accepted(c, hot)[j]
  BY <1>2, <1>3, SendType
<1>5. \A j \in 1..Len(a) : ~IsAnswer(a[j])
  <2>1. \A j \in 1..Len(Accepted(c, hot)) : Accepted(c, hot)[j] \in KeyBytes
    BY <1>3, ElementOfSeq DEF KeyCodes
  <2>2. \A j \in 1..Len(a) : j \in 1..Len(Accepted(c, hot))
    BY <1>3, <1>4, LenProperties
  <2> QED BY <1>4, <2>1, <2>2, KeyByte
<1> HIDE DEF a
<1>6. \A r \in Seq(AnswerBytes) : Run(kbQ, r) => Run(kbQ', r)
  BY <1>1, <1>2, <1>4, <1>5, RunAppendKeys
<1>7. Run(kbQ, << >>) => Run(kbQ', << >>) BY <1>6, Empty
<1>8. NothingComes => NothingComes' BY <1>7 DEF NothingComes
<1>9. ASSUME Coming PROVE Coming'
  <2>1. Rest \in Seq(AnswerBytes) BY <1>9, RestType
  <2>2. Rest' = Rest BY DEF Rest
  <2>3. Run(kbQ, Rest) => Run(kbQ', Rest) BY <1>6, <2>1
  <2> QED BY <1>7, <1>9, <2>2, <2>3 DEF Coming
<1> QED BY <1>8, <1>9

LEMMA AccountByUser == Types /\ Account /\ ~lost /\ User => Account'
<1> SUFFICES ASSUME Types, Account, ~lost, User PROVE Account' OBVIOUS
<1>1. UNCHANGED <<fromQ, resend, st, h, mixed, odr, toSend, on>>
  BY DEF User, Press, Release, Repeat, Key, kbc, host, threads, mode
<1>2. HostIdle' BY <1>1 DEF Account, HostIdle
<1>3. (NothingComes => NothingComes') /\ (Coming => Coming')
  <2>1. ASSUME NEW k \in Keys, NEW p, NEW outs, Key(k, p, outs), outs \subseteq Outcomes
        PROVE  (NothingComes => NothingComes') /\ (Coming => Coming')
    <3>1. CASE kscan
      <4>1. PICK o \in outs : Callback(o.code, o.hotkey) BY <2>1, <3>1 DEF Key
      <4>2. o.code \in KeyCodes BY <2>1 DEF Outcomes
      <4> QED BY <1>1, <4>1, <4>2, ChannelByCallback
    <3>2. CASE ~kscan
      <4>1. kbQ' = kbQ BY <2>1, <3>2 DEF Key
      <4> QED BY <1>1, <4>1 DEF NothingComes, Coming, Rest
    <3> QED BY <3>1, <3>2
  <2>2. CASE Press BY <2>1, <2>2, OutcomeType DEF Press, Types
  <2>3. CASE Release
    <3>1. held \subseteq Keys BY DEF Types, MatrixOK
    <3> QED BY <2>1, <2>3, <3>1, OutcomeType DEF Release, Types
  <2>4. CASE Repeat
    <3>1. tp \in KeyCodes /\ Callback(tp, hotkey) BY <2>4 DEF Repeat, Types, MatrixOK
    <3> QED BY <1>1, <3>1, ChannelByCallback
  <2> QED BY <2>2, <2>3, <2>4 DEF User
<1> QED BY <1>1, <1>2, <1>3, BytesMove

(* A queue that is purged without a loss held keys only. *)
LEMMA ChannelByPurge ==
  ASSUME Types, Purge, PurgeLoses, ~lost', UNCHANGED <<odr, toSend, h>>
  PROVE  (NothingComes => NothingComes') /\ (Coming => Coming')
<1>1. kbQ' = << >> /\ ~HoldsAnswer(kbQ) /\ kbQ \in Seq(Bytes)
  BY DEF Purge, PurgeLoses, Types, QueuesOK
<1>2. Run(kbQ', << >>) BY <1>1, RunEmpty
<1>3. NothingComes => NothingComes' BY <1>2 DEF NothingComes
<1>4. ASSUME Coming PROVE Coming'
  <2>1. Rest \in Seq(AnswerBytes) /\ Rest' = Rest BY <1>4, RestType DEF Rest
  <2>2. Run(kbQ, Rest) => Rest = << >> BY <1>1, <2>1, RunOfKeys
  <2> QED BY <1>2, <1>4, <2>1, <2>2 DEF Coming
<1> QED BY <1>3, <1>4

LEMMA AccountByOp == Types /\ Account /\ ~lost' /\ ~lost /\ KbcOp => Account'
<1> SUFFICES ASSUME Types, Account, ~lost', ~lost, KbcOp PROVE Account' OBVIOUS
<1>1. UNCHANGED <<fromQ, resend, st, h, mixed, toSend, on>> BY DEF KbcOp, host, mode
<1>2. HostIdle' BY <1>1 DEF Account, HostIdle
<1>3. (NothingComes => NothingComes') /\ (Coming => Coming')
  <2>1. CASE Head(ops) = "purge"
    <3>1. Purge /\ PurgeLoses /\ odr' = odr BY <2>1 DEF KbcOp
    <3> QED BY <1>1, <3>1, ChannelByPurge
  <2>2. CASE Head(ops) \in {"off", "on", "stop"}
    <3>1. UNCHANGED <<kbQ, odr>> BY <2>2 DEF KbcOp
    <3> QED BY <1>1, <3>1 DEF NothingComes, Coming, Rest
  <2>3. CASE Head(ops) \notin {"purge", "off", "on", "stop"}
    <3>1. odr' = None /\ kbQ' = kbQ /\ lost' = (lost \/ IsAnswer(odr)) BY <2>3 DEF KbcOp
    <3>2. ~IsAnswer(odr) /\ ~IsAnswer(odr') BY <3>1, NoneIsNoAnswer
    <3> QED BY <1>1, <3>1, <3>2 DEF NothingComes, Coming, Rest
  <2> QED BY <2>1, <2>2, <2>3
<1> QED BY <1>1, <1>2, <1>3, BytesMove

LEMMA AccountBySend == Types /\ Account /\ ~lost /\ KbcSend => Account'
<1> SUFFICES ASSUME Types, Account, ~lost, KbcSend PROVE Account' OBVIOUS
<1>1. UNCHANGED <<fromQ, resend, st, h, mixed, kbQ, on>> BY DEF KbcSend, kbc, host, mode, marks
<1>2. HostIdle' BY <1>1 DEF Account, HostIdle
<1>3. CASE odr = None
  <2>1. odr' = Head(toSend) /\ toSend' = Tail(toSend) BY <1>3 DEF KbcSend
  <2>2. toSend # << >> /\ toSend \in Seq(AnswerBytes) BY DEF KbcSend, Types, ThreadOK
  <2>3. ~NothingComes BY <2>2 DEF NothingComes
  <2>4. ASSUME Coming PROVE Coming'
    <3>1. ~IsAnswer(odr) /\ Rest = h.want BY <1>3, NoneIsNoAnswer DEF Rest
    <3>2. toSend = h.want /\ Run(kbQ, << >>) BY <2>2, <2>4, <3>1 DEF Coming
    <3>3. IsAnswer(odr')
      <4>1. Head(toSend) \in AnswerBytes BY <2>2, TailType
      <4> QED BY <2>1, <4>1 DEF AnswerBytes, IsAnswer
    <3>4. Rest' = toSend' BY <1>1, <2>1, <3>2, <3>3 DEF Rest
    <3> QED BY <1>1, <2>1, <2>2, <3>2, <3>4 DEF Coming
  <2> QED BY <1>1, <1>2, <2>3, <2>4, BytesMove
<1>4. CASE odr # None
  <2>1. UNCHANGED <<odr, toSend>> BY <1>4 DEF KbcSend
  <2>2. (NothingComes => NothingComes') /\ (Coming => Coming')
    BY <1>1, <2>1 DEF NothingComes, Coming, Rest
  <2> QED BY <1>1, <1>2, <2>2, BytesMove
<1> QED BY <1>3, <1>4

LEMMA AccountByRetry == Types /\ Account /\ ~lost /\ ~lost' /\ KbcRetry => Account'
<1> SUFFICES ASSUME Types, Account, ~lost, ~lost', KbcRetry PROVE Account' OBVIOUS
<1>1. UNCHANGED <<fromQ, resend, st, h, mixed, odr, on>> BY DEF KbcRetry, kbc, host, mode
<1>2. HostIdle' BY <1>1 DEF Account, HostIdle
<1>3. CASE tries + 1 = Retries
  <2>1. kbQ' = kbQ \o Fitting(toSend) /\ toSend' = << >> /\ ~Overflows(toSend)
    BY <1>3 DEF KbcRetry, SendToHost
  <2>2. toSend # << >> /\ toSend \in Seq(AnswerBytes) /\ toSend \in Seq(Bytes)
    BY AnswersAreBytes DEF KbcRetry, Types, ThreadOK
  <2>3. kbQ \in Seq(Bytes) /\ Len(kbQ) <= KbLen BY DEF Types, QueuesOK
  <2>4. kbQ' = kbQ \o toSend BY <2>1, <2>2, <2>3, SendType
  <2>5. ~NothingComes BY <2>2 DEF NothingComes
  <2>6. ASSUME Coming PROVE Coming'
    <3>1. toSend = Rest /\ Run(kbQ, << >>) BY <2>2, <2>6 DEF Coming
    <3>2. Rest' = Rest BY <1>1 DEF Rest
    <3>3. Run(kbQ', toSend) BY <2>2, <2>3, <2>4, <3>1, RunAppendAnswer
    <3> QED BY <1>1, <2>1, <2>6, <3>1, <3>2, <3>3 DEF Coming
  <2> QED BY <1>1, <1>2, <2>5, <2>6, BytesMove
<1>4. CASE tries + 1 # Retries
  <2>1. UNCHANGED <<kbQ, toSend>> BY <1>4 DEF KbcRetry
  <2>2. (NothingComes => NothingComes') /\ (Coming => Coming')
    BY <1>1, <2>1 DEF NothingComes, Coming, Rest
  <2> QED BY <1>1, <1>2, <2>2, BytesMove
<1> QED BY <1>3, <1>4

LEMMA AccountByKbThread == Types /\ Account /\ ~lost /\ ~lost' /\ KbThread => Account'
<1> SUFFICES ASSUME Types, Account, ~lost, ~lost', KbThread PROVE Account' OBVIOUS
<1>1. UNCHANGED <<fromQ, resend, st, h, mixed, toSend, on>>
  BY DEF KbThread, KbTake, KbEmpty, KbBusy, KbWrite, KbRetry, kbc, host, mode, marks, queues
<1>2. HostIdle' BY <1>1 DEF Account, HostIdle
<1>3. CASE KbWrite
  <2>1. odr = None /\ odr' = Head(kbQ) /\ kbQ' = Tail(kbQ) /\ kbQ # << >>
    BY <1>3 DEF KbWrite
  <2>2. kbQ \in Seq(Bytes) BY DEF Types, QueuesOK
  <2>3. \A r \in Seq(AnswerBytes) : Run(kbQ, r) =>
          IF IsAnswer(odr') THEN r # << >> /\ odr' = Head(r) /\ Run(kbQ', Tail(r))
          ELSE Run(kbQ', r)
    BY <2>1, <2>2, RunTail
  <2>4. Run(kbQ, << >>) => ~IsAnswer(odr') /\ Run(kbQ', << >>) BY <2>3, Empty
  <2>5. NothingComes => NothingComes' BY <1>1, <2>4 DEF NothingComes
  <2>6. ASSUME Coming PROVE Coming'
    <3>1. Rest = h.want /\ h.want \in Seq(AnswerBytes)
      BY <2>1, <2>6, NoneIsNoAnswer, RestType DEF Rest
    <3>2. CASE IsAnswer(odr')
      <4>1. toSend = << >> /\ Run(kbQ, h.want) BY <2>4, <2>6, <3>1, <3>2 DEF Coming
      <4>2. h.want # << >> /\ odr' = Head(h.want) /\ Run(kbQ', Tail(h.want))
        BY <2>3, <3>1, <3>2, <4>1
      <4>3. Rest' = Tail(h.want) BY <1>1, <3>2 DEF Rest
      <4> QED BY <1>1, <4>1, <4>2, <4>3 DEF Coming
    <3>3. CASE ~IsAnswer(odr')
      <4>1. Rest' = Rest BY <1>1, <3>1, <3>3 DEF Rest
      <4>2. Run(kbQ, Rest) => Run(kbQ', Rest) BY <2>3, <3>1, <3>3
      <4> QED BY <1>1, <2>4, <2>6, <3>3, <4>1, <4>2 DEF Coming
    <3> QED BY <3>2, <3>3
  <2> QED BY <1>1, <1>2, <2>5, <2>6, BytesMove
<1>4. CASE KbBusy /\ triesK > Retries
  <2>1. Purge /\ PurgeLoses /\ odr' = odr BY <1>4 DEF KbBusy
  <2>2. (NothingComes => NothingComes') /\ (Coming => Coming')
    BY <1>1, <2>1, ChannelByPurge
  <2> QED BY <1>1, <1>2, <2>2, BytesMove
<1>5. CASE (KbBusy /\ ~(triesK > Retries)) \/ KbTake \/ KbEmpty \/ KbRetry
  <2>1. UNCHANGED <<kbQ, odr>> BY <1>5 DEF KbBusy, KbTake, KbEmpty, KbRetry, queues
  <2>2. (NothingComes => NothingComes') /\ (Coming => Coming')
    BY <1>1, <2>1 DEF NothingComes, Coming, Rest
  <2> QED BY <1>1, <1>2, <2>2, BytesMove
<1> QED BY <1>3, <1>4, <1>5 DEF KbThread
(***************************************************************************)
(* A command is taken                                                      *)
(***************************************************************************)
LEMMA NumberedAnswer ==
  ASSUME NEW id \in Nat, NEW from \in {0, 10}, NEW n \in 0..3,
         Answer(id, from, n) # << >>
  PROVE  /\ Numbered(Answer(id, from, n)) /\ Answer(id, from, n)[1].i = from + 1
         /\ n # 0
<1> DEFINE w == Answer(id, from, n)
<1>1. from \in Nat /\ n \in Nat OBVIOUS
<1>2. /\ Len(w) = n
      /\ \A j \in 1..n : w[j] = [key |-> "answer", id |-> id, i |-> from + j]
      /\ n = 0 => w = << >>
  BY <1>1, AnswerType
<1> HIDE DEF w
<1>3. n \in 1..3 /\ 1 \in 1..n BY <1>2 DEF w
<1>4. \A j \in 1..n : w[j].i = from + j BY <1>2
<1>5. w[1].i = from + 1 BY <1>3, <1>4
<1>6. \A m \in 1..Len(w) : w[m].i = w[1].i + m - 1 BY <1>1, <1>2, <1>4, <1>5
<1>7. w[1].i >= 1 /\ (w[1].i >= 11 \/ w[1].i + Len(w) <= 4) BY <1>2, <1>3, <1>5
<1>8. Numbered(w) BY <1>6, <1>7 DEF Numbered
<1> QED BY <1>3, <1>5, <1>8 DEF w

LEMMA AccountByGet == Types /\ Account /\ ~lost /\ KbcGet => Account'
<1> SUFFICES ASSUME Types, Account, ~lost, KbcGet PROVE Account' OBVIOUS
<1> DEFINE e == Head(fromQ)
<1>1. /\ fromQ # << >> /\ fromQ' = Tail(fromQ) /\ toSend' = Reply(e) /\ st' = Meaning(e).st
      /\ resend' = (IF e.port = 60 /\ Reply(e) # << >> THEN Reply(e) ELSE resend)
      /\ UNCHANGED <<kbQ, odr, h, mixed, on, lost>>
  BY DEF KbcGet, Reply, host, mode
<1>2. Queued /\ ~mixed /\ HostIdle BY <1>1 DEF Account, Flows, Stuck
<1>3. /\ e = fromQ[1] /\ e \in Entries /\ Len(fromQ) \in Nat \ {0}
      /\ Tail(fromQ) \in Seq(Entries) /\ Len(Tail(fromQ)) = Len(fromQ) - 1
      /\ \A x \in 1..Len(Tail(fromQ)) : Tail(fromQ)[x] = fromQ[x + 1]
      /\ 1 \in 1..Len(fromQ)
  <2>1. fromQ \in Seq(Entries) BY DEF Types, QueuesOK
  <2>2. Len(fromQ) \in Nat \ {0} BY <1>1, <2>1, EmptySeq
  <2>3. 1 \in 1..Len(fromQ) BY <2>2
  <2> QED BY <1>1, <2>1, <2>2, <2>3, HeadTailProperties
<1> HIDE DEF e
<1>4. EntryOK(e) /\ FirstOK(e, st) /\ resend = h.last BY <1>2, <1>3 DEF Queued
<1>5. /\ Reply(e) = Due(e) \/ Reply(e) = << >>
      /\ Still(e) => Reply(e) = << >>
      /\ Leads(e) /\ (Still(e) \/ Reply(e) # << >>) => Meaning(e).st = Kind(e.c)
      /\ ~Leads(e) => Meaning(e).st \in {"default", "hotkey"}
      /\ e.port = 64 <=> e.from = 0 /\ e.c \in Port64
  BY <1>3, <1>4, Taken
<1>6. NothingComes /\ (toSend' = << >> => NothingComes') BY <1>1, <1>2 DEF Queued, NothingComes
<1>7. HostIdle' BY <1>1, <1>2 DEF HostIdle
<1>8. CASE Len(fromQ) # 1
  <2>1. 1 < Len(fromQ) /\ 1 \in 1..Len(fromQ') /\ 2 \in 1..Len(fromQ) /\ fromQ'[1] = fromQ[2]
        /\ Len(fromQ') \in 1..Len(fromQ') /\ Len(fromQ') + 1 = Len(fromQ)
        /\ fromQ'[Len(fromQ')] = fromQ[Len(fromQ)]
    BY <1>1, <1>3, <1>8
  <2>2. fromQ' # << >> BY <2>1, Empty
  <2>3. NextOK(e, fromQ[2]) BY <1>2, <1>3, <2>1 DEF Queued
  <2>4. Reply(e) = << >> /\ resend' = resend BY <1>1, <1>5, <2>3 DEF NextOK
  <2>5. FirstOK(fromQ[2], st')
    <3>1. CASE Leads(e)
      BY <1>1, <1>5, <2>3, <3>1 DEF NextOK, FirstOK
    <3>2. CASE ~Leads(e)
      BY <1>1, <1>5, <2>3, <3>2 DEF NextOK, FirstOK
    <3> QED BY <3>1, <3>2
  <2>6. \A f, g : NextOK(f, g)' = NextOK(f, g) BY <2>4 DEF NextOK, Still
  <2>7. \A f : LastOK(f)' = LastOK(f) BY <1>1 DEF LastOK, Due
  <2>8. \A j \in 1..Len(fromQ') :
          /\ fromQ'[j] = fromQ[j + 1] /\ j + 1 \in 1..Len(fromQ)
          /\ j < Len(fromQ') => j + 1 < Len(fromQ) /\ fromQ'[j + 1] = fromQ[(j + 1) + 1]
    BY <1>1, <1>3
  <2>9. \A j \in 1..Len(fromQ') : EntryOK(fromQ'[j]) BY <1>2, <2>8 DEF Queued
  <2>10. \A j \in 1..Len(fromQ') : j < Len(fromQ') => NextOK(fromQ'[j], fromQ'[j + 1])
    BY <1>2, <2>8 DEF Queued
  <2>11. LastOK(fromQ'[Len(fromQ')]) BY <1>2, <2>1 DEF Queued
  <2>12. FirstOK(fromQ'[1], st') BY <2>1, <2>5
  <2>13. NothingComes' /\ resend' = h'.last BY <1>1, <1>4, <1>6, <2>4
  <2>14. Queued' BY <2>2, <2>6, <2>7, <2>9, <2>10, <2>11, <2>12, <2>13 DEF Queued
  <2> QED BY <1>1, <1>2, <1>7, <2>14 DEF Account
<1>9. CASE Len(fromQ) = 1
  <2>1. fromQ' = << >> BY <1>1, <1>3, <1>9, EmptySeq
  <2>2. LastOK(e) BY <1>2, <1>3, <1>9 DEF Queued
  <2>3. CASE Reply(e) = Due(e)
    <3>1. toSend' = h'.want /\ h'.want = h.want /\ Due(e) = h.want /\ Reply(e) = h.want
      BY <1>1, <2>2, <2>3 DEF LastOK
    <3>2. Coming'
      <4>1. ~IsAnswer(odr') /\ Run(kbQ', << >>) BY <1>1, <1>6 DEF NothingComes
      <4>2. Rest' = h'.want BY <4>1 DEF Rest
      <4> QED BY <3>1, <4>1, <4>2 DEF Coming
    <3>3. StateOK'
      <4>1. CASE h.par
        <5>1. Leads(e) /\ h.c = e.c BY <2>2, <4>1 DEF LastOK
        <5>2. Still(e) \/ Reply(e) # << >>
          <6>1. e.from = 0 /\ HasParameter(e.c) /\ e.c # "resend"
            BY <5>1 DEF Leads, HasParameter
          <6>2. Due(e) = Answer(e.id, 0, Expected(e.c)) BY <6>1 DEF Due
          <6>3. Expected(e.c) # 0 => Due(e) # << >>
            <7>1. e.id \in Nat /\ Expected(e.c) \in Nat /\ 0 \in Nat
              BY <1>3, ExpectedType DEF Entries
            <7>2. Len(Answer(e.id, 0, Expected(e.c))) = Expected(e.c) BY <7>1, AnswerType, Zenon
            <7>3. Len(Due(e)) = Expected(e.c) BY <6>2, <7>2, Zenon
            <7> QED BY <7>3, Empty
          <6> QED BY <2>3, <6>1, <6>3 DEF Still
        <5> QED BY <1>1, <1>5, <4>1, <5>1, <5>2 DEF StateOK
      <4>2. CASE ~h.par
        <5>1. ~Leads(e) BY <2>2, <4>2 DEF LastOK
        <5> QED BY <1>1, <1>5, <4>2, <5>1 DEF StateOK
      <4> QED BY <4>1, <4>2
    <3>4. Recalled'
      <4>1. CASE h.want = << >>
        <5>1. resend' = h'.last /\ h'.want = << >> BY <1>1, <1>4, <3>1, <4>1
        <5> QED BY <5>1 DEF Recalled
      <4>2. CASE h.want # << >> /\ h.c = "resend"
        <5>1. e.c = "resend" /\ e.from = 0
          BY <1>3, <1>4, <2>2, <4>2 DEF LastOK, EntryOK, HasParameter, Entries
        <5>2. Reply(e) = h.last BY <2>3, <5>1 DEF Due
        <5>3. resend' = h'.last /\ h'.c = "resend" BY <1>1, <1>4, <4>2, <5>2
        <5> QED BY <5>3 DEF Recalled
      <4>3. CASE h.want # << >> /\ h.c # "resend"
        <5>1. h.c = e.c BY <2>2, <4>3 DEF LastOK
        <5>2. PICK n \in 0..3 : h.want = Answer(e.id, e.from, n)
          BY <1>3, <3>1, <4>3, <5>1, ExpectedType DEF Due, Entries
        <5>3. Numbered(h.want) /\ h.want[1].i = e.from + 1
          BY <1>3, <4>3, <5>2, NumberedAnswer DEF Entries
        <5>4. CASE e.from = 0 /\ e.c \in Port64
          <6>1. e.port = 64 /\ h.want[1].i <= 10 BY <1>5, <5>3, <5>4
          <6>2. resend' = h'.last BY <1>1, <1>4, <6>1
          <6> QED BY <1>1, <4>3, <5>1, <5>3, <5>4, <6>1, <6>2 DEF Recalled
        <5>5. CASE ~(e.from = 0 /\ e.c \in Port64)
          <6>1. e.port = 60 BY <1>3, <1>4, <5>5 DEF EntryOK
          <6>2. resend' = h'.want BY <1>1, <3>1, <4>3, <6>1
          <6>3. h.want[1].i \in {1, 11} BY <1>3, <5>3 DEF Entries
          <6>4. ~(h.c \in Port64 /\ h.want[1].i <= 10)
            BY <1>3, <5>1, <5>3, <5>5 DEF Entries
          <6> QED BY <1>1, <4>3, <5>3, <6>2, <6>3, <6>4 DEF Recalled
        <5> QED BY <5>4, <5>5
      <4> QED BY <4>1, <4>2, <4>3
    <3>5. Flows' BY <2>1, <3>2, <3>3, <3>4 DEF Flows
    <3> QED BY <1>1, <1>2, <1>7, <3>5 DEF Account
  <2>4. CASE Reply(e) # Due(e)
    <3>1. Reply(e) = << >> /\ h'.want # << >> BY <1>1, <1>5, <2>2, <2>4 DEF LastOK
    <3>2. Stuck' BY <1>1, <1>6, <2>1, <3>1 DEF Stuck
    <3> QED BY <1>1, <1>2, <1>7, <3>2 DEF Account
  <2> QED BY <2>3, <2>4
<1> QED BY <1>8, <1>9
(***************************************************************************)
(* The host and its power                                                  *)
(***************************************************************************)
LEMMA NothingWaited ==
  ASSUME Types, Account, ~lost, h.want = << >>
  PROVE  /\ NothingComes /\ resend = h.last
         /\ fromQ = << >> => StateOK
         /\ fromQ # << >> => Queued
<1>1. Queued \/ Flows BY DEF Account, Stuck
<1>2. CASE Queued BY <1>2 DEF Queued
<1>3. CASE Flows
  <2>1. ~IsAnswer(odr) /\ Rest = << >> BY <1>3 DEF Flows, Coming, Rest
  <2>2. NothingComes BY <1>3, <2>1 DEF Flows, Coming, NothingComes
  <2> QED BY <1>3, <2>2 DEF Flows, Recalled
<1> QED BY <1>1, <1>2, <1>3

LEMMA StillWhenNothingDue ==
  ASSUME NEW e \in Entries, Due(e) = << >>, resend = h.last
  PROVE  Still(e)
<1>1. e.id \in Nat /\ ExpectedAfter(e.c) \in Nat /\ Expected(e.c) \in Nat /\ 0 \in Nat /\ 10 \in Nat
  BY ExpectedType DEF Entries
<1>2. Len(Answer(e.id, 10, ExpectedAfter(e.c))) = ExpectedAfter(e.c)
      /\ Len(Answer(e.id, 0, Expected(e.c))) = Expected(e.c)
  BY <1>1, AnswerType, ZenonT(40)
<1>3. CASE e.from = 10
  <2>1. Answer(e.id, 10, ExpectedAfter(e.c)) = << >> BY <1>3 DEF Due
  <2>2. ExpectedAfter(e.c) = 0 BY <1>2, <2>1, Empty
  <2> QED BY <1>3, <2>2 DEF Still
<1>4. CASE e.from # 10 /\ e.c # "resend"
  <2>1. Answer(e.id, 0, Expected(e.c)) = << >> BY <1>4 DEF Due
  <2>2. Expected(e.c) = 0 BY <1>2, <2>1, Empty
  <2> QED BY <1>4, <2>2 DEF Still
<1>5. CASE e.from # 10 /\ e.c = "resend" BY <1>5 DEF Due, Still
<1> QED BY <1>3, <1>4, <1>5

(* The host writes a byte that finds a place. *)
LEMMA QueuedByWrite ==
  ASSUME Types, Account, ~lost, h.want = << >>, NEW e \in Entries,
         fromQ' = Append(fromQ, e), EntryOK(e), LastOK(e)',
         UNCHANGED <<resend, st, odr, toSend, kbQ>>, h'.last = h.last,
         e.from = 10 <=> h.par, h.par => e.c = h.c
  PROVE  Queued'
<1>1. NothingComes /\ resend = h.last /\ (fromQ = << >> => StateOK) /\ (fromQ # << >> => Queued)
  BY NothingWaited
<1>2. fromQ \in Seq(Entries) /\ Len(fromQ) \in Nat BY LenProperties DEF Types, QueuesOK
<1>3. /\ fromQ' # << >> /\ Len(fromQ') = Len(fromQ) + 1 /\ fromQ'[Len(fromQ) + 1] = e
      /\ \A j \in 1..Len(fromQ) : fromQ'[j] = fromQ[j]
  BY <1>2, AppendProperties
<1>4. \A j \in 1..Len(fromQ') : j \in 1..Len(fromQ) \/ j = Len(fromQ) + 1 BY <1>2, <1>3
<1>5. NothingComes' /\ resend' = h'.last BY <1>1 DEF NothingComes
<1>6. \A f, g : NextOK(f, g)' = NextOK(f, g) BY DEF NextOK, Still
<1>7. \A j \in 1..Len(fromQ') : EntryOK(fromQ'[j])
  <2>1. \A j \in 1..Len(fromQ) : EntryOK(fromQ[j])
    <3>1. CASE fromQ = << >> BY <3>1, Empty
    <3>2. CASE fromQ # << >> BY <1>1, <3>2 DEF Queued
    <3> QED BY <3>1, <3>2
  <2> QED BY <1>3, <1>4, <2>1
<1>8. CASE fromQ = << >>
  <2>1. Len(fromQ) = 0 /\ Len(fromQ') = 1 /\ fromQ'[1] = e BY <1>3, <1>8, Empty
  <2>2. FirstOK(e, st') BY <1>1, <1>8 DEF StateOK, FirstOK
  <2>3. \A j \in 1..Len(fromQ') : ~(j < Len(fromQ')) BY <2>1
  <2> QED BY <1>3, <1>5, <1>7, <2>1, <2>2, <2>3 DEF Queued
<1>9. CASE fromQ # << >>
  <2>1. Queued /\ Len(fromQ) \in Nat \ {0} BY <1>1, <1>2, <1>9, EmptySeq
  <2>2. 1 \in 1..Len(fromQ) /\ Len(fromQ) \in 1..Len(fromQ) BY <2>1
  <2> DEFINE l == fromQ[Len(fromQ)]
  <2>3. l \in Entries /\ LastOK(l) BY <1>2, <2>1, <2>2, ElementOfSeq DEF Queued
  <2>4. NextOK(l, e)
    <3>1. Still(l) BY <1>1, <2>3, StillWhenNothingDue DEF LastOK
    <3>2. Leads(l) <=> h.par BY <2>3 DEF LastOK
    <3>3. h.par => h.c = l.c BY <2>3 DEF LastOK
    <3> HIDE DEF l
    <3> QED BY <3>1, <3>2, <3>3 DEF NextOK
  <2>5. ASSUME NEW j \in 1..Len(fromQ'), j < Len(fromQ') PROVE NextOK(fromQ'[j], fromQ'[j + 1])
    <3>1. CASE j < Len(fromQ)
      <4>1. j \in 1..Len(fromQ) /\ j + 1 \in 1..Len(fromQ) BY <1>2, <3>1
      <4>2. NextOK(fromQ[j], fromQ[j + 1]) BY <2>1, <3>1, <4>1 DEF Queued
      <4> QED BY <1>3, <4>1, <4>2
    <3>2. CASE ~(j < Len(fromQ))
      <4>1. j = Len(fromQ) BY <1>2, <1>3, <2>5, <3>2
      <4>2. fromQ'[j] = l /\ fromQ'[j + 1] = e BY <1>3, <2>2, <4>1
      <4> HIDE DEF l
      <4> QED BY <2>4, <4>2
    <3> QED BY <3>1, <3>2
  <2>6. FirstOK(fromQ'[1], st') BY <1>3, <2>1, <2>2 DEF Queued
  <2>7. fromQ'[Len(fromQ')] = e BY <1>3
  <2> QED BY <1>3, <1>5, <1>6, <1>7, <2>5, <2>6, <2>7 DEF Queued
<1> QED BY <1>8, <1>9

LEMMA AccountByRequest == Types /\ Account /\ ~lost /\ ~lost' /\ Request => Account'
<1> SUFFICES ASSUME Types, Account, ~lost, ~lost', Request PROVE Account' OBVIOUS
<1>1. PICK c \in Cmds :
        /\ Write(IF c \in Port64 THEN 64 ELSE 60, c, h.id + 1, 0)
        /\ h' = [h EXCEPT !.c = c, !.id = h.id + 1, !.par = HasParameter(c),
                          !.want = IF c = "resend" THEN h.last
                                   ELSE Answer(h.id + 1, 0, Expected(c))]
  BY DEF Request
<1>2. h \in Hosts /\ c \in Commands /\ h.id + 1 \in Nat
  BY KbcHostAssumption DEF Types, HostOK, Hosts, Commands
<1>3. /\ h'.c = c /\ h'.id = h.id + 1 /\ (h'.par <=> HasParameter(c)) /\ h'.last = h.last
      /\ h'.want = IF c = "resend" THEN h.last ELSE Answer(h.id + 1, 0, Expected(c))
  BY <1>1, <1>2 DEF Hosts
<1>4. on /\ h.c = "none" /\ UNCHANGED <<resend, st, odr, toSend, kbQ, mixed, on>>
  BY DEF Request, HostRuns, kbc, threads, mode
<1>5. h.want = << >> /\ ~h.par /\ ~mixed BY <1>4 DEF Account, HostIdle
<1>6. PICK e \in Entries :
        e = [port |-> IF c \in Port64 THEN 64 ELSE 60, c |-> c, id |-> h.id + 1, from |-> 0]
  <2>1. [port |-> IF c \in Port64 THEN 64 ELSE 60, c |-> c, id |-> h.id + 1, from |-> 0]
          \in Entries
    BY <1>2 DEF Entries
  <2> QED BY <2>1, Zenon
<1>7. fromQ' = Append(fromQ, e) BY <1>1, <1>6 DEF Write
<1>8. EntryOK(e) BY <1>6 DEF EntryOK
<1>9. LastOK(e)' BY <1>3, <1>6 DEF LastOK, Due, Leads
<1>10. Queued' BY <1>3, <1>4, <1>5, <1>6, <1>7, <1>8, <1>9, QueuedByWrite
<1>11. HostIdle'
  <2>1. c # "none" BY <1>2 DEF Commands, Port64, Port60
  <2> QED BY <1>3, <1>4, <2>1 DEF HostIdle
<1> QED BY <1>4, <1>5, <1>10, <1>11 DEF Account

LEMMA AccountByParameter == Types /\ Account /\ ~lost /\ ~lost' /\ SendParameter => Account'
<1> SUFFICES ASSUME Types, Account, ~lost, ~lost', SendParameter PROVE Account' OBVIOUS
<1>1. /\ on /\ h.par /\ h.want = << >> /\ Write(60, h.c, h.id, 10)
      /\ h' = [h EXCEPT !.par = FALSE, !.want = Answer(h.id, 10, ExpectedAfter(h.c))]
      /\ UNCHANGED <<resend, st, odr, toSend, kbQ, mixed, on>>
  BY DEF SendParameter, HostRuns, kbc, threads, mode
<1>2. h \in Hosts /\ HasParameter(h.c) BY <1>1 DEF Types, HostOK
<1>3. /\ h'.c = h.c /\ h'.id = h.id /\ ~h'.par /\ h'.last = h.last
      /\ h'.want = Answer(h.id, 10, ExpectedAfter(h.c))
  BY <1>1, <1>2 DEF Hosts
<1>4. h.c # "none" /\ ~mixed BY <1>1 DEF Account, HostIdle
<1>5. PICK e \in Entries : e = [port |-> 60, c |-> h.c, id |-> h.id, from |-> 10]
  BY <1>2, <1>4 DEF Entries, Hosts
<1>6. fromQ' = Append(fromQ, e) BY <1>1, <1>5 DEF Write
<1>7. EntryOK(e) BY <1>2, <1>5 DEF EntryOK
<1>8. LastOK(e)' BY <1>3, <1>5 DEF LastOK, Due, Leads
<1>9. Queued' BY <1>1, <1>3, <1>5, <1>6, <1>7, <1>8, QueuedByWrite
<1>10. HostIdle' BY <1>1, <1>3, <1>4 DEF HostIdle
<1> QED BY <1>1, <1>4, <1>9, <1>10 DEF Account

LEMMA AccountByDone == Types /\ Account /\ ~lost /\ Done => Account'
<1> SUFFICES ASSUME Types, Account, ~lost, Done PROVE Account' OBVIOUS
<1>1. /\ ~h.par /\ h.want = << >> /\ h' = [h EXCEPT !.c = "none"] /\ h \in Hosts
      /\ UNCHANGED <<fromQ, resend, st, odr, toSend, kbQ, mixed, on>>
  BY DEF Done, kbc, threads, mode, marks, queues, Types, HostOK
<1>2. /\ h'.c = "none" /\ h'.id = h.id /\ h'.want = << >> /\ (h'.par <=> h.par)
      /\ h'.last = h.last
  BY <1>1 DEF Hosts
<1>3. HostIdle' BY <1>1, <1>2 DEF HostIdle
<1>4. NothingComes /\ resend = h.last /\ (fromQ = << >> => StateOK) /\ (fromQ # << >> => Queued)
  BY <1>1, NothingWaited
<1>5. NothingComes' BY <1>1, <1>4 DEF NothingComes
<1>6. CASE fromQ = << >>
  <2>1. ~IsAnswer(odr') /\ Rest' = << >> BY <1>2, <1>5 DEF NothingComes, Rest
  <2>2. Coming' BY <1>5, <2>1 DEF Coming, NothingComes
  <2>3. StateOK' BY <1>1, <1>2, <1>4, <1>6 DEF StateOK
  <2>4. Recalled' BY <1>1, <1>2, <1>4 DEF Recalled
  <2> QED BY <1>1, <1>3, <1>6, <2>2, <2>3, <2>4 DEF Flows, Account
<1>7. CASE fromQ # << >>
  <2>1. \A f, g : NextOK(f, g)' = NextOK(f, g) BY <1>1 DEF NextOK, Still
  <2>2. \A f : Due(f)' = Due(f) BY <1>2 DEF Due
  <2>3. \A f : LastOK(f) => LastOK(f)'
    <3> SUFFICES ASSUME NEW f, LastOK(f) PROVE LastOK(f)' OBVIOUS
    <3> QED BY <1>1, <1>2, <2>2 DEF LastOK
  <2>4. Queued' BY <1>1, <1>2, <1>4, <1>5, <1>7, <2>1, <2>3 DEF Queued
  <2> QED BY <1>1, <1>3, <2>4 DEF Account
<1> QED BY <1>6, <1>7
(* What host and thread remember, after one byte of the answer *)
LEMMA NumberedTail ==
  ASSUME NEW w \in Seq(AnswerBytes), w # << >>, Numbered(w), Tail(w) # << >>
  PROVE  /\ Numbered(Tail(w)) /\ Tail(w)[1].i = w[1].i + 1
         /\ w[1].i \in Nat /\ w[1].i >= 1 /\ (w[1].i >= 11 \/ w[1].i <= 2)
<1>1. /\ Tail(w) \in Seq(AnswerBytes) /\ Len(Tail(w)) = Len(w) - 1
      /\ \A x \in 1..Len(Tail(w)) : Tail(w)[x] = w[x + 1]
      /\ Len(w) \in Nat \ {0} /\ Len(Tail(w)) \in Nat \ {0}
  BY HeadTailProperties, EmptySeq
<1>2. 1 \in 1..Len(w) /\ 1 \in 1..Len(Tail(w)) /\ 2 \in 1..Len(w) BY <1>1
<1>3. w[1].i \in Nat
  <2>1. w[1] \in AnswerBytes BY <1>2, ElementOfSeq
  <2> QED BY <2>1 DEF AnswerBytes
<1>4. Tail(w)[1].i = w[1].i + 1
  <2>1. Tail(w)[1] = w[2] BY <1>1, <1>2
  <2>2. w[2].i = w[1].i + 2 - 1 BY <1>2 DEF Numbered
  <2> QED BY <1>3, <2>1, <2>2
<1>5. ASSUME NEW m \in 1..Len(Tail(w)) PROVE Tail(w)[m].i = Tail(w)[1].i + m - 1
  <2>1. m + 1 \in 1..Len(w) /\ Tail(w)[m] = w[m + 1] BY <1>1
  <2>2. w[m + 1].i = w[1].i + (m + 1) - 1 BY <2>1 DEF Numbered
  <2> QED BY <1>3, <1>4, <2>1, <2>2
<1>6. w[1].i >= 1 /\ (w[1].i >= 11 \/ w[1].i + Len(w) <= 4) BY DEF Numbered
<1>7. /\ Tail(w)[1].i >= 1
      /\ Tail(w)[1].i >= 11 \/ Tail(w)[1].i + Len(Tail(w)) <= 4
  BY <1>1, <1>3, <1>4, <1>6
<1>8. w[1].i >= 11 \/ w[1].i <= 2 BY <1>1, <1>3, <1>6
<1> QED BY <1>3, <1>4, <1>5, <1>6, <1>7, <1>8 DEF Numbered

LEMMA HeadThenTail ==
  ASSUME NEW w \in Seq(AnswerBytes), w # << >>
  PROVE  /\ <<Head(w)>> \o Tail(w) = w
         /\ Tail(w) = << >> => <<Head(w)>> = w
         /\ \A l \in Seq(AnswerBytes) : Append(l, Head(w)) \o Tail(w) = l \o w
<1>1. /\ Head(w) \in AnswerBytes /\ Tail(w) \in Seq(AnswerBytes) /\ Len(Tail(w)) = Len(w) - 1
      /\ \A x \in 1..Len(Tail(w)) : Tail(w)[x] = w[x + 1]
      /\ Len(w) \in Nat \ {0} /\ Head(w) = w[1]
  BY HeadTailProperties, EmptySeq
<1>2. <<Head(w)>> \in Seq(AnswerBytes) /\ Len(<<Head(w)>>) = 1 /\ <<Head(w)>>[1] = Head(w)
  BY <1>1, ShortSeqs
<1>3. <<Head(w)>> \o Tail(w) = w
  <2> DEFINE t == <<Head(w)>>
  <2>1. t \in Seq(AnswerBytes) /\ Len(t) = 1 /\ t[1] = w[1] BY <1>1, <1>2
  <2> HIDE DEF t
  <2>2. /\ t \o Tail(w) \in Seq(AnswerBytes) /\ Len(t \o Tail(w)) = Len(w)
        /\ \A j \in 1..Len(t) : (t \o Tail(w))[j] = t[j]
        /\ \A j \in 1..Len(t \o Tail(w)) : ~(j <= Len(t)) =>
             j - Len(t) \in 1..Len(Tail(w)) /\ (t \o Tail(w))[j] = Tail(w)[j - Len(t)]
    <3>0. ASSUME NEW u \in Seq(AnswerBytes)
          PROVE  /\ t \o u \in Seq(AnswerBytes) /\ Len(t \o u) = Len(t) + Len(u)
                 /\ \A j \in 1..Len(t) : (t \o u)[j] = t[j]
                 /\ \A j \in 1..Len(t \o u) : ~(j <= Len(t)) =>
                      j - Len(t) \in 1..Len(u) /\ (t \o u)[j] = u[j - Len(t)]
      BY <2>1, ConcatParts
    <3>1. /\ t \o Tail(w) \in Seq(AnswerBytes) /\ Len(t \o Tail(w)) = Len(t) + Len(Tail(w))
          /\ \A j \in 1..Len(t) : (t \o Tail(w))[j] = t[j]
          /\ \A j \in 1..Len(t \o Tail(w)) : ~(j <= Len(t)) =>
               j - Len(t) \in 1..Len(Tail(w)) /\ (t \o Tail(w))[j] = Tail(w)[j - Len(t)]
      BY <1>1, <3>0, Zenon
    <3>2. Len(t) + Len(Tail(w)) = Len(w) BY <1>1, <2>1
    <3> QED BY <3>1, <3>2, Zenon
  <2>3. ASSUME NEW j \in 1..Len(w) PROVE (t \o Tail(w))[j] = w[j]
    <3>1. CASE j = 1
      <4>1. 1 \in 1..Len(t) BY <2>1
      <4> QED BY <2>1, <2>2, <3>1, <4>1
    <3>2. CASE j # 1
      <4>1. ~(j <= Len(t)) /\ j - Len(t) = j - 1 /\ (j - 1) + 1 = j BY <2>1, <3>2
      <4>2. j - 1 \in 1..Len(Tail(w)) /\ (t \o Tail(w))[j] = Tail(w)[j - 1]
        BY <2>2, <4>1
      <4>3. Tail(w)[j - 1] = w[(j - 1) + 1] BY <1>1, <4>2
      <4> QED BY <4>1, <4>2, <4>3
    <3> QED BY <3>1, <3>2
  <2>4. t \o Tail(w) = w BY <2>2, <2>3, SeqEqual
  <2> QED BY <2>4 DEF t
<1>4. Tail(w) = << >> => <<Head(w)>> = w
  <2>1. <<Head(w)>> \o << >> = <<Head(w)>> BY <1>2, ConcatEmptySeq
  <2> QED BY <1>3, <2>1
<1>5. ASSUME NEW l \in Seq(AnswerBytes) PROVE Append(l, Head(w)) \o Tail(w) = l \o w
  <2>1. Append(l, Head(w)) = l \o <<Head(w)>> BY <1>1, AppendIsConcat
  <2>2. (l \o <<Head(w)>>) \o Tail(w) = l \o (<<Head(w)>> \o Tail(w))
    <3> DEFINE t == <<Head(w)>>
    <3>1. t \in Seq(AnswerBytes) BY <1>2
    <3> HIDE DEF t
    <3>2. ASSUME NEW u \in Seq(AnswerBytes) PROVE (l \o t) \o u = l \o (t \o u)
      BY <3>1, ConcatAssociative
    <3>3. (l \o t) \o Tail(w) = l \o (t \o Tail(w)) BY <1>1, <3>2, Zenon
    <3> QED BY <3>3 DEF t
  <2> QED BY <1>3, <2>1, <2>2
<1> QED BY <1>3, <1>4, <1>5

LEMMA RecalledByRead ==
  ASSUME Types, Recalled, IsAnswer(odr), h.want # << >>, Head(h.want) = odr,
         h' = [h EXCEPT !.want = Tail(h.want), !.last = Remembered], UNCHANGED resend
  PROVE  Recalled'
<1>1. h \in Hosts BY DEF Types, HostOK
<1>2. /\ h'.c = h.c /\ h'.want = Tail(h.want) /\ h'.last = Remembered BY <1>1 DEF Hosts
<1> DEFINE w == h.want
<1>3. w \in Seq(AnswerBytes) /\ w # << >> /\ Head(w) = w[1] /\ odr = w[1]
      /\ h.last \in Seq(AnswerBytes) /\ 1 \in 1..Len(w)
  <2>1. w \in Seq(AnswerBytes) BY <1>1 DEF Hosts
  <2>2. Len(w) \in Nat \ {0} BY <2>1, EmptySeq
  <2> QED BY <1>1, <2>1, <2>2 DEF Hosts
<1>4. /\ <<odr>> \o Tail(w) = w /\ (Tail(w) = << >> => <<odr>> = w)
      /\ Append(h.last, odr) \o Tail(w) = h.last \o w
      /\ Append(h.last, odr) \in Seq(AnswerBytes)
  <2>1. odr \in AnswerBytes BY <1>3, ElementOfSeq
  <2> QED BY <1>3, <2>1, HeadThenTail, AppendProperties
<1>5. w[1].i \in Nat
  <2>1. w[1] \in AnswerBytes BY <1>3, ElementOfSeq
  <2> QED BY <2>1 DEF AnswerBytes
<1> HIDE DEF w
<1>6. CASE h.c = "resend"
  <2>1. resend = h.last BY <1>6 DEF Recalled
  <2>2. Remembered = h.last BY <1>6 DEF Remembered
  <2>3. resend' = h'.last /\ h'.c = "resend" BY <1>2, <1>6, <2>1, <2>2
  <2> QED BY <2>3 DEF Recalled
<1>7. CASE h.c # "resend"
  <2>1. /\ Numbered(w)
        /\ IF h.c \in Port64 /\ w[1].i <= 10 THEN resend = h.last
           ELSE IF w[1].i \in {1, 11} THEN resend = w
           ELSE resend = h.last \o w
    BY <1>3, <1>7 DEF Recalled, w
  <2>2. Remembered = IF h.c \in Port64 /\ w[1].i <= 10 THEN h.last
                     ELSE IF w[1].i \in {1, 11} THEN <<odr>> ELSE Append(h.last, odr)
    BY <1>3, <1>7 DEF Remembered
  <2>3. IF h.c \in Port64 /\ w[1].i <= 10 THEN resend = Remembered
        ELSE resend = Remembered \o Tail(w)
    BY <1>4, <2>1, <2>2
  <2>4. CASE Tail(w) = << >>
    <3>1. Append(h.last, odr) \o << >> = Append(h.last, odr) /\ <<odr>> \o << >> = <<odr>>
      <4>1. <<odr>> \in Seq(AnswerBytes)
        <5>1. odr \in AnswerBytes BY <1>3, ElementOfSeq
        <5> QED BY <5>1, ShortSeqs
      <4> QED BY <1>4, <4>1, ConcatEmptySeq
    <3>2. resend = Remembered BY <2>2, <2>3, <2>4, <3>1
    <3>3. resend' = h'.last /\ h'.want = << >> BY <1>2, <2>4, <3>2 DEF w
    <3> QED BY <3>3 DEF Recalled
  <2>5. CASE Tail(w) # << >>
    <3>1. /\ Numbered(Tail(w)) /\ Tail(w)[1].i = w[1].i + 1
          /\ w[1].i >= 1 /\ (w[1].i >= 11 \/ w[1].i <= 2)
      BY <1>3, <2>1, <2>5, NumberedTail
    <3> DEFINE n == w[1].i
    <3>a. n \in Nat /\ Tail(w)[1].i = n + 1 /\ n >= 1 /\ (n >= 11 \/ n <= 2) BY <1>5, <3>1
    <3> HIDE DEF n
    <3>b. (n + 1 <= 10 <=> n <= 10) /\ n + 1 \notin {1, 11} BY <3>a
    <3>2. (h.c \in Port64 /\ Tail(w)[1].i <= 10) <=> (h.c \in Port64 /\ w[1].i <= 10)
      BY <3>a, <3>b DEF n
    <3>3. Tail(w)[1].i \notin {1, 11}
      BY <3>a, <3>b, Zenon
    <3>4. h'.want = Tail(w) /\ resend' = resend /\ h'.last = Remembered BY <1>2 DEF w
    <3> QED BY <1>2, <1>7, <2>3, <2>5, <3>1, <3>2, <3>3, <3>4 DEF Recalled
  <2> QED BY <2>4, <2>5
<1> QED BY <1>6, <1>7

LEMMA AccountByRead == Types /\ Account /\ ~lost /\ Read => Account'
<1> SUFFICES ASSUME Types, Account, ~lost, Read PROVE Account' OBVIOUS
<1>1. /\ odr' = None /\ on /\ UNCHANGED <<fromQ, resend, st, toSend, kbQ, on, lost>>
      /\ ~IsAnswer(odr')
  BY NoneIsNoAnswer DEF Read, HostRuns, kbc, threads, mode
<1>2. CASE IsAnswer(odr)
  <2>1. ReadAnswer BY <1>2 DEF Read, ReadKey
  <2>2. Flows /\ ~mixed BY <1>2 DEF Account, Queued, Stuck, NothingComes
  <2>3. h.want # << >> /\ Head(h.want) = odr BY <1>2, <2>2 DEF Flows, Coming
  <2>4. h' = [h EXCEPT !.want = Tail(h.want), !.last = Remembered] /\ mixed' = mixed
    BY <2>1, <2>3 DEF ReadAnswer
  <2>5. h'.want = Tail(h.want) /\ h'.c = h.c /\ (h'.par <=> h.par)
    BY <2>4 DEF Types, HostOK, Hosts
  <2>6. HostIdle'
    <3>1. h.c # "none" BY <2>3 DEF Account, HostIdle
    <3> QED BY <1>1, <2>5, <3>1 DEF HostIdle
  <2>7. Rest' = Rest BY <1>1, <1>2, <2>5 DEF Rest
  <2>8. Coming' BY <1>1, <2>2, <2>7 DEF Flows, Coming
  <2>9. Recalled' BY <1>1, <1>2, <2>2, <2>3, <2>4, RecalledByRead DEF Flows
  <2>10. StateOK' BY <1>1, <2>2, <2>5 DEF Flows, StateOK
  <2>11. Flows' BY <1>1, <2>2, <2>8, <2>9, <2>10 DEF Flows
  <2> QED BY <2>2, <2>4, <2>6, <2>11 DEF Account
<1>3. CASE ~IsAnswer(odr)
  <2>1. UNCHANGED <<h, mixed>> BY <1>3 DEF Read, ReadAnswer, ReadKey
  <2>2. HostIdle' BY <1>1, <2>1 DEF Account, HostIdle
  <2>3. (NothingComes => NothingComes') /\ (Coming => Coming')
    BY <1>1, <1>3, <2>1 DEF NothingComes, Coming, Rest
  <2> QED BY <1>1, <2>1, <2>2, <2>3, BytesMove
<1> QED BY <1>2, <1>3

LEMMA AccountByPower == Types /\ Account /\ ~lost /\ (PowerOff \/ PowerOn) => Account'
<1> SUFFICES ASSUME Types, Account, ~lost, PowerOff \/ PowerOn PROVE Account' OBVIOUS
<1>1. h.c = "none"
  BY DEF PowerOff, PowerOn, Account, HostIdle
<1>2. /\ UNCHANGED <<fromQ, resend, st, h, mixed, toSend, kbQ>>
      /\ odr' = odr \/ (odr' = None /\ fromQ = << >>)
  BY DEF PowerOff, PowerOn, queues, threads, host, marks, Quiet
<1>3. HostIdle' BY <1>1, <1>2 DEF Account, HostIdle
<1>4. h.want = << >> BY <1>1 DEF Account, HostIdle
<1>5. NothingComes => NothingComes' BY <1>2, NoneIsNoAnswer DEF NothingComes
<1>6. Coming => Coming' BY <1>2, <1>4, NoneIsNoAnswer DEF Coming, Rest
<1> QED BY <1>2, <1>3, <1>5, <1>6, BytesMove

LEMMA AccountStep == Types /\ Account /\ [KbcNext]_kbcVars => Account'
<1> SUFFICES ASSUME Types, Account, [KbcNext]_kbcVars PROVE Account' OBVIOUS
<1>1. CASE lost BY <1>1, LostStays DEF Account
<1>2. CASE lost' BY <1>2 DEF Account
<1>3. CASE ~lost /\ ~lost'
  <2>1. CASE UNCHANGED <<fromQ, resend, st, h, mixed, odr, toSend, kbQ, on>>
    <3>1. HostIdle' BY <1>3, <2>1 DEF Account, HostIdle
    <3>2. (NothingComes => NothingComes') /\ (Coming => Coming')
      BY <2>1 DEF NothingComes, Coming, Rest
    <3> QED BY <1>3, <2>1, <3>1, <3>2, BytesMove
  <2>2. CASE KbcGap \/ Suspend \/ Wakes \/ Resume \/ Commit \/ UNCHANGED kbcVars
    BY <2>1, <2>2
    DEF KbcGap, Suspend, Wakes, Resume, Commit, kbcVars, kbc, queues, threads, host, mode, marks
  <2>3. ~GiveUp BY <1>3 DEF GiveUp
  <2>4. CASE Host
    BY <1>3, <2>2, <2>3, <2>4, AccountByRequest, AccountByParameter, AccountByDone,
       AccountByRead DEF Host
  <2>5. CASE KbcThread
    BY <1>3, <2>2, <2>5, AccountByGet, AccountByOp, AccountBySend, AccountByRetry DEF KbcThread
  <2> QED
    BY <1>3, <2>2, <2>4, <2>5, AccountByKbThread, AccountByUser, AccountByPower
    DEF KbcNext, PwrThread
<1> QED BY <1>1, <1>2, <1>3

(* No byte of an answer comes out of order, late to the next command or as *)
(* a key, although a byte the KBC thread cannot write in time goes through *)
(* the queue of the key bytes (kbchost.c, handle_from_to_host()): unless a *)
(* byte was dropped, the host reads the answers as it asked for them.      *)
THEOREM AnswersAreInOrder == KbcSpec => []AnswersMatch
<1>1. KbcInit => Account
  <2> SUFFICES ASSUME KbcInit PROVE Account OBVIOUS
  <2>1. /\ h.c = "none" /\ h.want = << >> /\ ~h.par /\ h.last = << >> /\ ~mixed /\ on
        /\ fromQ = << >> /\ kbQ = << >> /\ odr = None /\ toSend = << >> /\ resend = << >>
        /\ st = "default"
    BY DEF KbcInit, Resting
  <2>2. Coming BY <2>1, NoneIsNoAnswer, RunEmpty DEF Coming, Rest
  <2>3. Flows BY <2>1, <2>2 DEF Flows, Recalled, StateOK
  <2> QED BY <2>1, <2>3 DEF Account, HostIdle
<1>2. Account => AnswersMatch BY DEF Account, AnswersMatch
<1> QED BY <1>1, <1>2, AccountStep, TypesAlways, PTL DEF KbcSpec

(***************************************************************************)
(* What the host will believe.  A stream is the byte o in the register and *)
(* the queue q behind it, for a host that has seen E0 (e) and believes the *)
(* keys d down.  Byte 0 is the one in the register.                        *)
(***************************************************************************)
Names == BOOLEAN \X KeyNames
Plain == KeyBytes \ {Prefix}
PrintNames == {<<TRUE, "prtsc">>, <<TRUE, "fakeshift">>}
Silent == {"pause", "break"}     (* they have no break code *)

Byte(q, o, j) == IF j = 0 THEN o ELSE q[j]
Pending(o, e) == o = Prefix \/ (e /\ o \notin KeyBytes)
Extends(q, o, e, j) ==
  IF j = 0 THEN e ELSE IF j = 1 THEN Pending(o, e) ELSE q[j - 1] = Prefix
Named(q, o, e, j, x) ==
  /\ Byte(q, o, j) \in Plain
  /\ x = <<IF Extends(q, o, e, j) THEN TRUE ELSE FALSE, Byte(q, o, j).key>>
Makes(q, o, e, j, x) ==
  Named(q, o, e, j, x) /\ ~Byte(q, o, j).up /\ Byte(q, o, j).key \notin Silent
Breaks(q, o, e, j, x) == Named(q, o, e, j, x) /\ Byte(q, o, j).up

(* the host believes x down once it has read the stream *)
Stays(q, o, e, d, x) ==
  \/ x \in d /\ \A m \in 0..Len(q) : ~Breaks(q, o, e, m, x)
  \/ \E j \in 0..Len(q) :
       Makes(q, o, e, j, x) /\ \A m \in 0..Len(q) : j < m => ~Breaks(q, o, e, m, x)

(* each prefix stands before its key *)
Framed(q, o, e) ==
  /\ \A j \in 1..Len(q) : q[j] = Prefix => j < Len(q) /\ q[j + 1] \in Plain
  /\ Pending(o, e) => q # << >> /\ q[1] \in Plain

(* what a stream of its own makes and breaks *)
MakesCode(c, x) == Stays(c, None, FALSE, {}, x)
BreaksCode(c, x) == \E j \in 1..Len(c) : Breaks(c, None, FALSE, j, x)
FramedCode(c) == Framed(c, None, FALSE)

(* the key of the host that a code names *)
HostName(id) == IF id \in Extended THEN <<TRUE, id>> ELSE <<FALSE, id>>

(* the keys of the host that a key held down may hold down *)
Downs(k, fl) ==
  CASE k = "fn" \/ k = "pause" -> {}
    [] k # "fn" /\ k # "pause" /\ "fn" \in fl /\ k \notin CtrlKeys ->
         IF k = "right" THEN {HostName("end")} ELSE {}
    [] k = "u" /\ "num" \in fl /\ "fn" \notin fl -> {HostName("pad4")}
    [] k = "prtsc" /\ "fn" \notin fl -> PrintNames
    [] OTHER -> {HostName(k)}
HeldDown(x) == \E k \in held : x \in Downs(k, flags)

Believed == e0 \in BOOLEAN /\ down \subseteq Names
Keyed ==
  /\ on /\ Framed(kbQ, odr, e0)
  /\ \A x \in Names : Stays(kbQ, odr, e0, down, x) => HeldDown(x) /\ ~hotkey
  /\ "ctrl" \in flags => held \cap CtrlKeys # {}
  /\ timer => FramedCode(tp) /\ \A x \in Names : MakesCode(tp, x) => HeldDown(x)
KeysInv == Believed /\ (clean => Keyed)

LEMMA NoneIsNoKey == None \notin KeyBytes /\ None # Prefix
<1>1. None.key = "none" BY DEF None
<1>2. \A b \in KeyBytes : b.key \in KeyNames BY DEF KeyBytes
<1>3. "none" \notin KeyNames BY DEF KeyNames, AllKeys
<1>4. Prefix.key = "E0" BY DEF Prefix
<1> QED BY <1>1, <1>2, <1>3, <1>4

LEMMA PrefixIsKey == Prefix \in KeyBytes
BY DEF Prefix, KeyBytes, KeyNames

(* Equal bytes at equal places in their codes do the same. *)
LEMMA SameByte ==
  ASSUME NEW q, NEW o, NEW e, NEW j, NEW r, NEW u, NEW f, NEW l,
         Byte(q, o, j) = Byte(r, u, l), Extends(q, o, e, j) <=> Extends(r, u, f, l)
  PROVE  \A x : /\ Makes(q, o, e, j, x) <=> Makes(r, u, f, l, x)
                /\ Breaks(q, o, e, j, x) <=> Breaks(r, u, f, l, x)
BY DEF Makes, Breaks, Named

LEMMA OtherByte ==
  ASSUME NEW q, NEW o, NEW e, NEW j, Byte(q, o, j) \notin Plain
  PROVE  \A x : ~Makes(q, o, e, j, x) /\ ~Breaks(q, o, e, j, x)
BY DEF Makes, Breaks, Named

LEMMA FirstSilent ==
  ASSUME NEW o, o \notin Plain
  PROVE  \A q, e, x : ~Makes(q, o, e, 0, x) /\ ~Breaks(q, o, e, 0, x)
<1>1. \A q : Byte(q, o, 0) = o BY DEF Byte
<1> QED BY <1>1, OtherByte

LEMMA NotPlain == None \notin Plain /\ Prefix \notin Plain /\ \A o : o \notin KeyBytes => o \notin Plain
BY NoneIsNoKey DEF Plain

LEMMA NonePends == \A e : (Pending(None, e) <=> e) /\ ~Pending(None, FALSE)
BY NoneIsNoKey DEF Pending

(***************************************************************************)
(* A code that is appended is read after all that is in the stream.        *)
(***************************************************************************)
LEMMA AppendedBytes ==
  ASSUME NEW q \in Seq(Bytes), NEW o, NEW e, NEW c \in Seq(Bytes), Framed(q, o, e)
  PROVE  /\ Len(q \o c) = Len(q) + Len(c) /\ Len(q) \in Nat /\ Len(c) \in Nat
         /\ \A j \in 0..Len(q) : \A x :
              /\ Makes(q \o c, o, e, j, x) <=> Makes(q, o, e, j, x)
              /\ Breaks(q \o c, o, e, j, x) <=> Breaks(q, o, e, j, x)
         /\ \A j \in 1..Len(c) : \A x :
              /\ Makes(q \o c, o, e, Len(q) + j, x) <=> Makes(c, None, FALSE, j, x)
              /\ Breaks(q \o c, o, e, Len(q) + j, x) <=> Breaks(c, None, FALSE, j, x)
<1> DEFINE s == q \o c
<1>1. /\ Len(s) = Len(q) + Len(c) /\ Len(q) \in Nat /\ Len(c) \in Nat
      /\ \A j \in 1..Len(q) : s[j] = q[j]
      /\ \A j \in 1..Len(s) : ~(j <= Len(q)) =>
           j - Len(q) \in 1..Len(c) /\ s[j] = c[j - Len(q)]
  BY ConcatParts
<1> HIDE DEF s
<1>2. \A j \in 1..Len(c) : s[Len(q) + j] = c[j]
  <2> SUFFICES ASSUME NEW j \in 1..Len(c) PROVE s[Len(q) + j] = c[j] OBVIOUS
  <2>1. Len(q) + j \in 1..Len(s) /\ ~(Len(q) + j <= Len(q)) BY <1>1
  <2>2. (Len(q) + j) - Len(q) = j BY <1>1
  <2> QED BY <1>1, <2>1, <2>2
<1>3. ASSUME NEW j \in 0..Len(q)
      PROVE  Byte(s, o, j) = Byte(q, o, j) /\ (Extends(s, o, e, j) <=> Extends(q, o, e, j))
  <2>1. CASE j = 0 BY <2>1 DEF Byte, Extends
  <2>2. CASE j = 1
    <3>1. 1 \in 1..Len(q) BY <1>1, <2>2
    <3> QED BY <1>1, <2>2, <3>1 DEF Byte, Extends
  <2>3. CASE j # 0 /\ j # 1
    <3>1. j \in 1..Len(q) /\ j - 1 \in 1..Len(q) BY <1>1, <2>3
    <3>2. s[j] = q[j] /\ s[j - 1] = q[j - 1] BY <1>1, <3>1
    <3> QED BY <2>3, <3>2 DEF Byte, Extends
  <2> QED BY <2>1, <2>2, <2>3
<1>4. ASSUME NEW j \in 1..Len(c)
      PROVE  /\ Byte(s, o, Len(q) + j) = Byte(c, None, j)
             /\ Extends(s, o, e, Len(q) + j) <=> Extends(c, None, FALSE, j)
  <2>1. Len(q) + j # 0 /\ j # 0 /\ (j # 1 => Len(q) + j # 1) BY <1>1
  <2>2. Byte(s, o, Len(q) + j) = Byte(c, None, j) BY <1>2, <2>1 DEF Byte
  <2>3. CASE j = 1
    <3>1. ~Extends(c, None, FALSE, 1) BY NonePends DEF Extends
    <3>2. CASE q = << >>
      <4>1. Len(q) = 0 BY <3>2, Empty
      <4>2. Extends(s, o, e, 1) <=> Pending(o, e) BY DEF Extends
      <4>3. ~Pending(o, e) BY <3>2 DEF Framed
      <4>4. Len(q) + j = 1 BY <2>3, <4>1
      <4> QED BY <2>2, <2>3, <3>1, <4>2, <4>3, <4>4
    <3>3. CASE q # << >>
      <4>1. Len(q) \in 1..Len(q) BY <1>1, <3>3, EmptySeq
      <4>2. Len(q) + j # 1 /\ (Len(q) + j) - 1 = Len(q) BY <1>1, <2>3, <4>1
      <4>3. Extends(s, o, e, Len(q) + j) <=> s[Len(q)] = Prefix
        BY <2>1, <4>2 DEF Extends
      <4>4. s[Len(q)] = q[Len(q)] /\ q[Len(q)] # Prefix BY <1>1, <4>1 DEF Framed
      <4> QED BY <2>2, <2>3, <3>1, <4>3, <4>4
    <3> QED BY <3>2, <3>3
  <2>4. CASE j # 1
    <3>1. j - 1 \in 1..Len(c) /\ (Len(q) + j) - 1 = Len(q) + (j - 1) BY <1>1, <2>4
    <3>2. s[(Len(q) + j) - 1] = c[j - 1] BY <1>2, <3>1
    <3>3. Extends(s, o, e, Len(q) + j) <=> s[(Len(q) + j) - 1] = Prefix
      BY <2>1, <2>4 DEF Extends
    <3>4. Extends(c, None, FALSE, j) <=> c[j - 1] = Prefix BY <2>1, <2>4 DEF Extends
    <3> QED BY <2>2, <3>2, <3>3, <3>4
  <2> QED BY <2>3, <2>4
<1>5. ASSUME NEW j \in 0..Len(q)
      PROVE  \A x : /\ Makes(s, o, e, j, x) <=> Makes(q, o, e, j, x)
                    /\ Breaks(s, o, e, j, x) <=> Breaks(q, o, e, j, x)
  BY <1>3, SameByte
<1>6. ASSUME NEW j \in 1..Len(c)
      PROVE  \A x : /\ Makes(s, o, e, Len(q) + j, x) <=> Makes(c, None, FALSE, j, x)
                    /\ Breaks(s, o, e, Len(q) + j, x) <=> Breaks(c, None, FALSE, j, x)
  BY <1>4, SameByte
<1> QED BY <1>1, <1>5, <1>6 DEF s

LEMMA StaysAppended ==
  ASSUME NEW q \in Seq(Bytes), NEW o, NEW e, NEW d, NEW c \in Seq(Bytes), Framed(q, o, e),
         NEW x, Stays(q \o c, o, e, d, x)
  PROVE  MakesCode(c, x) \/ (Stays(q, o, e, d, x) /\ ~BreaksCode(c, x))
<1> DEFINE s == q \o c
<1>1. /\ Len(s) = Len(q) + Len(c) /\ Len(q) \in Nat /\ Len(c) \in Nat
      /\ \A j \in 0..Len(q) : /\ Makes(s, o, e, j, x) <=> Makes(q, o, e, j, x)
                              /\ Breaks(s, o, e, j, x) <=> Breaks(q, o, e, j, x)
      /\ \A j \in 1..Len(c) :
           /\ Makes(s, o, e, Len(q) + j, x) <=> Makes(c, None, FALSE, j, x)
           /\ Breaks(s, o, e, Len(q) + j, x) <=> Breaks(c, None, FALSE, j, x)
  BY AppendedBytes
<1>2. Stays(s, o, e, d, x) OBVIOUS
<1> HIDE DEF s
<1>3. /\ \A m \in 0..Len(q) : m \in 0..Len(s)
      /\ \A m \in 1..Len(c) : Len(q) + m \in 0..Len(s)
  BY <1>1
<1>4. CASE x \in d /\ \A m \in 0..Len(s) : ~Breaks(s, o, e, m, x)
  <2>1. \A m \in 0..Len(q) : ~Breaks(q, o, e, m, x) BY <1>1, <1>3, <1>4
  <2>2. \A m \in 1..Len(c) : ~Breaks(c, None, FALSE, m, x) BY <1>1, <1>3, <1>4
  <2> QED BY <1>4, <2>1, <2>2 DEF Stays, BreaksCode
<1>5. ASSUME NEW j \in 0..Len(s), Makes(s, o, e, j, x),
             \A m \in 0..Len(s) : j < m => ~Breaks(s, o, e, m, x)
      PROVE  MakesCode(c, x) \/ (Stays(q, o, e, d, x) /\ ~BreaksCode(c, x))
  <2>1. CASE j <= Len(q)
    <3>1. j \in 0..Len(q) BY <1>1, <2>1
    <3>2. Makes(q, o, e, j, x) BY <1>1, <1>5, <3>1
    <3>3. \A m \in 0..Len(q) : j < m => ~Breaks(q, o, e, m, x) BY <1>1, <1>3, <1>5
    <3>4. \A m \in 1..Len(c) : j < Len(q) + m BY <1>1, <2>1
    <3>5. \A m \in 1..Len(c) : ~Breaks(c, None, FALSE, m, x) BY <1>1, <1>3, <1>5, <3>4
    <3> QED BY <3>1, <3>2, <3>3, <3>5 DEF Stays, BreaksCode
  <2>2. CASE ~(j <= Len(q))
    <3>1. PICK l \in 1..Len(c) : j = Len(q) + l
      <4>1. j - Len(q) \in 1..Len(c) /\ j = Len(q) + (j - Len(q)) BY <1>1, <2>2
      <4> QED BY <4>1
    <3>2. Makes(c, None, FALSE, l, x) BY <1>1, <1>5, <3>1
    <3>3. ASSUME NEW m \in 0..Len(c), l < m PROVE ~Breaks(c, None, FALSE, m, x)
      <4>1. m \in 1..Len(c) /\ j < Len(q) + m BY <1>1, <3>1, <3>3
      <4> QED BY <1>1, <1>3, <1>5, <4>1
    <3>4. l \in 0..Len(c) BY <3>1
    <3> QED BY <3>2, <3>3, <3>4 DEF Stays, MakesCode
  <2> QED BY <2>1, <2>2
<1> QED BY <1>2, <1>4, <1>5 DEF Stays

LEMMA FramedAppended ==
  ASSUME NEW q \in Seq(Bytes), NEW o, NEW e, NEW c \in Seq(Bytes), Framed(q, o, e),
         FramedCode(c)
  PROVE  Framed(q \o c, o, e)
<1> DEFINE s == q \o c
<1>1. /\ Len(s) = Len(q) + Len(c) /\ Len(q) \in Nat /\ Len(c) \in Nat
      /\ \A j \in 1..Len(q) : s[j] = q[j]
      /\ \A j \in 1..Len(s) : ~(j <= Len(q)) =>
           j - Len(q) \in 1..Len(c) /\ s[j] = c[j - Len(q)]
  BY ConcatParts
<1> HIDE DEF s
<1>2. ASSUME NEW j \in 1..Len(s), s[j] = Prefix PROVE j < Len(s) /\ s[j + 1] \in Plain
  <2>1. CASE j <= Len(q)
    <3>1. j \in 1..Len(q) BY <1>1, <2>1
    <3>2. j < Len(q) /\ q[j + 1] \in Plain BY <1>1, <1>2, <3>1 DEF Framed
    <3>3. j + 1 \in 1..Len(q) BY <1>1, <3>1, <3>2
    <3> QED BY <1>1, <3>2, <3>3
  <2>2. CASE ~(j <= Len(q))
    <3>1. j - Len(q) \in 1..Len(c) /\ s[j] = c[j - Len(q)] BY <1>1, <2>2
    <3>2. j - Len(q) < Len(c) /\ c[(j - Len(q)) + 1] \in Plain
      BY <1>2, <3>1 DEF Framed, FramedCode
    <3>3. j < Len(s) /\ j + 1 \in 1..Len(s) /\ ~(j + 1 <= Len(q))
          /\ (j + 1) - Len(q) = (j - Len(q)) + 1
      BY <1>1, <2>2, <3>2
    <3>4. s[j + 1] = c[(j + 1) - Len(q)] BY <1>1, <3>3
    <3> QED BY <3>2, <3>3, <3>4
  <2> QED BY <2>1, <2>2
<1>3. ASSUME Pending(o, e) PROVE s # << >> /\ s[1] \in Plain
  <2>1. q # << >> /\ q[1] \in Plain BY <1>3 DEF Framed
  <2>2. 1 \in 1..Len(q) BY <1>1, <2>1, EmptySeq
  <2>3. Len(s) # 0 BY <1>1, <2>2
  <2> QED BY <1>1, <2>1, <2>2, <2>3, Empty
<1>4. Framed(s, o, e) BY <1>2, <1>3 DEF Framed
<1> QED BY <1>4 DEF s

(***************************************************************************)
(* The stream moves on: the KB thread writes the next byte, the host reads *)
(* one.                                                                    *)
(***************************************************************************)
LEMMA StreamWritten ==
  ASSUME NEW q \in Seq(Bytes), q # << >>, NEW e, NEW d, Framed(q, None, e)
  PROVE  /\ Framed(Tail(q), Head(q), e)
         /\ \A x : Stays(Tail(q), Head(q), e, d, x) => Stays(q, None, e, d, x)
<1> DEFINE t == Tail(q)
           b == Head(q)
<1>1. /\ t \in Seq(Bytes) /\ b = q[1] /\ Len(t) = Len(q) - 1 /\ Len(q) \in Nat \ {0}
      /\ Len(t) \in Nat /\ \A j \in 1..Len(t) : t[j] = q[j + 1]
  BY HeadTailProperties, LenProperties, EmptySeq
<1> HIDE DEF t, b
<1>2. e => b \in Plain BY <1>1, NonePends DEF Framed
<1>3. Pending(b, e) <=> b = Prefix BY <1>2, NotPlain DEF Pending, Plain
<1>4. Framed(t, b, e)
  <2>1. ASSUME NEW j \in 1..Len(t), t[j] = Prefix PROVE j < Len(t) /\ t[j + 1] \in Plain
    <3>1. j + 1 \in 1..Len(q) /\ q[j + 1] = Prefix BY <1>1, <2>1
    <3>2. j + 1 < Len(q) /\ q[(j + 1) + 1] \in Plain BY <3>1 DEF Framed
    <3>3. j < Len(t) /\ j + 1 \in 1..Len(t) BY <1>1, <3>2
    <3> QED BY <1>1, <3>2, <3>3
  <2>2. ASSUME Pending(b, e) PROVE t # << >> /\ t[1] \in Plain
    <3>1. 1 \in 1..Len(q) /\ q[1] = Prefix BY <1>1, <1>3, <2>2
    <3>2. 1 < Len(q) /\ q[1 + 1] \in Plain BY <3>1 DEF Framed
    <3>3. 1 \in 1..Len(t) /\ Len(t) # 0 BY <1>1, <3>2
    <3> QED BY <1>1, <3>2, <3>3, Empty
  <2> QED BY <2>1, <2>2 DEF Framed
<1>5. ASSUME NEW j \in 0..Len(t)
      PROVE  /\ Byte(t, b, j) = Byte(q, None, j + 1)
             /\ Extends(t, b, e, j) <=> Extends(q, None, e, j + 1)
  <2>1. j + 1 # 0 /\ (j + 1) - 1 = j /\ (j + 1 = 1 <=> j = 0) BY <1>1
  <2>2. Byte(t, b, j) = Byte(q, None, j + 1)
    <3>1. CASE j = 0 BY <1>1, <3>1 DEF Byte
    <3>2. CASE j # 0
      <4>1. j \in 1..Len(t) BY <1>1, <3>2
      <4> QED BY <1>1, <2>1, <3>2, <4>1 DEF Byte
    <3> QED BY <3>1, <3>2
  <2>3. CASE j = 0
    <3>1. Extends(t, b, e, 0) <=> e BY DEF Extends
    <3>2. Extends(q, None, e, 1) <=> e
      <4>1. Extends(q, None, e, 1) <=> Pending(None, e) BY DEF Extends
      <4>2. Pending(None, e) <=> e BY NoneIsNoKey DEF Pending
      <4> QED BY <4>1, <4>2
    <3>3. j + 1 = 1 BY <2>3
    <3> QED BY <2>2, <2>3, <3>1, <3>2, <3>3
  <2>4. CASE j # 0
    <3>1. Extends(q, None, e, j + 1) <=> q[(j + 1) - 1] = Prefix
      BY <2>1, <2>4 DEF Extends
    <3>2. CASE j = 1
      <4>1. Extends(t, b, e, 1) <=> Pending(b, e) BY DEF Extends
      <4>2. (j + 1) - 1 = 1 BY <3>2
      <4> QED BY <1>1, <1>3, <2>2, <3>1, <3>2, <4>1, <4>2
    <3>3. CASE j # 1
      <4>1. Extends(t, b, e, j) <=> t[j - 1] = Prefix BY <2>4, <3>3 DEF Extends
      <4>2. j - 1 \in 1..Len(t) /\ (j - 1) + 1 = j BY <1>1, <2>4, <3>3
      <4>3. t[j - 1] = q[j] BY <1>1, <4>2
      <4> QED BY <2>1, <2>2, <3>1, <4>1, <4>3
    <3> QED BY <3>2, <3>3
  <2> QED BY <2>3, <2>4
<1>6. ASSUME NEW j \in 0..Len(t)
      PROVE  \A x : /\ Makes(t, b, e, j, x) <=> Makes(q, None, e, j + 1, x)
                    /\ Breaks(t, b, e, j, x) <=> Breaks(q, None, e, j + 1, x)
  BY <1>5, SameByte
<1>7. \A m \in 0..Len(q) : m = 0 \/ (m - 1 \in 0..Len(t) /\ (m - 1) + 1 = m) BY <1>1
<1>8. \A x : ~Breaks(q, None, e, 0, x) BY NotPlain, FirstSilent
<1>9. ASSUME NEW x, Stays(t, b, e, d, x) PROVE Stays(q, None, e, d, x)
  <2>1. CASE x \in d /\ \A m \in 0..Len(t) : ~Breaks(t, b, e, m, x)
    <3>1. ASSUME NEW m \in 0..Len(q) PROVE ~Breaks(q, None, e, m, x)
      <4>1. CASE m = 0 BY <1>8, <4>1
      <4>2. CASE m # 0
        <5>1. m - 1 \in 0..Len(t) /\ (m - 1) + 1 = m BY <1>7, <4>2
        <5>2. ~Breaks(t, b, e, m - 1, x) BY <2>1, <5>1
        <5> QED BY <1>6, <5>1, <5>2
      <4> QED BY <4>1, <4>2
    <3> QED BY <2>1, <3>1 DEF Stays
  <2>2. ASSUME NEW j \in 0..Len(t), Makes(t, b, e, j, x),
               \A m \in 0..Len(t) : j < m => ~Breaks(t, b, e, m, x)
        PROVE  Stays(q, None, e, d, x)
    <3>1. j + 1 \in 0..Len(q) /\ Makes(q, None, e, j + 1, x) BY <1>1, <1>6, <2>2
    <3>2. ASSUME NEW m \in 0..Len(q), j + 1 < m PROVE ~Breaks(q, None, e, m, x)
      <4>1. m - 1 \in 0..Len(t) /\ (m - 1) + 1 = m /\ j < m - 1 BY <1>1, <3>2
      <4>2. ~Breaks(t, b, e, m - 1, x) BY <2>2, <4>1
      <4> QED BY <1>6, <4>1, <4>2
    <3> QED BY <3>1, <3>2 DEF Stays
  <2> QED BY <1>9, <2>1, <2>2 DEF Stays
<1> QED BY <1>4, <1>9 DEF t, b

(* Streams that differ in what is no key: an answer is written, read or    *)
(* thrown away.                                                            *)
LEMMA OtherRegister ==
  ASSUME NEW q \in Seq(Bytes), NEW o, NEW u, o \notin KeyBytes, u \notin KeyBytes,
         NEW e, NEW d, Framed(q, o, e)
  PROVE  /\ Framed(q, u, e)
         /\ \A x : Stays(q, u, e, d, x) => Stays(q, o, e, d, x)
<1>1. o # Prefix /\ u # Prefix BY PrefixIsKey
<1>2. Pending(o, e) <=> Pending(u, e) BY <1>1 DEF Pending
<1>3. Framed(q, u, e) BY <1>2 DEF Framed
<1>4. Len(q) \in Nat BY LenProperties
<1>5. ASSUME NEW j \in 0..Len(q)
      PROVE  \A x : /\ Makes(q, u, e, j, x) <=> Makes(q, o, e, j, x)
                    /\ Breaks(q, u, e, j, x) <=> Breaks(q, o, e, j, x)
  <2>1. CASE j = 0 BY <2>1, NotPlain, FirstSilent
  <2>2. CASE j # 0
    <3>1. Byte(q, u, j) = Byte(q, o, j) BY <2>2 DEF Byte
    <3>2. Extends(q, u, e, j) <=> Extends(q, o, e, j) BY <1>2, <2>2 DEF Extends
    <3> QED BY <3>1, <3>2, SameByte
  <2> QED BY <2>1, <2>2
<1>6. ASSUME NEW x, Stays(q, u, e, d, x) PROVE Stays(q, o, e, d, x)
  BY <1>5, <1>6 DEF Stays
<1> QED BY <1>3, <1>6

(* The queue is emptied and holds no keys. *)
LEMMA StreamPurged ==
  ASSUME NEW q \in Seq(Bytes), ~HoldsKeys(q), NEW o, NEW e, NEW d, Framed(q, o, e)
  PROVE  /\ Framed(<< >>, o, e)
         /\ \A x : Stays(<< >>, o, e, d, x) => Stays(q, o, e, d, x)
<1>1. Len(<< >>) = 0 /\ Len(q) \in Nat BY Empty, LenProperties
<1>2. ASSUME NEW j \in 1..Len(q) PROVE q[j] \notin KeyBytes
  <2>1. DOMAIN q = 1..Len(q) BY LenProperties
  <2>2. IsAnswer(q[j]) BY <2>1 DEF HoldsKeys
  <2> QED BY <2>2, KeyByte
<1>3. ~Pending(o, e)
  <2>1. ASSUME q # << >> PROVE q[1] \notin Plain
    <3>1. 1 \in 1..Len(q) BY <1>1, <2>1, EmptySeq
    <3> QED BY <1>2, <3>1 DEF Plain
  <2> QED BY <2>1 DEF Framed
<1>4. Framed(<< >>, o, e) BY <1>1, <1>3 DEF Framed
<1>5. ASSUME NEW j \in 1..Len(q) PROVE \A x : ~Breaks(q, o, e, j, x)
  <2>1. j # 0 BY <1>1
  <2>2. Byte(q, o, j) \notin Plain BY <1>2, <2>1 DEF Byte, Plain
  <2> QED BY <2>2, OtherByte
<1>6. \A x : /\ Makes(<< >>, o, e, 0, x) <=> Makes(q, o, e, 0, x)
             /\ Breaks(<< >>, o, e, 0, x) <=> Breaks(q, o, e, 0, x)
  <2>1. Byte(<< >>, o, 0) = Byte(q, o, 0) BY DEF Byte
  <2>2. Extends(<< >>, o, e, 0) <=> Extends(q, o, e, 0) BY DEF Extends
  <2> QED BY <2>1, <2>2, SameByte
<1>7. \A m \in 0..Len(q) : m = 0 \/ m \in 1..Len(q) BY <1>1
<1>8. 0 \in 0..Len(q) /\ \A j : j \in 0..Len(<< >>) <=> j = 0 BY <1>1
<1>9. ASSUME NEW x, Stays(<< >>, o, e, d, x) PROVE Stays(q, o, e, d, x)
  <2>1. CASE x \in d /\ ~Breaks(<< >>, o, e, 0, x)
    <3>1. \A m \in 0..Len(q) : ~Breaks(q, o, e, m, x) BY <1>5, <1>6, <1>7, <2>1
    <3> QED BY <2>1, <3>1 DEF Stays
  <2>2. CASE Makes(<< >>, o, e, 0, x)
    <3>1. \A m \in 0..Len(q) : 0 < m => ~Breaks(q, o, e, m, x) BY <1>5, <1>7
    <3> QED BY <1>6, <1>8, <2>2, <3>1 DEF Stays
  <2> QED BY <1>8, <1>9, <2>1, <2>2 DEF Stays
<1> QED BY <1>4, <1>9

(* The host reads a key. *)
LEMMA KeyRead ==
  ASSUME NEW q \in Seq(Bytes), NEW o \in KeyBytes, NEW e \in BOOLEAN, NEW d, NEW f, NEW g,
         Framed(q, o, e), f \in BOOLEAN, f <=> o = Prefix,
         g = IF o = Prefix THEN d
             ELSE IF o.up THEN d \ {<<e, o.key>>}
             ELSE IF o.key \in Silent THEN d
             ELSE d \cup {<<e, o.key>>}
  PROVE  /\ Framed(q, None, f)
         /\ \A x : Stays(q, None, f, g, x) => Stays(q, o, e, d, x)
<1>1. (Pending(None, f) <=> f) /\ (Pending(o, e) <=> f) BY NonePends DEF Pending
<1>2. Framed(q, None, f) BY <1>1 DEF Framed
<1>3. Len(q) \in Nat BY LenProperties
<1>4. ASSUME NEW j \in 1..Len(q)
      PROVE  \A x : /\ Makes(q, None, f, j, x) <=> Makes(q, o, e, j, x)
                    /\ Breaks(q, None, f, j, x) <=> Breaks(q, o, e, j, x)
  <2>1. j # 0 BY <1>3
  <2>2. Byte(q, None, j) = Byte(q, o, j) BY <2>1 DEF Byte
  <2>3. Extends(q, None, f, j) <=> Extends(q, o, e, j) BY <1>1, <2>1 DEF Extends
  <2> QED BY <2>2, <2>3, SameByte
<1>5. \A x : ~Makes(q, None, f, 0, x) /\ ~Breaks(q, None, f, 0, x) BY NotPlain, FirstSilent
<1>6. \A m \in 0..Len(q) : m = 0 \/ m \in 1..Len(q) BY <1>3
<1>7. ASSUME NEW x PROVE Named(q, o, e, 0, x) <=> o # Prefix /\ x = <<e, o.key>>
  <2>1. Byte(q, o, 0) = o BY DEF Byte
  <2>2. (IF Extends(q, o, e, 0) THEN TRUE ELSE FALSE) = e
    <3>1. CASE e = TRUE BY <3>1 DEF Extends
    <3>2. CASE e = FALSE BY <3>2 DEF Extends
    <3> QED BY <3>1, <3>2
  <2>3. o \in Plain <=> o # Prefix BY DEF Plain
  <2> QED BY <2>1, <2>2, <2>3 DEF Named
<1>8. \A x : /\ Breaks(q, o, e, 0, x) <=> o # Prefix /\ x = <<e, o.key>> /\ o.up
             /\ Makes(q, o, e, 0, x) <=>
                  o # Prefix /\ x = <<e, o.key>> /\ ~o.up /\ o.key \notin Silent
  <2>1. Byte(q, o, 0) = o BY DEF Byte
  <2> QED BY <1>7, <2>1 DEF Breaks, Makes
<1>9. ASSUME NEW x, Stays(q, None, f, g, x) PROVE Stays(q, o, e, d, x)
  <2>1. ASSUME x \in g, \A m \in 0..Len(q) : ~Breaks(q, None, f, m, x)
        PROVE  Stays(q, o, e, d, x)
    <3>1. \A m \in 1..Len(q) : ~Breaks(q, o, e, m, x)
      <4>1. \A m \in 1..Len(q) : m \in 0..Len(q) BY <1>3
      <4> QED BY <1>4, <2>1, <4>1
    <3>2. CASE Makes(q, o, e, 0, x)
      <4>1. \A m \in 0..Len(q) : 0 < m => ~Breaks(q, o, e, m, x) BY <1>6, <3>1
      <4>2. 0 \in 0..Len(q) BY <1>3
      <4> QED BY <3>2, <4>1, <4>2 DEF Stays
    <3>3. CASE ~Makes(q, o, e, 0, x)
      <4>1. x \in d /\ ~Breaks(q, o, e, 0, x)
        <5>1. CASE o = Prefix BY <1>8, <2>1, <5>1
        <5>2. CASE o # Prefix /\ o.up BY <1>8, <2>1, <5>2
        <5>3. CASE o # Prefix /\ ~o.up BY <1>8, <2>1, <3>3, <5>3
        <5> QED BY <5>1, <5>2, <5>3
      <4>2. \A m \in 0..Len(q) : ~Breaks(q, o, e, m, x) BY <1>6, <3>1, <4>1
      <4> QED BY <4>1, <4>2 DEF Stays
    <3> QED BY <3>2, <3>3
  <2>2. ASSUME NEW j \in 0..Len(q), Makes(q, None, f, j, x),
               \A m \in 0..Len(q) : j < m => ~Breaks(q, None, f, m, x)
        PROVE  Stays(q, o, e, d, x)
    <3>1. j \in 1..Len(q) BY <1>5, <1>6, <2>2
    <3>2. Makes(q, o, e, j, x) BY <1>4, <2>2, <3>1
    <3>3. ASSUME NEW m \in 0..Len(q), j < m PROVE ~Breaks(q, o, e, m, x)
      <4>1. m \in 1..Len(q) BY <1>3, <3>1, <3>3
      <4> QED BY <1>4, <2>2, <3>3, <4>1
    <3> QED BY <3>2, <3>3, <2>2 DEF Stays
  <2> QED BY <1>9, <2>1, <2>2 DEF Stays
<1> QED BY <1>2, <1>9

(***************************************************************************)
(* What the codes of the matrix make and break                             *)
(***************************************************************************)
LEMMA EmptyCode == FramedCode(<< >>) /\ \A x : ~MakesCode(<< >>, x) /\ ~BreaksCode(<< >>, x)
<1>1. Len(<< >>) = 0 BY Empty
<1>2. \A x : ~Makes(<< >>, None, FALSE, 0, x) BY NotPlain, FirstSilent
<1>3. FramedCode(<< >>)
  <2>1. \A j \in 1..Len(<< >>) : FALSE BY <1>1
  <2> QED BY <2>1, NonePends DEF Framed, FramedCode
<1>4. \A j \in 0..Len(<< >>) : j = 0 BY <1>1
<1>5. \A x : ~MakesCode(<< >>, x) BY <1>2, <1>4 DEF Stays, MakesCode
<1>6. \A x : ~BreaksCode(<< >>, x) BY <1>1 DEF BreaksCode
<1> QED BY <1>3, <1>5, <1>6

(* A byte alone, and one behind its prefix *)
LEMMA OneByte ==
  ASSUME NEW b \in Plain
  PROVE  /\ FramedCode(<<b>>)
         /\ \A x : MakesCode(<<b>>, x) => ~b.up /\ b.key \notin Silent /\ x = <<FALSE, b.key>>
         /\ b.up => BreaksCode(<<b>>, <<FALSE, b.key>>)
<1> DEFINE c == <<b>>
<1>1. Len(c) = 1 /\ c[1] = b OBVIOUS
<1> HIDE DEF c
<1>2. \A j \in 1..Len(c) : c[j] # Prefix BY <1>1 DEF Plain
<1>3. FramedCode(c) BY <1>2, NonePends DEF FramedCode, Framed
<1>4. Byte(c, None, 1) = b /\ ~Extends(c, None, FALSE, 1)
  <2>1. Byte(c, None, 1) = b BY <1>1 DEF Byte
  <2>2. Extends(c, None, FALSE, 1) <=> Pending(None, FALSE) BY DEF Extends
  <2> QED BY <2>1, <2>2, NonePends
<1>5. \A x : Named(c, None, FALSE, 1, x) <=> x = <<FALSE, b.key>> BY <1>4 DEF Named
<1>6. \A x : ~Makes(c, None, FALSE, 0, x) BY NotPlain, FirstSilent
<1>7. \A j \in 0..Len(c) : j = 0 \/ j = 1 BY <1>1
<1>8. ASSUME NEW x, MakesCode(c, x)
      PROVE  ~b.up /\ b.key \notin Silent /\ x = <<FALSE, b.key>>
  <2>1. Makes(c, None, FALSE, 1, x) BY <1>6, <1>7, <1>8 DEF MakesCode, Stays
  <2> QED BY <1>4, <1>5, <2>1 DEF Makes
<1>9. ASSUME b.up PROVE BreaksCode(c, <<FALSE, b.key>>)
  <2>1. Breaks(c, None, FALSE, 1, <<FALSE, b.key>>) BY <1>4, <1>5, <1>9 DEF Breaks
  <2>2. 1 \in 1..Len(c) BY <1>1
  <2> QED BY <2>1, <2>2 DEF BreaksCode
<1> QED BY <1>3, <1>8, <1>9 DEF c

LEMMA PrefixedByte ==
  ASSUME NEW b \in Plain
  PROVE  /\ FramedCode(<<Prefix, b>>)
         /\ \A x : MakesCode(<<Prefix, b>>, x) =>
              ~b.up /\ b.key \notin Silent /\ x = <<TRUE, b.key>>
         /\ b.up => BreaksCode(<<Prefix, b>>, <<TRUE, b.key>>)
<1> DEFINE c == <<Prefix, b>>
<1>1. Len(c) = 2 /\ c[1] = Prefix /\ c[2] = b OBVIOUS
<1> HIDE DEF c
<1>2. FramedCode(c)
  <2>1. ASSUME NEW j \in 1..Len(c), c[j] = Prefix PROVE j < Len(c) /\ c[j + 1] \in Plain
    <3>1. j = 1 \/ j = 2 BY <1>1
    <3>2. j = 1 BY <1>1, <2>1, <3>1 DEF Plain
    <3> QED BY <1>1, <3>2
  <2> QED BY <2>1, NonePends DEF FramedCode, Framed
<1>3. Byte(c, None, 2) = b /\ Extends(c, None, FALSE, 2)
  <2>1. 2 # 0 /\ 2 # 1 /\ 2 - 1 = 1 OBVIOUS
  <2> QED BY <1>1, <2>1 DEF Byte, Extends
<1>4. \A x : Named(c, None, FALSE, 2, x) <=> x = <<TRUE, b.key>> BY <1>3 DEF Named
<1>5. \A x : ~Makes(c, None, FALSE, 0, x) BY NotPlain, FirstSilent
<1>6. \A x : ~Makes(c, None, FALSE, 1, x)
  <2>1. Byte(c, None, 1) = Prefix BY <1>1 DEF Byte
  <2> QED BY <2>1, NotPlain, OtherByte
<1>7. \A j \in 0..Len(c) : j = 0 \/ j = 1 \/ j = 2 BY <1>1
<1>8. ASSUME NEW x, MakesCode(c, x)
      PROVE  ~b.up /\ b.key \notin Silent /\ x = <<TRUE, b.key>>
  <2>1. Makes(c, None, FALSE, 2, x) BY <1>5, <1>6, <1>7, <1>8 DEF MakesCode, Stays
  <2> QED BY <1>3, <1>4, <2>1 DEF Makes
<1>9. ASSUME b.up PROVE BreaksCode(c, <<TRUE, b.key>>)
  <2>1. Breaks(c, None, FALSE, 2, <<TRUE, b.key>>) BY <1>3, <1>4, <1>9 DEF Breaks
  <2>2. 2 \in 1..Len(c) BY <1>1
  <2> QED BY <2>1, <2>2 DEF BreaksCode
<1> QED BY <1>2, <1>8, <1>9 DEF c

(* A code makes only the names in s, or breaks them all. *)
MakesOnly(c, s) == c \in Seq(Bytes) /\ FramedCode(c) /\ \A x : MakesCode(c, x) => x \in s
BreaksAll(c, s) == \A x \in s : BreaksCode(c, x)

LEMMA CodeMakes ==
  ASSUME NEW id \in KeyNames, id # "E0"
  PROVE  /\ MakesOnly(Code(id, FALSE), {HostName(id)})
         /\ id \in Silent => MakesOnly(Code(id, FALSE), {})
         /\ MakesOnly(Code(id, TRUE), {}) /\ BreaksAll(Code(id, TRUE), {HostName(id)})
<1> DEFINE m == [key |-> id, up |-> FALSE]
           b == [key |-> id, up |-> TRUE]
<1>1. m \in Plain /\ b \in Plain /\ m.key = id /\ b.key = id /\ ~m.up /\ b.up
  BY DEF Plain, KeyBytes, Prefix
<1>2. Code(id, FALSE) \in Seq(Bytes) /\ Code(id, TRUE) \in Seq(Bytes)
  BY CodeType, KeysAreBytes
<1>3. CASE id \in Extended
  <2>1. Code(id, FALSE) = <<Prefix, m>> /\ Code(id, TRUE) = <<Prefix, b>>
        /\ HostName(id) = <<TRUE, id>>
    BY <1>3 DEF Code, HostName
  <2> HIDE DEF m, b
  <2>2. /\ FramedCode(<<Prefix, m>>) /\ FramedCode(<<Prefix, b>>)
        /\ \A x : MakesCode(<<Prefix, m>>, x) => id \notin Silent /\ x = <<TRUE, id>>
        /\ \A x : ~MakesCode(<<Prefix, b>>, x)
        /\ BreaksCode(<<Prefix, b>>, <<TRUE, id>>)
    BY <1>1, PrefixedByte
  <2> QED BY <1>2, <2>1, <2>2 DEF MakesOnly, BreaksAll
<1>4. CASE id \notin Extended
  <2>1. Code(id, FALSE) = <<m>> /\ Code(id, TRUE) = <<b>> /\ HostName(id) = <<FALSE, id>>
    BY <1>4 DEF Code, HostName
  <2> HIDE DEF m, b
  <2>2. /\ FramedCode(<<m>>) /\ FramedCode(<<b>>)
        /\ \A x : MakesCode(<<m>>, x) => id \notin Silent /\ x = <<FALSE, id>>
        /\ \A x : ~MakesCode(<<b>>, x)
        /\ BreaksCode(<<b>>, <<FALSE, id>>)
    BY <1>1, OneByte
  <2> QED BY <1>2, <2>1, <2>2 DEF MakesOnly, BreaksAll
<1> QED BY <1>3, <1>4

LEMMA TwoCodes ==
  ASSUME NEW s \in Seq(Bytes), NEW t \in Seq(Bytes), NEW u, NEW v
  PROVE  /\ MakesOnly(s, u) /\ MakesOnly(t, v) => MakesOnly(s \o t, u \cup v)
         /\ FramedCode(s) /\ BreaksAll(s, u) /\ BreaksAll(t, v) => BreaksAll(s \o t, u \cup v)
<1>1. s \o t \in Seq(Bytes) BY ConcatProperties
<1>2. ASSUME MakesOnly(s, u), MakesOnly(t, v) PROVE MakesOnly(s \o t, u \cup v)
  <2>1. FramedCode(s \o t) BY <1>2, FramedAppended DEF FramedCode, MakesOnly
  <2>2. ASSUME NEW x, MakesCode(s \o t, x) PROVE x \in u \cup v
    <3>1. Stays(s \o t, None, FALSE, {}, x) BY <2>2 DEF MakesCode
    <3>2. Framed(s, None, FALSE) BY <1>2 DEF MakesOnly, FramedCode
    <3>3. MakesCode(t, x) \/ MakesCode(s, x) BY <3>1, <3>2, StaysAppended DEF MakesCode
    <3> QED BY <1>2, <3>3 DEF MakesOnly
  <2> QED BY <1>1, <2>1, <2>2 DEF MakesOnly
<1>3. ASSUME FramedCode(s), BreaksAll(s, u), BreaksAll(t, v), NEW x \in u \cup v
      PROVE  BreaksCode(s \o t, x)
  <2>1. Framed(s, None, FALSE) BY <1>3 DEF FramedCode
  <2>2. /\ Len(s \o t) = Len(s) + Len(t) /\ Len(s) \in Nat /\ Len(t) \in Nat
        /\ \A j \in 0..Len(s) :
             Breaks(s \o t, None, FALSE, j, x) <=> Breaks(s, None, FALSE, j, x)
        /\ \A j \in 1..Len(t) :
             Breaks(s \o t, None, FALSE, Len(s) + j, x) <=> Breaks(t, None, FALSE, j, x)
    BY <2>1, AppendedBytes
  <2>3. CASE BreaksCode(s, x)
    <3>1. PICK j \in 1..Len(s) : Breaks(s, None, FALSE, j, x) BY <2>3 DEF BreaksCode
    <3>2. j \in 0..Len(s) /\ j \in 1..Len(s \o t) BY <2>2
    <3> QED BY <2>2, <3>1, <3>2 DEF BreaksCode
  <2>4. CASE BreaksCode(t, x)
    <3>1. PICK j \in 1..Len(t) : Breaks(t, None, FALSE, j, x) BY <2>4 DEF BreaksCode
    <3>2. Len(s) + j \in 1..Len(s \o t) BY <2>2
    <3> QED BY <2>2, <3>1, <3>2 DEF BreaksCode
  <2> QED BY <1>3, <2>3, <2>4 DEF BreaksAll
<1> QED BY <1>2, <1>3 DEF BreaksAll

LEMMA PrintScreenMakes ==
  /\ MakesOnly(PrintScreen(FALSE, FALSE), PrintNames)
  /\ MakesOnly(PrintScreen(FALSE, TRUE), {})
  /\ BreaksAll(PrintScreen(FALSE, TRUE), PrintNames)
<1> DEFINE code(id, u) == <<Prefix, [key |-> id, up |-> u]>>
<1>1. PrintScreen(FALSE, FALSE) = code("fakeshift", FALSE) \o code("prtsc", FALSE)
  BY DEF PrintScreen
<1>2. PrintScreen(FALSE, TRUE) = code("prtsc", TRUE) \o code("fakeshift", TRUE)
  BY DEF PrintScreen
<1>3. ASSUME NEW id \in {"prtsc", "fakeshift"}
      PROVE  /\ MakesOnly(code(id, FALSE), {<<TRUE, id>>})
             /\ MakesOnly(code(id, TRUE), {}) /\ BreaksAll(code(id, TRUE), {<<TRUE, id>>})
  <2> DEFINE m == [key |-> id, up |-> FALSE]
             b == [key |-> id, up |-> TRUE]
  <2>1. m \in Plain /\ b \in Plain /\ m.key = id /\ b.key = id /\ ~m.up /\ b.up
    BY DEF Plain, KeyBytes, Prefix, KeyNames, AllKeys
  <2>2. Prefix \in Bytes /\ m \in Bytes /\ b \in Bytes
    BY <2>1, PrefixIsKey DEF Bytes, Plain
  <2> HIDE DEF m, b
  <2>3. <<Prefix, m>> \in Seq(Bytes) /\ <<Prefix, b>> \in Seq(Bytes) BY <2>2
  <2>4. MakesOnly(<<Prefix, m>>, {<<TRUE, id>>}) /\ MakesOnly(<<Prefix, b>>, {})
        /\ BreaksAll(<<Prefix, b>>, {<<TRUE, id>>})
    BY <2>1, <2>3, PrefixedByte DEF MakesOnly, BreaksAll
  <2> QED BY <2>4 DEF m, b
<1> HIDE DEF code
<1>4. \A id \in {"prtsc", "fakeshift"} : \A u \in BOOLEAN : code(id, u) \in Seq(Bytes)
  BY <1>3 DEF MakesOnly
<1>5. {<<TRUE, "fakeshift">>} \cup {<<TRUE, "prtsc">>} = PrintNames
      /\ {<<TRUE, "prtsc">>} \cup {<<TRUE, "fakeshift">>} = PrintNames
  BY DEF PrintNames
<1>6. MakesOnly(PrintScreen(FALSE, FALSE), PrintNames)
  <2>1. /\ code("fakeshift", FALSE) \in Seq(Bytes) /\ code("prtsc", FALSE) \in Seq(Bytes)
        /\ MakesOnly(code("fakeshift", FALSE), {<<TRUE, "fakeshift">>})
        /\ MakesOnly(code("prtsc", FALSE), {<<TRUE, "prtsc">>})
    BY <1>3, <1>4
  <2>2. MakesOnly(code("fakeshift", FALSE) \o code("prtsc", FALSE),
                  {<<TRUE, "fakeshift">>} \cup {<<TRUE, "prtsc">>})
    BY <2>1, TwoCodes
  <2> QED BY <1>1, <1>5, <2>2
<1>7. MakesOnly(PrintScreen(FALSE, TRUE), {} \cup {}) BY <1>2, <1>3, <1>4, TwoCodes
<1>8. BreaksAll(PrintScreen(FALSE, TRUE), PrintNames)
  <2>1. /\ code("prtsc", TRUE) \in Seq(Bytes) /\ code("fakeshift", TRUE) \in Seq(Bytes)
        /\ BreaksAll(code("prtsc", TRUE), {<<TRUE, "prtsc">>})
        /\ BreaksAll(code("fakeshift", TRUE), {<<TRUE, "fakeshift">>})
    BY <1>3, <1>4
  <2>2. FramedCode(code("prtsc", TRUE)) BY <1>3 DEF MakesOnly
  <2>3. BreaksAll(code("prtsc", TRUE) \o code("fakeshift", TRUE),
                  {<<TRUE, "prtsc">>} \cup {<<TRUE, "fakeshift">>})
    BY <2>1, <2>2, TwoCodes
  <2> QED BY <1>2, <1>5, <2>3
<1>9. {} \cup {} = {} OBVIOUS
<1> QED BY <1>6, <1>7, <1>8, <1>9

(* The layer a key is translated with *)
SameLayer(f, g) == ("fn" \in f <=> "fn" \in g) /\ ("num" \in f <=> "num" \in g)
LEMMA LayerDowns == \A k, f, g : SameLayer(f, g) => Downs(k, f) = Downs(k, g)
BY DEF SameLayer, Downs

LEMMA OrdinaryCodes ==
  ASSUME NEW k \in AllKeys, k # "fn", NEW fl, "fn" \notin fl \/ k \in CtrlKeys,
         k = "prtsc" => "ctrl" \notin fl
  PROVE  /\ MakesOnly(ScanCode(k, fl, TRUE), Downs(k, fl))
         /\ MakesOnly(ScanCode(k, fl, FALSE), {})
         /\ BreaksAll(ScanCode(k, fl, FALSE), Downs(k, fl))
<1>1. /\ k \in KeyNames /\ k # "E0" /\ "pad4" \in KeyNames /\ "break" \in KeyNames
      /\ "pause" \in KeyNames
  BY DEF KeyNames, AllKeys
<1>2. CASE k = "u" /\ "num" \in fl
  <2>1. ScanCode(k, fl, TRUE) = Code("pad4", FALSE) /\ ScanCode(k, fl, FALSE) = Code("pad4", TRUE)
    BY <1>2 DEF ScanCode
  <2>2. Downs(k, fl) = {HostName("pad4")} BY <1>2 DEF Downs, CtrlKeys
  <2> QED BY <1>1, <2>1, <2>2, CodeMakes
<1>3. CASE k = "prtsc"
  <2>1. ScanCode(k, fl, TRUE) = PrintScreen(FALSE, FALSE)
        /\ ScanCode(k, fl, FALSE) = PrintScreen(FALSE, TRUE)
    <3>1. ("ctrl" \in fl) = FALSE BY <1>3
    <3>2. ScanCode(k, fl, TRUE) = PrintScreen("ctrl" \in fl, ~TRUE)
          /\ ScanCode(k, fl, FALSE) = PrintScreen("ctrl" \in fl, ~FALSE)
      BY <1>3 DEF ScanCode
    <3>3. (~TRUE) = FALSE /\ (~FALSE) = TRUE OBVIOUS
    <3> QED BY <3>1, <3>2, <3>3
  <2>2. Downs(k, fl) = PrintNames BY <1>3 DEF Downs, CtrlKeys
  <2> QED BY <2>1, <2>2, PrintScreenMakes
<1>4. CASE k = "pause"
  <2>1. PICK id \in {"pause", "break"} :
          ScanCode(k, fl, TRUE) = Code(id, FALSE) /\ ScanCode(k, fl, FALSE) = Code(id, FALSE)
    BY <1>4 DEF ScanCode
  <2>2. Downs(k, fl) = {} BY <1>4 DEF Downs
  <2>3. MakesOnly(Code(id, FALSE), {})
    <3>1. id \in KeyNames /\ id # "E0" /\ id \in Silent BY <1>1 DEF Silent
    <3> QED BY <3>1, CodeMakes
  <2>4. BreaksAll(Code(id, FALSE), {}) BY DEF BreaksAll
  <2> QED BY <2>1, <2>2, <2>3, <2>4
<1>5. CASE ~(k = "u" /\ "num" \in fl) /\ k # "prtsc" /\ k # "pause"
  <2>1. ScanCode(k, fl, TRUE) = Code(k, FALSE) /\ ScanCode(k, fl, FALSE) = Code(k, TRUE)
    BY <1>5 DEF ScanCode
  <2>2. Downs(k, fl) = {HostName(k)} BY <1>5 DEF Downs, CtrlKeys
  <2> QED BY <1>1, <2>1, <2>2, CodeMakes
<1> QED BY <1>2, <1>3, <1>4, <1>5

(* A key the keyboard's table knows, and print screen without ctrl *)
Regular(k) ==
  /\ k # "fn" /\ FnCombination(k) => FnType(k) \in {"code", "unmapped", "sci"}
  /\ k = "prtsc" => "ctrl" \notin flags
SciKey(k) == k # "fn" /\ FnCombination(k) /\ FnType(k) = "sci"

LEMMA HomeCode ==
  ASSUME NEW k, FnType(k) = "code"
  PROVE  k = "right" /\ \A fl : "fn" \in fl => Downs(k, fl) = {HostName("end")}
<1>1. k = "right" BY DEF FnType
<1> QED BY <1>1 DEF Downs, CtrlKeys

LEMMA NoCode == \A s : MakesOnly(<< >>, s)
<1>1. << >> \in Seq(Bytes) BY EmptySeq
<1> QED BY <1>1, EmptyCode DEF MakesOnly

LEMMA MakeEffect ==
  ASSUME MatrixOK, NEW k \in Keys, Regular(k), NEW o \in Make(k)
  PROVE  /\ MakesOnly(o.code, Downs(k, o.flags))
         /\ o.hotkey => (hotkey \/ SciKey(k)) /\ (SciKey(k) => o.code = << >>)
         /\ "ctrl" \in o.flags => "ctrl" \in flags \/ k \in CtrlKeys
         /\ k \notin {"fn", "num"} => SameLayer(flags, o.flags)
<1>1. k \in AllKeys /\ flags \in Flags BY KbsMatrixAssumption DEF MatrixOK, Flags
<1>2. /\ Nothing.flags = flags /\ Nothing.hotkey = hotkey /\ Nothing.code = << >>
      /\ ~Nothing.repeats
  BY DEF Nothing, Outcome
<1>3. CASE k = "fn"
  <2>1. o = [Nothing EXCEPT !.flags = flags \cup {"fn"}] BY <1>3 DEF Make
  <2>2. o.flags = flags \cup {"fn"} /\ o.code = << >> /\ o.hotkey = hotkey
    BY <2>1 DEF Nothing, Outcome
  <2> QED BY <1>3, <2>2, NoCode DEF SciKey
<1>4. CASE k # "fn" /\ FnCombination(k)
  <2>1. o \in FnMake(k) BY <1>4 DEF Make
  <2>2. CASE FnType(k) = "code"
    <3>1. o.code = Code("end", FALSE) /\ o.flags = flags /\ o.hotkey = hotkey
      BY <2>1, <2>2 DEF FnMake, Nothing, Outcome
    <3>2. MakesOnly(Code("end", FALSE), {HostName("end")}) BY CodeMakes DEF KeyNames
    <3>3. Downs(k, flags) = {HostName("end")} BY <1>4, <2>2, HomeCode DEF FnCombination
    <3> QED BY <2>2, <3>1, <3>2, <3>3 DEF SameLayer, SciKey
  <2>3. CASE FnType(k) = "unmapped"
    <3>1. o = Nothing BY <2>1, <2>3 DEF FnMake
    <3> QED BY <1>2, <2>3, <3>1, NoCode DEF SameLayer, SciKey
  <2>4. CASE FnType(k) = "sci"
    <3>1. o.code = << >> /\ o.flags = flags BY <2>1, <2>4 DEF FnMake, Nothing, Outcome
    <3> QED BY <1>4, <2>4, <3>1, NoCode DEF SameLayer, SciKey
  <2> QED BY <1>4, <2>2, <2>3, <2>4 DEF Regular
<1>5. CASE k # "fn" /\ ~FnCombination(k)
  <2> DEFINE fl == Modifiers(k, TRUE)
  <2>1. o.flags = fl /\ o.code = ScanCode(k, fl, TRUE) /\ ~o.hotkey
    <3>1. o = Outcome(fl, FALSE, ScanCode(k, fl, TRUE), k # "pause")
      <4>1. Make(k) = OrdinaryMake(k) BY <1>5 DEF Make
      <4> QED BY <4>1 DEF OrdinaryMake
    <3> HIDE DEF fl
    <3>2. \A r : LET u == Outcome(fl, FALSE, ScanCode(k, fl, TRUE), r)
                IN u.flags = fl /\ u.code = ScanCode(k, fl, TRUE) /\ ~u.hotkey
      BY DEF Outcome
    <3> QED BY <3>1, <3>2
  <2>2. /\ "fn" \in fl <=> "fn" \in flags
        /\ k # "num" => ("num" \in fl <=> "num" \in flags)
        /\ "ctrl" \in fl <=> "ctrl" \in flags \/ k \in CtrlKeys
    BY DEF Modifiers, CtrlKeys
  <2> HIDE DEF fl
  <2>3. "fn" \notin fl \/ k \in CtrlKeys BY <1>5, <2>2 DEF FnCombination
  <2>4. k = "prtsc" => "ctrl" \notin fl BY <2>2 DEF Regular, CtrlKeys
  <2>5. MakesOnly(ScanCode(k, fl, TRUE), Downs(k, fl))
    BY <1>1, <1>5, <2>3, <2>4, OrdinaryCodes
  <2> QED BY <2>1, <2>2, <2>5 DEF SameLayer
<1> QED BY <1>3, <1>4, <1>5

LEMMA BreakEffect ==
  ASSUME MatrixOK, NEW k \in Keys, Regular(k), NEW o \in Break(k)
  PROVE  /\ MakesOnly(o.code, {}) /\ BreaksAll(o.code, Downs(k, flags))
         /\ o.hotkey = hotkey /\ ~o.repeats
         /\ "ctrl" \in o.flags => "ctrl" \in flags /\ k \notin CtrlKeys
         /\ k # "fn" => SameLayer(flags, o.flags)
<1>1. k \in AllKeys /\ flags \in Flags BY KbsMatrixAssumption DEF MatrixOK, Flags
<1>2. /\ Nothing.flags = flags /\ Nothing.hotkey = hotkey /\ Nothing.code = << >>
      /\ ~Nothing.repeats
  BY DEF Nothing, Outcome
<1>3. ~o.repeats BY OutcomeType
<1>4. CASE k = "fn"
  <2>1. o = [Nothing EXCEPT !.flags = flags \ {"fn"}] BY <1>4 DEF Break
  <2>2. o.flags = flags \ {"fn"} /\ o.code = << >> /\ o.hotkey = hotkey
    BY <2>1 DEF Nothing, Outcome
  <2>3. Downs(k, flags) = {} BY <1>4 DEF Downs
  <2>4. k \notin CtrlKeys BY <1>4 DEF CtrlKeys
  <2> QED BY <1>3, <1>4, <2>2, <2>3, <2>4, NoCode DEF BreaksAll
<1>5. CASE k # "fn" /\ FnCombination(k)
  <2>1. o \in FnBreak(k) BY <1>5 DEF Break
  <2>2. k \notin CtrlKeys /\ "fn" \in flags BY <1>5 DEF FnCombination
  <2>3. CASE FnType(k) = "code"
    <3>1. o.code = Code("end", TRUE) /\ o.flags = flags /\ o.hotkey = hotkey
      BY <2>1, <2>3 DEF FnBreak, Nothing, Outcome
    <3>2. MakesOnly(Code("end", TRUE), {}) /\ BreaksAll(Code("end", TRUE), {HostName("end")})
      BY CodeMakes DEF KeyNames
    <3>3. Downs(k, flags) = {HostName("end")} BY <2>2, <2>3, HomeCode
    <3> QED BY <1>3, <2>2, <3>1, <3>2, <3>3 DEF SameLayer
  <2>4. CASE FnType(k) \in {"unmapped", "sci"}
    <3>1. o = Nothing BY <2>1, <2>4 DEF FnBreak
    <3>2. k # "right" BY <2>4 DEF FnType
    <3>3. Downs(k, flags) = {} BY <1>5, <2>2, <3>2 DEF Downs
    <3> QED BY <1>2, <2>2, <3>1, <3>3, NoCode DEF SameLayer, BreaksAll
  <2> QED BY <1>5, <2>3, <2>4 DEF Regular
<1>6. CASE k # "fn" /\ ~FnCombination(k)
  <2> DEFINE fl == Modifiers(k, FALSE)
  <2>1. o.flags = fl /\ o.code = ScanCode(k, fl, FALSE) /\ o.hotkey = hotkey
    <3>1. o = Outcome(fl, hotkey, ScanCode(k, fl, FALSE), FALSE)
      <4>1. Break(k) = OrdinaryBreak(k) BY <1>6 DEF Break
      <4> QED BY <4>1 DEF OrdinaryBreak
    <3> HIDE DEF fl
    <3> QED BY <3>1 DEF Outcome
  <2>2. /\ "fn" \in fl <=> "fn" \in flags
        /\ "num" \in fl <=> "num" \in flags
        /\ "ctrl" \in fl <=> "ctrl" \in flags /\ k \notin CtrlKeys
    BY DEF Modifiers, CtrlKeys
  <2> HIDE DEF fl
  <2>3. "fn" \notin fl \/ k \in CtrlKeys BY <1>6, <2>2 DEF FnCombination
  <2>4. k = "prtsc" => "ctrl" \notin fl BY <2>2 DEF Regular
  <2>5. SameLayer(flags, fl) BY <2>2 DEF SameLayer
  <2>6. Downs(k, fl) = Downs(k, flags) BY <2>5, LayerDowns
  <2>7. /\ MakesOnly(ScanCode(k, fl, FALSE), {})
        /\ BreaksAll(ScanCode(k, fl, FALSE), Downs(k, fl))
    BY <1>1, <1>6, <2>3, <2>4, OrdinaryCodes
  <2> QED BY <1>3, <2>1, <2>2, <2>5, <2>6, <2>7
<1> QED BY <1>4, <1>5, <1>6

(***************************************************************************)
(* The steps.  A step that keeps a clean record had one before; what       *)
(* changes is the stream or what the user holds.                           *)
(***************************************************************************)
LEMMA StreamChanged ==
  ASSUME Keyed, UNCHANGED <<held, flags, hotkey, on>>, Framed(kbQ', odr', e0'),
         \A x \in Names : Stays(kbQ', odr', e0', down', x) => Stays(kbQ, odr, e0, down, x),
         timer' => timer /\ tp' = tp
  PROVE  Keyed'
<1>1. \A x : HeldDown(x)' <=> HeldDown(x) BY DEF HeldDown
<1>2. on' /\ ("ctrl" \in flags' => held' \cap CtrlKeys # {}) BY DEF Keyed
<1>3. \A x \in Names : Stays(kbQ', odr', e0', down', x) => HeldDown(x)' /\ ~hotkey'
  BY <1>1 DEF Keyed
<1>4. timer' => FramedCode(tp') /\ \A x \in Names : MakesCode(tp', x) => HeldDown(x)'
  BY <1>1 DEF Keyed
<1> QED BY <1>2, <1>3, <1>4 DEF Keyed

LEMMA KeysFrame ==
  ASSUME KeysInv, UNCHANGED <<kbsVars, kbQ, odr, e0, down, on>>, clean' => clean
  PROVE  KeysInv'
<1>1. UNCHANGED <<held, flags, hotkey, tp, timer, kbQ, odr, e0, down, on>> BY DEF kbsVars
<1>2. Believed' BY <1>1 DEF KeysInv, Believed
<1>3. ASSUME clean' PROVE Keyed'
  <2>1. Keyed BY <1>3 DEF KeysInv
  <2>2. Framed(kbQ', odr', e0')
        /\ \A x \in Names : Stays(kbQ', odr', e0', down', x) => Stays(kbQ, odr, e0, down, x)
    BY <1>1, <2>1 DEF Keyed
  <2> QED BY <1>1, <2>1, <2>2, StreamChanged
<1> QED BY <1>2, <1>3 DEF KeysInv

LEMMA Called ==
  ASSUME Types, NEW c \in KeyCodes, NEW hot \in BOOLEAN, Callback(c, hot), ~Drops(c, hot)
  PROVE  IF hot THEN kbQ' = kbQ ELSE kbQ' = kbQ \o c
<1>1. kbQ \in Seq(Bytes) /\ Len(kbQ) <= KbLen BY DEF Types, QueuesOK
<1>2. c \in Seq(Bytes) /\ << >> \in Seq(Bytes) BY KeysAreBytes, EmptySeq
<1>3. CASE hot
  <2>1. Accepted(c, hot) = << >> BY <1>3 DEF Accepted
  <2>2. kbQ' = kbQ \o Fitting(<< >>) BY <2>1 DEF Callback, SendToHost
  <2>3. kbQ \o Fitting(<< >>) = kbQ BY <1>1, <1>2, SendType
  <2> QED BY <1>3, <2>2, <2>3
<1>4. CASE ~hot
  <2>1. Accepted(c, hot) = c BY <1>4 DEF Accepted, Drops
  <2>2. kbQ' = kbQ \o Fitting(c) BY <2>1 DEF Callback, SendToHost
  <2>3. ~Overflows(c) BY <2>1 DEF Drops
  <2>4. Fitting(c) = c BY <1>1, <1>2, <2>3, SendType
  <2> QED BY <1>4, <2>2, <2>4
<1> QED BY <1>3, <1>4

LEMMA StillRegular ==
  ASSUME Keyed, NEW k, Disciplined(k)
  PROVE  Regular(k)
BY DEF Keyed, Disciplined, Regular

LEMMA KeysByPress ==
  ASSUME Types, Keyed, NEW k \in Keys \ held, Key(k, TRUE, Make(k)), clean'
  PROVE  Keyed'
<1>1. PICK o \in Make(k) :
        /\ Settle(o, TRUE) /\ Callback(o.code, o.hotkey) /\ Disciplined(k)
        /\ ~Drops(o.code, o.hotkey)
  BY DEF Key
<1>2. o.code \in KeyCodes /\ o.hotkey \in BOOLEAN BY OutcomeType DEF Types, Outcomes
<1>3. Regular(k) BY <1>1, StillRegular
<1>4. /\ MakesOnly(o.code, Downs(k, o.flags))
      /\ o.hotkey => (hotkey \/ SciKey(k)) /\ (SciKey(k) => o.code = << >>)
      /\ "ctrl" \in o.flags => "ctrl" \in flags \/ k \in CtrlKeys
      /\ k \notin {"fn", "num"} => SameLayer(flags, o.flags)
  BY <1>3, MakeEffect DEF Types
<1>5. /\ flags' = o.flags /\ hotkey' = o.hotkey /\ held' = held \cup {k}
      /\ timer' => tp' = o.code
      /\ UNCHANGED <<odr, e0, down, on>>
  BY <1>1 DEF Key, Settle, TimerAfter, host, mode
<1>6. kbQ \in Seq(Bytes) /\ o.code \in Seq(Bytes) BY <1>2, KeysAreBytes DEF Types, QueuesOK
<1>7. ASSUME NEW x, x \in Downs(k, o.flags) PROVE HeldDown(x)' BY <1>5, <1>7 DEF HeldDown
<1>8. ASSUME NEW x, HeldDown(x) PROVE HeldDown(x)'
  <2>1. PICK l \in held : x \in Downs(l, flags) BY <1>8 DEF HeldDown
  <2>2. k \notin {"fn", "num"} BY <1>1, <2>1 DEF Disciplined
  <2>3. Downs(l, o.flags) = Downs(l, flags) BY <1>4, <2>2, LayerDowns
  <2> QED BY <1>5, <2>1, <2>3 DEF HeldDown
<1>9. Framed(kbQ, odr, e0) /\ on BY DEF Keyed
<1>10. Framed(kbQ', odr, e0) /\ \A x \in Names :
         Stays(kbQ', odr, e0, down, x) => HeldDown(x)' /\ ~o.hotkey
  <2>1. CASE o.hotkey
    <3>1. kbQ' = kbQ BY <1>1, <1>2, <2>1, Called
    <3>2. ASSUME NEW x \in Names, Stays(kbQ, odr, e0, down, x) PROVE FALSE
      <4>1. HeldDown(x) /\ ~hotkey BY <3>2 DEF Keyed
      <4>2. SciKey(k) BY <1>4, <2>1, <4>1
      <4>3. held \subseteq {"fn", k} BY <1>1, <4>2 DEF Disciplined, SciKey
      <4>4. held \subseteq {"fn"} BY <4>3
      <4>5. \A fl : Downs("fn", fl) = {} BY DEF Downs
      <4> QED BY <4>1, <4>4, <4>5 DEF HeldDown
    <3> QED BY <1>9, <3>1, <3>2
  <2>2. CASE ~o.hotkey
    <3>1. kbQ' = kbQ \o o.code BY <1>1, <1>2, <2>2, Called
    <3>2. Framed(kbQ', odr, e0) BY <1>4, <1>6, <1>9, <3>1, FramedAppended DEF MakesOnly
    <3>3. ASSUME NEW x \in Names, Stays(kbQ \o o.code, odr, e0, down, x)
          PROVE  HeldDown(x)'
      <4>1. MakesCode(o.code, x) \/ Stays(kbQ, odr, e0, down, x)
        BY <1>6, <1>9, <3>3, StaysAppended
      <4>2. CASE MakesCode(o.code, x) BY <1>4, <1>7, <4>2 DEF MakesOnly
      <4>3. CASE Stays(kbQ, odr, e0, down, x) BY <1>8, <4>3 DEF Keyed
      <4> QED BY <4>1, <4>2, <4>3
    <3> QED BY <2>2, <3>1, <3>2, <3>3
  <2> QED BY <2>1, <2>2
<1>11. "ctrl" \in flags' => held' \cap CtrlKeys # {} BY <1>4, <1>5 DEF Keyed
<1>12. timer' => FramedCode(tp') /\ \A x \in Names : MakesCode(tp', x) => HeldDown(x)'
  BY <1>4, <1>5, <1>7 DEF MakesOnly
<1> QED BY <1>5, <1>9, <1>10, <1>11, <1>12 DEF Keyed

LEMMA KeysByRelease ==
  ASSUME Types, Keyed, NEW k \in held, Key(k, FALSE, Break(k)), clean'
  PROVE  Keyed'
<1>1. PICK o \in Break(k) :
        /\ Settle(o, FALSE) /\ Callback(o.code, o.hotkey) /\ Disciplined(k)
        /\ ~Drops(o.code, o.hotkey)
  BY DEF Key
<1>2. k \in Keys BY DEF Types, MatrixOK
<1>3. o.code \in KeyCodes /\ o.hotkey \in BOOLEAN BY <1>2, OutcomeType DEF Types, Outcomes
<1>4. Regular(k) BY <1>1, StillRegular
<1>5. /\ MakesOnly(o.code, {}) /\ BreaksAll(o.code, Downs(k, flags))
      /\ o.hotkey = hotkey /\ ~o.repeats
      /\ "ctrl" \in o.flags => "ctrl" \in flags /\ k \notin CtrlKeys
      /\ k # "fn" => SameLayer(flags, o.flags)
  BY <1>2, <1>4, BreakEffect DEF Types
<1>6. /\ flags' = o.flags /\ hotkey' = hotkey /\ held' = held \ {k} /\ ~timer'
      /\ UNCHANGED <<odr, e0, down, on>>
  BY <1>1, <1>5 DEF Key, Settle, TimerAfter, host, mode
<1>7. kbQ \in Seq(Bytes) /\ o.code \in Seq(Bytes) BY <1>3, KeysAreBytes DEF Types, QueuesOK
<1>8. ASSUME NEW x, HeldDown(x), x \notin Downs(k, flags) PROVE HeldDown(x)'
  <2>1. PICK l \in held : x \in Downs(l, flags) BY <1>8 DEF HeldDown
  <2>2. l # k BY <1>8, <2>1
  <2>3. k # "fn" BY <1>1, <2>1, <2>2 DEF Disciplined
  <2>4. Downs(l, o.flags) = Downs(l, flags) BY <1>5, <2>3, LayerDowns
  <2> QED BY <1>6, <2>1, <2>2, <2>4 DEF HeldDown
<1>9. Framed(kbQ, odr, e0) /\ on BY DEF Keyed
<1>10. Framed(kbQ', odr, e0) /\ \A x \in Names :
         Stays(kbQ', odr, e0, down, x) => HeldDown(x)' /\ ~hotkey
  <2>1. CASE hotkey
    <3>1. kbQ' = kbQ BY <1>1, <1>3, <1>5, <2>1, Called
    <3> QED BY <1>9, <2>1, <3>1 DEF Keyed
  <2>2. CASE ~hotkey
    <3>1. kbQ' = kbQ \o o.code BY <1>1, <1>3, <1>5, <2>2, Called
    <3>2. Framed(kbQ', odr, e0) BY <1>5, <1>7, <1>9, <3>1, FramedAppended DEF MakesOnly
    <3>3. ASSUME NEW x \in Names, Stays(kbQ \o o.code, odr, e0, down, x)
          PROVE  HeldDown(x)'
      <4>1. MakesCode(o.code, x) \/ (Stays(kbQ, odr, e0, down, x) /\ ~BreaksCode(o.code, x))
        BY <1>7, <1>9, <3>3, StaysAppended
      <4>2. Stays(kbQ, odr, e0, down, x) /\ ~BreaksCode(o.code, x)
        BY <1>5, <4>1 DEF MakesOnly
      <4>3. x \notin Downs(k, flags) BY <1>5, <4>2 DEF BreaksAll
      <4>4. HeldDown(x) BY <4>2 DEF Keyed
      <4> QED BY <1>8, <4>3, <4>4
    <3> QED BY <2>2, <3>1, <3>2, <3>3
  <2> QED BY <2>1, <2>2 DEF Types, MatrixOK
<1>11. "ctrl" \in flags' => held' \cap CtrlKeys # {} BY <1>5, <1>6 DEF Keyed
<1> QED BY <1>6, <1>9, <1>10, <1>11 DEF Keyed

LEMMA KeysByRepeat ==
  ASSUME Types, Keyed, Repeat, clean'
  PROVE  Keyed'
<1>1. timer /\ Callback(tp, hotkey) /\ ~Drops(tp, hotkey)
      /\ UNCHANGED <<kbsVars, odr, e0, down, on>>
  BY DEF Repeat, host, mode
<1>2. tp \in KeyCodes /\ tp \in Seq(Bytes) /\ hotkey \in BOOLEAN /\ kbQ \in Seq(Bytes)
  BY KeysAreBytes DEF Types, MatrixOK, QueuesOK
<1>3. FramedCode(tp) /\ \A x \in Names : MakesCode(tp, x) => HeldDown(x) BY <1>1 DEF Keyed
<1>4. UNCHANGED <<held, flags, hotkey, tp, timer>> BY <1>1 DEF kbsVars
<1>5. \A x : HeldDown(x)' <=> HeldDown(x) BY <1>4 DEF HeldDown
<1>6. Framed(kbQ, odr, e0) /\ on BY DEF Keyed
<1>7. Framed(kbQ', odr, e0) /\ \A x \in Names :
        Stays(kbQ', odr, e0, down, x) => HeldDown(x) /\ ~hotkey
  <2>1. CASE hotkey
    <3>1. kbQ' = kbQ BY <1>1, <1>2, <2>1, Called
    <3> QED BY <1>6, <3>1 DEF Keyed
  <2>2. CASE ~hotkey
    <3>1. kbQ' = kbQ \o tp BY <1>1, <1>2, <2>2, Called
    <3>2. Framed(kbQ', odr, e0) BY <1>2, <1>3, <1>6, <3>1, FramedAppended
    <3>3. ASSUME NEW x \in Names, Stays(kbQ \o tp, odr, e0, down, x) PROVE HeldDown(x)
      <4>1. MakesCode(tp, x) \/ Stays(kbQ, odr, e0, down, x)
        BY <1>2, <1>6, <3>3, StaysAppended
      <4> QED BY <1>3, <4>1 DEF Keyed
    <3> QED BY <2>2, <3>1, <3>2, <3>3
  <2> QED BY <2>1, <2>2
<1>8. "ctrl" \in flags' => held' \cap CtrlKeys # {} BY <1>4 DEF Keyed
<1>9. timer' => FramedCode(tp') /\ \A x \in Names : MakesCode(tp', x) => HeldDown(x)'
  BY <1>3, <1>4, <1>5
<1> QED BY <1>1, <1>4, <1>5, <1>6, <1>7, <1>8, <1>9 DEF Keyed

LEMMA AnswersSilent ==
  ASSUME NEW c \in Seq(Bytes), \A j \in 1..Len(c) : c[j] \notin KeyBytes
  PROVE  FramedCode(c) /\ \A x : ~MakesCode(c, x)
<1>1. Len(c) \in Nat BY LenProperties
<1>2. FramedCode(c)
  <2>1. \A j \in 1..Len(c) : c[j] # Prefix BY PrefixIsKey
  <2> QED BY <2>1, NonePends DEF FramedCode, Framed
<1>3. ASSUME NEW j \in 0..Len(c) PROVE \A x : ~Makes(c, None, FALSE, j, x)
  <2>1. CASE j = 0 BY <2>1, NotPlain, FirstSilent
  <2>2. CASE j # 0
    <3>1. j \in 1..Len(c) BY <1>1, <2>2
    <3>2. Byte(c, None, j) \notin Plain BY <2>2, <3>1 DEF Byte, Plain
    <3> QED BY <3>2, OtherByte
  <2> QED BY <2>1, <2>2
<1>4. \A x : ~MakesCode(c, x) BY <1>3 DEF MakesCode, Stays
<1> QED BY <1>2, <1>4

LEMMA AnswerIsNoKey == \A b : IsAnswer(b) => b \notin KeyBytes
BY KeyByte

LEMMA AnswerByteIsNoKey == \A b \in AnswerBytes : b \notin KeyBytes
BY KeyByte DEF AnswerBytes, IsAnswer

LEMMA KeysByOp ==
  ASSUME Types, Keyed, KbcOp, clean'
  PROVE  Keyed'
<1>1. UNCHANGED <<e0, down, on>> BY DEF KbcOp, host, mode
<1>2. kbQ \in Seq(Bytes) /\ Framed(kbQ, odr, e0) BY DEF Types, QueuesOK, Keyed
<1>3. CASE Head(ops) = "purge"
  <2>1. kbQ' = << >> /\ ~HoldsKeys(kbQ) /\ UNCHANGED <<odr, kbsVars>>
    BY <1>3 DEF KbcOp, Purge, PurgeLoses
  <2>2. Framed(<< >>, odr, e0)
        /\ \A x : Stays(<< >>, odr, e0, down, x) => Stays(kbQ, odr, e0, down, x)
    BY <1>2, <2>1, StreamPurged
  <2>3. Framed(kbQ', odr', e0')
        /\ \A x \in Names : Stays(kbQ', odr', e0', down', x) => Stays(kbQ, odr, e0, down, x)
    BY <1>1, <2>1, <2>2
  <2> QED BY <1>1, <2>1, <2>3, StreamChanged DEF kbsVars
<1>4. CASE Head(ops) \in {"off", "on", "stop"}
  <2>1. UNCHANGED <<kbQ, odr, held, flags, hotkey, tp>> /\ (timer' => timer)
    <3>1. CASE Head(ops) = "off" BY <3>1 DEF KbcOp, kbsVars
    <3>2. CASE Head(ops) = "on" BY <3>2 DEF KbcOp, kbsVars
    <3>3. CASE Head(ops) = "stop" BY <3>3 DEF KbcOp, StopRepeat
    <3> QED BY <1>4, <3>1, <3>2, <3>3
  <2>2. Framed(kbQ', odr', e0')
        /\ \A x \in Names : Stays(kbQ', odr', e0', down', x) => Stays(kbQ, odr, e0, down, x)
    BY <1>1, <1>2, <2>1
  <2> QED BY <1>1, <2>1, <2>2, StreamChanged
<1>5. CASE Head(ops) \notin {"purge", "off", "on", "stop"}
  <2>1. odr' = None /\ (odr = None \/ IsAnswer(odr)) /\ UNCHANGED <<kbQ, kbsVars>>
    BY <1>5 DEF KbcOp
  <2>2. odr \notin KeyBytes /\ None \notin KeyBytes BY <2>1, NoneIsNoKey, AnswerIsNoKey
  <2>3. Framed(kbQ, None, e0)
        /\ \A x : Stays(kbQ, None, e0, down, x) => Stays(kbQ, odr, e0, down, x)
    BY <1>2, <2>2, OtherRegister
  <2>4. Framed(kbQ', odr', e0')
        /\ \A x \in Names : Stays(kbQ', odr', e0', down', x) => Stays(kbQ, odr, e0, down, x)
    BY <1>1, <2>1, <2>3
  <2> QED BY <1>1, <2>1, <2>4, StreamChanged DEF kbsVars
<1> QED BY <1>3, <1>4, <1>5

LEMMA KeysBySend ==
  ASSUME Types, Keyed, KbcSend
  PROVE  Keyed'
<1>1. UNCHANGED <<kbsVars, kbQ, e0, down, on>> BY DEF KbcSend, host, mode
<1>2. kbQ \in Seq(Bytes) /\ Framed(kbQ, odr, e0) BY DEF Types, QueuesOK, Keyed
<1>3. Framed(kbQ', odr', e0')
      /\ \A x \in Names : Stays(kbQ', odr', e0', down', x) => Stays(kbQ, odr, e0, down, x)
  <2>1. CASE odr = None
    <3>1. odr' = Head(toSend) BY <2>1 DEF KbcSend
    <3>2. toSend \in Seq(AnswerBytes) /\ toSend # << >> BY DEF KbcSend, Types, ThreadOK
    <3>3. odr' \notin KeyBytes /\ odr \notin KeyBytes
      BY <2>1, <3>1, <3>2, AnswerByteIsNoKey, NoneIsNoKey
    <3>4. Framed(kbQ, odr', e0)
          /\ \A x : Stays(kbQ, odr', e0, down, x) => Stays(kbQ, odr, e0, down, x)
      BY <1>2, <3>3, OtherRegister
    <3> QED BY <1>1, <3>4
  <2>2. CASE odr # None
    <3>1. odr' = odr BY <2>2 DEF KbcSend
    <3> QED BY <1>1, <1>2, <3>1
  <2> QED BY <2>1, <2>2
<1> QED BY <1>1, <1>3, StreamChanged DEF kbsVars

LEMMA KeysByRetry ==
  ASSUME Types, Keyed, KbcRetry
  PROVE  Keyed'
<1>1. UNCHANGED <<kbsVars, odr, e0, down, on>> BY DEF KbcRetry, host, mode
<1>2. kbQ \in Seq(Bytes) /\ Framed(kbQ, odr, e0) BY DEF Types, QueuesOK, Keyed
<1>3. Framed(kbQ', odr', e0')
      /\ \A x \in Names : Stays(kbQ', odr', e0', down', x) => Stays(kbQ, odr, e0, down, x)
  <2>1. CASE tries + 1 = Retries
    <3> DEFINE c == Fitting(toSend)
    <3>1. kbQ' = kbQ \o c BY <2>1 DEF KbcRetry, SendToHost
    <3>2. toSend \in Seq(AnswerBytes) /\ toSend \in Seq(Bytes)
      BY AnswersAreBytes DEF Types, ThreadOK
    <3>3. /\ c \in Seq(Bytes) /\ Len(c) <= Len(toSend)
          /\ \A j \in 1..Len(c) : c[j] = toSend[j]
      BY <3>2, SendType DEF Types, QueuesOK
    <3> HIDE DEF c
    <3>4. ASSUME NEW j \in 1..Len(c) PROVE c[j] \notin KeyBytes
      <4>1. Len(c) \in Nat /\ Len(toSend) \in Nat BY <3>2, <3>3, LenProperties
      <4>2. j \in 1..Len(toSend) BY <3>3, <4>1
      <4>3. toSend[j] \in AnswerBytes BY <3>2, <4>2, ElementOfSeq
      <4> QED BY <3>3, <4>3, AnswerByteIsNoKey
    <3>5. FramedCode(c) /\ \A x : ~MakesCode(c, x) BY <3>3, <3>4, AnswersSilent
    <3>6. Framed(kbQ \o c, odr, e0) BY <1>2, <3>3, <3>5, FramedAppended
    <3>7. ASSUME NEW x, Stays(kbQ \o c, odr, e0, down, x) PROVE Stays(kbQ, odr, e0, down, x)
      BY <1>2, <3>3, <3>5, <3>7, StaysAppended
    <3> QED BY <1>1, <3>1, <3>6, <3>7
  <2>2. CASE tries + 1 # Retries
    <3>1. kbQ' = kbQ BY <2>2 DEF KbcRetry
    <3> QED BY <1>1, <1>2, <3>1
  <2> QED BY <2>1, <2>2
<1> QED BY <1>1, <1>3, StreamChanged DEF kbsVars

LEMMA KeysByBusy ==
  ASSUME Types, Keyed, KbBusy, clean'
  PROVE  Keyed'
<1>1. UNCHANGED <<kbsVars, odr, e0, down, on>> BY DEF KbBusy, host, mode
<1>2. kbQ \in Seq(Bytes) /\ Framed(kbQ, odr, e0) BY DEF Types, QueuesOK, Keyed
<1>3. Framed(kbQ', odr', e0')
      /\ \A x \in Names : Stays(kbQ', odr', e0', down', x) => Stays(kbQ, odr, e0, down, x)
  <2>1. CASE kbQ' = kbQ BY <1>1, <1>2, <2>1
  <2>2. CASE kbQ' # kbQ
    <3>1. kbQ' = << >> /\ ~HoldsKeys(kbQ) BY <2>2 DEF KbBusy, Purge, PurgeLoses
    <3>2. Framed(<< >>, odr, e0)
          /\ \A x : Stays(<< >>, odr, e0, down, x) => Stays(kbQ, odr, e0, down, x)
      BY <1>2, <3>1, StreamPurged
    <3> QED BY <1>1, <3>1, <3>2
  <2> QED BY <2>1, <2>2
<1> QED BY <1>1, <1>3, StreamChanged DEF kbsVars

LEMMA KeysByWrite ==
  ASSUME Types, Keyed, KbWrite
  PROVE  Keyed'
<1>1. /\ kbQ # << >> /\ odr = None /\ odr' = Head(kbQ) /\ kbQ' = Tail(kbQ)
      /\ UNCHANGED <<kbsVars, e0, down, on>>
  BY DEF KbWrite, host
<1>2. kbQ \in Seq(Bytes) /\ Framed(kbQ, None, e0) BY <1>1 DEF Types, QueuesOK, Keyed
<1>3. /\ Framed(Tail(kbQ), Head(kbQ), e0)
      /\ \A x : Stays(Tail(kbQ), Head(kbQ), e0, down, x) => Stays(kbQ, None, e0, down, x)
  BY <1>1, <1>2, StreamWritten
<1>4. Framed(kbQ', odr', e0')
      /\ \A x \in Names : Stays(kbQ', odr', e0', down', x) => Stays(kbQ, odr, e0, down, x)
  BY <1>1, <1>3
<1> QED BY <1>1, <1>4, StreamChanged DEF kbsVars

LEMMA KeysByRead ==
  ASSUME Types, KeysInv, Read
  PROVE  KeysInv'
<1>1. /\ odr # None /\ odr' = None /\ UNCHANGED <<kbsVars, kbQ, on, clean>>
      /\ ReadAnswer \/ ReadKey
  BY DEF Read, mode
<1>2. kbQ \in Seq(Bytes) /\ odr \in Bytes /\ e0 \in BOOLEAN /\ down \subseteq Names
  BY <1>1 DEF Types, QueuesOK, KeysInv, Believed
<1>3. CASE ReadAnswer
  <2>1. IsAnswer(odr) /\ e0' = e0 /\ down' = down BY <1>3 DEF ReadAnswer
  <2>2. odr \notin KeyBytes /\ None \notin KeyBytes BY <2>1, NoneIsNoKey, AnswerIsNoKey
  <2>3. Believed' BY <1>2, <2>1 DEF Believed
  <2>4. ASSUME Keyed PROVE Keyed'
    <3>1. Framed(kbQ, odr, e0) BY <2>4 DEF Keyed
    <3>2. Framed(kbQ, None, e0)
          /\ \A x : Stays(kbQ, None, e0, down, x) => Stays(kbQ, odr, e0, down, x)
      BY <1>2, <2>2, <3>1, OtherRegister
    <3>3. Framed(kbQ', odr', e0')
          /\ \A x \in Names : Stays(kbQ', odr', e0', down', x) => Stays(kbQ, odr, e0, down, x)
      BY <1>1, <2>1, <3>2
    <3> QED BY <1>1, <2>4, <3>3, StreamChanged DEF kbsVars
  <2> QED BY <1>1, <2>3, <2>4 DEF KeysInv
<1>4. CASE ReadKey
  <2>1. odr \in KeyBytes
    <3>1. ~IsAnswer(odr) BY <1>4 DEF ReadKey
    <3>2. \A b \in AnswerBytes : IsAnswer(b) BY DEF AnswerBytes, IsAnswer
    <3> QED BY <1>2, <3>1, <3>2 DEF Bytes
  <2>2. <<e0, odr.key>> \in Names BY <1>2, <2>1 DEF Names, KeyBytes
  <2>3. e0' \in BOOLEAN /\ (e0' <=> odr = Prefix) BY <1>4 DEF ReadKey
  <2>4. down' = IF odr = Prefix THEN down
                ELSE IF odr.up THEN down \ {<<e0, odr.key>>}
                ELSE IF odr.key \in Silent THEN down
                ELSE down \cup {<<e0, odr.key>>}
    BY <1>4 DEF ReadKey, Silent
  <2>5. Believed' BY <1>2, <2>2, <2>3, <2>4 DEF Believed
  <2>6. ASSUME Keyed PROVE Keyed'
    <3>1. Framed(kbQ, odr, e0) BY <2>6 DEF Keyed
    <3>2. Framed(kbQ, None, e0')
          /\ \A x : Stays(kbQ, None, e0', down', x) => Stays(kbQ, odr, e0, down, x)
      BY <1>2, <2>1, <2>3, <2>4, <3>1, KeyRead
    <3>3. Framed(kbQ', odr', e0')
          /\ \A x \in Names : Stays(kbQ', odr', e0', down', x) => Stays(kbQ, odr, e0, down, x)
      BY <1>1, <3>2
    <3> QED BY <1>1, <2>6, <3>3, StreamChanged DEF kbsVars
  <2> QED BY <1>1, <2>5, <2>6 DEF KeysInv
<1> QED BY <1>1, <1>3, <1>4

LEMMA KeysStep == Types /\ KeysInv /\ [KbcNext]_kbcVars => KeysInv'
<1> SUFFICES ASSUME Types, KeysInv, [KbcNext]_kbcVars PROVE KeysInv' OBVIOUS
<1>1. CASE Press
  <2>1. PICK k \in Keys \ held : Key(k, TRUE, Make(k)) BY <1>1 DEF Press
  <2>2. UNCHANGED <<e0, down>> /\ (clean' => clean) BY <2>1 DEF Key, host
  <2> QED BY <2>1, <2>2, KeysByPress DEF KeysInv, Believed
<1>2. CASE Release
  <2>1. PICK k \in held : Key(k, FALSE, Break(k)) BY <1>2 DEF Release
  <2>2. UNCHANGED <<e0, down>> /\ (clean' => clean) BY <2>1 DEF Key, host
  <2> QED BY <2>1, <2>2, KeysByRelease DEF KeysInv, Believed
<1>3. CASE Repeat
  <2>1. UNCHANGED <<e0, down>> /\ (clean' => clean) BY <1>3 DEF Repeat, host
  <2> QED BY <1>3, <2>1, KeysByRepeat DEF KeysInv, Believed
<1>4. CASE KbcOp
  <2>1. UNCHANGED <<e0, down>> /\ (clean' => clean)
    BY <1>4 DEF KbcOp, host, PurgeLoses, StopRepeat
  <2> QED BY <1>4, <2>1, KeysByOp DEF KeysInv, Believed
<1>5. CASE KbcSend
  <2>1. UNCHANGED <<e0, down, clean>> BY <1>5 DEF KbcSend, host, marks
  <2> QED BY <1>5, <2>1, KeysBySend DEF KeysInv, Believed
<1>6. CASE KbcRetry
  <2>1. UNCHANGED <<e0, down, clean>> BY <1>6 DEF KbcRetry, host
  <2> QED BY <1>6, <2>1, KeysByRetry DEF KeysInv, Believed
<1>7. CASE KbBusy
  <2>1. UNCHANGED <<e0, down>> /\ (clean' => clean) BY <1>7 DEF KbBusy, host, PurgeLoses
  <2> QED BY <1>7, <2>1, KeysByBusy DEF KeysInv, Believed
<1>8. CASE KbWrite
  <2>1. UNCHANGED <<e0, down, clean>> BY <1>8 DEF KbWrite, host, marks
  <2> QED BY <1>8, <2>1, KeysByWrite DEF KeysInv, Believed
<1>9. CASE Read BY <1>9, KeysByRead
<1>10. CASE PowerOff
  <2>1. ~clean' /\ e0' = FALSE /\ down' = {} BY <1>10 DEF PowerOff
  <2> QED BY <2>1 DEF KeysInv, Believed
<1>11. CASE PowerOn
  <2>1. ~clean' /\ UNCHANGED <<e0, down>>
    BY <1>11 DEF PowerOn, host, marks, KeysInv, Keyed
  <2> QED BY <2>1 DEF KeysInv, Believed
<1>12. CASE KbcGet \/ KbcGap \/ KbTake \/ KbEmpty \/ KbRetry
  <2>1. UNCHANGED <<kbsVars, kbQ, odr, e0, down, on, clean>>
    BY <1>12 DEF KbcGet, KbcGap, KbTake, KbEmpty, KbRetry, queues, host, mode, marks
  <2> QED BY <2>1, KeysFrame
<1>13. CASE Request \/ SendParameter \/ Done \/ GiveUp
  <2>1. UNCHANGED <<kbsVars, kbQ, odr, e0, down, on, clean>>
    BY <1>13 DEF Request, SendParameter, Done, GiveUp, queues, mode, marks
  <2> QED BY <2>1, KeysFrame
<1>14. CASE Suspend \/ Wakes \/ Commit \/ UNCHANGED kbcVars
  <2>1. UNCHANGED <<kbsVars, kbQ, odr, e0, down, on, clean>>
    BY <1>14 DEF Suspend, Wakes, Commit, kbcVars, queues, host, mode, marks
  <2> QED BY <2>1, KeysFrame
<1>15. CASE Resume
  <2>1. UNCHANGED <<held, flags, hotkey, tp, kbQ, odr, e0, down, on, clean>> /\ ~timer'
    BY <1>15 DEF Resume, EnableInterface, queues, host, marks
  <2>2. ASSUME clean' PROVE Keyed'
    <3>1. Keyed BY <2>1, <2>2 DEF KeysInv
    <3>2. Framed(kbQ', odr', e0')
          /\ \A x \in Names : Stays(kbQ', odr', e0', down', x) => Stays(kbQ, odr, e0, down, x)
      BY <2>1, <3>1 DEF Keyed
    <3> QED BY <2>1, <3>1, <3>2, StreamChanged
  <2> QED BY <2>1, <2>2 DEF KeysInv, Believed
<1> QED
  BY <1>1, <1>2, <1>3, <1>4, <1>5, <1>6, <1>7, <1>8, <1>9, <1>10, <1>11, <1>12, <1>13, <1>14,
     <1>15
  DEF KbcNext, User, KbcThread, KbThread, Host, PwrThread

(* When all keys are up and everything queued is read the host believes no *)
(* key down, for a user who is Disciplined and as long as no key byte was  *)
(* dropped (kbs_matrix.c, make_key() and break_key(); kbchost.c,           *)
(* mtx_keyboard_callback() and both threads).                              *)
THEOREM NoKeyIsStuck == KbcSpec => []NoStuckKey
<1>1. KbcInit => KeysInv
  <2> SUFFICES ASSUME KbcInit PROVE KeysInv OBVIOUS
  <2>1. /\ held = {} /\ flags = {} /\ ~timer /\ kbQ = << >> /\ odr = None
        /\ on /\ down = {} /\ e0 = FALSE
    BY DEF KbcInit, KbsInit
  <2>2. Framed(<< >>, None, FALSE) /\ \A x : ~Stays(<< >>, None, FALSE, {}, x)
    BY EmptyCode DEF FramedCode, MakesCode
  <2>3. Keyed BY <2>1, <2>2 DEF Keyed
  <2> QED BY <2>1, <2>3 DEF KeysInv, Believed
<1>2. KeysInv => NoStuckKey
  <2> SUFFICES ASSUME KeysInv, clean, held = {}, kbQ = << >>, odr = None, NEW x \in down
               PROVE  FALSE
    BY DEF NoStuckKey
  <2>1. x \in Names /\ Keyed BY DEF KeysInv, Believed
  <2>2. \A m \in 0..Len(<< >>) : m = 0 BY Empty
  <2>3. \A m \in 0..Len(<< >>) : ~Breaks(<< >>, None, e0, m, x)
    BY <2>2, NotPlain, FirstSilent
  <2>4. Stays(kbQ, odr, e0, down, x) BY <2>3 DEF Stays
  <2> QED BY <2>1, <2>4 DEF Keyed, HeldDown
<1> QED BY <1>1, <1>2, KeysStep, TypesAlways, PTL DEF KbcSpec
=============================================================================
