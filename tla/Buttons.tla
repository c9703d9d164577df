------------------------------ MODULE Buttons ------------------------------
(***************************************************************************)
(* Button debouncing, app/peripheral_management/periphmgmt.c, and the      *)
(* power button path of pwrbtnmgmt.c behind it.                            *)
(*                                                                         *)
(* Actors: the GPIO interrupt, which preempts any thread at any memory     *)
(* access; the PERIPH thread; the SMC thread, which registers the other    *)
(* buttons; the PWR thread, which pulses PM_PWRBTN to wake the SoC.  The   *)
(* threads are cooperative and change only at sleeps (Yields).             *)
(* A level is TRUE when high, which is "released" for the power button.    *)
(***************************************************************************)
EXTENDS Naturals

CONSTANTS
  N,            (* number of entries of btn_lst                              *)
  Pwr,          (* the entry of PWRBTN_EC_IN_N                               *)
  DebounceCnt,  (* GPIO_DEBOUNCE_CNT, passes of 1 ms                         *)
  Faults,       (* gpio_read_pin() may fail                                  *)
  Wake,         (* the PWR thread may call pwrbtn_trigger_wake()             *)
  MaxEdges      (* bound: level changes in a behaviour                       *)

ASSUME ButtonsAssumption ==
  /\ N \in Nat \ {0} /\ Pwr \in 1..N
  /\ DebounceCnt \in 1..255
  /\ {Faults, Wake} \subseteq BOOLEAN
  /\ MaxEdges \in Nat

Btns == 1..N

VARIABLES
  pin,         (* level of each pin                                          *)
  irq,         (* its edge interrupt is enabled and its handler is set       *)
  debouncing, cnt, prev,   (* btn_info.debouncing, deb_cnt, prev_level       *)
  sem,         (* count of btn_debounce_lock                                 *)
  semReady,    (* k_sem_init() was called                                    *)
  pc, i,       (* where the PERIPH thread is; its index into btn_lst         *)
  tmp,         (* deb_cnt as loaded in debounce_pins(), or a level read      *)
  ongoing,     (* debouncing_ongoing                                         *)
  reg,         (* SMC thread: the entry it registers (0: none), its step,    *)
               (* the level it has read                                      *)
  wake,        (* progress of pwrbtn_trigger_wake()                          *)
  PM_PWRBTN,   (* output pin to the SoC                                      *)
  out,         (* pwr_btn_out_sts                                            *)
  (* auxiliary *)
  dropped,     (* the last debounced level could not be read                 *)
  early,       (* an edge came between its registration and k_sem_init()     *)
  edges        (* level changes so far                                       *)

btn  == <<irq, debouncing, cnt, prev>>
pwr  == <<wake, PM_PWRBTN, out>>
aux  == <<dropped, early, edges>>
vars == <<pin, btn, sem, semReady, pc, i, tmp, ongoing, reg, pwr, aux>>

Idle   == [b |-> 0, at |-> "idle", level |-> FALSE]
Yields == {"switches", "wait", "sleep"}
PeriphMay == reg.at = "idle"

Init ==
  /\ pin \in [Btns -> BOOLEAN]
  /\ irq = [b \in Btns |-> FALSE] /\ debouncing = [b \in Btns |-> FALSE]
  /\ cnt = [b \in Btns |-> DebounceCnt] /\ prev = [b \in Btns |-> TRUE]
  /\ sem = 0 /\ semReady = FALSE
  /\ pc = "reg_irq" /\ i = 0 /\ tmp = 0 /\ ongoing = 0
  /\ reg = Idle
  /\ wake = "idle" /\ PM_PWRBTN = TRUE /\ out = TRUE
  /\ dropped = [b \in Btns |-> FALSE]
  /\ early = FALSE /\ edges = 0

-----------------------------------------------------------------------------
(* The interrupt: gpio_level_change_callback() *)

(* Before k_sem_init() the semaphore is all zeroes: a give has no effect.  *)
SemGiven == IF semReady THEN 1 ELSE sem

Edge(b) ==
  /\ edges < MaxEdges
  /\ edges' = edges + 1
  /\ pin' = [pin EXCEPT ![b] = ~@]
  /\ early' = (early \/ (irq[b] /\ ~semReady))
  /\ IF irq[b]
     THEN /\ debouncing' = [debouncing EXCEPT ![b] = TRUE]
          /\ cnt' = [cnt EXCEPT ![b] = DebounceCnt]
          /\ sem' = SemGiven
     ELSE UNCHANGED <<debouncing, cnt, sem>>
  /\ UNCHANGED <<irq, prev, semReady, pc, i, tmp, ongoing, reg, pwr, dropped>>

-----------------------------------------------------------------------------
(* periph_register_button(): the interrupt is live before prev_level is    *)
(* read and stored.                                                        *)

RegIrq ==
  /\ PeriphMay
  /\ pc = "reg_irq" /\ pc' = "reg_level"
  /\ irq' = [irq EXCEPT ![Pwr] = TRUE]
  /\ UNCHANGED <<pin, debouncing, cnt, prev, sem, semReady, i, tmp, ongoing,
                 reg, pwr, aux>>

(* tmp holds the level as 0 or 1 until it is stored.  A failed read leaves *)
(* prev_level alone.                                                       *)
RegLevel ==
  /\ pc = "reg_level"
  /\ \/ pc' = "reg_prev" /\ tmp' = (IF pin[Pwr] THEN 1 ELSE 0)
     \/ Faults /\ pc' = "switches" /\ tmp' = 0
  /\ dropped' = [dropped EXCEPT ![Pwr] = (pc' = "switches")]
  /\ UNCHANGED <<pin, btn, sem, semReady, i, ongoing, reg, pwr, early, edges>>

RegPrev ==
  /\ pc = "reg_prev" /\ pc' = "switches"
  /\ prev' = [prev EXCEPT ![Pwr] = (tmp = 1)]
  /\ tmp' = 0
  /\ UNCHANGED <<pin, irq, debouncing, cnt, sem, semReady, i, ongoing, reg,
                 pwr, aux>>

(* update_switch_status() reads pins of an I/O expander, hence may sleep;  *)
(* only then is the semaphore initialised.                                 *)
SemInit ==
  /\ PeriphMay
  /\ pc = "switches" /\ pc' = "wait"
  /\ sem' = 0 /\ semReady' = TRUE
  /\ UNCHANGED <<pin, btn, i, tmp, ongoing, reg, pwr, aux>>

(* The SMC thread registers its buttons the same way. *)
SmcIrq(b) ==
  /\ pc \in Yields /\ reg.at = "idle"
  /\ b # Pwr /\ ~irq[b]
  /\ irq' = [irq EXCEPT ![b] = TRUE]
  /\ reg' = [b |-> b, at |-> "level", level |-> FALSE]
  /\ UNCHANGED <<pin, debouncing, cnt, prev, sem, semReady, pc, i, tmp,
                 ongoing, pwr, aux>>

SmcLevel ==
  /\ reg.at = "level"
  /\ \/ reg' = [reg EXCEPT !.at = "prev", !.level = pin[reg.b]]
     \/ Faults /\ reg' = Idle
  /\ dropped' = [dropped EXCEPT ![reg.b] = (reg'.at = "idle")]
  /\ UNCHANGED <<pin, btn, sem, semReady, pc, i, tmp, ongoing, pwr, early,
                 edges>>

SmcPrev ==
  /\ reg.at = "prev"
  /\ prev' = [prev EXCEPT ![reg.b] = reg.level]
  /\ reg' = Idle
  /\ UNCHANGED <<pin, irq, debouncing, cnt, sem, semReady, pc, i, tmp, ongoing,
                 pwr, aux>>

-----------------------------------------------------------------------------
(* The loop of periph_thread() *)

TakeSem ==
  /\ PeriphMay
  /\ pc = "wait" /\ sem = 1
  /\ sem' = 0 /\ pc' = "sleep"
  /\ UNCHANGED <<pin, btn, semReady, i, tmp, ongoing, reg, pwr, aux>>

(* 1 ms later: debounce_pins() starts. *)
Tick ==
  /\ PeriphMay
  /\ pc = "sleep" /\ pc' = "load"
  /\ i' = 1 /\ ongoing' = 0
  /\ UNCHANGED <<pin, btn, sem, semReady, tmp, reg, pwr, aux>>

(* deb_cnt-- is a load and a store the interrupt can come between. *)
Load ==
  /\ pc = "load"
  /\ IF debouncing[i] THEN pc' = "store" /\ tmp' = cnt[i]
                      ELSE pc' = "count" /\ UNCHANGED tmp
  /\ UNCHANGED <<pin, btn, sem, semReady, i, ongoing, reg, pwr, aux>>

(* deb_cnt is a uint8_t. *)
Decremented == (tmp + 255) % 256

Store ==
  /\ pc = "store" /\ pc' = "test"
  /\ cnt' = [cnt EXCEPT ![i] = Decremented]
  /\ tmp' = 0
  /\ UNCHANGED <<pin, irq, debouncing, prev, sem, semReady, i, ongoing, reg,
                 pwr, aux>>

Test ==
  /\ pc = "test"
  /\ pc' = IF cnt[i] = 0 THEN "clear" ELSE "count"
  /\ UNCHANGED <<pin, btn, sem, semReady, i, tmp, ongoing, reg, pwr, aux>>

Clear ==
  /\ pc = "clear" /\ pc' = "reset"
  /\ debouncing' = [debouncing EXCEPT ![i] = FALSE]
  /\ UNCHANGED <<pin, irq, cnt, prev, sem, semReady, i, tmp, ongoing, reg, pwr,
                 aux>>

Reset ==
  /\ pc = "reset" /\ pc' = "notify"
  /\ cnt' = [cnt EXCEPT ![i] = DebounceCnt]
  /\ UNCHANGED <<pin, irq, debouncing, prev, sem, semReady, i, tmp, ongoing,
                 reg, pwr, aux>>

(* Faulty variant: a release is not passed on.                             *)
PwrBtnEventPressOnly(level) ==
  IF level # out /\ ~level
  THEN out' = level /\ PM_PWRBTN' = level
  ELSE UNCHANGED <<out, PM_PWRBTN>>

(* pwrbtn_btn_evt_processor(); the USB dock's status stays HIGH. *)
PwrBtnEvent(level) ==
  IF level # out
  THEN out' = level /\ PM_PWRBTN' = level
  ELSE UNCHANGED <<out, PM_PWRBTN>>

(* notify_btn_handlers() reads the level, *)
ReadLevel ==
  /\ pc = "notify" /\ pc' = "report"
  /\ tmp' = IF pin[i] THEN 1 ELSE 0
  /\ UNCHANGED <<pin, btn, sem, semReady, i, ongoing, reg, pwr, aux>>

ReadFails ==
  /\ Faults
  /\ pc = "notify" /\ pc' = "count"
  /\ dropped' = [dropped EXCEPT ![i] = TRUE]
  /\ UNCHANGED <<pin, btn, sem, semReady, i, tmp, ongoing, reg, pwr, early,
                 edges>>

ReportTo(level) ==
  /\ pc = "report" /\ pc' = "count"
  /\ tmp' = 0
  /\ dropped' = [dropped EXCEPT ![i] = FALSE]
  /\ IF i = Pwr /\ prev[i] # level
     THEN PwrBtnEvent(level) ELSE UNCHANGED <<out, PM_PWRBTN>>
  /\ UNCHANGED <<pin, irq, cnt, sem, semReady, i, ongoing, reg, wake, early,
                 edges>>

(* Faulty variants: the flag is cleared after the handler only; the level  *)
(* is not stored.                                                          *)
ReportClears ==
  /\ ReportTo(tmp = 1)
  /\ prev' = [prev EXCEPT ![i] = (tmp = 1)]
  /\ debouncing' = [debouncing EXCEPT ![i] = FALSE]
ReportForgets == ReportTo(tmp = 1) /\ UNCHANGED <<prev, debouncing>>

(* and gives it to the handler and stores it, if it differs from the last. *)
Report ==
  /\ ReportTo(tmp = 1)
  /\ prev' = [prev EXCEPT ![i] = (tmp = 1)]
  /\ UNCHANGED debouncing

(* The end of an iteration, and after the last one is_debouncing().  *)
Count ==
  /\ pc = "count"
  /\ ongoing' = IF debouncing[i] THEN ongoing + 1 ELSE ongoing
  /\ IF i < N THEN i' = i + 1 /\ pc' = "load"
     ELSE i' = 0 /\ pc' = IF ongoing' > 0 THEN "sleep" ELSE "wait"
  /\ UNCHANGED <<pin, btn, sem, semReady, tmp, reg, pwr, aux>>

-----------------------------------------------------------------------------
(* pwrbtn_trigger_wake(): high, 20 ms, low, 20 ms, high *)
WakeStep(from, to, level) ==
  /\ Wake /\ pc \in Yields /\ reg.at = "idle"
  /\ wake = from /\ wake' = to
  /\ PM_PWRBTN' = level
  /\ UNCHANGED <<pin, btn, sem, semReady, pc, i, tmp, ongoing, reg, out, aux>>

TriggerWake == \/ WakeStep("idle", "high", TRUE)
               \/ WakeStep("high", "low", FALSE)
               \/ WakeStep("low", "idle", TRUE)

-----------------------------------------------------------------------------
Registers == \/ RegIrq \/ RegLevel \/ RegPrev \/ SemInit
Debounces == \/ Load \/ Store \/ Test \/ Clear \/ Reset
             \/ ReadLevel \/ ReadFails \/ Report \/ Count
Periph == Registers \/ TakeSem \/ Tick \/ Debounces
Smc    == (\E b \in Btns : SmcIrq(b)) \/ SmcLevel \/ SmcPrev
Isr    == \E b \in Btns : Edge(b)

Next == Periph \/ Smc \/ Isr \/ TriggerWake

Spec == Init /\ [][Next]_vars

(* The scheduler runs a ready thread and sleeps end. *)
FairSpec == Spec /\ WF_vars(Periph) /\ WF_vars(Smc)

-----------------------------------------------------------------------------
(* Types; deb_cnt never wraps below 0. *)
TypeOK ==
  /\ pin \in [Btns -> BOOLEAN] /\ irq \in [Btns -> BOOLEAN]
  /\ debouncing \in [Btns -> BOOLEAN] /\ prev \in [Btns -> BOOLEAN]
  /\ cnt \in [Btns -> 0..DebounceCnt] /\ tmp \in 0..DebounceCnt \cup {1}
  /\ sem \in 0..1 /\ semReady \in BOOLEAN
  /\ pc \in {"reg_irq", "reg_level", "reg_prev", "load", "store", "test",
             "clear", "reset", "notify", "report", "count"} \cup Yields
  /\ i \in 0..N /\ ongoing \in 0..N
  /\ reg \in [b : 0..N, at : {"idle", "level", "prev"}, level : BOOLEAN]
  /\ wake \in {"idle", "high", "low"}
  /\ PM_PWRBTN \in BOOLEAN /\ out \in BOOLEAN
  /\ dropped \in [Btns -> BOOLEAN]
  /\ early \in BOOLEAN /\ edges \in 0..MaxEdges

(* The thread sleeps until the next edge. *)
Asleep == pc = "wait" /\ sem = 0

(* However edges fall between the steps of registration and debouncing, a  *)
(* button that is not being debounced when the thread waits for the next   *)
(* edge has had its current level reported: clearing the flag before       *)
(* reading the level makes a late edge either seen or debounced again.     *)
QuietMeansReported ==
  Asleep => \A b \in Btns :
    irq[b] /\ reg.b # b /\ ~debouncing[b] /\ ~dropped[b] => prev[b] = pin[b]

(* The SoC does not see the power button held when it is not (four seconds *)
(* of which would make it power off), also when a wake pulse and a press   *)
(* overlap.                                                                *)
NoStuckPress ==
  /\ Asleep /\ wake = "idle" /\ pin[Pwr]
  /\ ~debouncing[Pwr] /\ ~dropped[Pwr]
  => PM_PWRBTN

(* Unless an edge came before the semaphore existed (early), every level   *)
(* that can be read is reported in the end, and the pin of the power       *)
(* button is released with the button.                                     *)
Settles ==
  <>[](\/ early
       \/ /\ \A b \in Btns : irq[b] /\ ~dropped[b] => prev[b] = pin[b]
          /\ pin[Pwr] /\ ~dropped[Pwr] /\ wake = "idle" => PM_PWRBTN)
=============================================================================
