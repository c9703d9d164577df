----------------------------- MODULE Pg3States -----------------------------
(***************************************************************************)
(* The pseudo-G3 state machine of app/power_sequencing/pseudog3.c as a     *)
(* pure transition function.  manage_pseudog3_states() runs once per tick  *)
(* of the PWR thread; PwrPlane uses it as one step.                        *)
(***************************************************************************)

(* enum system_power_state *)
SysStates == {"G3", "S0", "S3", "S4", "S5"}

(* enum pg3_state_n *)
Pg3StateSet == {"disabled", "idle", "waiting_entry", "entered", "wake_wait"}

(* S4 and S5, the only states in which pseudo G3 is entered or kept *)
DeepStates == {"S4", "S5"}

(* Faulty variant of Pg3Next: wake_wait has no way back to idle.           *)
Pg3NextStuckWake(st, sys, enabled, cond, ac, rsmrst) ==
  CASE st = "disabled" -> IF enabled THEN "idle" ELSE "disabled"
    [] st = "idle" ->
         IF ~enabled THEN "disabled"
         ELSE IF sys \in DeepStates THEN "waiting_entry" ELSE "idle"
    [] st = "waiting_entry" ->
         IF sys \notin DeepStates THEN "idle"
         ELSE IF cond THEN "entered" ELSE "waiting_entry"
    [] st = "entered" ->
         IF sys \notin DeepStates THEN "idle"
         ELSE IF rsmrst THEN "wake_wait" ELSE "entered"
    [] OTHER -> "wake_wait"

(***************************************************************************)
(* The state the handler of `st' selects.                                  *)
(*   sys      pwrseq_system_state()                                        *)
(*   enabled  pg3_enable_status                                            *)
(*   cond     is_pseudo_g3_condition()                                     *)
(*   ac       BC_ACOK high and no virtual battery                          *)
(*   rsmrst   level of the PM_RSMRST pin                                   *)
(***************************************************************************)
Pg3Next(st, sys, enabled, cond, ac, rsmrst) ==
  CASE st = "disabled" -> IF enabled THEN "idle" ELSE "disabled"
    [] st = "idle" ->
         IF ~enabled THEN "disabled"
         ELSE IF sys \in DeepStates THEN "waiting_entry" ELSE "idle"
    [] st = "waiting_entry" ->
         IF sys \notin DeepStates THEN "idle"
         ELSE IF cond THEN "entered" ELSE "waiting_entry"
    [] st = "entered" ->
         IF sys \notin DeepStates THEN "idle"
         ELSE IF ac THEN "waiting_entry"
         ELSE IF rsmrst THEN "wake_wait" ELSE "entered"
    [] OTHER -> IF sys \notin DeepStates THEN "idle" ELSE "wake_wait"

=============================================================================
