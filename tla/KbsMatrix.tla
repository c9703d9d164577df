----------------------------- MODULE KbsMatrix -----------------------------
(***************************************************************************)
(* The keyboard scan matrix, drivers/kbs_matrix.c: what a key press or     *)
(* release does to the modifier flags, to the hotkey latch and to the      *)
(* typematic timer, and which bytes it hands to the keyboard controller.   *)
(* Bytes are scan codes after translate_key(), so a break is one byte and  *)
(* only the E0 prefix makes a code longer.                                 *)
(*                                                                         *)
(* The module has no behaviour of its own: KbcHost composes it with the    *)
(* keyboard controller.  Left out: the early key sequences, shift, alt and *)
(* scroll lock (they behave as ctrl and num lock do), scan code sets other *)
(* than 2, the repeat rates.                                               *)
(***************************************************************************)
EXTENDS Naturals, Sequences, FiniteSets

CONSTANT Keys        (* the keys of the board that are used *)

(* a: ordinary key; right: key with an E0 code; lctrl, rctrl; u: key of the *)
(* embedded number pad; f9: Fn key answered by an SCI; f7: Fn key without   *)
(* function.                                                                *)
AllKeys == {"a", "right", "lctrl", "rctrl", "fn", "f9", "f7", "u", "num",
            "prtsc", "pause"}

ASSUME KbsMatrixAssumption == Keys \subseteq AllKeys

VARIABLES
  held,          (* keys that are down                                       *)
  flags,         (* kscan_flags                                              *)
  hotkey,        (* hotkey_detected                                          *)
  tp,            (* make_tpmatic_code                                        *)
  timer,         (* typematic_timer runs                                     *)
  kscan          (* the callback of the kscan driver is enabled              *)

kbsVars == <<held, flags, hotkey, tp, timer, kscan>>

KbsInit ==
  /\ held = {} /\ flags = {} /\ hotkey = FALSE
  /\ tp = << >> /\ timer = FALSE /\ kscan = TRUE

CtrlKeys == {"lctrl", "rctrl"}
Extended == {"right", "end", "rctrl"}

Prefix == [key |-> "E0", up |-> FALSE]
Code(id, up) ==
  LET b == [key |-> id, up |-> up]
  IN IF id \in Extended THEN <<Prefix, b>> ELSE <<b>>

(* What a press of Fn and the key means to the keyboard's own table; "none" *)
(* for a key the table does not know.                                       *)
FnType(k) ==
  CASE k = "right" -> "code"
    [] k = "f7" -> "unmapped"
    [] k = "f9" -> "sci"
    [] OTHER -> "none"

(* fn_with_valid_keynum() *)
FnCombination(k) == "fn" \in flags /\ k \notin CtrlKeys

(* update_modifier_keys(): one flag for the two control keys *)
Modifiers(k, pressed) ==
  CASE k \in CtrlKeys -> IF pressed THEN flags \cup {"ctrl"} ELSE flags \ {"ctrl"}
    [] k = "num" /\ pressed -> IF "num" \in flags THEN flags \ {"num"}
                                                  ELSE flags \cup {"num"}
    [] OTHER -> flags

(* Print screen comes with a shift key that nobody pressed.  With ctrl its *)
(* break code has F0 before E0, which translate_key() drops on the prefix: *)
(* the host gets the make code once more.                                  *)
PrintScreen(ctrl, up) ==
  LET key == <<Prefix, [key |-> "prtsc", up |-> up /\ ~ctrl]>>
      shift == <<Prefix, [key |-> "fakeshift", up |-> up]>>
  IN IF ctrl THEN key ELSE IF up THEN key \o shift ELSE shift \o key

(* get_scan_code(), with the flags after the update.  Pause sends the same *)
(* code when it is pressed and when it is released.                        *)
ScanCode(k, fl, pressed) ==
  CASE k = "u" /\ "num" \in fl -> Code("pad4", ~pressed)
    [] k = "prtsc" -> PrintScreen("ctrl" \in fl, ~pressed)
    [] k = "pause" -> Code(IF "ctrl" \in fl THEN "break" ELSE "pause", FALSE)
    [] OTHER -> Code(k, ~pressed)

(* An outcome of a key event: the state it leaves, whether it starts the   *)
(* timer and what it gives to kbs_callback().                              *)
Outcome(fl, hot, code, repeats) ==
  [flags |-> fl, hotkey |-> hot, code |-> code, repeats |-> repeats]

Nothing == Outcome(flags, hotkey, << >>, FALSE)
Junk == {[Nothing EXCEPT !.code = <<[key |-> "junk", up |-> FALSE]>>, !.repeats = r] :
           r \in BOOLEAN}

(* make_key().  keymap_get_fnkey() leaves the data uninitialised for a key *)
(* it does not know and its result is not looked at: the garbage is taken  *)
(* for a scan code or for an SCI.                                          *)
FnMake(k) ==
  LET sci == [Nothing EXCEPT !.hotkey = TRUE]
  IN CASE FnType(k) = "code" -> {[Nothing EXCEPT !.code = Code("end", FALSE), !.repeats = TRUE]}
       [] FnType(k) = "unmapped" -> {Nothing}
       [] FnType(k) = "sci" -> {sci}
       [] OTHER -> Junk \cup {sci, Nothing}

OrdinaryMake(k) ==
  LET fl == Modifiers(k, TRUE)
  IN {Outcome(fl, FALSE, ScanCode(k, fl, TRUE), k # "pause")}

Make(k) ==
  CASE k = "fn" -> {[Nothing EXCEPT !.flags = flags \cup {"fn"}]}
    [] k # "fn" /\ FnCombination(k) -> FnMake(k)
    [] OTHER -> OrdinaryMake(k)

OrdinaryBreak(k) ==
  LET fl == Modifiers(k, FALSE)
  IN {Outcome(fl, hotkey, ScanCode(k, fl, FALSE), FALSE)}

(* Faulty variant: the break does not look at Fn. *)
FnBreakOrdinary(k) == OrdinaryBreak(k)

(* break_key() *)
FnBreak(k) ==
  CASE FnType(k) = "code" -> {[Nothing EXCEPT !.code = Code("end", TRUE)]}
    [] FnType(k) \in {"unmapped", "sci"} -> {Nothing}
    [] OTHER -> {[j EXCEPT !.repeats = FALSE] : j \in Junk} \cup {Nothing}

Break(k) ==
  CASE k = "fn" -> {[Nothing EXCEPT !.flags = flags \ {"fn"}]}
    [] k # "fn" /\ FnCombination(k) -> FnBreak(k)
    [] OTHER -> OrdinaryBreak(k)

(* Faulty variant: only a press stops the timer. *)
TimerAfterLate(o) == (o.repeats /\ o.code # << >>) \/ (timer /\ ~o.repeats)

(* The state make_key() or break_key() leaves: the timer is stopped at the *)
(* entry and started for a code that repeats.                              *)
TimerAfter(o) == o.repeats /\ o.code # << >>

Settle(o, pressed) ==
  /\ flags' = o.flags /\ hotkey' = o.hotkey
  /\ timer' = TimerAfter(o)
  /\ tp' = IF pressed /\ o.code # << >> THEN o.code ELSE tp
  /\ UNCHANGED kscan

(* kbs_keyboard_disable() and kbs_keyboard_enable(); the rates they and    *)
(* kbs_write_typematic() set are left out, the timer they stop is not.     *)
StopRepeat == timer' = FALSE /\ UNCHANGED <<held, flags, hotkey, tp, kscan>>

KbsTypeOK ==
  /\ held \subseteq Keys
  /\ flags \subseteq {"ctrl", "num", "fn"}
  /\ hotkey \in BOOLEAN /\ timer \in BOOLEAN /\ kscan \in BOOLEAN
  /\ Len(tp) <= 4
=============================================================================
