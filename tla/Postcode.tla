------------------------------ MODULE Postcode ------------------------------
(***************************************************************************)
(* The post-code display: app/debug/postcodemgmt.c with the driver of its  *)
(* chip (drivers/port80display.c, drivers/max6958.c) over the I2C hub      *)
(* (drivers/i2c_hub.c).                                                    *)
(*                                                                         *)
(* The host's codes come by interrupt, errors from the PWR thread; the     *)
(* POST thread writes the display.  Threads are cooperative: another one   *)
(* runs while POST waits for its semaphore or for an I2C transfer.  An     *)
(* error is never taken back: once the sequencer has failed it does not    *)
(* call pwrseq_reset() again (FailureStops of PwrPlane).                   *)
(***************************************************************************)
EXTENDS Naturals

CONSTANTS
  Codes,      (* what the host writes to its ports 80h and 81h              *)
  Errors,     (* error codes of the sequencer; 0 is ERR_NONE                *)
  Tries,      (* MAX_RETRIES + 1 of port80display.c                         *)
  MaxCodes,   (* bound: writes of the host                                  *)
  MaxErrors,  (* bound: calls of update_error()                             *)
  MaxFails    (* bound: failed transfers                                    *)

ASSUME PostcodeAssumption ==
  /\ Codes \subseteq 0..255 /\ Errors \subseteq 1..255
  /\ Tries \in Nat \ {0} /\ {MaxCodes, MaxErrors, MaxFails} \subseteq Nat

VARIABLES
  port80, port81, err,  (* port80_code, port81_code, err_code               *)
  sem, semReady,        (* update_lock, and whether k_sem_init() has run    *)
  listens,              (* the handler is registered with the eSPI hub      *)
  point, word,          (* the POST thread and its disp_word                *)
  tries,                (* failed attempts to switch the display on         *)
  lit, shown,           (* the chip: switched on, digits                    *)
  busy,                 (* another thread holds the mutex of the bus        *)
  excused,              (* auxiliary: nothing was signalled since a signal  *)
                        (* or a transfer of the word was lost               *)
  codes, errors, fails  (* what the model has spent of its bounds           *)

data    == <<port80, port81, err>>
signal  == <<sem, excused>>
chip    == <<lit, shown>>
bounds  == <<codes, errors, fails>>
postVars == <<data, sem, semReady, listens, point, word, tries, chip, busy,
              excused, bounds>>

(* BOARD_ERR_INDICATOR *)
EC == 236
Transfers == {"decode", "brightness", "digits", "on", "show"}
Points == Transfers \cup
  {"register", "semInit", "wait", "test", "set80", "set81", "high", "low", "ended"}

PostTypeOK ==
  /\ {port80, port81, err} \subseteq 0..255 /\ tries \in 0..Tries
  /\ {sem, semReady, listens, lit, busy, excused} \subseteq BOOLEAN
  /\ point \in Points /\ {word, shown} \subseteq (0..255) \X (0..255)
  /\ codes \in 0..MaxCodes /\ errors \in 0..MaxErrors /\ fails \in 0..MaxFails

PostInit ==
  /\ port80 = 0 /\ port81 = 0 /\ err = 0
  /\ sem = FALSE /\ semReady = FALSE /\ listens = FALSE
  /\ point = "decode" /\ word = <<0, 0>> /\ tries = 0
  /\ lit = FALSE /\ shown = <<0, 0>> /\ busy = FALSE /\ excused = TRUE
  /\ codes = 0 /\ errors = 0 /\ fails = 0

(***************************************************************************)
(* signal_request(): before k_sem_init() the limit of the semaphore is 0   *)
(* and a give has no effect.                                               *)
(***************************************************************************)
SignalRequest ==
  /\ sem' = semReady /\ excused' = (excused \/ ~semReady)

(* The POST thread goes from one point to another. *)
Moves(from, to) == point = from /\ point' = to

(* i2c_hub_write() holds the mutex of the bus for a transfer, which may    *)
(* fail.                                                                   *)
Write(ok) ==
  /\ ~busy
  /\ IF ok THEN UNCHANGED fails ELSE fails < MaxFails /\ fails' = fails + 1
  /\ UNCHANGED <<busy, codes, errors>>

(* port80_display_init(): the result of max6958_set_digits() is dropped.   *)
Setup(at, next) ==
  /\ point = at
  /\ \E ok \in BOOLEAN :
       Write(ok) /\ point' = IF ok \/ at = "digits" THEN next ELSE "ended"
  /\ UNCHANGED <<data, signal, semReady, listens, word, tries, chip>>

Register ==
  /\ Moves("register", "semInit") /\ listens' = TRUE
  /\ UNCHANGED <<data, signal, semReady, word, tries, chip, busy, bounds>>

SemInit ==
  /\ Moves("semInit", "wait") /\ semReady' = TRUE /\ sem' = FALSE
  /\ UNCHANGED <<data, excused, listens, word, tries, chip, busy, bounds>>

Take ==
  /\ Moves("wait", "test") /\ sem /\ sem' = FALSE
  /\ UNCHANGED <<data, excused, semReady, listens, word, tries, chip, busy, bounds>>

Test ==
  /\ Moves("test", IF err # 0 THEN "set80" ELSE "high")
  /\ UNCHANGED <<data, signal, semReady, listens, word, tries, chip, busy, bounds>>

Set80 ==
  /\ Moves("set80", "set81") /\ port80' = err
  /\ UNCHANGED <<port81, err, signal, semReady, listens, word, tries, chip, busy, bounds>>

Set81 ==
  /\ Moves("set81", "on") /\ port81' = EC /\ tries' = 0
  /\ UNCHANGED <<port80, err, signal, semReady, listens, word, chip, busy, bounds>>

(* port80_display_on(), which gives up after some tries. *)
On ==
  /\ point = "on"
  /\ \E ok \in BOOLEAN :
       /\ Write(ok)
       /\ IF ok THEN point' = "high" /\ lit' = TRUE /\ UNCHANGED tries
          ELSE /\ tries' = tries + 1 /\ UNCHANGED lit
               /\ point' = IF tries + 1 < Tries THEN "on" ELSE "high"
  /\ UNCHANGED <<data, signal, semReady, listens, word, shown>>

(* WORD_FROM_PORTS(): two reads. *)
High ==
  /\ Moves("high", "low") /\ word' = <<port81, word[2]>>
  /\ UNCHANGED <<data, signal, semReady, listens, tries, chip, busy, bounds>>

Low ==
  /\ Moves("low", "show") /\ word' = <<word[1], port80>>
  /\ UNCHANGED <<data, signal, semReady, listens, tries, chip, busy, bounds>>

(* port80_display_word() drops the result of the transfer. *)
Show ==
  /\ Moves("show", "wait")
  /\ \E ok \in BOOLEAN :
       Write(ok) /\ excused' = ~ok /\ shown' = IF ok THEN word ELSE shown
  /\ UNCHANGED <<data, sem, semReady, listens, word, tries, lit>>

Thread ==
  \/ Setup("decode", "brightness") \/ Setup("brightness", "digits")
  \/ Setup("digits", "register") \/ Register \/ SemInit
  \/ Take \/ Test \/ Set80 \/ Set81 \/ On \/ High \/ Low \/ Show

(***************************************************************************)
(* update_postcode(), an interrupt: a code that is shown already gives no  *)
(* signal.                                                                 *)
(***************************************************************************)
Post80(c) ==
  /\ port80' = c /\ UNCHANGED port81
  /\ IF port80 # c THEN SignalRequest ELSE UNCHANGED signal

(* Faulty variant of Post81: a code for port 81h alone is not signalled.   *)
Post81Silent(c) ==
  /\ port81' = c /\ UNCHANGED port80 /\ UNCHANGED signal
Post81(c) ==
  /\ port81' = c /\ UNCHANGED port80
  /\ IF port81 # c THEN SignalRequest ELSE UNCHANGED signal

HostPosts(c) ==
  /\ listens /\ codes < MaxCodes /\ codes' = codes + 1
  /\ Post80(c) \/ Post81(c)
  /\ UNCHANGED <<err, semReady, listens, point, word, tries, chip, busy, errors, fails>>

(***************************************************************************)
(* The other threads, while POST waits or transfers.                       *)
(***************************************************************************)
Yields == point \in Transfers \cup {"wait", "ended"}

(* pwrseq_error() reports an error, pwrseq_reset() that there is none. *)
UpdateError(e) ==
  /\ Yields /\ errors < MaxErrors /\ errors' = errors + 1
  /\ (e = 0 => err = 0) /\ err' = e /\ SignalRequest
  /\ UNCHANGED <<port80, port81, semReady, listens, point, word, tries, chip>>
  /\ UNCHANGED <<busy, codes, fails>>

(* The EEPROM and the IO expander are on the same bus: their transfers     *)
(* take and give back its mutex.                                           *)
ClientBus(taken) ==
  /\ Yields /\ busy # taken /\ busy' = taken
  /\ UNCHANGED <<data, signal, semReady, listens, point, word, tries, chip, bounds>>

PostNext ==
  \/ Thread \/ (\E c \in Codes : HostPosts(c))
  \/ (\E e \in Errors \cup {0} : UpdateError(e))
  \/ ClientBus(TRUE) \/ ClientBus(FALSE)

PostSpec == PostInit /\ [][PostNext]_postVars

(* POST is scheduled and transfers end, though other threads use the bus   *)
(* again and again: a mutex passes to the thread that waits for it.        *)
PostFairSpec ==
  PostSpec /\ SF_postVars(Thread) /\ WF_postVars(ClientBus(FALSE))

(***************************************************************************)
(* Properties                                                              *)
(***************************************************************************)
Wanted == IF err # 0 THEN <<EC, err>> ELSE <<port81, port80>>

(* A thread that waits has nothing left to show: whatever code or error    *)
(* came between the test, the reads of the two ports and the transfer is   *)
(* on the display, unless its signal came before the semaphore (line 138)  *)
(* or the transfer failed.                                                 *)
NothingStranded == point = "wait" /\ ~sem /\ ~excused => shown = Wanted

(* An error is shown on a display that was switched on, or that refused as *)
(* often as port80_display_on() tries.                                     *)
ErrorLit ==
  point = "wait" /\ ~sem /\ ~excused /\ err # 0 => lit \/ tries = Tries
=============================================================================
