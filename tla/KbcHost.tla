------------------------------ MODULE KbcHost ------------------------------
(***************************************************************************)
(* The keyboard controller, app/kbchost/kbchost.c, composed with the scan  *)
(* matrix (KbsMatrix) in the build with CONFIG_KSCAN_EC and without PS/2   *)
(* devices.                                                                *)
(*                                                                         *)
(* Actors: the KBC thread, which executes what the host writes to ports    *)
(* 60h and 64h and writes the answer to the output register; the KB        *)
(* thread, which empties the queue of key bytes into the same register;    *)
(* the typematic timer, an interrupt; the kscan thread with the user's     *)
(* keys; the PWR thread, which switches the interface; the host.  The      *)
(* threads are cooperative: one starts only while no other is between two  *)
(* of its sleeps.                                                          *)
(*                                                                         *)
(* Left out: the mouse, the LEDs, the values of dummy answers.             *)
(***************************************************************************)
EXTENDS KbsMatrix, SequencesExt

CONSTANTS
  Cmds,          (* the commands the host uses                               *)
  KbLen, FromLen,    (* lengths of to_host_kb_queue and from_host_queue      *)
  Retries,       (* MAX_TO_HOST_RETRIES                                      *)
  MaxSlow,       (* bound: sleeps the host lets pass without reading         *)
  MaxWork        (* bound: commands, which count twice, key events, repeats, *)
                 (* suspends and power cycles                                *)

(* Commands of port 64h, then of port 60h. *)
Port64 == {"dummy", "wr_cmd_on", "wr_cmd_off", "self_test", "dis_kb", "ena_kb",
           "out_reg", "out_port", "hotkey", "bad64"}
Port60 == {"echo", "leds", "code_get", "code_set", "typematic", "read_id",
           "enable", "default_dis", "set_default", "resend", "reset", "bad60"}

ASSUME KbcHostAssumption ==
  /\ Cmds \subseteq Port64 \cup Port60
  /\ {KbLen, FromLen} \subseteq Nat \ {0} /\ Retries \in Nat \ {0}
  /\ {MaxSlow, MaxWork} \subseteq Nat

VARIABLES
  kbdOn,         (* cmdbyte without KBC_8042_KBD_DIS                         *)
  st,            (* data_port_state                                          *)
  resend,        (* resend_cmd                                               *)
  fromQ, kbQ, kbSem, (* from_host_queue, to_host_kb_queue, kb_p60_sem        *)
  odr,           (* output register, None when OBF is clear                  *)
  pcC, ops,      (* KBC thread: step, what the command still does            *)
  toSend, tries, (* answer still to send, obf_retries                        *)
  pcK, triesK,   (* KB thread                                                *)
  on, asleep,    (* power is on; host in S3                                  *)
  s3,            (* pwrseq_system_state(): the sequencer has committed S3    *)
  wakeSci,       (* WAKE_SCI is low                                          *)
  h,             (* the host's command                                       *)
  down, e0,      (* keys the host believes down; E0 was the last key byte    *)
  slow, work,
  clean,         (* no key byte was dropped and Fn, num lock and hotkeys     *)
                 (* were used with no other key down                         *)
  lost, mixed,   (* a byte of an answer was dropped; came at the wrong place *)
  off            (* the command that disabled the keyboard last              *)

Spend(n) == work + n <= MaxWork /\ work' = work + n

queues == <<fromQ, kbQ, kbSem, odr>>
kbc == <<kbdOn, st, resend>>
threads == <<pcC, ops, toSend, tries, pcK, triesK>>
host == <<h, down, e0>>
count == <<slow, work>>
mode == <<on, asleep, s3, wakeSci>>
marks == <<clean, lost, mixed, off>>
kbcVars == <<kbsVars, kbc, queues, threads, mode, host, count, marks>>

None == [key |-> "none"]
Answer(id, from, n) == [j \in 1..n |-> [key |-> "answer", id |-> id, i |-> from + j]]
IsAnswer(b) == b.key = "answer"
Resting == [c |-> "none", id |-> 0, want |-> << >>, par |-> FALSE, last |-> << >>]

KbcInit ==
  /\ KbsInit
  (* the host is up: power_on() has called kbc_enable_interface() *)
  /\ kbdOn = TRUE /\ st = "default" /\ resend = << >>
  /\ fromQ = << >> /\ kbQ = << >> /\ kbSem = 0 /\ odr = None
  /\ pcC = "wait" /\ ops = << >> /\ toSend = << >> /\ tries = 0
  /\ pcK = "wait" /\ triesK = 0
  /\ on = TRUE /\ asleep = FALSE /\ s3 = FALSE /\ wakeSci = FALSE
  /\ h = Resting /\ down = {} /\ e0 = FALSE
  /\ slow = 0 /\ work = 0
  /\ clean = TRUE /\ lost = FALSE /\ mixed = FALSE /\ off = "none"

-----------------------------------------------------------------------------
(* The commands.  An effect is what the handler does besides the answer,   *)
(* in its order, the bytes it answers, and the state it leaves.            *)

Effect(todo, n, s) == [ops |-> todo, n |-> n, st |-> s]

(* Faulty variant: DIS_KB empties the queue before it disables. *)
CommandEffectPurgeFirst(c) ==
  CASE c \in {"wr_cmd_on", "wr_cmd_off"} -> Effect(<< >>, 0, "wr_cmd")
    [] c = "dis_kb" -> Effect(<<"purge", "off">>, 0, st)
    [] c = "ena_kb" -> Effect(<<"on">>, 0, st)
    [] OTHER -> Effect(<<"purge">>, 1, st)

(* process_keyboard_command() *)
CommandEffect(c) ==
  CASE c \in {"wr_cmd_on", "wr_cmd_off"} -> Effect(<< >>, 0, "wr_cmd")
    [] c = "self_test" -> Effect(<<"purge">>, 1, st)
    [] c = "dis_kb" -> Effect(<<"off", "purge">>, 0, st)
    [] c = "ena_kb" -> Effect(<<"on">>, 0, st)
    [] c \in {"out_reg", "out_port", "hotkey"} -> Effect(<< >>, 0, c)
    [] c = "bad64" -> Effect(<<"purge">>, 1, "default")
    [] OTHER -> Effect(<< >>, 1, st)

(* process_keyboard_data() outside DEFAULT_STATE: c is a parameter, whatever *)
(* the host meant.  HOTKEY_EVENT_STATE is not left.                          *)
ParameterEffect(c) ==
  CASE st = "wr_cmd" /\ c = "wr_cmd_on" -> Effect(<<"on">>, 0, "default")
    [] st = "wr_cmd" /\ c # "wr_cmd_on" -> Effect(<<"off", "purge">>, 0, "default")
    [] st = "out_port" -> Effect(<< >>, 0, "default")
    [] st = "hotkey" -> Effect(<< >>, 0, "hotkey")
    [] st = "code" /\ c = "code_get" -> Effect(<< >>, 2, "default")
    [] st = "code" /\ c # "code_get" -> Effect(<<"purge">>, 1, "default")
    [] st = "typematic" -> Effect(<<"stop">>, 1, "default")
    [] OTHER -> Effect(<< >>, 1, "default")

(* process_keyboard_data() in DEFAULT_STATE: c is a command to the keyboard. *)
(* KBC_8042_EN_KEYBOARD stores the ACK but does not count it.                *)
KeyboardEffect(c) ==
  CASE c = "leds" -> Effect(<< >>, 1, "leds")
    [] c \in {"code_get", "code_set"} -> Effect(<< >>, 1, "code")
    [] c = "typematic" -> Effect(<< >>, 1, "typematic")
    [] c = "read_id" -> Effect(<< >>, 3, st)
    [] c = "enable" -> Effect(<<"purge">>, 0, st)
    [] c = "default_dis" -> Effect(<<"purge", "stop", "off">>, 1, st)
    [] c = "set_default" -> Effect(<<"purge", "stop">>, 1, st)
    [] c = "reset" -> Effect(<<"clear", "purge", "stop">>, 2, st)
    [] OTHER -> Effect(<< >>, 1, st)

(* what the host sends and waits for *)
HasParameter(c) == c \in {"wr_cmd_on", "wr_cmd_off", "out_reg", "out_port", "hotkey",
                          "leds", "code_get", "code_set", "typematic"}
Expected(c) ==
  CASE c = "read_id" -> 3
    [] c = "reset" -> 2
    [] c \in Port64 \ {"dummy", "self_test", "bad64"} -> 0
    [] OTHER -> 1
ExpectedAfter(c) ==
  CASE c = "code_get" -> 2
    [] c \in {"out_reg", "leds", "code_set", "typematic"} -> 1
    [] OTHER -> 0

-----------------------------------------------------------------------------
(* The queue of bytes to the host *)

(* bytes as send_kb_to_host() queues them, one by one, without waiting *)
Room == KbLen - Len(kbQ)
Fitting(bytes) == SubSeq(bytes, 1, IF Len(bytes) < Room THEN Len(bytes) ELSE Room)
Overflows(bytes) == Len(bytes) > Room

SendToHost(bytes) ==
  /\ kbQ' = kbQ \o Fitting(bytes)
  /\ kbSem' = IF bytes = << >> THEN kbSem ELSE 1

HoldsKeys(q) == \E j \in DOMAIN q : ~IsAnswer(q[j])
HoldsAnswer(q) == \E j \in DOMAIN q : IsAnswer(q[j])

(* mtx_keyboard_callback(), by the kscan thread or by the timer; hot is    *)
(* hotkey_detected at that moment                                          *)
Accepted(code, hot) == IF kbdOn /\ ~hot THEN code ELSE << >>
Callback(code, hot) == SendToHost(Accepted(code, hot))
Drops(code, hot) == Overflows(Accepted(code, hot)) \/ (~kbdOn /\ code # << >>)

(* typematic_callback() *)
Repeat ==
  /\ timer /\ Spend(1)
  /\ Callback(tp, hotkey)
  /\ clean' = (clean /\ ~Drops(tp, hotkey))
  /\ UNCHANGED <<kbsVars, kbc, fromQ, odr, threads, mode, host, slow, lost, mixed,
                 off>>

ThreadsAsleep == pcC \notin {"op", "send"} /\ pcK # "loop"

(* The user keeps Fn, num lock and the SCI keys apart from other keys, uses *)
(* Fn with keys the keyboard's table knows, and no control key with print  *)
(* screen.                                                                 *)
Disciplined(k) ==
  /\ k = "prtsc" \/ "prtsc" \in held => (held \cup {k}) \cap CtrlKeys = {}
  /\ k \in {"fn", "num"} => held \subseteq {k}
  /\ k # "fn" /\ FnCombination(k) =>
       \/ FnType(k) \in {"code", "unmapped"}
       \/ FnType(k) = "sci" /\ held \subseteq {"fn", k}

(* kscan_callback() *)
Key(k, pressed, outcomes) ==
  /\ Spend(1) /\ ThreadsAsleep
  /\ held' = IF pressed THEN held \cup {k} ELSE held \ {k}
  /\ IF kscan
     THEN \E o \in outcomes :
            /\ Settle(o, pressed)
            /\ Callback(o.code, o.hotkey)
            /\ clean' = (clean /\ Disciplined(k) /\ ~Drops(o.code, o.hotkey))
     ELSE /\ clean' = FALSE
          /\ UNCHANGED <<flags, hotkey, tp, timer, kscan, kbQ, kbSem>>
  /\ UNCHANGED <<kbc, fromQ, odr, threads, mode, host, slow, lost, mixed,
                 off>>

Press == \E k \in Keys \ held : Key(k, TRUE, Make(k))
Release == \E k \in held : Key(k, FALSE, Break(k))

-----------------------------------------------------------------------------
(* The KBC thread *)

(* the next step of the thread *)
After(todo, answer) ==
  CASE todo # << >> -> "op"
    [] todo = << >> /\ answer # << >> -> "gap"
    [] OTHER -> "wait"

(* A command that is taken from the queue; what it still has to do follows *)
(* in steps, the interrupts may come between them.                         *)
Meaning(e) ==
  CASE e.port = 64 -> CommandEffect(e.c)
    [] e.port = 60 /\ st # "default" -> ParameterEffect(e.c)
    [] OTHER -> KeyboardEffect(e.c)

Replayed(e) == e.port = 60 /\ st = "default" /\ e.c = "resend"

KbcGet ==
  /\ pcC = "wait" /\ fromQ # << >> /\ ThreadsAsleep
  /\ LET e == Head(fromQ)
         m == Meaning(e)
         answer == IF Replayed(e) THEN resend ELSE Answer(e.id, e.from, m.n)
     IN /\ ops' = m.ops /\ st' = m.st /\ toSend' = answer
        /\ pcC' = After(m.ops, answer)
        /\ resend' = IF e.port = 60 /\ answer # << >> THEN answer ELSE resend
        /\ off' = IF "off" \in ToSet(m.ops) THEN e.c ELSE off
  /\ fromQ' = Tail(fromQ)
  /\ UNCHANGED <<kbsVars, kbdOn, kbQ, kbSem, odr, tries, pcK, triesK, mode, host, count,
                 clean, lost, mixed>>

Purge == kbQ' = << >>
PurgeLoses == clean' = (clean /\ ~HoldsKeys(kbQ)) /\ lost' = (lost \/ HoldsAnswer(kbQ))

(* One effect of the command: purge_kb_queue(), cmdbyte, typematic timer,  *)
(* E8042_CLEAR_OBF.                                                        *)
KbcOp ==
  /\ pcC = "op" /\ ops # << >>
  /\ ops' = Tail(ops) /\ pcC' = After(Tail(ops), toSend)
  /\ CASE Head(ops) = "purge" ->
            Purge /\ PurgeLoses /\ UNCHANGED <<kbdOn, odr, kbsVars>>
       [] Head(ops) = "off" ->
            kbdOn' = FALSE /\ UNCHANGED <<kbQ, odr, kbsVars, clean, lost>>
       [] Head(ops) = "on" ->
            kbdOn' = TRUE /\ UNCHANGED <<kbQ, odr, kbsVars, clean, lost>>
       [] Head(ops) = "stop" ->
            StopRepeat /\ UNCHANGED <<kbdOn, kbQ, odr, clean, lost>>
       [] OTHER ->
            /\ odr' = None
            /\ clean' = (clean /\ (odr = None \/ IsAnswer(odr)))
            /\ lost' = (lost \/ IsAnswer(odr))
            /\ UNCHANGED <<kbdOn, kbQ, kbsVars>>
  /\ UNCHANGED <<st, resend, fromQ, kbSem, toSend, tries, pcK, triesK, mode, host, count,
                 mixed, off>>

(* GAP_FOR_DUMMY_COMMANDS is over *)
KbcGap ==
  /\ pcC = "gap" /\ ThreadsAsleep
  /\ pcC' = "send" /\ tries' = 0
  /\ UNCHANGED <<kbsVars, kbc, queues, ops, toSend, pcK, triesK, mode, host, count, marks>>

(* Faulty variant: the register is written whether it was read or not.     *)
KbcSendBlind ==
  /\ pcC = "send"
  /\ odr' = Head(toSend) /\ toSend' = Tail(toSend) /\ tries' = 0
  /\ pcC' = IF Len(toSend) = 1 THEN "wait" ELSE "send"
  /\ UNCHANGED <<kbsVars, kbc, fromQ, kbQ, kbSem, ops, pcK, triesK, mode, host, count, marks>>

(* A pass of the loop of handle_from_to_host() *)
KbcSend ==
  /\ pcC = "send"
  /\ IF odr = None
     THEN /\ odr' = Head(toSend) /\ toSend' = Tail(toSend) /\ tries' = 0
          /\ pcC' = IF Len(toSend) = 1 THEN "wait" ELSE "send"
     ELSE pcC' = "sleep" /\ UNCHANGED <<odr, toSend, tries>>
  /\ UNCHANGED <<kbsVars, kbc, fromQ, kbQ, kbSem, ops, pcK, triesK, mode, host, count, marks>>

(* The host reads in time, except MaxSlow times. *)
Late ==
  /\ (odr # None /\ on /\ ~asleep) => slow < MaxSlow
  /\ slow' = IF odr # None /\ on /\ ~asleep THEN slow + 1 ELSE slow

(* Faulty variant: what is left is forgotten. *)
KbcRetryForgets ==
  /\ pcC = "sleep" /\ ThreadsAsleep /\ Late
  /\ tries' = tries + 1
  /\ IF tries + 1 = Retries THEN toSend' = << >> /\ pcC' = "wait"
                            ELSE pcC' = "send" /\ UNCHANGED toSend
  /\ UNCHANGED <<kbsVars, kbc, queues, ops, pcK, triesK, mode, host, work, marks>>

(* k_msleep(KBC_RETRY_PERIOD) is over: the next try, or what is left goes  *)
(* into the queue of the other thread.                                     *)
KbcRetry ==
  /\ pcC = "sleep" /\ ThreadsAsleep /\ Late
  /\ tries' = tries + 1
  /\ IF tries + 1 = Retries
     THEN /\ SendToHost(toSend) /\ toSend' = << >> /\ pcC' = "wait"
          /\ lost' = (lost \/ Overflows(toSend))
     ELSE pcC' = "send" /\ UNCHANGED <<kbQ, kbSem, toSend, lost>>
  /\ UNCHANGED <<kbsVars, kbc, fromQ, odr, ops, pcK, triesK, mode, host, work, clean, mixed, off>>

-----------------------------------------------------------------------------
(* The KB thread *)

KbTake ==
  /\ pcK = "wait" /\ kbSem = 1 /\ ThreadsAsleep
  /\ kbSem' = 0 /\ pcK' = "loop"
  /\ UNCHANGED <<kbsVars, kbc, fromQ, kbQ, odr, pcC, ops, toSend, tries, triesK, mode,
                 host, count, marks>>

KbEmpty ==
  /\ pcK = "loop" /\ kbQ = << >>
  /\ pcK' = "wait"
  /\ UNCHANGED <<kbsVars, kbc, queues, pcC, ops, toSend, tries, triesK, mode, host, count,
                 marks>>

(* OBF is set: another try later, or the queue is given up *)
KbBusy ==
  /\ pcK = "loop" /\ kbQ # << >> /\ odr # None
  /\ IF triesK > Retries
     THEN Purge /\ PurgeLoses /\ triesK' = 0 /\ pcK' = "wait"
     ELSE triesK' = triesK + 1 /\ pcK' = "sleep" /\ UNCHANGED <<kbQ, clean, lost>>
  /\ UNCHANGED <<kbsVars, kbc, fromQ, kbSem, odr, pcC, ops, toSend, tries, mode, host, count,
                 mixed, off>>

(* Faulty variant: the host is not woken. *)
KbWriteSilent ==
  /\ pcK = "loop" /\ kbQ # << >> /\ odr = None
  /\ odr' = Head(kbQ) /\ kbQ' = Tail(kbQ) /\ triesK' = 0
  /\ UNCHANGED <<kbsVars, kbc, fromQ, kbSem, pcC, pcK, ops, toSend, tries, mode, host, count,
                 marks>>

(* OBF is clear: when the sequencer has committed S3 the host is woken,    *)
(* then the byte is written.  A key after the host went to sleep and before *)
(* the sequencer has noticed fills the register and wakes nobody.          *)
KbWrite ==
  /\ pcK = "loop" /\ kbQ # << >> /\ odr = None
  /\ wakeSci' = (wakeSci \/ s3)
  /\ odr' = Head(kbQ) /\ kbQ' = Tail(kbQ) /\ triesK' = 0
  /\ UNCHANGED <<kbsVars, kbc, fromQ, kbSem, pcC, pcK, ops, toSend, tries, on, asleep, s3,
                 host, count, marks>>

(* k_msleep(TOHOST_RETRY_PERIOD) is over *)
KbRetry ==
  /\ pcK = "sleep" /\ ThreadsAsleep /\ Late
  /\ pcK' = "loop"
  /\ UNCHANGED <<kbsVars, kbc, queues, pcC, ops, toSend, tries, triesK, mode, host, work, marks>>

-----------------------------------------------------------------------------
(* The PWR thread and the power of the host *)

Quiet == /\ pcC = "wait" /\ fromQ = << >> /\ pcK = "wait" /\ kbSem = 0

(* kbc_disable_interface(), in power_off() between two commands: a state   *)
(* that waits for a parameter would outlive the power cycle.  The queue of *)
(* key bytes is left to the KB thread.                                     *)
PowerOff ==
  /\ on /\ Spend(1) /\ ThreadsAsleep
  /\ h.c = "none" /\ st = "default" /\ pcC = "wait" /\ fromQ = << >>
  /\ on' = FALSE /\ asleep' = FALSE
  /\ kbdOn' = FALSE /\ timer' = FALSE /\ kscan' = FALSE /\ off' = "power"
  /\ down' = {} /\ e0' = FALSE /\ clean' = FALSE
  /\ UNCHANGED <<held, flags, hotkey, tp, st, resend, queues, threads, s3, wakeSci, h, slow,
                 lost, mixed>>

(* kbc_enable_interface(), at the end of power_on()                        *)
EnableInterface == kbdOn' = TRUE /\ timer' = FALSE /\ kscan' = TRUE

(* power_on() from G3 or S5, seconds later; OBF is clear after the reset of *)
(* the platform.                                                           *)
PowerOn ==
  /\ ~on /\ ~s3 /\ Quiet
  /\ on' = TRUE /\ wakeSci' = FALSE /\ EnableInterface
  /\ odr' = None
  /\ UNCHANGED <<held, flags, hotkey, tp, st, resend, fromQ, kbQ, kbSem, threads, asleep, s3,
                 host, count, marks>>

(* resume(): power_on() returns some time after the host runs again, and   *)
(* the new state is committed: the keyboard is enabled, even if the host   *)
(* had disabled it.                                                        *)
Resume ==
  /\ on /\ ~asleep /\ s3 /\ ThreadsAsleep
  /\ s3' = FALSE /\ EnableInterface
  /\ UNCHANGED <<held, flags, hotkey, tp, st, resend, queues, threads, on, asleep, wakeSci,
                 host, count, marks>>

(* pwrseq_update() commits S3, or that it is left for S5.                  *)
Commit ==
  /\ ThreadsAsleep
  /\ \/ on /\ asleep /\ ~s3 /\ s3' = TRUE
     \/ ~on /\ s3 /\ s3' = FALSE
  /\ UNCHANGED <<kbsVars, kbc, queues, threads, on, asleep, wakeSci, host, count, marks>>

PwrThread == PowerOff \/ PowerOn \/ Resume \/ Commit

-----------------------------------------------------------------------------
(* The host *)

HostRuns == on /\ ~asleep

(* The host writes a byte; kbc_handler() queues it or drops it. *)
Write(port, c, id, from) ==
  IF Len(fromQ) < FromLen
  THEN fromQ' = Append(fromQ, [port |-> port, c |-> c, id |-> id, from |-> from])
       /\ UNCHANGED lost
  ELSE lost' = TRUE /\ UNCHANGED fromQ

Request ==
  /\ HostRuns /\ h.c = "none" /\ Spend(2)
  /\ \E c \in Cmds :
       /\ Write(IF c \in Port64 THEN 64 ELSE 60, c, h.id + 1, 0)
       /\ h' = [h EXCEPT !.c = c, !.id = h.id + 1, !.par = HasParameter(c),
                         !.want = IF c = "resend" THEN h.last
                                  ELSE Answer(h.id + 1, 0, Expected(c))]
  /\ UNCHANGED <<kbsVars, kbc, kbQ, kbSem, odr, threads, mode, down, e0, slow, clean, mixed, off>>

SendParameter ==
  /\ HostRuns /\ h.par /\ h.want = << >>
  /\ Write(60, h.c, h.id, 10)
  /\ h' = [h EXCEPT !.par = FALSE, !.want = Answer(h.id, 10, ExpectedAfter(h.c))]
  /\ UNCHANGED <<kbsVars, kbc, kbQ, kbSem, odr, threads, mode, down, e0, count, clean,
                 mixed, off>>

Done ==
  /\ h.c # "none" /\ ~h.par /\ h.want = << >>
  /\ h' = [h EXCEPT !.c = "none"]
  /\ UNCHANGED <<kbsVars, kbc, queues, threads, mode, down, e0, count, marks>>

(* OBF is set: the host takes the byte as the answer it waits for or as a  *)
(* key.                                                                    *)
Remembered ==      (* the last answer of port 60h *)
  IF h.c = "resend" \/ (h.c \in Port64 /\ odr.i <= 10) THEN h.last
  ELSE IF odr.i \in {1, 11} THEN <<odr>> ELSE Append(h.last, odr)

ReadAnswer ==
  /\ IsAnswer(odr)
  /\ IF h.want # << >> /\ Head(h.want) = odr
     THEN h' = [h EXCEPT !.want = Tail(h.want), !.last = Remembered] /\ UNCHANGED mixed
     ELSE mixed' = TRUE /\ UNCHANGED h
  /\ UNCHANGED <<down, e0>>

ReadKey ==
  /\ ~IsAnswer(odr)
  /\ IF odr = Prefix THEN e0' = TRUE /\ UNCHANGED down
     ELSE /\ e0' = FALSE
          /\ down' = IF odr.up THEN down \ {<<e0, odr.key>>}
                     ELSE IF odr.key \in {"pause", "break"} THEN down
                     ELSE down \cup {<<e0, odr.key>>}
  /\ UNCHANGED <<h, mixed>>

Read ==
  /\ HostRuns /\ odr # None
  /\ odr' = None
  /\ ReadAnswer \/ ReadKey
  /\ UNCHANGED <<kbsVars, kbc, fromQ, kbQ, kbSem, threads, mode, count, clean, lost, off>>

(* The host gives a command up only when its answer was lost. *)
GiveUp ==
  /\ HostRuns /\ h.c # "none" /\ lost /\ Quiet /\ odr = None
  /\ h' = [h EXCEPT !.c = "none", !.want = << >>, !.par = FALSE]
  /\ UNCHANGED <<kbsVars, kbc, queues, threads, mode, down, e0, count, marks>>

(* The host goes to sleep, not again before the sequencer has seen it wake *)
(* up.                                                                     *)
Suspend ==
  /\ HostRuns /\ ~s3 /\ h.c = "none" /\ Spend(1)
  /\ asleep' = TRUE
  /\ UNCHANGED <<kbsVars, kbc, queues, threads, on, s3, wakeSci, host, slow, marks>>

(* The PCH sees WAKE#, which the sequencer's power_on() takes back before  *)
(* the host runs.                                                          *)
Wakes ==
  /\ on /\ asleep /\ s3 /\ wakeSci
  /\ asleep' = FALSE /\ wakeSci' = FALSE
  /\ UNCHANGED <<kbsVars, kbc, queues, threads, on, s3, host, count, marks>>

-----------------------------------------------------------------------------
KbcThread == KbcGet \/ KbcOp \/ KbcGap \/ KbcSend \/ KbcRetry
KbThread == KbTake \/ KbEmpty \/ KbBusy \/ KbWrite \/ KbRetry
Host == Request \/ SendParameter \/ Done \/ Read \/ GiveUp \/ Suspend \/ Wakes
User == Press \/ Release \/ Repeat

KbcNext == KbcThread \/ KbThread \/ Host \/ User \/ PwrThread

(* The two threads run when they can; the host reads what it is given,     *)
(* completes a command it began and wakes up.                              *)
Fairness ==
  /\ WF_kbcVars(KbcThread) /\ WF_kbcVars(KbThread)
  /\ WF_kbcVars(SendParameter \/ Done \/ Read) /\ WF_kbcVars(Wakes)

KbcSpec == KbcInit /\ [][KbcNext]_kbcVars
KbcFairSpec == KbcSpec /\ Fairness

-----------------------------------------------------------------------------
KbcTypeOK ==
  /\ KbsTypeOK
  /\ kbdOn \in BOOLEAN /\ kbSem \in 0..1
  /\ {on, asleep, s3, wakeSci} \subseteq BOOLEAN
  /\ Len(kbQ) <= KbLen /\ Len(fromQ) <= FromLen /\ Len(toSend) <= 3
  /\ pcC \in {"wait", "op", "gap", "send", "sleep"}
  /\ pcK \in {"wait", "loop", "sleep"}
  /\ tries \in 0..Retries /\ triesK \in 0..Retries + 1
  /\ toSend = << >> => pcC \in {"wait", "op"}

(* Two keys the host believes down were pressed: when all keys are up and  *)
(* everything queued is read, the host believes no key down, for a user    *)
(* who is Disciplined and as long as no key byte was dropped.              *)
NoStuckKey ==
  (clean /\ held = {} /\ kbQ = << >> /\ odr = None) => down = {}

(* A key repeats only while it is held. *)
RepeatsHeldKey ==
  timer => \E k \in held : \/ tp = ScanCode(k, flags, TRUE)
                           \/ FnType(k) = "code" /\ tp = Code("end", FALSE)
                           \/ tp = <<[key |-> "junk", up |-> FALSE]>>

(* The controller command DIS_KB ends the stream of key bytes: none queued *)
(* before reaches the register afterwards.                                 *)
DisabledIsQuiet ==
  (~kbdOn /\ ops = << >> /\ off \in {"dis_kb", "wr_cmd_off"}) => ~HoldsKeys(kbQ)

(* The bytes of the answers come in order and to the command they answer,  *)
(* although a thread that waits for the host and the queue both carry them.*)
AnswersMatch == mixed => lost

(* Every command is answered in full, unless a byte was dropped because    *)
(* the host did not read for too long.                                     *)
CommandsAnswered == h.c # "none" ~> (h.c = "none" \/ lost)

(* A key wakes the host once the sequencer has committed S3, unless the    *)
(* output register is full, as it is after a key that came before that:    *)
(* then nothing the user types does (kbchost.c:555-583, pwrplane.c:588).   *)
KeyWakesHost ==
  (asleep /\ s3 /\ odr = None /\ kbQ # << >>) ~> (~asleep \/ ~on \/ ~kbdOn)
=============================================================================
