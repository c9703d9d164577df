------------------------------ MODULE PeciHub ------------------------------
(***************************************************************************)
(* The PECI hub, drivers/peci_hub.c: requests of several threads for one   *)
(* link, either the PECI wire or eSPI out of band messages, serialised by  *)
(* trans_mutex and tried again when the processor answers "not now".       *)
(*                                                                         *)
(* A request is its device and its command; of an answer only what the hub *)
(* looks at is kept: did the transfer work, which completion code came,    *)
(* which raw temperature.  Frames, lengths and checksums are left out.     *)
(* An answer over eSPI that carries less data than was asked for leaves    *)
(* the caller's buffer uninitialised, and the hub does not notice (junk).  *)
(***************************************************************************)
EXTENDS Integers

CONSTANTS
  Callers,      (* threads that use the hub                                  *)
  Tries,        (* PECI_RETRY_CNT                                            *)
  TjMax,        (* what the processor reports as its TjMax, degrees          *)
  MaxFaults     (* bound: transfers that do not give what was asked for, and *)
                (* what else fails in the modules that extend this one       *)

ASSUME PeciAssumption ==
  Tries \in Nat \ {0} /\ TjMax \in 1..255 /\ MaxFaults \in Nat

None == "none"
Devices == {"CPU", "GPU"}

(* The commands whose answer has no completion code are sent once, the     *)
(* others up to Tries times.                                               *)
Single == {"Ping", "GetDIB", "GetTemp"}
Retried == {"RdPkg", "WrPkg", "RdIAMSR", "WrIAMSR", "RdPCI", "WrPCI"}
Commands == Single \cup Retried

(* Completion codes: success; the two that ask for a later try; any other. *)
Codes == {"success", "later", "refused"}

VARIABLES
  owner,        (* trans_mutex                                               *)
  mode,         (* peci_access_mode                                          *)
  hubReady,     (* peci_initialized of the hub                               *)
  tjmax,        (* cpu_tjmax, gpu_tjmax; 0 is "not read yet"                 *)
  call,         (* what each caller is doing in the hub                      *)
  c10,          (* CPU_C10_GATE is low: the processor must not be woken      *)
  faults

hubVars == <<owner, mode, hubReady, tjmax, call, c10, faults>>

(* pc of a call: where the caller is; left: tries left; code: peci_resp,   *)
(* kept from one try to the next; bit: the host retry bit of the request;  *)
(* ok: the value returned was 0; junk: the data are what the stack held.   *)
Calls == [pc : {"idle", "lock", "try", "wait", "nap"}, dev : Devices,
          cmd : Commands, left : 0..Tries, code : Codes \cup {None},
          bit : BOOLEAN, ok : BOOLEAN, junk : BOOLEAN]

NoCall == [pc |-> "idle", dev |-> "CPU", cmd |-> "GetTemp", left |-> 0,
           code |-> None, bit |-> FALSE, ok |-> FALSE, junk |-> FALSE]

HubTypeOK ==
  /\ owner \in Callers \cup {None}
  /\ mode \in {"legacy", "espi"}
  /\ hubReady \in BOOLEAN
  /\ tjmax \in [Devices -> 0..255]
  /\ call \in [Callers -> Calls]
  /\ c10 \in BOOLEAN /\ faults \in 0..MaxFaults

(* peci_init() may fail; the board may start with the processor in C10.    *)
HubInit ==
  /\ owner = None /\ mode = "espi" /\ hubReady \in BOOLEAN
  /\ tjmax = [d \in Devices |-> 0]
  /\ call = [c \in Callers |-> NoCall]
  /\ c10 = FALSE /\ faults = 0

(***************************************************************************)
(* Which way a transfer goes is looked up each time: only the CPU can be   *)
(* reached over eSPI.                                                      *)
(***************************************************************************)
OverEspi == mode = "espi"
Wired(dev) == ~(OverEspi /\ dev = "CPU")

(* peci_access_mode_config(): only the two known modes are taken.          *)
Configured(m) == IF m \in {"legacy", "espi"} THEN m ELSE mode

(* The functions of the hub differ in the request they build; each ends in *)
(* one of the two ways to transfer it.                                     *)
Request(dev, cmd) ==
  [NoCall EXCEPT !.pc = "lock", !.dev = dev, !.cmd = cmd]

Start(c, dev, cmd) ==
  /\ call[c].pc = "idle"
  /\ call' = [call EXCEPT ![c] = Request(dev, cmd)]

(* The call returns and the mutex is given back.                           *)
Return(c, good) ==
  /\ call' = [call EXCEPT ![c] = [NoCall EXCEPT !.ok = good]]
  /\ owner' = None

(* A hub that is not initialised serves nobody, unless over eSPI.          *)
Lock(c) ==
  /\ call[c].pc = "lock" /\ owner = None
  /\ IF ~hubReady /\ ~OverEspi
       THEN Return(c, FALSE)
       ELSE /\ owner' = c
            /\ call' = [call EXCEPT ![c].pc = "try",
                 ![c].left = IF call[c].cmd \in Single THEN 1 ELSE Tries]
  /\ UNCHANGED <<mode, hubReady, tjmax, c10, faults>>

(* After a try: again while tries are left, else the result is the last    *)
(* completion code that came.                                              *)
Over(c, r) ==
  IF r.left > 0
    THEN /\ call' = [call EXCEPT ![c] = [r EXCEPT !.pc = "try"]]
         /\ UNCHANGED owner
    ELSE Return(c, r.code = "success")

(* One try.  The wire is not used while the processor is in C10; that      *)
(* counts as a failed try.                                                 *)
Try(c) ==
  LET r == [call[c] EXCEPT !.left = @ - 1] IN
  /\ call[c].pc = "try"
  /\ IF Wired(r.dev) /\ c10
       THEN Over(c, r)
       ELSE /\ call' = [call EXCEPT ![c] = [r EXCEPT !.pc = "wait"]]
            /\ UNCHANGED owner
  /\ UNCHANGED <<mode, hubReady, tjmax, c10, faults>>

(* A budget for everything that fails.                                     *)
Fault == faults < MaxFaults /\ faults' = faults + 1

(* The transfer works, and a retried command completes with success.       *)
AnswerGood(c) ==
  /\ call[c].pc = "wait" /\ Return(c, TRUE)
  /\ UNCHANGED <<mode, hubReady, tjmax, c10, faults>>

(* espioob_peci_transfer() copies what has come and returns 0.  A retried  *)
(* command then looks for its completion code on the stack: this is the    *)
(* case in which it finds success there, the others are AnswerOther.       *)
AnswerShort(c) ==
  /\ call[c].pc = "wait" /\ ~Wired(call[c].dev) /\ Fault
  /\ call' = [call EXCEPT ![c] = [NoCall EXCEPT !.ok = TRUE, !.junk = TRUE]]
  /\ owner' = None
  /\ UNCHANGED <<mode, hubReady, tjmax, c10>>

(* The transfer fails: no answer, or an error of the driver.               *)
AnswerFails(c) ==
  /\ call[c].pc = "wait" /\ Fault
  /\ Over(c, call[c])
  /\ UNCHANGED <<mode, hubReady, tjmax, c10>>

(* The processor completes a retried command with another code.            *)
AnswerOther(c, code) ==
  /\ call[c].pc = "wait" /\ call[c].cmd \in Retried /\ Fault
  /\ IF code = "later"
       THEN /\ call' = [call EXCEPT ![c].pc = "nap", ![c].code = code]
            /\ UNCHANGED owner
       ELSE Over(c, [call[c] EXCEPT !.code = code])
  /\ UNCHANGED <<mode, hubReady, tjmax, c10>>

(* k_msleep(PECI_RETRY_WAIT) is over: the next try says it is one.         *)
Nap(c) ==
  /\ call[c].pc = "nap"
  /\ Over(c, [call[c] EXCEPT !.bit = TRUE])
  /\ UNCHANGED <<mode, hubReady, tjmax, c10, faults>>

(* One step of a call after its start.                                     *)
HubStep(c) ==
  \/ Lock(c) \/ Try(c) \/ Nap(c)
  \/ AnswerGood(c) \/ AnswerShort(c) \/ AnswerFails(c)
  \/ \E code \in {"later", "refused"} : AnswerOther(c, code)

(***************************************************************************)
(* The temperature from the 16 bits of a GetTemp answer: 1/64 degrees      *)
(* below TjMax, in two's complement.  0x8000 is a sensor error, and 0 is   *)
(* what comes while the host resets.                                       *)
(***************************************************************************)
SensorError == 32768

(* A mutant: an answer of 0 is taken for TjMax.                            *)
ReadableZero(raw) == raw # SensorError

(* A mutant: the two's complement is forgotten.                            *)
DegreesPlain(dev, raw) == tjmax[dev] - (raw \div 64)

Readable(raw) == raw # SensorError /\ raw # 0
Degrees(dev, raw) == tjmax[dev] - (((65536 - raw) % 65536) \div 64)

(* What the processor sends when it is at t degrees, t <= TjMax.           *)
Raw(t) == (65536 - 64 * (TjMax - t)) % 65536
=============================================================================
