--------------------------- MODULE ThermalProofs ---------------------------
(***************************************************************************)
(* Thermal management with the PECI hub, for all values of the constants.  *)
(***************************************************************************)
EXTENDS Thermal, TLAPS

(***************************************************************************)
(* The hub.  A call that is about to try has a try left.                   *)
(***************************************************************************)
HubOK == HubTypeOK /\ \A c \in Callers : call[c].pc = "try" => call[c].left > 0

LEMMA NoCallIsCall == NoCall \in Calls
BY PeciAssumption DEF NoCall, Calls, Commands, Single, Devices

LEMMA RequestIsCall ==
  ASSUME NEW dev \in Devices, NEW cmd \in Commands
  PROVE  Request(dev, cmd) \in Calls /\ Request(dev, cmd).pc # "try"
BY NoCallIsCall DEF Request, NoCall, Calls

LEMMA TriedIsCall ==
  ASSUME NEW r \in Calls, r.left > 0
  PROVE  LET q == [r EXCEPT !.left = @ - 1] IN q \in Calls /\ q.left \in 0..Tries
<1> DEFINE n == r.left - 1
<1>1. r.left \in 0..Tries
  BY DEF Calls
<1>2. n \in 0..Tries
  BY <1>1, PeciAssumption
<1> HIDE DEF n
<1>3. [r EXCEPT !.left = n] \in Calls /\ [r EXCEPT !.left = n].left = n
  BY <1>2 DEF Calls
<1> QED BY <1>2, <1>3 DEF n

LEMMA StartKeeps ==
  ASSUME HubOK, NEW c \in Callers, NEW dev \in Devices, NEW cmd \in Commands,
         Start(c, dev, cmd), UNCHANGED <<owner, mode, hubReady, c10, faults>>,
         tjmax' \in [Devices -> 0..255]
  PROVE  HubOK'
<1>1. /\ call' \in [Callers -> Calls]
      /\ \A d \in Callers : call'[d].pc = "try" => call'[d].left > 0
  BY RequestIsCall DEF HubOK, HubTypeOK, Start
<1> QED BY <1>1 DEF HubOK, HubTypeOK

LEMMA ReturnKeeps ==
  ASSUME HubOK, NEW c \in Callers, NEW good \in BOOLEAN, Return(c, good)
  PROVE  /\ call' \in [Callers -> Calls] /\ owner' \in Callers \cup {None}
         /\ \A d \in Callers : call'[d].pc = "try" => call'[d].left > 0
<1>1. [NoCall EXCEPT !.ok = good] \in Calls /\ [NoCall EXCEPT !.ok = good].pc = "idle"
  BY NoCallIsCall DEF NoCall, Calls
<1> QED BY <1>1 DEF HubOK, HubTypeOK, Return

LEMMA OverKeeps ==
  ASSUME HubOK, NEW c \in Callers, NEW r \in Calls, Over(c, r)
  PROVE  /\ call' \in [Callers -> Calls] /\ owner' \in Callers \cup {None}
         /\ \A d \in Callers : call'[d].pc = "try" => call'[d].left > 0
<1>1. CASE r.left > 0
  <2>1. [r EXCEPT !.pc = "try"] \in Calls /\ [r EXCEPT !.pc = "try"].left = r.left
    BY DEF Calls
  <2>2. call' = [call EXCEPT ![c] = [r EXCEPT !.pc = "try"]] /\ owner' = owner
    BY <1>1 DEF Over
  <2> QED BY <2>1, <2>2, <1>1 DEF HubOK, HubTypeOK
<1>2. CASE ~(r.left > 0)
  BY <1>2, ReturnKeeps DEF Over
<1> QED BY <1>1, <1>2

LEMMA HubStepKeeps ==
  ASSUME HubOK, NEW c \in Callers, HubStep(c)
  PROVE  HubOK' /\ UNCHANGED tjmax
<1> DEFINE r == call[c]
<1>0. r \in Calls /\ (r.pc = "try" => r.left > 0) /\ r.left \in 0..Tries
  BY DEF HubOK, HubTypeOK, Calls
<1>a. faults' \in 0..MaxFaults /\ UNCHANGED <<mode, hubReady, tjmax, c10>>
  <2>1. UNCHANGED <<mode, hubReady, tjmax, c10>> /\ (Fault \/ faults' = faults)
    BY DEF HubStep, Lock, Try, Nap, AnswerGood, AnswerShort, AnswerFails, AnswerOther
  <2> QED BY <2>1, PeciAssumption DEF HubOK, HubTypeOK, Fault
<1>b. ASSUME call' \in [Callers -> Calls], owner' \in Callers \cup {None},
             \A d \in Callers : call'[d].pc = "try" => call'[d].left > 0
      PROVE  HubOK' /\ UNCHANGED tjmax
  BY <1>a, <1>b DEF HubOK, HubTypeOK
<1>1. CASE Lock(c)
  <2>1. CASE ~hubReady /\ ~OverEspi
    BY <1>1, <2>1, <1>b, ReturnKeeps DEF Lock
  <2>2. CASE ~(~hubReady /\ ~OverEspi)
    <3> DEFINE n == IF r.cmd \in Single THEN 1 ELSE Tries
               q == [r EXCEPT !.pc = "try", !.left = n]
    <3>1. n \in 0..Tries /\ n > 0
      BY PeciAssumption
    <3> HIDE DEF n
    <3>2. q \in Calls /\ q.left > 0
      BY <1>0, <3>1 DEF Calls
    <3>3. owner' = c /\ call' = [call EXCEPT ![c] = q]
      BY <1>1, <2>2 DEF Lock, HubOK, HubTypeOK, n
    <3> HIDE DEF q
    <3> QED BY <3>2, <3>3, <1>b DEF HubOK, HubTypeOK
  <2> QED BY <2>1, <2>2
<1>2. CASE Try(c)
  <2> DEFINE q == [r EXCEPT !.left = @ - 1]
  <2>1. q \in Calls /\ q.left \in 0..Tries
    BY <1>0, <1>2, TriedIsCall DEF Try
  <2>2. CASE Wired(q.dev) /\ c10
    <3>1. Over(c, q)
      BY <1>2, <2>2 DEF Try
    <3> QED BY <2>1, <3>1, OverKeeps, <1>b
  <2>3. CASE ~(Wired(q.dev) /\ c10)
    <3>1. owner' = owner /\ call' = [call EXCEPT ![c] = [q EXCEPT !.pc = "wait"]]
      BY <1>2, <2>3 DEF Try
    <3>2. [q EXCEPT !.pc = "wait"] \in Calls /\ [q EXCEPT !.pc = "wait"].pc = "wait"
      BY <2>1 DEF Calls
    <3> HIDE DEF q
    <3> QED BY <3>1, <3>2, <1>b DEF HubOK, HubTypeOK
  <2> QED BY <2>2, <2>3
<1>3. CASE Nap(c)
  <2>1. [r EXCEPT !.bit = TRUE] \in Calls /\ Over(c, [r EXCEPT !.bit = TRUE])
    BY <1>0, <1>3 DEF Nap, Calls
  <2> QED BY <2>1, OverKeeps, <1>b
<1>4. CASE AnswerGood(c)
  BY <1>4, ReturnKeeps, <1>b DEF AnswerGood
<1>7. CASE AnswerShort(c)
  <2>1. [NoCall EXCEPT !.ok = TRUE, !.junk = TRUE] \in Calls
        /\ [NoCall EXCEPT !.ok = TRUE, !.junk = TRUE].pc = "idle"
    BY NoCallIsCall DEF NoCall, Calls
  <2> QED BY <1>7, <2>1, <1>b DEF AnswerShort, HubOK, HubTypeOK
<1>5. CASE AnswerFails(c)
  BY <1>0, <1>5, OverKeeps, <1>b DEF AnswerFails
<1>6. ASSUME NEW code \in {"later", "refused"}, AnswerOther(c, code)
      PROVE  HubOK' /\ UNCHANGED tjmax
  <2>1. CASE code = "later"
    <3> DEFINE q == [r EXCEPT !.pc = "nap", !.code = code]
    <3>1. q \in Calls /\ q.pc = "nap"
      BY <1>0 DEF Codes, Calls
    <3>2. owner' = owner /\ call' = [call EXCEPT ![c] = q]
      BY <1>6, <2>1 DEF AnswerOther, HubOK, HubTypeOK
    <3> HIDE DEF q
    <3> QED BY <3>1, <3>2, <1>b DEF HubOK, HubTypeOK
  <2>2. CASE code # "later"
    <3>1. [r EXCEPT !.code = code] \in Calls /\ Over(c, [r EXCEPT !.code = code])
      BY <1>0, <1>6, <2>2 DEF AnswerOther, Codes, Calls
    <3> QED BY <3>1, OverKeeps, <1>b
  <2> QED BY <2>1, <2>2
<1> QED BY <1>a, <1>1, <1>2, <1>3, <1>4, <1>5, <1>6, <1>7 DEF HubStep

(***************************************************************************)
(* Next, with the host and the machine action by action.                   *)
(***************************************************************************)
HostSetting ==
  \/ \E l \in Limits : SetShutdownThreshold(l)
  \/ \E d \in Duties : WritePwm(d)
  \/ SetOsActiveTrip
HostMode ==
  \/ \E b \in BOOLEAN : AcpiMode(b) \/ Standby(b) \/ PltRst(b)
  \/ OsReads \/ DelayOver
Around ==
  \/ \E t \in Temps : Heat(t)
  \/ \E b \in BOOLEAN : C10(b) \/ Power(b)
Requests ==
  \/ \E m \in {"legacy", "espi", "wrong"} : AccessMode(m)
  \/ \E c \in Clients, d \in Devices, cmd \in ClientCmds : Client(c, d, cmd)
Transfers == \E c \in Callers : Transfer(c)

FanPart == Wake \/ OwnDuty \/ Apply \/ SetPwm \/ PwmFails \/ Bsod
Reading == AdcRead \/ AdcFails
Asking == CpuCheck \/ GpuCheck \/ GotGpuTjmax
Resting == CsCheck \/ GotGpuTemp \/ Pch \/ PchDone

LEMMA NextSteps ==
  Next => \/ FanPart \/ Reading \/ Asking \/ Resting
          \/ GotTjmax \/ GotTemp \/ Alert
          \/ (\E d \in Duties : BiosFanControl(d)) \/ (\E b \in BOOLEAN : UpdatePwm(b))
          \/ HostSetting \/ HostMode \/ Around \/ Requests \/ Transfers
<1>1. ThreadStep => FanPart \/ Reading \/ Asking \/ Resting \/ GotTjmax \/ GotTemp \/ Alert
  BY DEF ThreadStep, FanPart, Reading, Asking, Resting
<1>2. HostStep => \/ (\E d \in Duties : BiosFanControl(d)) \/ (\E b \in BOOLEAN : UpdatePwm(b))
                  \/ HostSetting \/ HostMode \/ Requests
  BY DEF HostStep, HostSetting, HostMode, Requests
<1>3. Machine => Around \/ Requests
  BY DEF Machine, Around, Requests
<1> QED BY <1>1, <1>2, <1>3 DEF Next, HostMode, Transfers

(***************************************************************************)
(* The state of the hub.                                                   *)
(***************************************************************************)
LEMMA HubStart == Init => HubOK
<1> SUFFICES ASSUME HubInit PROVE HubOK
  BY DEF Init
<1>1. NoCall.pc = "idle" /\ NoCall \in Calls
  BY NoCallIsCall DEF NoCall
<1>2. call \in [Callers -> Calls] /\ \A c \in Callers : call[c].pc # "try"
  BY <1>1 DEF HubInit
<1>3. tjmax \in [Devices -> 0..255] /\ faults \in 0..MaxFaults
  BY PeciAssumption DEF HubInit
<1> QED BY <1>2, <1>3 DEF HubInit, HubTypeOK, HubOK

LEMMA HubStays == HubOK /\ UNCHANGED hubVars => HubOK'
BY DEF HubOK, HubTypeOK, hubVars

LEMMA Users ==
  Callers = Clients \cup {"therm"} /\ ClientCmds \subseteq Commands
BY ThermalAssumption

LEMMA Ranges ==
  /\ StackBytes \subseteq 0..255 /\ StackWords \subseteq Nat
  /\ Temps \subseteq 0..TjMax /\ Limits \subseteq 0..255 /\ Duties \subseteq 0..100
BY ThermalAssumption

LEMMA AskingKeeps ==
  ASSUME HubOK, Asking \/ GotTjmax
  PROVE  HubOK'
<1>0. /\ "therm" \in Callers /\ {"CPU", "GPU"} \subseteq Devices
      /\ {"RdPkg", "GetTemp"} \subseteq Commands
      /\ tjmax \in [Devices -> 0..255] /\ TjMax \in 0..255 /\ StackBytes \subseteq 0..255
  <2>1. TjMax \in 0..255
    BY PeciAssumption
  <2> QED BY <2>1, Users, Ranges DEF Devices, Commands, Single, Retried, HubOK, HubTypeOK
<1>1. CASE CpuCheck
  BY <1>0, <1>1, StartKeeps, HubStays DEF CpuCheck, Ask, hubVars
<1>2. CASE GpuCheck
  BY <1>0, <1>2, StartKeeps DEF GpuCheck, Ask
<1>3. CASE GotGpuTjmax
  BY <1>0, <1>3, StartKeeps, HubStays DEF GotGpuTjmax, hubVars
<1>4. CASE GotTjmax
  BY <1>0, <1>4, StartKeeps, HubStays DEF GotTjmax, hubVars
<1> QED BY <1>1, <1>2, <1>3, <1>4 DEF Asking

LEMMA FaultKeeps ==
  HubOK /\ Fault /\ UNCHANGED <<owner, mode, hubReady, tjmax, call, c10>> => HubOK'
BY PeciAssumption DEF HubOK, HubTypeOK, Fault

LEMMA HubNext == HubOK /\ [Next]_vars => HubOK'
<1> SUFFICES ASSUME HubOK, [Next]_vars PROVE HubOK'
  OBVIOUS
<1>1. CASE FanPart \/ Resting \/ Alert
  BY <1>1, HubStays, FaultKeeps DEF FanPart, Wake, OwnDuty, Apply, SetPwm, PwmFails, Bsod, Resting, CsCheck,
                        GotGpuTemp, Pch, PchDone, Alert, EnqueueSci
<1>2. CASE Reading
  BY <1>2, HubStays, FaultKeeps DEF Reading, AdcRead, AdcFails
<1>3. CASE Asking \/ GotTjmax
  BY <1>3, AskingKeeps
<1>4. CASE GotTemp
  BY <1>4, HubStays, FaultKeeps DEF GotTemp
<1>5. CASE HostSetting \/ (\E d \in Duties : BiosFanControl(d)) \/ (\E b \in BOOLEAN : UpdatePwm(b))
  BY <1>5, HubStays DEF HostSetting, SetShutdownThreshold, WritePwm, SetOsActiveTrip,
                        BiosFanControl, UpdatePwm
<1>6. CASE HostMode
  BY <1>6, HubStays DEF HostMode, AcpiMode, Standby, PltRst, OsReads, DelayOver
<1>7. CASE Around
  BY <1>7, HubStays DEF Around, Heat, C10, Power, HubOK, HubTypeOK, hubVars
<1>8. CASE Requests
  <2>1. ASSUME NEW m, AccessMode(m) PROVE HubOK'
    BY <2>1 DEF AccessMode, Configured, HubOK, HubTypeOK
  <2>2. ASSUME NEW c \in Clients, NEW d \in Devices, NEW cmd \in ClientCmds,
               Client(c, d, cmd)
        PROVE  HubOK'
    <3>1. c \in Callers /\ cmd \in Commands
      BY Users
    <3>2. Start(c, d, cmd) /\ UNCHANGED <<owner, mode, hubReady, tjmax, c10, faults>>
      BY <2>2 DEF Client
    <3>3. tjmax' \in [Devices -> 0..255]
      BY <3>2 DEF HubOK, HubTypeOK
    <3> QED BY <3>1, <3>2, <3>3, StartKeeps
  <2> QED BY <1>8, <2>1, <2>2 DEF Requests
<1>9. CASE Transfers
  BY <1>9, HubStepKeeps DEF Transfers, Transfer
<1>10. CASE UNCHANGED vars
  BY <1>10, HubStays DEF vars
<1> QED
  BY <1>1, <1>2, <1>3, <1>4, <1>5, <1>6, <1>7, <1>8, <1>9, <1>10, NextSteps

(***************************************************************************)
(* What the processor sends is read as what it meant, except at TjMax.     *)
(***************************************************************************)
LEMMA ReadingExact ==
  ASSUME NEW t \in 0..TjMax, Readable(Raw(t)), tjmax["CPU"] = TjMax
  PROVE  Degrees("CPU", Raw(t)) = t
<1> DEFINE k == TjMax - t
<1>0. TjMax \in 1..255 /\ k \in 0..255 /\ t = TjMax - k
  BY PeciAssumption
<1>1. Raw(t) = (65536 - 64 * k) % 65536
  BY DEF Raw
<1> HIDE DEF k
<1>2. k # 0
  BY <1>0, <1>1 DEF Readable
<1>3. Raw(t) = 65536 - 64 * k
  BY <1>0, <1>1, <1>2
<1>4. ((65536 - Raw(t)) % 65536) \div 64 = k
  BY <1>0, <1>2, <1>3
<1> QED BY <1>0, <1>4 DEF Degrees

(***************************************************************************)
(* Where the thread is in its request, and the temperatures.               *)
(***************************************************************************)
TjKnown ==
  ~short => tjmax["CPU"] \in {0, TjMax} /\ (pc = "temp" => tjmax["CPU"] = TjMax)
TempsOK ==
  /\ cpuTemp \in -1023..255 /\ lastTold \in -1023..255 /\ reply \in -1..TjMax
  /\ ~short => cpuTemp \in 0..255 /\ lastTold \in 0..255
  /\ short \in BOOLEAN /\ crit \in 0..255 /\ shown \in 0..255 /\ real \in Temps /\ told \in -1..255
ReadingOK == TjKnown /\ TempsOK

(* A temperature that has been found is the processor's or the fail safe,  *)
(* unless it comes of data that were never received.                       *)
Truthful(t, r) == t \in 0..255 /\ (r = t \/ t = FailTemp)
Finding ==
  \E t \in -1023..255, r \in -1..TjMax : (~short' => Truthful(t, r)) /\ Found(t, r)

LEMMA Halfword == \A x \in Int : (x % 65536) \div 64 \in 0..1023
BY SMT

LEMMA JunkDegrees ==
  ASSUME HubOK, NEW raw \in Nat
  PROVE  Degrees("CPU", raw) \in -1023..255
<1>1. tjmax["CPU"] \in 0..255
  BY DEF HubOK, HubTypeOK, Devices
<1> DEFINE k == ((65536 - raw) % 65536) \div 64
<1>2. k \in 0..1023
  <2>1. 65536 - raw \in Int
    BY SMT
  <2> QED BY <2>1, Halfword
<1> HIDE DEF k
<1>3. tjmax["CPU"] - k \in -1023..255
  <2> DEFINE a == tjmax["CPU"]
  <2>1. a \in 0..255 /\ k \in 0..1023
    BY <1>1, <1>2
  <2> HIDE DEF a
  <2>2. a - k \in -1023..255
    BY <2>1, SMT
  <2> QED BY <2>2 DEF a
<1>4. Degrees("CPU", raw) = tjmax["CPU"] - k
  BY DEF Degrees, k
<1> QED BY <1>3, <1>4

LEMMA TempFound ==
  ASSUME HubOK, ReadingOK, GotTemp
  PROVE  Finding
<1>0. TjMax \in 1..255 /\ real \in 0..TjMax /\ FailTemp \in 0..255
      /\ FailTemp \in -1023..255 /\ -1 \in -1..TjMax /\ real \in -1..TjMax
  <2>1. TjMax \in 1..255 /\ FailTemp \in 0..255 /\ FailTemp \in -1023..255
        /\ -1 \in -1..TjMax
    BY PeciAssumption DEF FailTemp
  <2>2. real \in 0..TjMax
    BY Ranges DEF ReadingOK, TempsOK
  <2> QED BY <2>1, <2>2, PeciAssumption
<1>a. ASSUME NEW r \in -1..TjMax, Found(FailTemp, r) PROVE Finding
  BY <1>0, <1>a DEF Finding, Truthful
<1>b. ASSUME NEW raw \in {0, SensorError}, Answered(raw, -1) PROVE Finding
  <2>1. Found(FailTemp, -1)
    BY <1>b DEF Answered, Readable
  <2> QED BY <1>0, <1>a, <2>1
<1>1. CASE Found(FailTemp, -1)
  BY <1>0, <1>1, <1>a
<1>2. CASE Answered(Raw(real), real) /\ ~Me.junk
  <2>1. CASE ~Readable(Raw(real))
    <3>1. Found(FailTemp, real)
      BY <1>2, <2>1 DEF Answered
    <3> QED BY <3>1, <1>0, <1>a
  <2>2. CASE Readable(Raw(real)) /\ ~short
    <3>1. tjmax["CPU"] = TjMax
      BY <2>2 DEF GotTemp, ReadingOK, TjKnown
    <3>2. Degrees("CPU", Raw(real)) = real
      BY <1>0, <2>2, <3>1, ReadingExact
    <3>3. Found(real, real)
      BY <1>2, <2>2, <3>2 DEF Answered
    <3>4. real \in 0..255 /\ real \in -1023..255 /\ real \in -1..TjMax
      BY <1>0
    <3> QED BY <3>3, <3>4 DEF Finding, Truthful
  <2>3. CASE Readable(Raw(real)) /\ short
    <3> DEFINE d == Degrees("CPU", Raw(real))
    <3>1. Raw(real) \in Nat
      BY <1>0 DEF Raw
    <3>2. d \in -1023..255
      BY <3>1, JunkDegrees
    <3>3. Found(d, real)
      BY <1>2, <2>3 DEF Answered
    <3>4. short'
      BY <2>3, <3>3 DEF Found
    <3> QED BY <1>0, <3>2, <3>3, <3>4 DEF Finding
  <2> QED BY <2>1, <2>2, <2>3 DEF ReadingOK, TempsOK
<1>3. ASSUME Me.junk, NEW raw \in StackWords, Answered(raw, -1) PROVE Finding
  <2>1. CASE Readable(raw)
    <3> DEFINE d == Degrees("CPU", raw)
    <3>1. raw \in Nat
      BY Ranges
    <3>2. d \in -1023..255
      BY <3>1, JunkDegrees
    <3>3. Found(d, -1)
      BY <1>3, <2>1 DEF Answered
    <3>4. short'
      BY <1>3, <3>3 DEF Found
    <3> QED BY <1>0, <3>2, <3>3, <3>4 DEF Finding
  <2>2. CASE ~Readable(raw)
    <3>1. Found(FailTemp, -1)
      BY <1>3, <2>2 DEF Answered
    <3> QED BY <1>0, <1>a, <3>1
  <2> QED BY <2>1, <2>2
<1> QED BY <1>1, <1>2, <1>3, <1>b DEF GotTemp

LEMMA TjmaxFound ==
  ASSUME HubOK, GotTjmax
  PROVE  \/ Finding /\ pc' # "temp" /\ UNCHANGED tjmax
         \/ /\ pc' = "temp" /\ (short' <=> short \/ Me.junk)
            /\ (~Me.junk => tjmax'["CPU"] = TjMax)
            /\ UNCHANGED <<fan, adcTry, cpuTemp, lastTold, reply, pchCnt, table, world>>
<1>1. CASE Me.ok
  <2>1. PICK t \in IF Me.junk THEN StackBytes ELSE {TjMax} :
             tjmax' = [tjmax EXCEPT !["CPU"] = t]
    BY <1>1 DEF GotTjmax
  <2>2. tjmax'["CPU"] = t
    BY <2>1 DEF HubOK, HubTypeOK, Devices
  <2> QED BY <1>1, <2>1, <2>2 DEF GotTjmax, Goto
<1>2. CASE ~Me.ok
  <2>1. Found(FailTemp, -1) /\ FailTemp \in 0..255 /\ FailTemp \in -1023..255
        /\ -1 \in -1..TjMax
    BY <1>2, PeciAssumption DEF GotTjmax, FailTemp
  <2>2. pc' # "temp" /\ UNCHANGED tjmax
    BY <1>2, <2>1 DEF Found, Goto, GotTjmax
  <2> QED BY <2>1, <2>2 DEF Finding, Truthful
<1> QED BY <1>1, <1>2

LEMMA FindingKeeps ==
  ASSUME TempsOK, Finding, Me.junk \in BOOLEAN
  PROVE  TempsOK' /\ pc' # "temp" /\ (short => short')
<1>1. PICK t \in -1023..255, r \in -1..TjMax : (~short' => Truthful(t, r)) /\ Found(t, r)
  BY DEF Finding
<1>2. /\ cpuTemp' = t /\ reply' = r /\ shown' = t % 256 /\ short' = (short \/ Me.junk)
      /\ UNCHANGED <<lastTold, crit, real, told>> /\ pc' # "temp"
  BY <1>1 DEF Found, Goto
<1>3. t % 256 \in 0..255
  OBVIOUS
<1> QED BY <1>1, <1>2, <1>3 DEF TempsOK, Truthful

LEMMA MeJunk == HubOK => Me.junk \in BOOLEAN
<1>1. HubOK => call["therm"] \in Calls
  BY Users DEF HubOK, HubTypeOK
<1> QED BY <1>1 DEF Me, Calls

LEMMA TjStays == TjKnown /\ UNCHANGED <<pc, tjmax, short>> => TjKnown'
BY DEF TjKnown

LEMMA ReadingNext == HubOK /\ ReadingOK /\ [Next]_vars => ReadingOK'
<1> SUFFICES ASSUME HubOK, ReadingOK, [Next]_vars PROVE TempsOK' /\ TjKnown'
  BY DEF ReadingOK
<1> USE DEF ReadingOK
<1>1. CASE FanPart
  <2>1. UNCHANGED <<sense, table, world, tjmax>> /\ pc' # "temp"
    BY <1>1 DEF FanPart, Wake, OwnDuty, Apply, SetPwm, PwmFails, Bsod, Goto, hubVars
  <2> QED BY <2>1 DEF sense, table, world, TempsOK, TjKnown
<1>2. CASE Reading
  <2>1. UNCHANGED <<cpuTemp, lastTold, reply, short, table, world, tjmax>>
    BY <1>2 DEF Reading, AdcRead, AdcFails, hubVars
  <2>2. pc' # "temp"
    BY <1>2 DEF Reading, AdcRead, AdcFails, Goto
  <2> QED BY <2>1, <2>2 DEF table, world, TempsOK, TjKnown
<1>3. CASE Asking
  <2>1. TempsOK'
    <3>1. UNCHANGED <<sense, table, world>>
      BY <1>3 DEF Asking, CpuCheck, GpuCheck, GotGpuTjmax
    <3> QED BY <3>1 DEF sense, table, world, TempsOK
  <2>2. CASE CpuCheck
    <3>1. tjmax' = tjmax /\ short' = short /\ (pc' = "temp" => tjmax["CPU"] # 0)
      BY <2>2 DEF CpuCheck, Ask, Goto, sense
    <3> QED BY <2>1, <3>1 DEF TjKnown, HubOK, HubTypeOK, Devices
  <2>3. CASE GpuCheck
    BY <2>1, <2>3 DEF GpuCheck, Ask, Goto, TjKnown, sense
  <2>4. CASE GotGpuTjmax
    <3>1. tjmax'["CPU"] = tjmax["CPU"] /\ short' = short /\ pc' # "temp"
      BY <2>4 DEF GotGpuTjmax, Goto, sense, HubOK, HubTypeOK, Devices
    <3> QED BY <2>1, <3>1 DEF TjKnown
  <2> QED BY <1>3, <2>1, <2>2, <2>3, <2>4 DEF Asking
<1>4. CASE Resting
  <2>1. /\ UNCHANGED <<cpuTemp, lastTold, reply, short, table, world, tjmax>>
        /\ pc' # "temp"
    BY <1>4 DEF Resting, CsCheck, GotGpuTemp, Pch, PchDone, Goto, sense, hubVars
  <2> QED BY <2>1 DEF table, world, TempsOK, TjKnown
<1>5. CASE GotTjmax
  <2>1. ASSUME Finding, pc' # "temp", UNCHANGED tjmax PROVE TempsOK' /\ TjKnown'
    <3>1. TempsOK' /\ (short => short')
      BY <2>1, MeJunk, FindingKeeps
    <3> QED BY <2>1, <3>1 DEF TjKnown
  <2>2. ASSUME pc' = "temp", short' <=> short \/ Me.junk,
               ~Me.junk => tjmax'["CPU"] = TjMax,
               UNCHANGED <<cpuTemp, lastTold, reply, table, world>>
        PROVE  TempsOK' /\ TjKnown'
    <3>1. short' \in BOOLEAN /\ (short => short')
      BY <1>5, <2>2, MeJunk DEF GotTjmax, Found, TempsOK
    <3>2. TempsOK'
      BY <2>2, <3>1 DEF table, world, TempsOK
    <3>3. TjKnown'
      BY <2>2, MeJunk DEF TjKnown
    <3> QED BY <3>2, <3>3
  <2> QED BY <1>5, <2>1, <2>2, TjmaxFound
<1>6. CASE GotTemp
  <2>1. UNCHANGED tjmax
    BY <1>6 DEF GotTemp, hubVars
  <2>2. TempsOK' /\ pc' # "temp" /\ (short => short')
    BY <1>6, MeJunk, TempFound, FindingKeeps
  <2> QED BY <2>1, <2>2 DEF TjKnown
<1>7. CASE Alert
  BY <1>7 DEF Alert, EnqueueSci, hubVars, Goto, TempsOK, TjKnown
<1>8. CASE HostSetting \/ (\E d \in Duties : BiosFanControl(d)) \/ (\E b \in BOOLEAN : UpdatePwm(b))
  <2>1. UNCHANGED <<pc, tjmax, short>>
    BY <1>8 DEF sense, HostSetting, SetShutdownThreshold, WritePwm, SetOsActiveTrip,
                BiosFanControl, UpdatePwm, hubVars
  <2>2. ASSUME NEW l \in Limits PROVE CritFor(l) \in 0..255
    BY Ranges DEF CritFor, ShutdownDefault, Tolerance
  <2>3. ASSUME NEW l \in Limits, SetShutdownThreshold(l) PROVE TempsOK'
    BY <2>2, <2>3 DEF SetShutdownThreshold, sense, HostRest, TempsOK
  <2>4. CASE (\E d \in Duties : WritePwm(d) \/ BiosFanControl(d)) \/ SetOsActiveTrip
             \/ (\E b \in BOOLEAN : UpdatePwm(b))
    <3>1. UNCHANGED <<sense, crit, shown, HostRest>>
      BY <2>4 DEF WritePwm, SetOsActiveTrip, BiosFanControl, UpdatePwm, table
    <3>2. /\ cpuTemp' = cpuTemp /\ lastTold' = lastTold /\ reply' = reply
          /\ crit' = crit /\ shown' = shown /\ real' = real /\ told' = told
          /\ short' = short
      BY <3>1 DEF sense, HostRest
    <3>3. TempsOK' BY <3>2 DEF TempsOK
    <3> QED BY <2>1, <3>3, TjStays
  <2> QED BY <1>8, <2>1, <2>3, <2>4, TjStays DEF HostSetting
<1>9. CASE HostMode
  <2>1. UNCHANGED <<pc, tjmax, short>>
    BY <1>9 DEF sense, HostMode, AcpiMode, Standby, PltRst, OsReads, DelayOver, hubVars
  <2>2. TempsOK'
    <3>1. /\ UNCHANGED <<cpuTemp, lastTold, reply, short, crit, real>>
          /\ shown' \in {shown, ResetTemp} /\ told' \in {told, -1, shown}
      BY <1>9 DEF HostMode, AcpiMode, Standby, PltRst, OsReads, DelayOver, sense, HostRest,
                  world
    <3> QED BY <3>1 DEF TempsOK, ResetTemp
  <2> QED BY <2>1, <2>2, TjStays
<1>10. CASE Around \/ Requests
  <2>1. CASE Around
    <3>1. ASSUME NEW t \in Temps, Heat(t)
          PROVE  UNCHANGED <<pc, tjmax, sense, table, told>> /\ real' \in Temps
      BY <3>1 DEF Heat, hubVars
    <3>2. ASSUME NEW b \in BOOLEAN, C10(b) \/ Power(b)
          PROVE  UNCHANGED <<pc, tjmax, sense, table, real>> /\ told' \in {told, -1}
      BY <3>2 DEF C10, Power, hubVars
    <3>3. /\ UNCHANGED <<pc, tjmax, sense, table>>
          /\ real' \in Temps \cup {real} /\ told' \in {told, -1}
      BY <2>1, <3>1, <3>2 DEF Around
    <3>4. TempsOK' BY <3>3 DEF sense, table, TempsOK
    <3>5. UNCHANGED short BY <3>3 DEF sense
    <3> QED BY <3>3, <3>4, <3>5, TjStays
  <2>2. ASSUME NEW m, AccessMode(m) PROVE TempsOK' /\ UNCHANGED <<pc, tjmax, short>>
    BY <2>2 DEF AccessMode, sense, table, HostRest, TempsOK
  <2>3. ASSUME NEW c, NEW d, NEW cmd, Client(c, d, cmd)
        PROVE  TempsOK' /\ UNCHANGED <<pc, tjmax, short>>
    BY <2>3 DEF Client, sense, table, TempsOK
  <2> QED BY <1>10, <2>1, <2>2, <2>3, TjStays DEF Requests
<1>11. CASE Transfers
  <2>1. UNCHANGED <<pc, tjmax, short>>
    BY <1>11, HubStepKeeps DEF Transfers, Transfer, sense
  <2> QED BY <1>11, <2>1, TjStays DEF Transfers, Transfer, sense, table, world, TempsOK
<1>12. CASE UNCHANGED vars
  BY <1>12 DEF vars, sense, table, world, hubVars, TempsOK, TjKnown
<1> QED
  BY <1>1, <1>2, <1>3, <1>4, <1>5, <1>6, <1>7, <1>8, <1>9, <1>10, <1>11, <1>12, NextSteps

LEMMA ReadingInductive == Spec => [](HubOK /\ ReadingOK)
<1>1. Init => ReadingOK
  <2> SUFFICES ASSUME Init PROVE TjKnown /\ TempsOK
    BY DEF ReadingOK
  <2>1. TjKnown
    <3>1. tjmax["CPU"] = 0 /\ pc = "sleep"
      BY DEF Init, HubInit, Devices
    <3> QED BY <3>1 DEF TjKnown
  <2>2. TempsOK
    <3>1. /\ cpuTemp = 0 /\ lastTold = 0 /\ reply = -1 /\ short = FALSE
          /\ crit = 103 /\ shown = 0 /\ real \in Temps /\ told = -1
      BY DEF Init, ShutdownDefault
    <3>2. -1 \in -1..TjMax
      BY PeciAssumption
    <3>3. 0 \in -1023..255 /\ -1 \in -1..255 /\ 0 \in 0..255 /\ 103 \in 0..255
      BY SMT
    <3>4. short \in BOOLEAN
      BY <3>1
    <3> QED BY <3>1, <3>2, <3>3, <3>4 DEF TempsOK
  <2> QED BY <2>1, <2>2
<1> QED BY <1>1, HubStart, HubNext, ReadingNext, PTL DEF Spec

(* The machine is not shut down for a temperature the processor did not    *)
(* have, unless the host put the limit at or under the fail safe one or an *)
(* answer came without its data: what the hub cannot read, and what it     *)
(* makes of two's complement, never does it (thermalmgmt.c:380-384,        *)
(* peci_hub.c:299-308, 766-781).                                           *)
THEOREM ShutdownsAreJustified == Spec => ShutdownJustified
<1> DEFINE Justified == tripped' /\ ~tripped => reply' >= crit \/ crit <= FailTemp \/ short'
<1>1. HubOK /\ ReadingOK /\ [Next]_vars => [Justified]_vars
  <2> SUFFICES ASSUME HubOK, ReadingOK, [Next]_vars PROVE Justified
    OBVIOUS
  <2>1. ASSUME Finding PROVE Justified
    <3>1. PICK t \in -1023..255, r \in -1..TjMax :
               (~short' => Truthful(t, r)) /\ Found(t, r)
      BY <2>1 DEF Finding
    <3>2. short' \in BOOLEAN /\ crit \in 0..255
      BY <3>1, MeJunk DEF Found, ReadingOK, TempsOK
    <3> QED BY <3>1, <3>2 DEF Found, Truthful, FailTemp
  <2>2. CASE GotTjmax
    BY <2>1, <2>2, TjmaxFound DEF world
  <2>3. CASE GotTemp
    BY <2>1, <2>3, TempFound
  <2>4. CASE FanPart \/ Reading \/ Asking \/ Resting \/ Alert
    <3>1. UNCHANGED tripped
      BY <2>4 DEF FanPart, Wake, OwnDuty, Apply, SetPwm, PwmFails, Bsod, Reading, AdcRead, AdcFails,
                  Asking, CpuCheck, GpuCheck, GotGpuTjmax, Resting, CsCheck, GotGpuTemp,
                  Pch, PchDone, Alert, world
    <3> QED BY <3>1
  <2>5. CASE HostSetting \/ (\E d \in Duties : BiosFanControl(d)) \/ (\E b \in BOOLEAN : UpdatePwm(b))
    BY <2>5 DEF HostSetting, SetShutdownThreshold, WritePwm, SetOsActiveTrip,
                BiosFanControl, UpdatePwm, HostRest
  <2>6. CASE HostMode
    BY <2>6 DEF HostMode, AcpiMode, Standby, PltRst, OsReads, DelayOver, HostRest, world
  <2>7. CASE Around
    BY <2>7 DEF Around, Heat, C10, Power
  <2>8. CASE Requests \/ Transfers
    BY <2>8 DEF Requests, AccessMode, Client, Transfers, Transfer, HostRest, world
  <2>9. CASE UNCHANGED vars
    BY <2>9 DEF vars, world
  <2> QED BY <2>2, <2>3, <2>4, <2>5, <2>6, <2>7, <2>8, <2>9, NextSteps
<1> QED BY <1>1, ReadingInductive, PTL DEF Spec, ShutdownJustified

(***************************************************************************)
(* The fan: except between the clearing of the flag and the write, what is *)
(* driven is what was asked for, or the flag, the override or the driver   *)
(* that refused says why not.                                              *)
(***************************************************************************)
FanOK ==
  /\ pc \in Steps
  /\ hostCtl \in Duties \cup {0} /\ pwmEnd \in Duties \cup {0}
  /\ duty \in 0..255 /\ hw \in 0..100
FanFollows == pc # "pwm" => hw = Driven(duty) \/ change \/ setBy # "duty"

LEMMA DutyIsByte == cpuTemp \in -1023..255 => FanSpeed(cpuTemp) \in 0..255
BY DEF FanSpeed

LEMMA DrivenIsPercent == \A d \in 0..255 : Driven(d) \in 0..100
BY DEF Driven

LEMMA DutyStep == FanOK /\ FanFollows /\ TempsOK /\ [Next]_vars => FanOK' /\ FanFollows'
<1> SUFFICES ASSUME FanOK, FanFollows, TempsOK, [Next]_vars PROVE FanOK' /\ FanFollows'
  OBVIOUS
<1>0. hostCtl \in 0..255 /\ pwmEnd \in 0..255 /\ \A d \in Duties : d \in 0..255
  <2>1. Duties \subseteq 0..100
    BY Ranges
  <2>2. 0..100 \subseteq 0..255 /\ 0 \in 0..255
    OBVIOUS
  <2> QED BY <2>1, <2>2 DEF FanOK
<1> USE DEF FanOK, FanFollows, Steps, Goto
<1>1. CASE Wake
  <2>1. UNCHANGED <<hostCtl, duty, change, hw, setBy, pwmEnd>> /\ pc = "sleep"
        /\ pc' \in {"cs", "apply", "duty"}
    BY <1>1 DEF Wake, table
  <2> QED BY <2>1
<1>2. CASE OwnDuty
  <2>1. duty' = FanSpeed(cpuTemp) /\ change' = (change \/ duty # FanSpeed(cpuTemp))
        /\ UNCHANGED <<hostCtl, hw, setBy, pwmEnd>> /\ pc = "duty" /\ pc' = "apply"
    BY <1>2 DEF OwnDuty, table
  <2>2. FanSpeed(cpuTemp) \in 0..255
    BY DutyIsByte DEF TempsOK
  <2> QED BY <2>1, <2>2
<1>3. CASE Apply
  BY <1>3 DEF Apply, table, OverrideDuty
<1>4. CASE SetPwm
  BY <1>4, DrivenIsPercent DEF SetPwm, table
<1>17. CASE PwmFails
  BY <1>17 DEF PwmFails, table
<1>5. CASE Bsod
  <2>1. UNCHANGED <<hostCtl, duty, change, pwmEnd>> /\ pc = "bsod" /\ pc' = "cs"
    BY <1>5 DEF Bsod, table
  <2>2. \/ hw' = hw /\ (setBy' = setBy \/ setBy' = "bsod")
        \/ hw' \in {0, BsodFan} /\ setBy' = "bsod"
    BY <1>5 DEF Bsod
  <2> QED BY <2>1, <2>2 DEF BsodFan
<1>6. CASE Reading
  BY <1>6 DEF Reading, Sensing, AdcRead, AdcFails, fan, table
<1>7. CASE Asking
  <2>1. UNCHANGED <<fan, table>> /\ pc # "pwm" /\ pc' \in {"tjmax", "temp", "pch", "gpuTjmax", "gpuTemp", "alert"}
    BY <1>7 DEF Asking, CpuCheck, GpuCheck, GotGpuTjmax, Ask
  <2> QED BY <2>1 DEF fan, table
<1>8. CASE Resting
  BY <1>8 DEF Resting, CsCheck, GotGpuTemp, Pch, PchDone, fan, table
<1>9. CASE GotTjmax \/ GotTemp
  <2>1. pc # "pwm" /\ UNCHANGED fan /\ pwmEnd' = pwmEnd
        /\ pc' \in {"temp", "pch", "gpu", "alert"}
    BY <1>9 DEF GotTjmax, GotTemp, Answered, Found, table
  <2> QED BY <2>1 DEF fan
<1>10. CASE Alert
  BY <1>10 DEF Alert, fan
<1>11. CASE (\E d \in Duties : BiosFanControl(d)) \/ (\E b \in BOOLEAN : UpdatePwm(b))
  BY <1>11, <1>0 DEF BiosFanControl, UpdatePwm, UpdateFan, table
<1>12. CASE HostSetting
  BY <1>12 DEF HostSetting, SetShutdownThreshold, WritePwm, SetOsActiveTrip, fan, table
<1>13. CASE HostMode
  BY <1>13 DEF HostMode, AcpiMode, Standby, PltRst, OsReads, DelayOver, fan
<1>14. CASE Around
  BY <1>14 DEF Around, Heat, C10, Power, fan, table
<1>15. CASE Requests \/ Transfers
  BY <1>15 DEF Requests, AccessMode, Client, Transfers, Transfer, fan, table
<1>16. CASE UNCHANGED vars
  BY <1>16 DEF vars, fan, table
<1> QED
  BY <1>1, <1>2, <1>3, <1>4, <1>5, <1>6, <1>7, <1>8, <1>9, <1>10, <1>11, <1>12, <1>13,
     <1>14, <1>15, <1>16, <1>17, NextSteps DEF FanPart

LEMMA FanInductive == Spec => [](FanOK /\ FanFollows)
<1>1. Init => FanOK /\ FanFollows
  BY DEF Init, FanOK, FanFollows, Steps, OverrideDuty
<1>2. ReadingOK => TempsOK
  BY DEF ReadingOK
<1> QED BY <1>1, <1>2, DutyStep, ReadingInductive, PTL DEF Spec

(* A thread that sleeps has not lost what an interrupt asked of the fan    *)
(* while it wrote the fan: if the PWM is not as asked for, the change flag *)
(* is up, or the last write was the override's or one that the driver      *)
(* refused (thermalmgmt.c:282-288, fan_ls.c:71-85).                        *)
THEOREM FanKeepsUp == Spec => []FanSettles
<1>1. FanOK /\ FanFollows => FanSettles
  BY DEF FanOK, FanFollows, FanSettles
<1> QED BY <1>1, FanInductive, PTL

(***************************************************************************)
(* What the OS was told.  A temperature it has read is the one that was in *)
(* the table; the one that counts as told is not far from the last one     *)
(* found, once Alert has compared them, and what the OS read is not far    *)
(* from that one, until the next has been found.  None of it holds of data *)
(* that never came; what the OS read is near nothing once an alert is lost.*)
(***************************************************************************)
Pending == pc \in {"gpu", "gpuTjmax", "gpuTemp", "alert"}
Heard == told \notin {-1, ResetTemp}
Near(a, b) == Away(a, b) <= AlertDelta

TableShows ==
  /\ told # -1 => ScisOn
  /\ shown \in {cpuTemp, ResetTemp}
  /\ Heard => shown = cpuTemp
AlertKeepsUp == ~tripped /\ ~Pending => Near(cpuTemp, lastTold)
HeardIsNear ==
  ~tripped /\ Heard /\ ~sci /\ ~lost => Near(told, lastTold) \/ (Pending /\ told = cpuTemp)
Tells == TableShows /\ AlertKeepsUp /\ HeardIsNear
ToldInv == short \/ Tells

LEMMA ToldStays ==
  ToldInv /\ UNCHANGED <<cpuTemp, lastTold, shown, acpi, sci, rst, s0, told, tripped,
                         short, lost>>
    /\ (Pending' <=> Pending) => ToldInv'
BY DEF ToldInv, Tells, TableShows, AlertKeepsUp, HeardIsNear, Heard, ScisOn

(* A step of the host or of the machine that makes the OS deaf, or ends it. *)
LEMMA DeafStays ==
  ToldInv /\ told' = -1 /\ UNCHANGED <<pc, cpuTemp, lastTold, tripped, short>>
    /\ shown' \in {shown, ResetTemp} => ToldInv'
BY DEF ToldInv, Tells, TableShows, AlertKeepsUp, HeardIsNear, Heard, Pending

LEMMA FindingTells ==
  ASSUME ToldInv, TempsOK, Finding, ~Pending
  PROVE  ToldInv'
<1> SUFFICES ASSUME ~short' PROVE Tells'
  BY DEF ToldInv
<1>1. PICK t \in -1023..255, r \in -1..TjMax : Truthful(t, r) /\ Found(t, r)
  BY DEF Finding
<1>0. ~short /\ Tells /\ t \in 0..255
  BY <1>1 DEF Found, ToldInv, Truthful, TempsOK
<1>2. /\ cpuTemp' = t /\ shown' = t /\ UNCHANGED <<lastTold, acpi, sci, rst, s0, told, lost>>
      /\ tripped' \/ (~tripped /\ Pending')
  <2>0. t % 256 = t
    BY <1>0
  <2>1. cpuTemp' = t /\ shown' = t /\ UNCHANGED <<lastTold, acpi, sci, rst, s0, told, lost>>
    BY <1>1, <2>0 DEF Found
  <2>2. CASE t >= crit
    BY <1>1, <2>1, <2>2 DEF Found
  <2>3. CASE ~(t >= crit)
    <3>1. Pending' /\ (tripped' <=> tripped)
      BY <1>1, <2>3 DEF Found, Goto, Pending
    <3> QED BY <2>1, <3>1
  <2> QED BY <2>2, <2>3
<1> QED BY <1>0, <1>2 DEF Tells, TableShows, HeardIsNear, AlertKeepsUp, Heard, ScisOn

LEMMA AlertTells ==
  ASSUME ToldInv, TempsOK, Alert
  PROVE  ToldInv'
<1> SUFFICES ASSUME ~short' PROVE Tells'
  BY DEF ToldInv
<1> DEFINE news == Away(cpuTemp, lastTold) > AlertDelta
<1>0. ~short /\ Tells
  BY DEF Alert, ToldInv
<1>1. /\ Pending /\ ~Pending'
      /\ lastTold' = (IF news THEN cpuTemp ELSE lastTold)
      /\ UNCHANGED <<cpuTemp, shown, acpi, rst, s0, told, tripped>>
  <2>1. pc = "alert" /\ pc' = "pch"
        /\ UNCHANGED <<cpuTemp, shown, acpi, rst, s0, told, tripped>>
    BY DEF Alert, Goto
  <2> QED BY <2>1 DEF Alert, Pending
<1>a. /\ ~news \/ ~ScisOn => UNCHANGED <<sci, lost>>
      /\ news /\ ScisOn => sci' = TRUE \/ lost' = TRUE
  BY DEF Alert, EnqueueSci
<1>2. Near(cpuTemp', lastTold')
  BY <1>0, <1>1 DEF Near, Away, AlertDelta, TempsOK
<1>3. TableShows' /\ AlertKeepsUp'
  BY <1>0, <1>1, <1>2 DEF Tells, TableShows, AlertKeepsUp, Heard, ScisOn
<1>4. HeardIsNear'
  <2> SUFFICES ASSUME ~tripped, Heard, ~sci', ~lost' PROVE Near(told, lastTold')
    BY <1>1 DEF HeardIsNear, Heard
  <2>1. ScisOn
    BY <1>0, <1>1 DEF Tells, TableShows, Heard
  <2>2. ~news /\ ~sci /\ ~lost
    BY <1>a, <2>1
  <2>3. Near(told, lastTold) \/ told = cpuTemp
    BY <1>0, <2>2 DEF Tells, HeardIsNear
  <2> QED BY <1>1, <1>2, <2>2, <2>3
<1> QED BY <1>3, <1>4 DEF Tells

LEMMA ToldStep == ToldInv /\ HubOK /\ ReadingOK /\ [Next]_vars => ToldInv'
<1> SUFFICES ASSUME ToldInv, HubOK, ReadingOK, [Next]_vars PROVE ToldInv'
  OBVIOUS
<1>0. TempsOK
  BY DEF ReadingOK
<1>1. CASE FanPart \/ Reading \/ Asking \/ Resting
  <2>1. UNCHANGED <<table, world, cpuTemp, lastTold, short>>
    BY <1>1 DEF FanPart, Wake, OwnDuty, Apply, SetPwm, PwmFails, Bsod, Reading, AdcRead, AdcFails,
                Asking, CpuCheck, GpuCheck, GotGpuTjmax, Resting, CsCheck, GotGpuTemp,
                Pch, PchDone, sense
  <2>2. Pending' <=> Pending
    BY <1>1 DEF FanPart, Wake, OwnDuty, Apply, SetPwm, PwmFails, Bsod, Reading, Sensing, AdcRead, AdcFails,
                Asking, CpuCheck, GpuCheck, GotGpuTjmax, Resting, CsCheck, GotGpuTemp,
                Pch, PchDone, Ask, Goto, Pending
  <2> QED BY <2>1, <2>2, ToldStays DEF table, world
<1>2. CASE GotTjmax
  <2>1. ~Pending
    BY <1>2 DEF GotTjmax, Pending
  <2>2. CASE Finding
    BY <2>1, <2>2, <1>0, FindingTells
  <2>3. ASSUME pc' = "temp", short' <=> short \/ Me.junk,
               UNCHANGED <<cpuTemp, lastTold, table, world>>
        PROVE  ToldInv'
    <3>1. CASE short'
      BY <3>1 DEF ToldInv
    <3>2. CASE ~short'
      BY <2>1, <2>3, <3>2 DEF ToldInv, Tells, TableShows, AlertKeepsUp, HeardIsNear, Heard,
         ScisOn, Pending, table, world
    <3> QED BY <3>1, <3>2
  <2> QED BY <1>2, <2>2, <2>3, TjmaxFound
<1>3. CASE GotTemp
  BY <1>0, <1>3, TempFound, FindingTells DEF GotTemp, Pending
<1>4. CASE Alert
  BY <1>0, <1>4, AlertTells
<1>5. CASE HostSetting \/ (\E d \in Duties : BiosFanControl(d)) \/ (\E b \in BOOLEAN : UpdatePwm(b))
  <2>1. UNCHANGED <<pc, sense, shown, acpi, sci, HostRest>>
    BY <1>5 DEF HostSetting, SetShutdownThreshold, WritePwm, SetOsActiveTrip,
                BiosFanControl, UpdatePwm, table
  <2> QED BY <2>1, ToldStays DEF sense, HostRest, Pending
<1>6. CASE OsReads
  <2>1. /\ ScisOn /\ told' = shown /\ ~sci'
        /\ UNCHANGED <<pc, cpuTemp, lastTold, short, shown, acpi, rst, s0, tripped>>
    BY <1>6 DEF OsReads, sense
  <2> QED BY <2>1 DEF ToldInv, Tells, TableShows, AlertKeepsUp, HeardIsNear, Heard, ScisOn, Pending
<1>7. CASE DelayOver \/ (\E b \in BOOLEAN : Standby(b))
  BY <1>7, ToldStays DEF DelayOver, Standby, sense, world, HostRest, Pending
<1>8. ASSUME NEW b \in BOOLEAN, AcpiMode(b) PROVE ToldInv'
  <2>1. CASE b
    <3>1. /\ acpi' /\ UNCHANGED <<pc, cpuTemp, lastTold, short, lost, shown, sci, rst, s0, told, tripped>>
      BY <1>8, <2>1 DEF AcpiMode, sense
    <3> QED BY <3>1 DEF ToldInv, Tells, TableShows, AlertKeepsUp, HeardIsNear, Heard, ScisOn, Pending
  <2>2. CASE ~b
    BY <1>8, <2>2, DeafStays DEF AcpiMode, sense
  <2> QED BY <2>1, <2>2
<1>9. ASSUME NEW b \in BOOLEAN, PltRst(b) \/ Power(b) PROVE ToldInv'
  BY <1>9, DeafStays DEF PltRst, Power, sense, table
<1>10. CASE (\E t \in Temps : Heat(t)) \/ (\E b \in BOOLEAN : C10(b))
  BY <1>10, ToldStays DEF Heat, C10, sense, table, Pending
<1>11. ASSUME NEW m, AccessMode(m) PROVE ToldInv'
  BY <1>11, ToldStays DEF AccessMode, sense, table, HostRest, Pending
<1>12. ASSUME NEW c, NEW d, NEW cmd, Client(c, d, cmd) PROVE ToldInv'
  BY <1>12, ToldStays DEF Client, sense, table, Pending
<1>13. CASE Transfers
  BY <1>13, ToldStays DEF Transfers, Transfer, sense, table, world, Pending
<1>14. CASE UNCHANGED vars
  BY <1>14, ToldStays DEF vars, sense, table, world, Pending
<1> QED
  BY <1>1, <1>2, <1>3, <1>4, <1>5, <1>6, <1>7, <1>8, <1>9, <1>10, <1>11, <1>12, <1>13,
     <1>14, NextSteps DEF HostMode, Around, Requests

(* An OS that listens and has no event outstanding works with a            *)
(* temperature near the one in the table, although the EC compares each    *)
(* new one with the last it announced and the OS reads later               *)
(* (thermalmgmt.c:400-411).                                                *)
THEOREM OsIsToldInTime == Spec => []ToldCurrent
<1>1. Init => ToldInv
  BY DEF Init, ToldInv, Tells, TableShows, AlertKeepsUp, HeardIsNear, Heard, Near, Away,
         AlertDelta, ResetTemp
<1>2. ToldInv /\ ReadingOK => ToldCurrent
  <2> SUFFICES ASSUME ToldInv, TempsOK, pc = "sleep", ~sci, ~lost, ~short, Heard, ~tripped
               PROVE  Away(told, shown) <= 2 * AlertDelta
    BY DEF ToldCurrent, Heard, ReadingOK
  <2>1. shown = cpuTemp /\ Near(cpuTemp, lastTold) /\ Near(told, lastTold)
    BY DEF ToldInv, Tells, TableShows, AlertKeepsUp, HeardIsNear, Pending
  <2> QED BY <2>1 DEF Near, Away, AlertDelta, TempsOK
<1> QED BY <1>1, <1>2, ToldStep, ReadingInductive, PTL DEF Spec

(***************************************************************************)
(* The other types: flags, and what is counted.                            *)
(***************************************************************************)
SwitchesOK ==
  /\ change \in BOOLEAN /\ power \in BOOLEAN /\ bsod \in BOOLEAN
  /\ crossed \in BOOLEAN /\ setBy \in {"duty", "bsod", "failed"}
FlagsOK ==
  /\ acpi \in BOOLEAN /\ sci \in BOOLEAN /\ delay \in BOOLEAN /\ cs \in BOOLEAN
  /\ s0 \in BOOLEAN /\ rst \in BOOLEAN /\ tripped \in BOOLEAN
  /\ lost \in BOOLEAN
CountsOK ==
  /\ adcTry \in 0..AdcTries /\ pchCnt \in 0..PchPeriod
  /\ hosted \in 0..MaxHost /\ outside \in 0..MaxOutside /\ called \in 0..MaxCalls

LEMMA SwitchesStep == SwitchesOK /\ [Next]_vars => SwitchesOK'
<1> SUFFICES ASSUME SwitchesOK, [Next]_vars PROVE SwitchesOK'
  OBVIOUS
<1> USE DEF SwitchesOK
<1>1. CASE FanPart
  BY <1>1 DEF FanPart, Wake, OwnDuty, Apply, SetPwm, PwmFails, Bsod
<1>2. CASE Reading \/ Asking \/ Resting \/ GotTjmax \/ GotTemp \/ Alert
  BY <1>2 DEF Reading, AdcRead, AdcFails, Asking, CpuCheck, GpuCheck, GotGpuTjmax, Resting,
              CsCheck, GotGpuTemp, Pch, PchDone, GotTjmax, GotTemp, Answered, Found, Alert, fan
<1>3. CASE HostSetting \/ (\E d \in Duties : BiosFanControl(d)) \/ (\E b \in BOOLEAN : UpdatePwm(b))
  BY <1>3 DEF HostSetting, SetShutdownThreshold, WritePwm, SetOsActiveTrip,
              BiosFanControl, UpdatePwm, UpdateFan, fan
<1>4. CASE HostMode \/ Around
  BY <1>4 DEF HostMode, AcpiMode, Standby, PltRst, OsReads, DelayOver, Around, Heat, C10,
              Power, fan
<1>5. CASE Requests \/ Transfers
  BY <1>5 DEF Requests, AccessMode, Client, Transfers, Transfer, fan
<1>6. CASE UNCHANGED vars
  BY <1>6 DEF vars, fan
<1> QED BY <1>1, <1>2, <1>3, <1>4, <1>5, <1>6, NextSteps

LEMMA FlagsStep == FlagsOK /\ [Next]_vars => FlagsOK'
<1> SUFFICES ASSUME FlagsOK, [Next]_vars PROVE FlagsOK'
  OBVIOUS
<1> USE DEF FlagsOK
<1>1. CASE FanPart \/ Reading \/ Asking \/ Resting
  <2>1. UNCHANGED <<table, world>>
    <3>1. CASE FanPart
      BY <3>1 DEF FanPart, Wake, OwnDuty, Apply, SetPwm, PwmFails, Bsod
    <3>2. CASE Reading \/ Asking
      BY <3>2 DEF Reading, AdcRead, AdcFails, Asking, CpuCheck, GpuCheck, GotGpuTjmax
    <3>3. CASE Resting
      BY <3>3 DEF Resting, CsCheck, GotGpuTemp, Pch, PchDone
    <3> QED BY <1>1, <3>1, <3>2, <3>3
  <2> QED BY <2>1 DEF table, world
<1>2. ASSUME NEW t, NEW r, Found(t, r) PROVE FlagsOK'
  BY <1>2 DEF Found
<1>3. CASE GotTjmax \/ GotTemp
  BY <1>2, <1>3 DEF GotTjmax, GotTemp, Answered, table, world
<1>4. CASE Alert
  BY <1>4 DEF Alert, EnqueueSci, ScisOn
<1>5. CASE HostSetting \/ (\E d \in Duties : BiosFanControl(d)) \/ (\E b \in BOOLEAN : UpdatePwm(b))
  <2>1. UNCHANGED <<acpi, sci, delay, cs, HostRest>>
    BY <1>5 DEF HostSetting, SetShutdownThreshold, WritePwm, SetOsActiveTrip,
                BiosFanControl, UpdatePwm, table
  <2> QED BY <2>1 DEF HostRest
<1>6. CASE HostMode
  <2>1. ASSUME NEW b \in BOOLEAN, AcpiMode(b) PROVE FlagsOK'
    BY <2>1 DEF AcpiMode
  <2>2. ASSUME NEW b \in BOOLEAN, Standby(b) PROVE FlagsOK'
    BY <2>2 DEF Standby, HostRest
  <2>3. ASSUME NEW b \in BOOLEAN, PltRst(b) PROVE FlagsOK'
    BY <2>3 DEF PltRst
  <2>4. CASE OsReads \/ DelayOver
    BY <2>4 DEF OsReads, DelayOver, world
  <2> QED BY <1>6, <2>1, <2>2, <2>3, <2>4 DEF HostMode
<1>7. CASE Around
  BY <1>7 DEF Around, Heat, C10, Power, table
<1>8. CASE Requests
  BY <1>8 DEF Requests, AccessMode, Client, table, HostRest
<1>10. CASE Transfers
  BY <1>10 DEF Transfers, Transfer, table, world
<1>9. CASE UNCHANGED vars
  BY <1>9 DEF vars, table, world
<1> QED BY <1>1, <1>3, <1>4, <1>5, <1>6, <1>7, <1>8, <1>9, <1>10, NextSteps

LEMMA BoundsAreNat ==
  PchPeriod \in Nat /\ MaxHost \in Nat /\ MaxOutside \in Nat /\ MaxCalls \in Nat
BY ThermalAssumption

LEMMA CountsStep == CountsOK /\ [Next]_vars => CountsOK'
<1> SUFFICES ASSUME CountsOK, [Next]_vars PROVE CountsOK'
  OBVIOUS
<1> USE BoundsAreNat DEF CountsOK, AdcTries
<1>1. CASE FanPart \/ Asking \/ CsCheck \/ GotGpuTemp \/ PchDone
  BY <1>1 DEF FanPart, Wake, OwnDuty, Apply, SetPwm, PwmFails, Bsod, Asking, CpuCheck, GpuCheck,
              GotGpuTjmax, CsCheck, GotGpuTemp, PchDone, sense, world
<1>2. CASE Reading
  BY <1>2 DEF Reading, AdcRead, AdcFails, world
<1>3. CASE Pch
  BY <1>3 DEF Pch, world
<1>4. CASE GotTjmax \/ GotTemp
  BY <1>4 DEF GotTjmax, GotTemp, Answered, Found, sense, world
<1>5. CASE Alert
  BY <1>5 DEF Alert
<1>6. CASE HostSetting \/ (\E d \in Duties : BiosFanControl(d)) \/ (\E b \in BOOLEAN : UpdatePwm(b))
  <2>1. Hosts /\ UNCHANGED <<sense, HostRest>>
    BY <1>6 DEF HostSetting, SetShutdownThreshold, WritePwm, SetOsActiveTrip,
                BiosFanControl, UpdatePwm
  <2> QED BY <2>1 DEF Hosts, Outside, sense, HostRest
<1>7. CASE HostMode
  <2>1. \/ Hosts /\ called' = called
        \/ Outside /\ UNCHANGED <<hosted, called>>
        \/ UNCHANGED <<hosted, outside, called>>
    BY <1>7 DEF HostMode, AcpiMode, Standby, PltRst, OsReads, DelayOver, HostRest, world
  <2>2. UNCHANGED sense
    BY <1>7 DEF HostMode, AcpiMode, Standby, PltRst, OsReads, DelayOver
  <2> QED BY <2>1, <2>2 DEF Hosts, Outside, sense
<1>8. CASE Around
  <2>1. UNCHANGED <<sense, hosted, called>> /\ (Outside \/ outside' = outside)
    BY <1>8 DEF Around, Heat, C10, Power
  <2> QED BY <2>1 DEF Outside, sense
<1>9. ASSUME NEW m, AccessMode(m) PROVE CountsOK'
  BY <1>9 DEF AccessMode, Hosts, Outside, sense, HostRest
<1>10. ASSUME NEW c, NEW d, NEW cmd, Client(c, d, cmd) PROVE CountsOK'
  BY <1>10 DEF Client, Outside, sense
<1>11. CASE Transfers
  BY <1>11 DEF Transfers, Transfer, sense, world
<1>12. CASE UNCHANGED vars
  BY <1>12 DEF vars, sense, world
<1> QED
  BY <1>1, <1>2, <1>3, <1>4, <1>5, <1>6, <1>7, <1>8, <1>9, <1>10, <1>11, <1>12, NextSteps
     DEF Requests, Resting

(* The type invariant.  A temperature of the hub is within the byte of the *)
(* ACPI table, the PWM within 100 percent though the EC's own duty cycle   *)
(* need not be (thermalmgmt.c:268, fan_ls.c:67-69).                        *)
THEOREM ThermalTypes == Spec => []TypeOK
<1>1. Init => SwitchesOK /\ FlagsOK
  BY DEF Init, HubInit, SwitchesOK, FlagsOK
<1>2. Init => CountsOK
  BY BoundsAreNat DEF Init, CountsOK, AdcTries
<1>3. HubOK /\ ReadingOK /\ FanOK /\ SwitchesOK /\ FlagsOK /\ CountsOK => TypeOK
  BY DEF HubOK, ReadingOK, TempsOK, FanOK, SwitchesOK, FlagsOK, CountsOK, TypeOK
<1>4. Spec => []SwitchesOK
  BY <1>1, SwitchesStep, PTL DEF Spec
<1>5. Spec => []FlagsOK
  BY <1>1, FlagsStep, PTL DEF Spec
<1>6. Spec => []CountsOK
  BY <1>2, CountsStep, PTL DEF Spec
<1> QED BY <1>3, <1>4, <1>5, <1>6, ReadingInductive, FanInductive, PTL
=============================================================================
