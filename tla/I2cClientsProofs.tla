-------------------------- MODULE I2cClientsProofs -------------------------
(***************************************************************************)
(* The invariants of Postcode and of DeepSx, whose threads share the I2C   *)
(* bus with each other and with its failures: the display hangs on it and  *)
(* so does the EEPROM of the deep Sx mode.  The two specifications are     *)
(* independent; each theorem names its own, for all values of the          *)
(* constants.                                                              *)
(***************************************************************************)
EXTENDS Postcode, DeepSx, TLAPS

(* Post codes *)

(***************************************************************************)
(* Types.  A thread that is about to switch the display on has a try left. *)
(***************************************************************************)
TriesLeft == point = "on" => tries < Tries
Bytes == 0..255
Words == Bytes \X Bytes

(* PostTypeOK in four parts, one for each kind of value. *)
BytesOK ==
  /\ port80 \in Bytes /\ port81 \in Bytes /\ err \in Bytes
  /\ word \in Words /\ shown \in Words
FlagsOK ==
  /\ sem \in BOOLEAN /\ semReady \in BOOLEAN /\ listens \in BOOLEAN
  /\ lit \in BOOLEAN /\ busy \in BOOLEAN /\ excused \in BOOLEAN
PointsOK == point \in Points /\ tries \in 0..Tries /\ TriesLeft
BoundsOK == codes \in 0..MaxCodes /\ errors \in 0..MaxErrors /\ fails \in 0..MaxFails

TypeInv == BytesOK /\ FlagsOK /\ PointsOK /\ BoundsOK

LEMMA Parts == TypeInv => PostTypeOK
BY DEF TypeInv, PostTypeOK, BytesOK, FlagsOK, PointsOK, BoundsOK, Bytes, Words

(* What the host and the sequencer send is a byte. *)
LEMMA Sent ==
  /\ \A c \in Codes : c \in Bytes
  /\ \A e \in Errors \cup {0} : e \in Bytes
  /\ 0 \in Bytes /\ EC \in Bytes
BY PostcodeAssumption DEF Bytes, EC

LEMMA BytesStep == BytesOK /\ [PostNext]_postVars => BytesOK'
<1> SUFFICES ASSUME BytesOK, [PostNext]_postVars PROVE BytesOK'
  OBVIOUS
<1> USE DEF BytesOK, Moves, data, chip
<1>1. CASE \E c \in Codes : HostPosts(c)
  BY <1>1, Sent DEF HostPosts, Post80, Post81
<1>2. CASE \E e \in Errors \cup {0} : UpdateError(e)
  BY <1>2, Sent DEF UpdateError
<1>3. CASE ClientBus(TRUE) \/ ClientBus(FALSE)
  BY <1>3 DEF ClientBus
<1>4. CASE \/ Setup("decode", "brightness") \/ Setup("brightness", "digits")
           \/ Setup("digits", "register")
  BY <1>4 DEF Setup
<1>5. CASE Register \/ SemInit \/ Take \/ Test
  BY <1>5 DEF Register, SemInit, Take, Test
<1>6. CASE Set80 \/ Set81
  BY <1>6, Sent DEF Set80, Set81
<1>7. CASE High
  BY <1>7 DEF High, Words
<1>8. CASE Low
  BY <1>8 DEF Low, Words
<1>9. CASE On \/ Show
  BY <1>9 DEF On, Show
<1>10. CASE UNCHANGED postVars
  BY <1>10 DEF postVars
<1> QED
  BY <1>1, <1>2, <1>3, <1>4, <1>5, <1>6, <1>7, <1>8, <1>9, <1>10
  DEF PostNext, Thread

LEMMA FlagsStep == FlagsOK /\ [PostNext]_postVars => FlagsOK'
<1> SUFFICES ASSUME FlagsOK, [PostNext]_postVars PROVE FlagsOK'
  OBVIOUS
<1> USE DEF FlagsOK, Moves, Write, chip, signal
<1>1. CASE \E c \in Codes : HostPosts(c)
  BY <1>1 DEF HostPosts, Post80, Post81, SignalRequest
<1>2. CASE \E e \in Errors \cup {0} : UpdateError(e)
  BY <1>2 DEF UpdateError, SignalRequest
<1>3. CASE ClientBus(TRUE) \/ ClientBus(FALSE)
  BY <1>3 DEF ClientBus
<1>4. CASE \/ Setup("decode", "brightness") \/ Setup("brightness", "digits")
           \/ Setup("digits", "register")
  BY <1>4 DEF Setup
<1>5. CASE Register \/ SemInit \/ Take \/ Test \/ Set80 \/ Set81 \/ High \/ Low
  BY <1>5 DEF Register, SemInit, Take, Test, Set80, Set81, High, Low
<1>6. CASE On
  BY <1>6 DEF On
<1>7. CASE Show
  BY <1>7 DEF Show
<1>8. CASE UNCHANGED postVars
  BY <1>8 DEF postVars
<1> QED
  BY <1>1, <1>2, <1>3, <1>4, <1>5, <1>6, <1>7, <1>8 DEF PostNext, Thread

LEMMA PointsStep == PointsOK /\ [PostNext]_postVars => PointsOK'
<1> SUFFICES ASSUME PointsOK, [PostNext]_postVars PROVE PointsOK'
  OBVIOUS
<1> USE DEF PointsOK, TriesLeft
<1>1. CASE UNCHANGED <<point, tries>>
  BY <1>1
<1>2. ASSUME \/ \E c \in Codes : HostPosts(c)
             \/ \E e \in Errors \cup {0} : UpdateError(e)
      PROVE  UNCHANGED <<point, tries>>
  BY <1>2 DEF HostPosts, UpdateError
<1>3. ASSUME ClientBus(TRUE) \/ ClientBus(FALSE) PROVE UNCHANGED <<point, tries>>
  BY <1>3 DEF ClientBus
<1>4. CASE \/ Setup("decode", "brightness") \/ Setup("brightness", "digits")
           \/ Setup("digits", "register")
  BY <1>4 DEF Setup, Points, Transfers
<1>5. CASE Register \/ SemInit \/ Take \/ Test
  BY <1>5 DEF Register, SemInit, Take, Test, Points, Transfers, Moves
<1>6. CASE Set80 \/ Set81 \/ High \/ Low \/ Show
  BY <1>6, PostcodeAssumption
  DEF Set80, Set81, High, Low, Show, Points, Transfers, Moves
<1>7. CASE On
  BY <1>7, PostcodeAssumption DEF On, Points, Transfers
<1>8. CASE UNCHANGED postVars
  BY <1>8 DEF postVars
<1> QED
  BY <1>1, <1>2, <1>3, <1>4, <1>5, <1>6, <1>7, <1>8 DEF PostNext, Thread

LEMMA BoundsStep == BoundsOK /\ [PostNext]_postVars => BoundsOK'
<1> SUFFICES ASSUME BoundsOK, [PostNext]_postVars PROVE BoundsOK'
  OBVIOUS
<1> USE PostcodeAssumption DEF BoundsOK, bounds
<1>1. CASE \E c \in Codes : HostPosts(c)
  BY <1>1 DEF HostPosts
<1>2. CASE \E e \in Errors \cup {0} : UpdateError(e)
  BY <1>2 DEF UpdateError
<1>3. CASE ClientBus(TRUE) \/ ClientBus(FALSE)
  BY <1>3 DEF ClientBus
<1>4. CASE \/ Setup("decode", "brightness") \/ Setup("brightness", "digits")
           \/ Setup("digits", "register")
  BY <1>4 DEF Setup, Write
<1>5. CASE On
  BY <1>5 DEF On, Write
<1>6. CASE Show
  BY <1>6 DEF Show, Write
<1>7. CASE Register \/ SemInit \/ Take \/ Test \/ Set80 \/ Set81 \/ High \/ Low
  BY <1>7 DEF Register, SemInit, Take, Test, Set80, Set81, High, Low
<1>8. CASE UNCHANGED postVars
  BY <1>8 DEF postVars
<1> QED
  BY <1>1, <1>2, <1>3, <1>4, <1>5, <1>6, <1>7, <1>8 DEF PostNext, Thread

LEMMA TypesInductive == PostSpec => []TypeInv
<1>1. PostInit => TypeInv
  <2>1. PostInit => BytesOK
    BY Sent DEF PostInit, BytesOK, Words
  <2>2. PostInit => FlagsOK
    BY DEF PostInit, FlagsOK
  <2>3. PostInit => PointsOK /\ BoundsOK
    BY PostcodeAssumption
    DEF PostInit, PointsOK, BoundsOK, TriesLeft, Points, Transfers
  <2> QED BY <2>1, <2>2, <2>3 DEF TypeInv
<1>2. TypeInv /\ [PostNext]_postVars => TypeInv'
  BY BytesStep, FlagsStep, PointsStep, BoundsStep DEF TypeInv
<1> QED BY <1>1, <1>2, PTL DEF PostSpec

(* The type invariant: a failing display is tried no more than MAX_RETRIES *)
(* allows (port80display.c:45-61), and the codes stay bytes.               *)
THEOREM PostTypes == PostSpec => []PostTypeOK
BY TypesInductive, Parts, PTL

(***************************************************************************)
(* What the thread knows at each of its points, as long as nobody has      *)
(* signalled since it took the semaphore.                                  *)
(***************************************************************************)
Setting == {"decode", "brightness", "digits", "register", "semInit", "ended"}
PortsHoldError == err # 0 => port80 = err /\ port81 = EC
Powered == err # 0 => lit \/ tries = Tries

NotYet == IF point \in Setting THEN excused ELSE semReady
ErrorPath == point \in {"set80", "set81", "on"} => err # 0
Fresh ==
  ~sem =>
    /\ point = "set81" => port80 = err
    /\ point \in {"on", "high", "low"} => PortsHoldError
    /\ point = "low" => word[1] = Wanted[1]
    /\ point = "show" => word = Wanted
    /\ point \in {"high", "low", "show"} => Powered
    /\ point = "wait" /\ ~excused => shown = Wanted /\ Powered

PostInv == NotYet /\ ErrorPath /\ Fresh

LEMMA PostStarts == PostInit => PostInv
BY DEF PostInit, PostInv, NotYet, Setting, ErrorPath, Fresh

(* A code or an error raises the semaphore or changes nothing. *)
LEMMA CodeKeeps ==
  ASSUME TypeInv, PostInv, NEW c \in Codes, HostPosts(c) PROVE PostInv'
<1> USE DEF HostPosts, chip, signal, NotYet, PostInv
<1>1. UNCHANGED <<port80, port81, err, sem, excused>>
      \/ (sem' = semReady /\ excused' = (excused \/ ~semReady))
  BY DEF Post80, Post81, SignalRequest
<1>2. NotYet' BY <1>1 DEF TypeInv, FlagsOK, Setting
<1>3. ErrorPath' BY DEF ErrorPath
<1>4. Fresh'
  <2>1. CASE UNCHANGED <<port80, port81, err, sem, excused>>
    BY <2>1 DEF Fresh, PortsHoldError, Powered, Wanted
  <2>2. CASE sem' = semReady /\ excused' = (excused \/ ~semReady)
    BY <2>2 DEF Fresh, Setting
  <2> QED BY <1>1, <2>1, <2>2
<1> QED BY <1>2, <1>3, <1>4

LEMMA ErrorKeeps ==
  ASSUME TypeInv, PostInv, NEW e \in Errors \cup {0}, UpdateError(e) PROVE PostInv'
<1> USE DEF UpdateError, SignalRequest, PostInv, NotYet
<1>1. NotYet' BY DEF TypeInv, FlagsOK, Setting
<1>2. ErrorPath' BY DEF ErrorPath
<1>3. Fresh' BY DEF Fresh, Setting
<1> QED BY <1>1, <1>2, <1>3

(* The thread itself: each point hands its knowledge to the next. *)
LEMMA ThreadKeeps == ASSUME TypeInv, PostInv, Thread PROVE PostInv'
<1> USE DEF PostInv, NotYet, Setting, ErrorPath, Moves
<1>1. CASE \/ Setup("decode", "brightness") \/ Setup("brightness", "digits")
           \/ Setup("digits", "register") \/ Register \/ SemInit
  BY <1>1 DEF Setup, Register, SemInit, data, signal, Fresh
<1>2. CASE Take
  BY <1>2 DEF Take, data, Fresh
<1>3. CASE Test
  BY <1>3 DEF Test, data, signal, Fresh, PortsHoldError, Powered
<1>4. CASE Set80
  BY <1>4 DEF Set80, signal, Fresh
<1>5. CASE Set81
  BY <1>5 DEF Set81, signal, Fresh, PortsHoldError
<1>6. CASE On
  <2>1. (point' = "high" /\ Powered') \/ point' = "on"
    BY <1>6, PostcodeAssumption DEF On, Powered, TypeInv, PointsOK, TriesLeft, data
  <2> QED BY <1>6, <2>1 DEF On, data, signal, Fresh, PortsHoldError
<1>7. CASE High
  BY <1>7 DEF High, data, signal, chip, Fresh, PortsHoldError, Powered, Wanted
<1>8. CASE Low
  BY <1>8 DEF Low, data, signal, chip, Fresh, PortsHoldError, Powered, Wanted
<1>9. CASE Show
  BY <1>9 DEF Show, data, Fresh, Powered, Wanted
<1> QED BY <1>1, <1>2, <1>3, <1>4, <1>5, <1>6, <1>7, <1>8, <1>9 DEF Thread

LEMMA PostInductive == PostSpec => []PostInv
<1>1. TypeInv /\ PostInv /\ [PostNext]_postVars => PostInv'
  <2> SUFFICES ASSUME TypeInv, PostInv, [PostNext]_postVars PROVE PostInv'
    OBVIOUS
  <2>1. CASE Thread BY <2>1, ThreadKeeps
  <2>2. CASE \E c \in Codes : HostPosts(c) BY <2>2, CodeKeeps
  <2>3. CASE \E e \in Errors \cup {0} : UpdateError(e) BY <2>3, ErrorKeeps
  <2>4. CASE ClientBus(TRUE) \/ ClientBus(FALSE)
    <3>1. UNCHANGED <<data, signal, semReady, point, word, tries, chip>>
      BY <2>4 DEF ClientBus
    <3> QED BY <3>1 DEF data, signal, chip, PostInv, NotYet, ErrorPath, Fresh,
                        PortsHoldError, Powered, Wanted
  <2>5. CASE UNCHANGED postVars
    BY <2>5 DEF postVars, data, chip, PostInv, NotYet, ErrorPath, Fresh,
                PortsHoldError, Powered, Wanted
  <2> QED BY <2>1, <2>2, <2>3, <2>4, <2>5 DEF PostNext
<1> QED BY <1>1, PostStarts, TypesInductive, PTL DEF PostSpec

(* Nothing is left to show when the thread waits, whatever came between    *)
(* its test, its reads and its transfer (postcodemgmt.c:151-171).          *)
THEOREM NothingLeftToShow == PostSpec => []NothingStranded
<1>1. PostInv => NothingStranded
  BY DEF PostInv, Fresh, NothingStranded
<1> QED BY <1>1, PostInductive, PTL

(* An error is not left on a dark display that was not tried often enough  *)
(* (port80_display_on(), called at postcodemgmt.c:155).                    *)
THEOREM ErrorIsLit == PostSpec => []ErrorLit
<1>1. PostInv => ErrorLit
  BY DEF PostInv, Fresh, Powered, ErrorLit
<1> QED BY <1>1, PostInductive, PTL

-----------------------------------------------------------------------------
(* Deep Sx, for any modes, timeouts and numbers of sleeps, updates, faults. *)

(***************************************************************************)
(* Types, in parts.                                                        *)
(***************************************************************************)
Passes ==
  {"sleep", "ramp", "deep", "ack", "sendLow", "pin", "assert", "drop", "exit",
   "release", "await", "ackHigh", "sendHigh", "update", "save", "store", "write"}

EcOK ==
  /\ pc \in Passes /\ cur \in {"S0", "S4", "S5"} /\ nxt \in {"S0", "S4", "S5"}
  /\ deep \in BOOLEAN /\ slpM \in BOOLEAN /\ warn \in BOOLEAN
  /\ rsmrst \in BOOLEAN /\ ds3 \in BOOLEAN /\ seen \in BOOLEAN
  /\ left \in 0..Polls /\ (pc \in {"pin", "await"} => left > 0)

ModeOK ==
  /\ valid \in Modes \cup {0} /\ tmp \in Modes \cup {0} /\ rom \in Modes \cup {0}
  /\ bios \in Modes \cup {0} /\ upd \in BOOLEAN

PchOK ==
  /\ soc \in {"on", "sx", "warned"} \cup Suspended
  /\ slpSus \in BOOLEAN /\ pwrgd \in BOOLEAN /\ slpA \in BOOLEAN

CountOK == sleeps \in 0..MaxSleeps /\ updates \in 0..MaxUpdates /\ faults \in 0..MaxFaults

Types == HubTypeOK /\ EcOK /\ ModeOK /\ PchOK /\ CountOK

LEMMA Ground ==
  /\ Polls \in Nat /\ Polls > 0 /\ Modes \subseteq 0..7
  /\ MaxSleeps \in Nat /\ MaxUpdates \in Nat /\ MaxFaults \in Nat
BY DeepSxAssumption

(* The steps one by one.                                                   *)
LEMMA Steps ==
  Next =>
    \/ Sample \/ Ramp \/ Deep \/ AckLow \/ SendLow \/ PollPin \/ Assert \/ DropDs3
    \/ Exit \/ Release \/ AwaitReset \/ AckHigh \/ SendHigh \/ ReadFails
    \/ Update \/ Save \/ Store \/ WriteRom
    \/ (\E m \in Modes : Bios(m)) \/ Restart
    \/ (\E s \in {"S4", "S5"} : FallAsleep(s)) \/ SlpAFalls \/ WarnLow \/ Abort
    \/ Suspend \/ RailsOff \/ WakeUp \/ RailsOn \/ LeaveReset \/ ChannelUp
    \/ WarnHigh \/ GoOn
BY DEF Next, PwrThread, Host, SocEvent, Handshake

(* The steps of the bus are the hub's.                                     *)
LEMMA HubStep == Types /\ [Next]_vars => HubTypeOK'
<1> SUFFICES ASSUME Types, [Next]_vars PROVE HubTypeOK'
  OBVIOUS
<1> USE DEF Types, HubTypeOK, ECOnly, SocOnly, ReadWarn, hubAll, bus
<1>1. CASE Sample \/ Ramp \/ Deep \/ AckLow \/ PollPin \/ Assert \/ DropDs3
  BY <1>1 DEF Sample, Ramp, Deep, AckLow, PollPin, Assert, DropDs3
<1>2. CASE SendLow \/ SendHigh
  BY <1>2 DEF SendLow, SendHigh, Acknowledge, EcOK
<1>3. CASE Exit \/ Release \/ AwaitReset \/ AckHigh \/ ReadFails
  BY <1>3 DEF Exit, Release, AwaitReset, AckHigh, ReadFails
<1>4. CASE Update \/ Save \/ Store \/ WriteRom
  BY <1>4 DEF Update, Save, Store, WriteRom
<1>5. ASSUME NEW m \in Modes, Bios(m) PROVE HubTypeOK'
  BY <1>5 DEF Bios
<1>6. CASE Restart BY <1>6 DEF Restart
<1>7. ASSUME NEW s \in {"S4", "S5"}, FallAsleep(s) PROVE HubTypeOK'
  BY <1>7 DEF FallAsleep
<1>8. CASE SlpAFalls \/ Suspend \/ WakeUp \/ RailsOn
  BY <1>8 DEF SlpAFalls, Suspend, WakeUp, RailsOn
<1>9. CASE WarnLow \/ Abort \/ WarnHigh
  <2>1. "sus" \in Warns BY DEF Warns
  <2> QED BY <1>9, <2>1 DEF WarnLow, Abort, WarnHigh, WarnEvent
<1>10. CASE RailsOff BY <1>10 DEF RailsOff
<1>11. CASE LeaveReset BY <1>11 DEF LeaveReset, ResetEvent
<1>12. CASE ChannelUp BY <1>12 DEF ChannelUp, ChannelEvent, Known
<1>13. CASE GoOn BY <1>13 DEF GoOn
<1>14. CASE UNCHANGED vars BY <1>14 DEF vars
<1> QED
  BY <1>1, <1>2, <1>3, <1>4, <1>5, <1>6, <1>7, <1>8, <1>9, <1>10, <1>11, <1>12,
     <1>13, <1>14, Steps

LEMMA EcStep == Types /\ [Next]_vars => EcOK'
<1> SUFFICES ASSUME Types, [Next]_vars PROVE EcOK'
  OBVIOUS
<1> USE Ground DEF Types, EcOK, Passes, Goto, ECOnly, SocOnly, ec
<1>1. CASE Sample \/ Ramp \/ Assert \/ DropDs3
  BY <1>1 DEF Sample, Ramp, Assert, DropDs3, PchOK
<1>2. CASE Deep BY <1>2 DEF Deep, PchOK
<1>3. CASE AckLow \/ AckHigh
  <2>1. wires["sus"] \in BOOLEAN BY DEF HubTypeOK, Warns
  <2>2. pc' \in {"sendLow", "sendHigh", "update"} /\ warn' = wires["sus"]
    BY <1>3 DEF AckLow, AckHigh, ReadWarn
  <2>3. UNCHANGED <<cur, nxt, slpM, left, rsmrst, ds3, seen>>
    BY <1>3 DEF AckLow, AckHigh, ReadWarn
  <2>4. deep' \in BOOLEAN BY <1>3 DEF AckLow, AckHigh, StillDeep
  <2> QED BY <2>1, <2>2, <2>3, <2>4
<1>4. CASE SendLow
  <2>1. pc' \in {"pin", "update"} /\ left' = Polls BY <1>4 DEF SendLow
  <2> QED BY <1>4, <2>1 DEF SendLow
<1>5. CASE SendHigh BY <1>5 DEF SendHigh, StillDeep
<1>6. CASE PollPin BY <1>6 DEF PollPin, PollAgain, TimedOut
<1>7. CASE Exit \/ Release
  <2>1. CASE Exit BY <2>1 DEF Exit
  <2>2. CASE Release BY <2>2 DEF Release
  <2> QED BY <1>7, <2>1, <2>2
<1>8. CASE AwaitReset BY <1>8 DEF AwaitReset, PollAgain, TimedOut
<1>9. CASE ReadFails BY <1>9 DEF ReadFails
<1>10. CASE Update \/ Save \/ Store \/ WriteRom
  BY <1>10 DEF Update, Save, Store, WriteRom
<1>11. ASSUME NEW m \in Modes, Bios(m) PROVE EcOK'
  BY <1>11 DEF Bios
<1>12. CASE Restart BY <1>12 DEF Restart
<1>13. ASSUME NEW s \in {"S4", "S5"}, FallAsleep(s) PROVE EcOK'
  BY <1>13 DEF FallAsleep
<1>14. CASE SlpAFalls \/ Suspend \/ WakeUp \/ RailsOn \/ WarnLow \/ Abort \/ WarnHigh
  BY <1>14 DEF SlpAFalls, Suspend, WakeUp, RailsOn, WarnLow, Abort, WarnHigh
<1>15. CASE RailsOff \/ LeaveReset \/ ChannelUp \/ GoOn
  <2>1. UNCHANGED ec /\ nxt' \in {nxt, "S5", "S0"}
    BY <1>15 DEF RailsOff, LeaveReset, ChannelUp, GoOn
  <2> QED BY <2>1
<1>16. CASE UNCHANGED vars BY <1>16 DEF vars
<1> QED
  BY <1>1, <1>2, <1>3, <1>4, <1>5, <1>6, <1>7, <1>8, <1>9, <1>10, <1>11, <1>12,
     <1>13, <1>14, <1>15, <1>16, Steps

LEMMA ModeStep == Types /\ [Next]_vars => ModeOK' /\ CountOK'
<1> SUFFICES ASSUME Types, [Next]_vars PROVE ModeOK' /\ CountOK'
  OBVIOUS
<1> USE Ground DEF Types, ModeOK, CountOK, ECOnly, SocOnly, ec, mode, count
<1>1. CASE Sample \/ Ramp \/ Deep \/ AckLow \/ AckHigh \/ PollPin \/ Assert \/ DropDs3
  BY <1>1 DEF Sample, Ramp, Deep, AckLow, AckHigh, ReadWarn, PollPin, Assert, DropDs3
<1>2. CASE SendLow \/ SendHigh \/ Exit \/ Release \/ AwaitReset \/ Update
  BY <1>2 DEF SendLow, SendHigh, Exit, Release, AwaitReset, Update
<1>3. CASE ReadFails BY <1>3 DEF ReadFails, Fault
<1>4. CASE Save \/ Store BY <1>4 DEF Save, Store, ClearedBy
<1>5. CASE WriteRom BY <1>5 DEF WriteRom, Fault, ClearedBy
<1>6. ASSUME NEW m \in Modes, Bios(m) PROVE ModeOK' /\ CountOK'
  BY <1>6 DEF Bios
<1>7. CASE Restart
  <2>1. CountOK' BY <1>7 DEF Restart, Fault
  <2>2. valid' \in {rom, 0} /\ bios' = valid' /\ tmp' = 0 /\ ~upd' /\ rom' = rom
    BY <1>7 DEF Restart
  <2>3. upd' \in BOOLEAN BY <1>7 DEF Restart
  <2> QED BY <2>1, <2>2, <2>3
<1>8. ASSUME NEW s \in {"S4", "S5"}, FallAsleep(s) PROVE ModeOK' /\ CountOK'
  BY <1>8 DEF FallAsleep
<1>9. CASE SlpAFalls \/ Suspend \/ WakeUp \/ RailsOn \/ WarnLow \/ Abort \/ WarnHigh
  BY <1>9 DEF SlpAFalls, Suspend, WakeUp, RailsOn, WarnLow, Abort, WarnHigh
<1>10. CASE RailsOff \/ LeaveReset \/ ChannelUp \/ GoOn
  BY <1>10 DEF RailsOff, LeaveReset, ChannelUp, GoOn
<1>11. CASE UNCHANGED vars BY <1>11 DEF vars
<1> QED
  BY <1>1, <1>2, <1>3, <1>4, <1>5, <1>6, <1>7, <1>8, <1>9, <1>10, <1>11, Steps

LEMMA PchStep == Types /\ [Next]_vars => PchOK'
<1> SUFFICES ASSUME Types, [Next]_vars PROVE PchOK'
  OBVIOUS
<1> USE DEF Types, PchOK, Suspended, ECOnly, Soc, pch
<1>1. CASE Sample \/ Ramp \/ Deep \/ AckLow \/ AckHigh \/ PollPin \/ Assert \/ DropDs3
  BY <1>1 DEF Sample, Ramp, Deep, AckLow, AckHigh, ReadWarn, PollPin, Assert, DropDs3
<1>2. CASE SendLow \/ SendHigh \/ Exit \/ Release \/ AwaitReset \/ Update \/ ReadFails
  BY <1>2 DEF SendLow, SendHigh, Exit, Release, AwaitReset, Update, ReadFails
<1>3. CASE Save \/ Store \/ WriteRom BY <1>3 DEF Save, Store, WriteRom
<1>4. ASSUME NEW m \in Modes, Bios(m) PROVE PchOK'
  BY <1>4 DEF Bios
<1>5. CASE Restart BY <1>5 DEF Restart
<1>6. ASSUME NEW s \in {"S4", "S5"}, FallAsleep(s) PROVE PchOK'
  BY <1>6 DEF FallAsleep
<1>7. CASE SlpAFalls \/ Suspend \/ WakeUp \/ RailsOn \/ RailsOff
  BY <1>7 DEF SlpAFalls, Suspend, WakeUp, RailsOn, RailsOff
<1>8. CASE WarnLow \/ Abort \/ WarnHigh
  BY <1>8 DEF WarnLow, Abort, WarnHigh
<1>9. CASE LeaveReset \/ ChannelUp BY <1>9 DEF LeaveReset, ChannelUp
<1>10. CASE GoOn BY <1>10 DEF GoOn
<1>11. CASE UNCHANGED vars BY <1>11 DEF vars
<1> QED
  BY <1>1, <1>2, <1>3, <1>4, <1>5, <1>6, <1>7, <1>8, <1>9, <1>10, <1>11, Steps

LEMMA TypesInit == Init => Types
<1> SUFFICES ASSUME Init PROVE Types
  OBVIOUS
<1> USE Ground DEF Init
<1>1. HubTypeOK
  <2>1. hub \in [on : BOOLEAN, ready : BOOLEAN, rst : BOOLEAN, dnx : BOOLEAN]
    OBVIOUS
  <2>2. handlers \subseteq {"state", "sus"} /\ heard \subseteq Slps \cup Warns
    OBVIOUS
  <2>3. chan \in BOOLEAN /\ reset \in BOOLEAN OBVIOUS
  <2>4. wires \in [Slps \cup Warns -> BOOLEAN] OBVIOUS
  <2>5. acks \in [Warns -> BOOLEAN] OBVIOUS
  <2> QED BY <2>1, <2>2, <2>3, <2>4, <2>5 DEF HubTypeOK
<1>2. EcOK
  <2>1. deep \in BOOLEAN /\ slpM \in BOOLEAN /\ warn \in BOOLEAN OBVIOUS
  <2>2. rsmrst \in BOOLEAN /\ ds3 \in BOOLEAN /\ seen \in BOOLEAN OBVIOUS
  <2>3. pc = "sleep" /\ cur = "S0" /\ nxt = "S0" /\ left = 0 OBVIOUS
  <2> QED BY <2>1, <2>2, <2>3 DEF EcOK, Passes
<1>3. ModeOK
  <2>1. upd \in BOOLEAN OBVIOUS
  <2> QED BY <2>1 DEF ModeOK
<1>4. PchOK
  <2>1. slpSus \in BOOLEAN /\ pwrgd \in BOOLEAN /\ slpA \in BOOLEAN OBVIOUS
  <2>2. soc = "on" OBVIOUS
  <2> QED BY <2>1, <2>2 DEF PchOK
<1>5. CountOK BY DEF CountOK
<1> QED BY <1>1, <1>2, <1>3, <1>4, <1>5 DEF Types

LEMMA TypesStep == Types /\ [Next]_vars => Types'
BY HubStep, EcStep, ModeStep, PchStep DEF Types

(* Every variable keeps its type, the poll counts of the two waits among   *)
(* them (deepsx.c, espi_hub.c): none runs below zero.                      *)
THEOREM DeepSxTypes == Spec => []TypeOK
<1>1. Types => TypeOK
  BY DEF Types, TypeOK, EcOK, ModeOK, PchOK, CountOK, Passes
<1> QED BY TypesInit, TypesStep, <1>1, PTL DEF Spec

(***************************************************************************)
(* The reset pin.  The pins of the SoC say where it is; a pass that has    *)
(* seen SLP_SUS# low may assert RSMRST# for as long as the suspend lasts.  *)
(***************************************************************************)
PinsTell ==
  /\ pwrgd <=> soc \notin {"off", "waking"}
  /\ slpSus <=> soc \notin {"sus", "off"}

PassInSuspend ==
  /\ pc \in {"assert", "drop"} => soc \in {"sus", "off"}
  /\ ~rsmrst => soc \in {"sus", "off", "waking", "rails"}

LEMMA PinsStep == Types /\ PinsTell /\ [Next]_vars => PinsTell'
<1> SUFFICES ASSUME Types, PinsTell, [Next]_vars PROVE PinsTell'
  OBVIOUS
<1> USE DEF PinsTell, ECOnly, Soc, pch
<1>1. CASE Sample \/ Ramp \/ Deep \/ AckLow \/ AckHigh \/ PollPin \/ Assert \/ DropDs3
  <2>1. UNCHANGED pch
    BY <1>1 DEF Sample, Ramp, Deep, AckLow, AckHigh, ReadWarn, PollPin, Assert, DropDs3
  <2> QED BY <2>1
<1>2. CASE SendLow \/ SendHigh \/ Exit \/ Release \/ AwaitReset \/ Update \/ ReadFails
  <2>1. UNCHANGED pch
    BY <1>2 DEF SendLow, SendHigh, Exit, Release, AwaitReset, Update, ReadFails
  <2> QED BY <2>1
<1>3. CASE Save \/ Store \/ WriteRom BY <1>3 DEF Save, Store, WriteRom
<1>4. ASSUME NEW m \in Modes, Bios(m) PROVE PinsTell'
  BY <1>4 DEF Bios
<1>5. CASE Restart BY <1>5 DEF Restart
<1>6. ASSUME NEW s \in {"S4", "S5"}, FallAsleep(s) PROVE PinsTell'
  BY <1>6 DEF FallAsleep
<1>7. CASE SlpAFalls \/ Suspend \/ WakeUp \/ RailsOn \/ RailsOff
  BY <1>7 DEF SlpAFalls, Suspend, WakeUp, RailsOn, RailsOff
<1>8. CASE WarnLow \/ Abort \/ WarnHigh
  BY <1>8 DEF WarnLow, Abort, WarnHigh
<1>9. CASE LeaveReset \/ ChannelUp BY <1>9 DEF LeaveReset, ChannelUp
<1>10. CASE GoOn BY <1>10 DEF GoOn
<1>11. CASE UNCHANGED vars BY <1>11 DEF vars
<1> QED
  BY <1>1, <1>2, <1>3, <1>4, <1>5, <1>6, <1>7, <1>8, <1>9, <1>10, <1>11, Steps

LEMMA PassStep == Types /\ PinsTell /\ PassInSuspend /\ [Next]_vars => PassInSuspend'
<1> SUFFICES ASSUME Types, PinsTell, PassInSuspend, [Next]_vars PROVE PassInSuspend'
  OBVIOUS
<1> USE DEF PassInSuspend, Goto, ECOnly, SocOnly, Soc, pch, ec
<1>1. CASE Sample BY <1>1 DEF Sample, PinsTell
<1>2. CASE Ramp \/ Deep \/ AckLow \/ AckHigh \/ DropDs3
  BY <1>2 DEF Ramp, Deep, AckLow, AckHigh, ReadWarn, DropDs3
<1>3. CASE PollPin
  <2>1. left \in Nat /\ left > 0 BY <1>3, Ground DEF PollPin, Types, EcOK
  <2>2. pc' \in {"assert", "drop"} => ~slpSus
    BY <1>3, <2>1 DEF PollPin, PollAgain, TimedOut
  <2> QED BY <1>3, <2>2 DEF PollPin, PinsTell
<1>4. CASE Assert BY <1>4 DEF Assert
<1>5. CASE SendLow \/ SendHigh \/ Exit \/ Release \/ AwaitReset \/ Update \/ ReadFails
  BY <1>5 DEF SendLow, SendHigh, Exit, Release, AwaitReset, Update, ReadFails
<1>6. CASE Save \/ Store \/ WriteRom BY <1>6 DEF Save, Store, WriteRom
<1>7. ASSUME NEW m \in Modes, Bios(m) PROVE PassInSuspend'
  BY <1>7 DEF Bios
<1>8. CASE Restart BY <1>8 DEF Restart
<1>9. ASSUME NEW s \in {"S4", "S5"}, FallAsleep(s) PROVE PassInSuspend'
  BY <1>9 DEF FallAsleep
<1>10. CASE SlpAFalls \/ Suspend \/ WakeUp \/ RailsOn \/ RailsOff
  BY <1>10 DEF SlpAFalls, Suspend, WakeUp, RailsOn, RailsOff
<1>11. CASE WarnLow \/ Abort \/ WarnHigh
  BY <1>11 DEF WarnLow, Abort, WarnHigh
<1>12. CASE LeaveReset \/ ChannelUp
  <2>1. UNCHANGED ec /\ (LeaveReset => rsmrst) /\ (ChannelUp => soc = "reset")
    BY <1>12 DEF LeaveReset, ChannelUp
  <2>2. soc' \in {"reset", "chan"} BY <1>12 DEF LeaveReset, ChannelUp
  <2> QED BY <1>12, <2>1, <2>2 DEF LeaveReset
<1>13. CASE GoOn BY <1>13 DEF GoOn
<1>14. CASE UNCHANGED vars BY <1>14 DEF vars
<1> QED
  BY <1>1, <1>2, <1>3, <1>4, <1>5, <1>6, <1>7, <1>8, <1>9, <1>10, <1>11, <1>12,
     <1>13, <1>14, Steps

(* RSMRST# is never low for a SoC whose bus works: the pass that asserts   *)
(* it began in the suspend, which outlasts it (deepsx.c:376).              *)
THEOREM ResetOnlyInSuspend == Spec => []NoResetWhileUp
<1> DEFINE IInv == Types /\ PinsTell /\ PassInSuspend
<1>1. Init => IInv
  <2>1. Init => PinsTell BY DEF Init, PinsTell
  <2>2. Init => PassInSuspend BY DEF Init, PassInSuspend
  <2> QED BY <2>1, <2>2, TypesInit
<1>2. IInv /\ [Next]_vars => IInv' BY TypesStep, PinsStep, PassStep
<1>3. IInv => NoResetWhileUp BY DEF PassInSuspend, NoResetWhileUp
<1> QED BY <1>1, <1>2, <1>3, PTL DEF Spec

(***************************************************************************)
(* The mode.  What the BIOS sent is in dsw_tmp_config for as long as its   *)
(* request is up, or has just been cleared, and in use after that.  The    *)
(* EEPROM is behind only while it is written, or after an access failed.   *)
(***************************************************************************)
Saving ==
  /\ upd => tmp = bios
  /\ pc = "store" => tmp = bios
  /\ ~upd /\ pc # "store" => valid = bios
  /\ faults = 0 /\ pc # "write" => rom = valid

LEMMA SavingStep == Types /\ Saving /\ [Next]_vars => Saving'
<1> SUFFICES ASSUME Types, Saving, [Next]_vars PROVE Saving'
  OBVIOUS
<1> USE DEF Saving, Goto, ECOnly, SocOnly, ec, mode, count
<1> DEFINE Elsewhere == pc \notin {"store", "write"} /\ pc' \notin {"store", "write"}
<1>1. CASE Sample \/ Ramp \/ Deep \/ PollPin \/ Assert \/ DropDs3
  <2>1. Elsewhere /\ UNCHANGED <<mode, bios, faults>>
    BY <1>1 DEF Sample, Ramp, Deep, PollPin, Assert, DropDs3
  <2> QED BY <2>1
<1>2. CASE AckLow \/ AckHigh \/ SendLow \/ SendHigh
  <2>1. Elsewhere /\ UNCHANGED <<mode, bios, faults>>
    BY <1>2 DEF AckLow, AckHigh, ReadWarn, SendLow, SendHigh
  <2> QED BY <2>1
<1>3. CASE Exit \/ Release \/ AwaitReset \/ Update
  <2>1. Elsewhere /\ UNCHANGED <<mode, bios, faults>>
    BY <1>3 DEF Exit, Release, AwaitReset, Update
  <2> QED BY <2>1
<1>4. CASE ReadFails
  BY <1>4 DEF ReadFails, Fault, Types, CountOK
<1>5. CASE Save BY <1>5 DEF Save, ClearedBy
<1>6. CASE Store BY <1>6 DEF Store
<1>7. CASE WriteRom
  <2>1. pc = "write" /\ pc' = "sleep" /\ UNCHANGED <<valid, tmp, bios>> /\ (upd' <=> upd)
    BY <1>7 DEF WriteRom, ClearedBy, Types, ModeOK
  <2>2. rom' = valid \/ faults' # 0
    BY <1>7, Ground DEF WriteRom, Fault, Types, CountOK
  <2> QED BY <2>1, <2>2
<1>8. ASSUME NEW m \in Modes, Bios(m) PROVE Saving'
  BY <1>8 DEF Bios
<1>9. CASE Restart
  <2>1. ~upd' /\ pc' = "sleep" /\ valid' = bios' /\ UNCHANGED rom BY <1>9 DEF Restart
  <2>2. rom' = valid' \/ faults' # 0
    BY <1>9, Ground DEF Restart, Fault, Types, CountOK
  <2> QED BY <2>1, <2>2
<1>10. ASSUME NEW s \in {"S4", "S5"}, FallAsleep(s) PROVE Saving'
  BY <1>10 DEF FallAsleep
<1>11. CASE SlpAFalls \/ Suspend \/ WakeUp \/ RailsOn \/ RailsOff
  BY <1>11 DEF SlpAFalls, Suspend, WakeUp, RailsOn, RailsOff
<1>12. CASE WarnLow \/ Abort \/ WarnHigh
  BY <1>12 DEF WarnLow, Abort, WarnHigh
<1>13. CASE LeaveReset \/ ChannelUp \/ GoOn
  <2>1. UNCHANGED <<pc, mode, bios, faults>> BY <1>13 DEF LeaveReset, ChannelUp, GoOn
  <2> QED BY <2>1
<1>14. CASE UNCHANGED vars BY <1>14 DEF vars
<1> QED
  BY <1>1, <1>2, <1>3, <1>4, <1>5, <1>6, <1>7, <1>8, <1>9, <1>10, <1>11, <1>12,
     <1>13, <1>14, Steps

(* Nothing of what the BIOS sent is lost between two passes, wherever      *)
(* dsw_update_mode() or a restart interrupts dsw_save_mode() (dswmode.c:73). *)
THEOREM ModeIsKept == Spec => []ModeKept
<1> DEFINE IInv == Types /\ Saving
<1>1. Init => IInv
  <2>1. Init => Saving BY DEF Init, Saving
  <2> QED BY <2>1, TypesInit
<1>2. IInv /\ [Next]_vars => IInv' BY TypesStep, SavingStep
<1>3. IInv => ModeKept BY DEF Saving, ModeKept
<1> QED BY <1>1, <1>2, <1>3, PTL DEF Spec
=============================================================================
