------------------------------ MODULE EspiHub ------------------------------
(***************************************************************************)
(* The eSPI hub, drivers/espi_hub.c: it keeps what the firmware knows of   *)
(* the bus, hands the events of the bus to the handlers of other modules,  *)
(* answers the host's warnings and offers the waits of the sequencers.     *)
(*                                                                         *)
(* A bus event is an interrupt; modules that compose the hub say when it   *)
(* may come and what their handlers add to it.                             *)
(*                                                                         *)
(* Of the wires and channels only those are kept that change state in the  *)
(* EC: PLT_RST#, the peripheral, OOB and flash channels are left out.      *)
(***************************************************************************)
EXTENDS Naturals

VARIABLES
  hub,        (* callbacks added; host_vw_ready, espi_rst_sts, dnx_mode      *)
  handlers,   (* kinds of handlers other modules have registered             *)
  chan,       (* the bus: the virtual wire channel is enabled                *)
  reset,      (* the bus: level of eSPI_RESET#                               *)
  wires,      (* levels of the host's wires                                  *)
  acks,       (* levels of the EC's answers                                  *)
  heard       (* auxiliary: the wires whose level a handler was told         *)

bus == <<chan, reset, wires, acks, heard>>

Slps == {"s3", "s4", "s5"}
Warns == {"sus", "host_rst", "oob_rst", "dnx"}

HubTypeOK ==
  /\ hub \in [on : BOOLEAN, ready : BOOLEAN, rst : BOOLEAN, dnx : BOOLEAN]
  /\ handlers \subseteq {"state", "sus"}
  /\ {chan, reset} \subseteq BOOLEAN
  /\ wires \in [Slps \cup Warns -> BOOLEAN] /\ acks \in [Warns -> BOOLEAN]
  /\ heard \subseteq Slps \cup Warns

(* The hub before espihub_init() on a bus in any condition.                *)
HubInit ==
  /\ hub = [on |-> FALSE, ready |-> FALSE, rst |-> FALSE, dnx |-> FALSE]
  /\ handlers = {} /\ heard = {}
  /\ chan \in BOOLEAN /\ reset \in BOOLEAN /\ (chan => reset)
  /\ wires = [w \in Slps \cup Warns |-> FALSE]
  /\ acks = [w \in Warns |-> FALSE]

(* espihub_init(): from AddCallbacks on the events are handled; what is    *)
(* read here is stored by a later step.                                    *)
AddCallbacks == hub' = [hub EXCEPT !.on = TRUE]
StoreReady(level) == hub' = [hub EXCEPT !.ready = level]
StoreReset(level) == hub' = [hub EXCEPT !.rst = level]

(* espihub_add_state_handler(), espihub_add_warn_handler(): the first      *)
(* registration of a kind counts, a second one is refused.                 *)
AddHandler(kind) == handlers' = handlers \cup {kind}

(* espihub_send_vw() is refused while the host is not known to be ready;   *)
(* what the driver is given for a disabled channel is lost.                *)
CanSend == hub.ready /\ chan

(***************************************************************************)
(* The events of the bus.                                                  *)
(***************************************************************************)
KnownOnce(on) == hub.ready /\ on
Known(on) == on

(* espi_ch_handler().  A disabled channel forgets the warnings and answers.*)
ChannelEvent(on) ==
  /\ chan # on /\ (on => reset) /\ chan' = on
  /\ hub' = IF hub.on THEN [hub EXCEPT !.ready = Known(on)] ELSE hub
  /\ wires' = [w \in DOMAIN wires |-> IF w \in Warns THEN FALSE ELSE wires[w]]
  /\ acks' = [w \in Warns |-> FALSE]
  /\ heard' = heard \ Warns
  /\ UNCHANGED <<handlers, reset>>

(* espi_reset_handler().  The host disables the channel before it asserts  *)
(* the reset.                                                              *)
ResetEvent ==
  /\ ~chan /\ reset' = ~reset
  /\ hub' = IF hub.on THEN [hub EXCEPT !.rst = ~reset] ELSE hub
  /\ UNCHANGED <<handlers, chan, wires, acks, heard>>

(* host_warn_handler(): the hub answers all warnings but SUS_WARN, which   *)
(* it leaves to the handler of the power sequencer; susAnswered says       *)
(* whether that one sends SUS_ACK.                                         *)
Answered(w) == w # "sus"

WarnEvent(w, susAnswered) ==
  /\ chan /\ hub' = IF hub.on /\ w = "dnx"
                    THEN [hub EXCEPT !.dnx = ~wires[w]] ELSE hub
  /\ wires' = [wires EXCEPT ![w] = ~@]
  /\ LET told == hub.on /\ (w = "sus" => "sus" \in handlers)
         sent == told /\ (Answered(w) \/ (w = "sus" /\ susAnswered /\ CanSend))
     IN  /\ heard' = IF told THEN heard \cup {w} ELSE heard
         /\ acks' = IF sent THEN [acks EXCEPT ![w] = ~wires[w]] ELSE acks
  /\ UNCHANGED <<handlers, chan, reset>>

(* vwire_handler() for SLP_S3#, SLP_S4#, SLP_S5#; the state handler is the *)
(* composing module's.                                                     *)
SlpTold == hub.on /\ "state" \in handlers
SlpEvent(w) ==
  /\ chan /\ wires' = [wires EXCEPT ![w] = ~@]
  /\ heard' = IF SlpTold THEN heard \cup {w} ELSE heard
  /\ UNCHANGED <<hub, handlers, chan, reset, acks>>

(***************************************************************************)
(* The waits: poll, sleep 100 us, count down.                              *)
(***************************************************************************)
(* Poll again after the sleep?  With the timeouts disabled the count runs  *)
(* below zero, of which only the sign matters.                             *)
PollAgain(left, noTimeout) == left > 0 \/ noTimeout

(* The count decides whether the wait failed, not what was seen: a wait    *)
(* that sees its level when the count is zero fails all the same.          *)
TimedOutBelow(left) == left < 0
TimedOut(left) == left = 0
=============================================================================
