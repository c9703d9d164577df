---------------------------- MODULE SystemPower ----------------------------
(***************************************************************************)
(* What the power sequencer promises to the rest of the firmware, which    *)
(* reads pwrseq_system_state() to decide what the host can do:             *)
(*   - it works for one goal at a time, and commits a state only when the  *)
(*     power goods are as the goal needs them: both up for S0, both down   *)
(*     for a sleep state entered from S0 or S3 (from S4, S5 and G3 it does *)
(*     not look at them);                                                  *)
(*   - it commits the request of that moment, which may have come while    *)
(*     it worked for another (Overtaken): only then may the state disagree *)
(*     with the power goods;                                               *)
(*   - the power goods rise only for S0, and fall only for a sleep state   *)
(*     or after an error;                                                  *)
(*   - a sequencer that stopped on an error commits nothing any more.      *)
(***************************************************************************)
VARIABLES
  state,    (* the system power state                                      *)
  goal,     (* the state it works for, or "none"                           *)
  rails,    (* the power goods: "off", "partly" or "on"                    *)
  stopped   (* an error stopped the sequencer                              *)

vars == <<state, goal, rails, stopped>>

Sleeping == {"G3", "S3", "S4", "S5"}
Goals    == {"S0", "S3", "S4", "S5"}

Init == state = "G3" /\ goal = "none" /\ rails = "off" /\ stopped = FALSE

Take(g) == /\ ~stopped /\ goal = "none"
           /\ goal' = g
           /\ UNCHANGED <<state, rails, stopped>>

(* A goal that is given up, or that is the present state, changes nothing. *)
Abandon == /\ goal \in {"S0", state}
           /\ goal' = "none"
           /\ UNCHANGED <<state, rails, stopped>>

RailsUp == /\ ~stopped /\ goal = "S0" /\ state \in Sleeping
           /\ <<rails, rails'>> \in {<<"off", "partly">>, <<"partly", "on">>}
           /\ UNCHANGED <<state, goal, stopped>>

RailsDown == /\ stopped \/ (goal \in Sleeping /\ state \in {"S0", "S3"})
             /\ <<rails, rails'>> \in {<<"on", "partly">>, <<"partly", "off">>}
             /\ UNCHANGED <<state, goal, stopped>>

Ready == /\ ~stopped /\ goal \in Goals
         /\ goal = "S0" => state \in Sleeping /\ rails = "on"
         /\ goal # "S0" /\ state \in {"S0", "S3"} => rails = "off"

Enter == /\ Ready
         /\ state' = goal /\ goal' = "none"
         /\ UNCHANGED <<rails, stopped>>

Overtaken(s) == /\ Ready /\ s # goal
                /\ state' = s /\ goal' = "none"
                /\ UNCHANGED <<rails, stopped>>

Stop == /\ ~stopped /\ goal \in {"none", "S0"} /\ state \in Sleeping
        /\ stopped' = TRUE
        /\ UNCHANGED <<state, goal, rails>>

Next == \/ \E g \in Goals : Take(g) \/ Overtaken(g)
        \/ Abandon \/ RailsUp \/ RailsDown \/ Enter \/ Stop

Spec == Init /\ [][Next]_vars
=============================================================================
