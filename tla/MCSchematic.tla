----------------------------- MODULE MCSchematic -----------------------------
(***************************************************************************)
(* A small circuit for TLC: a controller with two sensors, a bare relay,   *)
(* which has no signal input, and a battery.                               *)
(***************************************************************************)
EXTENDS Schematic

MCComponents ==
    <<[kind |-> "controller", prefix |-> "U", pins |-> <<"VCC", "GND", "IO1", "IO2">>],
      [kind |-> "generic_sensor", prefix |-> "S", pins |-> <<"VCC", "GND", "SIGNAL">>],
      [kind |-> "generic_sensor", prefix |-> "S", pins |-> <<"VCC", "GND", "SIGNAL">>],
      [kind |-> "generic_module", prefix |-> "K", pins |-> <<"VCC", "GND", "OUT">>],
      [kind |-> "power_source", prefix |-> "BT", pins |-> <<"V+", "GND">>]>>

\* In the order of their names: battery, controller, relay, sensors.  The
\* controller has the output of a graph without ports, and a port.
MCTerminals ==
    <<[of |-> 5, port |-> "ground"], [of |-> 5, port |-> "power"],
      [of |-> 1, port |-> "ground"], [of |-> 1, port |-> "power"],
      [of |-> 1, port |-> "signal"], [of |-> 1, port |-> "signal-2"],
      [of |-> 4, port |-> "load-output"], [of |-> 4, port |-> "signal"],
      [of |-> 2, port |-> "power"], [of |-> 2, port |-> "signal"],
      [of |-> 3, port |-> "power"], [of |-> 3, port |-> "signal"]>>

\* What the planner connects: rails from the battery, each signal with an
\* output of the controller, a sensor that the relay switches.
MCRelationships ==
    {[left |-> 2, right |-> 4, role |-> "power"], [left |-> 2, right |-> 9, role |-> "power"],
     [left |-> 4, right |-> 11, role |-> "power"], [left |-> 11, right |-> 9, role |-> "power"],
     [left |-> 1, right |-> 3, role |-> "ground"],
     [left |-> 10, right |-> 5, role |-> "signal"], [left |-> 12, right |-> 6, role |-> "signal"],
     [left |-> 5, right |-> 8, role |-> "control"],
     [left |-> 7, right |-> 11, role |-> "switched-power"]}

ASSUME MCAssumption == OnePortPerPin /\ FewComponents
=============================================================================
