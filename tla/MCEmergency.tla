------------------------------ MODULE MCEmergency ------------------------------
(* An instance of EmergencyChannel for TLC: one alert that fits the frame     *)
(* and one that does not.                                                     *)
EXTENDS EmergencyChannel

FitsOrNot == {[len |-> MaxAlert], [len |-> MaxAlert + 1]}
=============================================================================
