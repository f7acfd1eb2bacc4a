-------------------------------- MODULE MCIpc --------------------------------
(* Instances of ShmChannel for TLC: one payload that fits and one that does *)
(* not.                                                                     *)
EXTENDS ShmChannel

FitsOrNot == {[len |-> MaxPayload], [len |-> MaxPayload + 1]}
=============================================================================
