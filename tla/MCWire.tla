------------------------------- MODULE MCWire --------------------------------
(* Module Wire with the server's own limits, and names around the one that   *)
(* fits exactly.                                                              *)
EXTENDS Wire

MCNameLengths == {0, 1, 63, 200, 512}
MCMooringLengths == {0, 1, 2, 3, 4, 5, 6, 7, 8, 511, 512, 513, 832, 833, 834, 835, 836, 837}
=============================================================================
