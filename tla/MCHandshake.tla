----------------------------- MODULE MCHandshake -----------------------------
(* Module Handshake with two clients on one host or on two, and the longest   *)
(* intervals that the configuration allows, in steps of 250 ms.               *)
EXTENDS Handshake
=============================================================================
