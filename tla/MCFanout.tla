------------------------------- MODULE MCFanout -------------------------------
(* A small instance of Fanout: two peers that may be in or out of each other's *)
(* sight, generations that are re-keyed, and a queue of two lines.             *)
EXTENDS Fanout

=============================================================================
