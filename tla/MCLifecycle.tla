---------------------------- MODULE MCLifecycle ----------------------------
(* Small instances of Lifecycle: three players, one write per tick, two or   *)
(* three ticks per interval, and two processes on one database.  A flush of  *)
(* all three is longer than a short interval; one of two players is not.     *)
EXTENDS Lifecycle

MCPlayer == {1, 2, 3}
MCPair == {1, 2}
=============================================================================
