---------------------------- MODULE MCSnapshots ------------------------------
(* Module Snapshots with two recipients a tick; some of the configurations    *)
(* are not valid.                                                             *)
EXTENDS Snapshots

MCPeer == 1..4
MCPlayer == 1..4
\* Not in the order of the peers.
MCLogins == {<<1, 2>>, <<2, 4>>, <<3, 1>>, <<4, 3>>}
MCCell == {0, 2}
MCConfigs == {Default(1, 1, 4), Default(2, 1, 4), Default(2, 2, 4), Default(3, 1, 4)}

\* Three peers under a ceiling of four, whose recurrence is computed for four.
MCExpiryPeer == 1..3
MCExpiryPlayer == 1..3
MCExpiryLogins == {<<p, p>> : p \in 1..3}
MCExpiryCell == {0}
MCExpiryConfigs == {Default(2, 1, 4)}
=============================================================================
