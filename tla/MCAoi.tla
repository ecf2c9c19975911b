------------------------------- MODULE MCAoi ---------------------------------
(* Module Aoi with two players and two boats, one of them with a row that     *)
(* is too long, and an area of three cells around each player.                *)
EXTENDS Aoi

MCPeer == {1, 2}
MCBoat == {1, 2}
MCCell == {0, 2}
MCLegacyBoats == {1}
=============================================================================
