------------------------------ MODULE MCSessions ------------------------------
(* A small instance of Sessions: connections and identities are interchangeable. *)
EXTENDS Sessions, TLC

CONSTANTS c1, c2, c3, i1, i2, i3

MCSymmetry == Permutations(Conn) \cup Permutations(Identity)

=============================================================================
