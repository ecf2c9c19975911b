----------------------------- MODULE MCTransport -----------------------------
(* Small instances of Transport: up to four addresses, two of them behind   *)
(* one IP.                                                                  *)
EXTENDS Transport, TLC

CONSTANTS a1, a2, a3, a4, ip1, ip2, ip3, n0, n1

MCIpOf ==
    [a \in Addr |-> CASE a \in {a1, a2} -> ip1
                      [] a = a3         -> ip2
                      [] a = a4         -> ip3]

\* The addresses behind one IP, the two that have one of their own (together
\* with it) and the connection numbers may be exchanged.
MCSymmetry ==
    {f @@ g @@ h : f \in Permutations({a1, a2}),
                   g \in {[x \in {a3, a4, ip2, ip3} |-> x],
                          a3 :> a4 @@ a4 :> a3 @@ ip2 :> ip3 @@ ip3 :> ip2},
                   h \in Permutations({n0, n1})}

=============================================================================
