------------------------------- MODULE MCEconomy -------------------------------
(* A small instance of Ledger and Market on one server: two players, three    *)
(* ids, one of them a trade id that SQLite cannot hold.  Gold and stock are    *)
(* in 0..3: amounts and trades that overdraw, amounts and trades that          *)
(* overflow, one offer at a price that is refused.                             *)
EXTENDS Ledger, Market

CONSTANTS p1, p2, g1, g2, t1, t2, t3

MCAmount == {-2, 1, 3}

MCOffer == {[good |-> g1, qty |-> 2, price |-> 1],
            [good |-> g1, qty |-> -1, price |-> 2],
            [good |-> g1, qty |-> 1, price |-> -1],
            [good |-> g2, qty |-> 2, price |-> 1]}

MCInit == LedgerInit /\ MarketInit

\* on_econ and on_trade have tables and limiters of their own and share only
\* the sessions.  Bound: the clients of one behaviour use one of the two.
MCNext ==
    \/ sent \subseteq EconTxn /\ LedgerNext /\ UNCHANGED marketTables
    \/ sent \subseteq TradeRequest /\ MarketNext /\ UNCHANGED ledgerTables

MCSpec == MCInit /\ [][MCNext]_<<ledgerVars, marketVars>> /\ MarketFairness

=============================================================================
