-------------------------------- MODULE Market --------------------------------
(***************************************************************************)
(* The shared port market: Server::on_trade, Market::apply of crate        *)
(* sw-econ, and the SQLite tables market and market_trades behind it.      *)
(*                                                                         *)
(* The clients are those of the ledger, but the market records the state   *)
(* every trade left, and answers a trade it throttles.                     *)
(***************************************************************************)
EXTENDS Clients

CONSTANTS
    Good,        \* (port_id, item_id) pairs
    Storable,    \* the trade ids SQLite can hold, those up to i64::MAX
    MaxStock,    \* i64::MAX
    Offer,       \* what clients ask for: a good, a signed quantity, a unit price
    MaxTrades    \* bound: how many different trades clients ask for

ASSUME MarketAssumption ==
    /\ MaxStock \in Nat \ {0}
    /\ Offer \subseteq [good : Good, qty : -(MaxStock + 1)..MaxStock, price : Int]
    /\ Storable \subseteq TxnId
    /\ MaxTrades \in Nat
    /\ IsFiniteSet(TxnId)

\* A row of market: (0, 0) stands for a good no trade has touched.
State == [stock : 0..MaxStock, price : Nat]

\* A row of market_trades.
Trade == [good : Good, stock : 0..MaxStock, price : Nat]

ASSUME NoTradeAssumption == None \notin Trade /\ None \notin Int

VARIABLES
    market,        \* table market
    market_trades, \* table market_trades, keyed by txn_id
    traded         \* history: the quantity of each committed trade

marketVars == <<market, market_trades, sessions, cooling, sent, acks, traded>>
marketTables == <<market, market_trades, traded>>

TradeRequest == [player : Player, txn : TxnId, offer : Offer]

Verdicts == {"accepted", "rejected", "rate limited"}

MarketAck == [player : Player, txn : TxnId, verdict : Verdicts, state : Trade]

Untouched == [stock |-> 0, price |-> 0]

MarketInit ==
    /\ market = [g \in Good |-> Untouched]
    /\ market_trades = [t \in TxnId |-> None]
    /\ ClientsInit
    /\ traded = [t \in TxnId |-> None]

-----------------------------------------------------------------------------
(* on_trade.  Its first query, lookup_trade, fails for an id SQLite cannot *)
(* hold; the error is logged and the trade is dropped, as is one without a *)
(* session.                                                                *)

\* Mutant of LookupTrade: the state the good has now.
LookupTradeNow(t) ==
    IF market_trades[t] = None THEN None
    ELSE [market_trades[t] EXCEPT !.stock = market[market_trades[t].good].stock,
                                  !.price = market[market_trades[t].good].price]

LookupTrade(t) == market_trades[t]

StateOf(good) == [good |-> good, stock |-> market[good].stock, price |-> market[good].price]

AnswerTrade(r, verdict, state) ==
    acks' = acks \cup {[player |-> r.player, txn |-> r.txn,
                        verdict |-> verdict, state |-> state]}

\* Mutant of IsNew: the log of trades is not consulted.
IsNewAlways(r) == r.player \in sessions /\ r.txn \in Storable

IsNew(r) ==
    /\ r.player \in sessions
    /\ r.txn \in Storable
    /\ LookupTrade(r.txn) = None

TradeAdmitted(r) ==
    /\ IsNew(r)
    /\ Charged(r.player)

TradeThrottled(r) ==
    /\ IsNew(r)
    /\ r.player \in cooling
    /\ AnswerTrade(r, "rate limited", StateOf(r.offer.good))
    /\ UNCHANGED <<marketTables, sessions, cooling, sent>>

\* Mutant of Tradable: the stock may be oversold.
TradableUnchecked(r) == r.offer.price >= 0

\* The price is not negative; stock.checked_add(qty) is Some and not negative.
Tradable(r) ==
    /\ r.offer.price >= 0
    /\ market[r.offer.good].stock + r.offer.qty \in 0..MaxStock

\* Mutant of TradeApplied: the quantity is always added.
TradeAppliedUnsigned(r) ==
    /\ TradeAdmitted(r)
    /\ Tradable(r)
    /\ LET state == [stock |-> market[r.offer.good].stock +
                                 (IF r.offer.qty < 0 THEN -r.offer.qty ELSE r.offer.qty),
                     price |-> r.offer.price]
           trade == [good |-> r.offer.good, stock |-> state.stock, price |-> state.price]
       IN  /\ market' = [market EXCEPT ![r.offer.good] = state]
           /\ market_trades' = [market_trades EXCEPT ![r.txn] = trade]
           /\ traded' = [traded EXCEPT ![r.txn] = r.offer.qty]
           /\ AnswerTrade(r, "accepted", trade)

\* Mutant of TradeApplied: the log keeps the price the good had before.
TradeAppliedOldPrice(r) ==
    /\ TradeAdmitted(r)
    /\ Tradable(r)
    /\ LET state == [stock |-> market[r.offer.good].stock + r.offer.qty,
                     price |-> r.offer.price]
           trade == [good |-> r.offer.good, stock |-> state.stock,
                     price |-> market[r.offer.good].price]
       IN  /\ market' = [market EXCEPT ![r.offer.good] = state]
           /\ market_trades' = [market_trades EXCEPT ![r.txn] = trade]
           /\ traded' = [traded EXCEPT ![r.txn] = r.offer.qty]
           /\ AnswerTrade(r, "accepted", trade)

\* Market::apply commits: commit_trade appends the row and upserts the state
\* of the good in one database transaction.
TradeApplied(r) ==
    /\ TradeAdmitted(r)
    /\ Tradable(r)
    /\ LET state == [stock |-> market[r.offer.good].stock + r.offer.qty, price |-> r.offer.price]
           trade == [good |-> r.offer.good, stock |-> state.stock, price |-> state.price]
       IN  /\ market' = [market EXCEPT ![r.offer.good] = state]
           /\ market_trades' = [market_trades EXCEPT ![r.txn] = trade]
           /\ traded' = [traded EXCEPT ![r.txn] = r.offer.qty]
           /\ AnswerTrade(r, "accepted", trade)

\* Mutant of TradeRejected: no answer.
TradeRejectedSilently(r) ==
    /\ TradeAdmitted(r)
    /\ ~Tradable(r)
    /\ UNCHANGED <<marketTables, acks>>

\* Market::reject: invalid price, insufficient stock or quantity out of range.
TradeRejected(r) ==
    /\ TradeAdmitted(r)
    /\ ~Tradable(r)
    /\ AnswerTrade(r, "rejected", StateOf(r.offer.good))
    /\ UNCHANGED marketTables

\* The store fails: the limiter stays charged, there is no answer.
TradeFails(r) ==
    /\ TradeAdmitted(r)
    /\ UNCHANGED <<marketTables, acks>>

\* The trade id was committed before: never throttled.
TradeReplayed(r) ==
    /\ r.player \in sessions
    /\ LookupTrade(r.txn) # None
    /\ AnswerTrade(r, "accepted", LookupTrade(r.txn))
    /\ UNCHANGED <<marketTables, sessions, cooling, sent>>

-----------------------------------------------------------------------------
\* The trade is decided, and the player told.
TradeDecided(r) == TradeApplied(r) \/ TradeRejected(r) \/ TradeReplayed(r)

MarketNext ==
    \/ \E r \in TradeRequest :
          Cardinality(sent) < MaxTrades /\ ClientSends(r) /\ UNCHANGED marketTables
    \/ \E p \in Player : (Join(p) \/ Leave(p) \/ CoolDown(p)) /\ UNCHANGED marketTables
    \/ Restart /\ UNCHANGED marketTables
    \/ \E r \in sent : TradeDecided(r) \/ TradeThrottled(r) \/ TradeFails(r)

MarketSpec == MarketInit /\ [][MarketNext]_marketVars

\* Time passes, a client that lost its session joins again, and it resends
\* its trade so often that a copy arrives outside the limiter's interval and
\* finds a working database: strong fairness, since it may find none before.
MarketFairness ==
    /\ \A p \in Player : /\ WF_marketVars(Join(p) /\ UNCHANGED marketTables)
                        /\ WF_marketVars(CoolDown(p) /\ UNCHANGED marketTables)
    /\ \A p \in Player, t \in Storable :
         SF_marketVars(\E r \in sent \cap TradeRequest :
                          r.player = p /\ r.txn = t /\ TradeDecided(r))

-----------------------------------------------------------------------------
(* Properties.                                                             *)

\* Type invariant: a stock is never negative and always fits an i64.
MarketTypeOK ==
    /\ market \in [Good -> State]
    /\ market_trades \in [TxnId -> Trade \cup {None}]
    /\ sessions \subseteq Player
    /\ cooling \subseteq Player
    /\ sent \subseteq TradeRequest
    /\ acks \subseteq MarketAck
    /\ traded \in [TxnId -> Int \cup {None}]

CommittedTrades == {t \in TxnId : market_trades[t] # None}

\* The quantities of the committed trades of a good.
QuantitiesOf(g) ==
    [t \in {u \in CommittedTrades : market_trades[u].good = g} |-> traded[t]]

\* The stock of a good is the sum of the quantities of its committed trades:
\* no retry, copy, restart or failure applies a trade twice or loses one.
StockIsSum == \A g \in Good : market[g].stock = SumFunction(QuantitiesOf(g))

\* All the answers that accept a trade are the same, and are what the
\* database recorded: "a replay returns the recorded state", also after the
\* market has moved on, after a restart, and to another player's copy.
ReplayReturnsRecorded ==
    \A a \in acks : a \in MarketAck /\ a.verdict = "accepted" =>
        a.state = market_trades[a.txn]

\* The state of a good is the one some trade recorded, or no trade of it was
\* ever committed: market and market_trades never come apart.
MarketIsSomeTrade ==
    \A g \in Good :
        LET trades == {t \in CommittedTrades : market_trades[t].good = g}
        IN  IF trades = {} THEN market[g] = Untouched
            ELSE \E t \in trades : StateOf(g) = market_trades[t]

\* A step that moves a good records exactly one new trade, of that good, and
\* leaves it in the recorded state; recorded trades are never changed.
MarketMovesWithItsTrade ==
    [][/\ \A t \in CommittedTrades : market_trades'[t] = market_trades[t]
       /\ \A g \in Good : market'[g] # market[g] =>
            \E t \in CommittedTrades' \ CommittedTrades :
               /\ CommittedTrades' = CommittedTrades \cup {t}
               /\ market_trades'[t] = StateOf(g)'
               /\ market'[g].stock = market[g].stock + traded'[t]]_marketVars

\* on_trade will "reply with the resulting state": a player that keeps asking
\* for a trade is told that it was accepted or rejected.  Not so for an id that
\* SQLite cannot hold, which econ.fbs allows: lookup_trade fails on it before
\* there is anything to answer, however often the trade is sent.
TradeSettled ==
    \A p \in Player, t \in Storable :
        (\E r \in sent \cap TradeRequest : r.player = p /\ r.txn = t) ~>
            \E a \in acks \cap MarketAck :
                a.player = p /\ a.txn = t /\ a.verdict # "rate limited"
=============================================================================
