SPECIFICATION MCSpec
CONSTANTS
    p1 = p1
    p2 = p2
    g1 = g1
    g2 = g2
    t1 = t1
    t2 = t2
    t3 = t3
    None = None
    Player = {p1, p2}
    TxnId = {t1, t2, t3}
    MaxGold = 3
    Amount <- MCAmount
    MaxTxns = 3
    Good = {g1, g2}
    Storable = {t1, t2}
    MaxStock = 3
    Offer <- MCOffer
    MaxTrades = 2
INVARIANTS
    BalanceIsSum
    AcceptedIsDurable
    StockIsSum
    ReplayReturnsRecorded
PROPERTIES
    GoldMovesWithItsRow
    MarketMovesWithItsTrade
    TradeSettled
