---------------------------- MODULE EconomyProofs ----------------------------
(***************************************************************************)
(* Proofs about Ledger and Market, for every set of players, transaction   *)
(* ids, goods and offers and every i64 range.                              *)
(*                                                                         *)
(* Of the ledger: balances stay in range and are the sums of the rows,     *)
(* what a client is told was accepted is durable, the table holds nothing  *)
(* nobody asked for, and gold moves only with its row.  Of the market:     *)
(* stocks stay in range and are the sums of the trades, every acceptance   *)
(* of a trade carries the recorded state, the two tables never come apart. *)
(***************************************************************************)
EXTENDS Ledger, Market, SumsProofs

-----------------------------------------------------------------------------
(* The gold ledger.                                                        *)

\* The inductive invariant.  LookupTxn answers with a balance, so that its
\* result is None exactly when there is no row needs the type of gold.  That
\* an answer names a request of its player and that an accepted id has a row
\* make the row the player's own as long as nobody else asked with that id.
AnsweredWasSent ==
    \A a \in acks :
        /\ \E r \in sent : r.player = a.player /\ r.txn = a.txn
        /\ a.accepted => a.txn \in CommittedTxns

LedgerInv == LedgerTypeOK /\ AnsweredWasSent /\ CommittedWasSent

\* lookup_txn finds a transaction exactly when it is committed.
LEMMA LookupFindsRows ==
    ASSUME LedgerTypeOK, NEW t \in TxnId
    PROVE  /\ LookupTxn(t) = None <=> ledger[t] = None
           /\ LookupTxn(t) # None => LookupTxn(t) \in 0..MaxGold
<1>1. CASE ledger[t] = None
  BY <1>1 DEF LookupTxn
<1>2. CASE ledger[t] # None
  <2>1. ledger[t] \in Row
    BY <1>2 DEF LedgerTypeOK
  <2>2. gold[ledger[t].player] \in 0..MaxGold
    BY <2>1 DEF LedgerTypeOK, Row
  <2>3. LookupTxn(t) = gold[ledger[t].player]
    BY <1>2 DEF LookupTxn
  <2>4. gold[ledger[t].player] # None
    BY <2>2, NoRowAssumption, LedgerAssumption
  <2> QED
    BY <1>2, <2>2, <2>3, <2>4
<1> QED
  BY <1>1, <1>2

LEMMA LedgerInitInv == LedgerInit => LedgerInv
<1> SUFFICES ASSUME LedgerInit PROVE LedgerInv
  OBVIOUS
<1>1. LedgerTypeOK
  BY LedgerAssumption DEF LedgerInit, ClientsInit, LedgerTypeOK
<1>2. AnsweredWasSent /\ CommittedWasSent
  BY DEF LedgerInit, ClientsInit, AnsweredWasSent, CommittedWasSent, CommittedTxns
<1> QED
  BY <1>1, <1>2 DEF LedgerInv

\* What the clients, the sessions and the limiter do leaves the database and
\* the answers alone.
LEMMA ClientsKeepLedgerInv ==
    ASSUME LedgerInv, UNCHANGED ledgerTables, UNCHANGED acks, sent \subseteq sent',
           sessions' \subseteq Player, cooling' \subseteq Player, sent' \subseteq EconTxn
    PROVE  LedgerInv'
<1>1. LedgerTypeOK'
  BY DEF LedgerInv, LedgerTypeOK, ledgerTables
<1>2. AnsweredWasSent'
  BY DEF LedgerInv, AnsweredWasSent, CommittedTxns, ledgerTables
<1>3. CommittedWasSent'
  BY DEF LedgerInv, CommittedWasSent, CommittedTxns, ledgerTables
<1> QED
  BY <1>1, <1>2, <1>3 DEF LedgerInv

\* An answer that leaves the database alone.
LEMMA AnswerKeepsLedgerInv ==
    ASSUME LedgerInv, NEW r \in sent, NEW accepted \in BOOLEAN, NEW balance \in 0..MaxGold,
           AnswerTxn(r, accepted, balance), UNCHANGED <<ledgerTables, sessions, sent>>,
           cooling' \subseteq Player, accepted => r.txn \in CommittedTxns
    PROVE  LedgerInv'
<1>1. r \in EconTxn
  BY DEF LedgerInv, LedgerTypeOK
<1>2. LedgerTypeOK'
  <2>1. [player |-> r.player, txn |-> r.txn, accepted |-> accepted,
         new_balance |-> balance] \in LedgerAck
    BY <1>1 DEF EconTxn, LedgerAck
  <2> QED
    BY <2>1 DEF LedgerInv, LedgerTypeOK, ledgerTables, AnswerTxn
<1>3. AnsweredWasSent'
  BY DEF LedgerInv, AnsweredWasSent, CommittedTxns, ledgerTables, AnswerTxn
<1>4. CommittedWasSent'
  BY DEF LedgerInv, CommittedWasSent, CommittedTxns, ledgerTables
<1> QED
  BY <1>2, <1>3, <1>4 DEF LedgerInv

LEMMA AppliedKeepsLedgerInv ==
    ASSUME LedgerInv, NEW r \in sent, EconApplied(r)
    PROVE  LedgerInv'
<1>1. r \in EconTxn /\ r.player \in Player /\ r.txn \in TxnId /\ r.amount \in Amount
  BY DEF LedgerInv, LedgerTypeOK, EconTxn
<1>2. ledger[r.txn] = None
  BY <1>1, LookupFindsRows DEF LedgerInv, EconApplied, TxnAdmitted, Charged
<1> DEFINE balance == gold[r.player] + r.amount
           row == [player |-> r.player, amount |-> r.amount]
<1>3. balance \in 0..MaxGold
  BY DEF EconApplied, Affordable
<1>4. row \in Row /\ row # None
  BY <1>1, NoRowAssumption DEF Row
<1>5. /\ gold' = [gold EXCEPT ![r.player] = balance]
      /\ ledger' = [ledger EXCEPT ![r.txn] = row]
      /\ AnswerTxn(r, TRUE, balance)
  BY DEF EconApplied
<1>6. UNCHANGED <<sessions, sent>> /\ cooling' = cooling \cup {r.player}
  BY DEF EconApplied, TxnAdmitted, Charged
<1> HIDE DEF balance, row
<1>7. CommittedTxns' = CommittedTxns \cup {r.txn}
  BY <1>1, <1>4, <1>5 DEF CommittedTxns, LedgerInv, LedgerTypeOK
<1>8. LedgerTypeOK'
  <2>1. [player |-> r.player, txn |-> r.txn, accepted |-> TRUE,
         new_balance |-> balance] \in LedgerAck
    BY <1>1, <1>3 DEF LedgerAck
  <2>2. gold' \in [Player -> 0..MaxGold]
    BY <1>1, <1>3, <1>5 DEF LedgerInv, LedgerTypeOK
  <2>3. ledger' \in [TxnId -> Row \cup {None}]
    BY <1>1, <1>4, <1>5 DEF LedgerInv, LedgerTypeOK
  <2>4. acks' \subseteq LedgerAck
    BY <2>1, <1>5 DEF LedgerInv, LedgerTypeOK, AnswerTxn
  <2> QED
    BY <1>1, <1>6, <2>2, <2>3, <2>4 DEF LedgerInv, LedgerTypeOK
<1>9. AnsweredWasSent'
  BY <1>5, <1>6, <1>7 DEF LedgerInv, AnsweredWasSent, AnswerTxn
<1>10. CommittedWasSent'
  <2> SUFFICES ASSUME NEW t \in CommittedTxns'
               PROVE  [player |-> ledger'[t].player, txn |-> t,
                       amount |-> ledger'[t].amount] \in sent
    BY <1>6 DEF CommittedWasSent
  <2>1. CASE t = r.txn
    <3>1. ledger'[t] = row
      BY <1>1, <1>5, <2>1 DEF LedgerInv, LedgerTypeOK
    <3>2. r = [player |-> r.player, txn |-> r.txn, amount |-> r.amount]
      BY <1>1 DEF EconTxn
    <3> QED
      BY <2>1, <3>1, <3>2 DEF row
  <2>2. CASE t # r.txn
    <3>1. t \in CommittedTxns
      BY <1>7, <2>2
    <3>2. ledger'[t] = ledger[t]
      BY <1>5, <2>2, <3>1 DEF LedgerInv, LedgerTypeOK, CommittedTxns
    <3> QED
      BY <3>1, <3>2 DEF LedgerInv, CommittedWasSent
  <2> QED
    BY <2>1, <2>2
<1> QED
  BY <1>8, <1>9, <1>10 DEF LedgerInv

LEMMA LedgerNextInv == LedgerInv /\ [LedgerNext]_ledgerVars => LedgerInv'
<1> SUFFICES ASSUME LedgerInv, [LedgerNext]_ledgerVars PROVE LedgerInv'
  OBVIOUS
<1>1. CASE UNCHANGED ledgerVars
  BY <1>1, ClientsKeepLedgerInv DEF ledgerVars, ledgerTables, LedgerInv, LedgerTypeOK
<1>2. CASE \E r \in EconTxn : ClientSends(r) /\ UNCHANGED ledgerTables
  BY <1>2, ClientsKeepLedgerInv DEF ClientSends, LedgerInv, LedgerTypeOK
<1>3. CASE \E p \in Player : (Join(p) \/ Leave(p) \/ CoolDown(p)) /\ UNCHANGED ledgerTables
  BY <1>3, ClientsKeepLedgerInv DEF Join, Leave, CoolDown, LedgerInv, LedgerTypeOK
<1>4. CASE Restart /\ UNCHANGED ledgerTables
  BY <1>4, ClientsKeepLedgerInv DEF Restart, LedgerInv, LedgerTypeOK
<1>5. ASSUME NEW r \in sent,
             EconApplied(r) \/ EconRefused(r) \/ EconFails(r) \/ EconReplayed(r)
      PROVE  LedgerInv'
  <2>0. r \in EconTxn /\ r.player \in Player /\ r.txn \in TxnId
    BY DEF LedgerInv, LedgerTypeOK, EconTxn
  <2>1. CASE EconApplied(r)
    BY <2>1, AppliedKeepsLedgerInv
  <2>2. CASE EconRefused(r)
    <3>1. gold[r.player] \in 0..MaxGold
      BY <2>0 DEF LedgerInv, LedgerTypeOK
    <3>2. cooling' \subseteq Player /\ UNCHANGED <<ledgerTables, sessions, sent>>
      BY <2>0, <2>2 DEF EconRefused, TxnAdmitted, Charged, LedgerInv, LedgerTypeOK
    <3> QED
      BY <2>2, <3>1, <3>2, AnswerKeepsLedgerInv DEF EconRefused
  <2>3. CASE EconFails(r)
    BY <2>0, <2>3, ClientsKeepLedgerInv DEF EconFails, TxnAdmitted, Charged, LedgerInv, LedgerTypeOK
  <2>4. CASE EconReplayed(r)
    <3>1. LookupTxn(r.txn) \in 0..MaxGold /\ r.txn \in CommittedTxns
      BY <2>0, <2>4, LookupFindsRows DEF EconReplayed, LedgerInv, CommittedTxns
    <3>2. cooling' \subseteq Player /\ UNCHANGED <<ledgerTables, sessions, sent>>
      BY <2>4 DEF EconReplayed, LedgerInv, LedgerTypeOK
    <3> QED
      BY <2>4, <3>1, <3>2, AnswerKeepsLedgerInv DEF EconReplayed
  <2> QED
    BY <1>5, <2>1, <2>2, <2>3, <2>4
<1> QED
  BY <1>1, <1>2, <1>3, <1>4, <1>5 DEF LedgerNext

\* The inductive invariant holds.
THEOREM LedgerInvariant == LedgerSpec => []LedgerInv
BY LedgerInitInv, LedgerNextInv, PTL DEF LedgerSpec

\* Balances stay in 0..MaxGold: Ledger::apply's checked_add and its test for a
\* negative balance are enough, whatever clients send and however often.
THEOREM LedgerTypeCorrect == LedgerSpec => []LedgerTypeOK
<1>1. LedgerInv => LedgerTypeOK
  BY DEF LedgerInv
<1> QED
  BY <1>1, LedgerInvariant, PTL

\* on_econ answers "accepted" only for a transaction that is in the table with
\* its player and its amount, also after a store failure, a replay or a
\* restart, unless another player asked with the same id.
THEOREM AcceptedDurable == LedgerSpec => []AcceptedIsDurable
<1>1. ASSUME LedgerInv PROVE AcceptedIsDurable
  <2> SUFFICES ASSUME NEW a \in acks, a.accepted, ~Shared(a.txn) PROVE InTable(a)
    BY DEF AcceptedIsDurable
  <2>1. PICK q \in sent : q.player = a.player /\ q.txn = a.txn
    BY <1>1 DEF LedgerInv, AnsweredWasSent
  <2>2. a.txn \in CommittedTxns
    BY <1>1 DEF LedgerInv, AnsweredWasSent
  <2> DEFINE r == [player |-> ledger[a.txn].player, txn |-> a.txn,
                   amount |-> ledger[a.txn].amount]
  <2>3. r \in sent
    BY <1>1, <2>2 DEF LedgerInv, CommittedWasSent
  <2>4. r.player = a.player
    BY <2>1, <2>3 DEF Shared
  <2>5. ledger[a.txn] \in Row
    BY <1>1, <2>2 DEF LedgerInv, LedgerTypeOK, CommittedTxns
  <2>6. ledger[r.txn] = [player |-> r.player, amount |-> r.amount]
    BY <2>5 DEF Row
  <2> QED
    BY <2>3, <2>4, <2>6 DEF InTable
<1> QED
  BY <1>1, LedgerInvariant, PTL

\* Every row of the table ledger is a transaction its player asked for.
THEOREM NothingInvented == LedgerSpec => []CommittedWasSent
<1>1. LedgerInv => CommittedWasSent
  BY DEF LedgerInv
<1> QED
  BY <1>1, LedgerInvariant, PTL

\* commit_txn is the only write path: a balance changes by the amount of the
\* one row the same step appends, and rows are never overwritten.
THEOREM GoldMoves == LedgerSpec => GoldMovesWithItsRow
<1> DEFINE A == /\ \A t \in CommittedTxns : ledger'[t] = ledger[t]
                /\ \A p \in Player : gold'[p] # gold[p] =>
                     \E t \in CommittedTxns' \ CommittedTxns :
                        /\ CommittedTxns' = CommittedTxns \cup {t}
                        /\ ledger'[t].player = p
                        /\ gold'[p] = gold[p] + ledger'[t].amount
<1>1. LedgerInv /\ [LedgerNext]_ledgerVars => [A]_ledgerVars
  <2> SUFFICES ASSUME LedgerInv, LedgerNext PROVE A
    OBVIOUS
  <2>1. CASE UNCHANGED ledgerTables
    BY <2>1 DEF ledgerTables
  <2>2. ASSUME NEW r \in sent, EconApplied(r) PROVE A
    <3>1. r.player \in Player /\ r.txn \in TxnId /\ r.amount \in Amount
      BY DEF LedgerInv, LedgerTypeOK, EconTxn
    <3>2. ledger[r.txn] = None
      BY <2>2, <3>1, LookupFindsRows DEF LedgerInv, EconApplied, TxnAdmitted, Charged
    <3> DEFINE row == [player |-> r.player, amount |-> r.amount]
    <3>3. row \in Row /\ row # None
      BY <3>1, NoRowAssumption DEF Row
    <3>4. /\ gold' = [gold EXCEPT ![r.player] = gold[r.player] + r.amount]
          /\ ledger' = [ledger EXCEPT ![r.txn] = row]
      BY <2>2 DEF EconApplied
    <3>5. row.player = r.player /\ row.amount = r.amount
      OBVIOUS
    <3> HIDE DEF row
    <3>6. CommittedTxns' = CommittedTxns \cup {r.txn} /\ r.txn \notin CommittedTxns
      BY <3>1, <3>2, <3>3, <3>4 DEF CommittedTxns, LedgerInv, LedgerTypeOK
    <3>7. ledger'[r.txn] = row
      BY <3>1, <3>4 DEF LedgerInv, LedgerTypeOK
    <3>8. \A t \in CommittedTxns : ledger'[t] = ledger[t]
      BY <3>4, <3>6 DEF CommittedTxns, LedgerInv, LedgerTypeOK
    <3>9. ASSUME NEW p \in Player, gold'[p] # gold[p]
          PROVE  p = r.player /\ gold'[p] = gold[p] + r.amount
      BY <3>1, <3>4, <3>9 DEF LedgerInv, LedgerTypeOK
    <3> QED
      BY <3>5, <3>6, <3>7, <3>8, <3>9
  <2>3. UNCHANGED ledgerTables \/ \E r \in sent : EconApplied(r)
    BY DEF LedgerNext, ClientSends, Join, Leave, CoolDown, Restart, EconRefused,
           EconFails, EconReplayed
  <2> QED
    BY <2>1, <2>2, <2>3
<1> QED
  BY <1>1, LedgerInvariant, PTL DEF LedgerSpec, GoldMovesWithItsRow

-----------------------------------------------------------------------------
(* Balances are sums.                                                      *)

\* An i64 is an integer.
LEMMA AmountsAreInts == \A x \in Amount : x \in Int
<1> TAKE x \in Amount
<1>1. MaxGold \in Nat /\ Amount \subseteq -(MaxGold + 1)..MaxGold
  BY LedgerAssumption
<1>2. x \in -(MaxGold + 1)..MaxGold
  BY <1>1, Zenon
<1> QED
  BY <1>1, <1>2

\* What a player's amounts are: integers, finitely many.
LEMMA AmountsType ==
    ASSUME LedgerTypeOK, NEW p \in Player
    PROVE  /\ IsFiniteSet(DOMAIN AmountsOf(p))
           /\ \A t \in DOMAIN AmountsOf(p) : AmountsOf(p)[t] \in Int
<1>1. IsFiniteSet({u \in CommittedTxns : ledger[u].player = p})
  BY LedgerAssumption, FS_Subset DEF CommittedTxns
<1>2. \A t \in CommittedTxns : ledger[t].amount \in Int
  BY AmountsAreInts DEF LedgerTypeOK, CommittedTxns, Row
<1> QED
  BY <1>1, <1>2 DEF AmountsOf

\* A transaction that is committed adds its amount to its player's, and
\* nothing to anyone else's.
LEMMA AppliedKeepsBalances ==
    ASSUME LedgerTypeOK, BalanceIsSum, NEW r \in sent, EconApplied(r)
    PROVE  BalanceIsSum'
<1>0. r.player \in Player /\ r.txn \in TxnId /\ r.amount \in Amount
  BY DEF LedgerTypeOK, EconTxn
<1>1. r.player \in Player /\ r.txn \in TxnId /\ r.amount \in Int
  BY <1>0, AmountsAreInts
<1>2. ledger[r.txn] = None
  BY <1>1, LookupFindsRows DEF EconApplied, TxnAdmitted, Charged
<1> DEFINE row == [player |-> r.player, amount |-> r.amount]
<1>3. row # None /\ row.player = r.player /\ row.amount = r.amount
  BY <1>0, NoRowAssumption DEF Row
<1>4. /\ gold' = [gold EXCEPT ![r.player] = gold[r.player] + r.amount]
      /\ ledger' = [ledger EXCEPT ![r.txn] = row]
  BY DEF EconApplied
<1> HIDE DEF row
<1>5. /\ CommittedTxns' = CommittedTxns \cup {r.txn} /\ r.txn \notin CommittedTxns
      /\ ledger'[r.txn] = row
      /\ \A t \in CommittedTxns : ledger'[t] = ledger[t]
  BY <1>1, <1>2, <1>3, <1>4 DEF CommittedTxns, LedgerTypeOK
<1> SUFFICES ASSUME NEW p \in Player PROVE gold'[p] = SumFunction(AmountsOf(p)')
  BY DEF BalanceIsSum
<1> DEFINE f == AmountsOf(p)
           g == AmountsOf(p)'
           S == {u \in CommittedTxns : ledger[u].player = p}
           T == {u \in CommittedTxns' : ledger'[u].player = p}
<1>6. f = [t \in S |-> ledger[t].amount] /\ g = [t \in T |-> ledger'[t].amount]
  BY DEF AmountsOf
<1>7. gold[p] = SumFunction(f)
  BY DEF BalanceIsSum
<1>8. CASE p = r.player
  <2>1. T = S \cup {r.txn} /\ r.txn \notin S
    BY <1>3, <1>5, <1>8
  <2>2. /\ IsFiniteSet(DOMAIN f)
        /\ \A t \in DOMAIN f : f[t] \in Int
    BY AmountsType
  <2>3. \A t \in DOMAIN f : g[t] = f[t]
    BY <1>5, <1>6, <2>1
  <2>4. g[r.txn] = r.amount
    BY <1>3, <1>5, <1>6, <2>1
  <2>5. DOMAIN g = DOMAIN f \cup {r.txn} /\ r.txn \notin DOMAIN f
    BY <1>6, <2>1
  <2>6. SumFunction(g) = SumFunction(f) + g[r.txn]
    <3> HIDE DEF f, g
    <3> QED BY <1>1, <2>2, <2>3, <2>4, <2>5, SumExtended
  <2>7. gold'[p] = gold[p] + r.amount
    BY <1>4, <1>8 DEF LedgerTypeOK
  <2> QED
    BY <1>7, <2>4, <2>6, <2>7
<1>9. CASE p # r.player
  <2>1. T = S
    BY <1>3, <1>5, <1>9
  <2>2. g = f
    BY <1>5, <1>6, <2>1
  <2>3. gold'[p] = gold[p]
    BY <1>1, <1>4, <1>9 DEF LedgerTypeOK
  <2> QED
    BY <1>7, <2>2, <2>3
<1> QED
  BY <1>8, <1>9

\* Retries, copies, restarts and failures of the store neither apply a
\* transaction twice nor lose one: players.gold is the sum of the player's
\* rows in the table ledger.
THEOREM BalancesAreSums == LedgerSpec => []BalanceIsSum
<1>1. LedgerInit => BalanceIsSum
  <2> SUFFICES ASSUME LedgerInit, NEW p \in Player PROVE gold[p] = SumFunction(AmountsOf(p))
    BY DEF BalanceIsSum
  <2>1. DOMAIN AmountsOf(p) = {}
    BY DEF LedgerInit, ClientsInit, AmountsOf, CommittedTxns
  <2> QED
    BY <2>1, SumOfEmpty DEF LedgerInit, ClientsInit
<1>2. LedgerInv /\ BalanceIsSum /\ [LedgerNext]_ledgerVars => BalanceIsSum'
  <2> SUFFICES ASSUME LedgerInv, BalanceIsSum, [LedgerNext]_ledgerVars PROVE BalanceIsSum'
    OBVIOUS
  <2>1. CASE UNCHANGED ledgerTables
    <3>1. \A p \in Player : AmountsOf(p)' = AmountsOf(p)
      BY <2>1 DEF AmountsOf, CommittedTxns, ledgerTables
    <3> QED
      BY <2>1, <3>1 DEF BalanceIsSum, ledgerTables
  <2>2. ASSUME NEW r \in sent, EconApplied(r) PROVE BalanceIsSum'
    BY <2>2, AppliedKeepsBalances DEF LedgerInv
  <2>3. UNCHANGED ledgerTables \/ \E r \in sent : EconApplied(r)
    BY DEF LedgerNext, ClientSends, Join, Leave, CoolDown, Restart, EconRefused,
           EconFails, EconReplayed, ledgerVars, ledgerTables
  <2> QED
    BY <2>1, <2>2, <2>3
<1> QED
  BY <1>1, <1>2, LedgerInvariant, PTL DEF LedgerSpec

-----------------------------------------------------------------------------
(* The port market.                                                        *)

\* The inductive invariant.
MarketInv == MarketTypeOK /\ ReplayReturnsRecorded /\ MarketIsSomeTrade

LEMMA MarketInitInv == MarketInit => MarketInv
<1> SUFFICES ASSUME MarketInit PROVE MarketInv
  OBVIOUS
<1>1. MarketTypeOK
  BY MarketAssumption DEF MarketInit, ClientsInit, MarketTypeOK, Untouched, State
<1>2. ReplayReturnsRecorded
  BY DEF MarketInit, ClientsInit, ReplayReturnsRecorded
<1>3. CommittedTrades = {}
  BY DEF MarketInit, ClientsInit, CommittedTrades
<1>4. MarketIsSomeTrade
  BY <1>3 DEF MarketInit, ClientsInit, MarketIsSomeTrade
<1> QED
  BY <1>1, <1>2, <1>4 DEF MarketInv

\* What the clients, the sessions and the limiter do leaves the database and
\* the answers alone.
LEMMA ClientsKeepMarketInv ==
    ASSUME MarketInv, UNCHANGED marketTables, UNCHANGED acks,
           sessions' \subseteq Player, cooling' \subseteq Player, sent' \subseteq TradeRequest
    PROVE  MarketInv'
<1>1. MarketTypeOK'
  BY DEF MarketInv, MarketTypeOK, marketTables
<1>2. ReplayReturnsRecorded'
  BY DEF MarketInv, ReplayReturnsRecorded, marketTables
<1>3. MarketIsSomeTrade'
  BY DEF MarketInv, MarketIsSomeTrade, CommittedTrades, StateOf, marketTables
<1> QED
  BY <1>1, <1>2, <1>3 DEF MarketInv

\* An answer that leaves the database alone.
LEMMA AnswerKeepsMarketInv ==
    ASSUME MarketInv, NEW r \in sent, NEW verdict \in Verdicts, NEW state \in Trade,
           AnswerTrade(r, verdict, state), UNCHANGED <<marketTables, sessions, sent>>,
           cooling' \subseteq Player,
           verdict = "accepted" => state = market_trades[r.txn]
    PROVE  MarketInv'
<1>1. r \in TradeRequest
  BY DEF MarketInv, MarketTypeOK
<1>2. MarketTypeOK'
  <2>1. [player |-> r.player, txn |-> r.txn, verdict |-> verdict, state |-> state] \in MarketAck
    BY <1>1 DEF TradeRequest, MarketAck
  <2> QED
    BY <2>1 DEF MarketInv, MarketTypeOK, marketTables, AnswerTrade
<1>3. ReplayReturnsRecorded'
  BY DEF MarketInv, ReplayReturnsRecorded, marketTables, AnswerTrade
<1>4. MarketIsSomeTrade'
  BY DEF MarketInv, MarketIsSomeTrade, CommittedTrades, StateOf, marketTables
<1> QED
  BY <1>2, <1>3, <1>4 DEF MarketInv

\* The state of a good, as an answer carries it.
LEMMA StateOfType ==
    ASSUME MarketTypeOK, NEW g \in Good
    PROVE  StateOf(g) \in Trade
BY DEF MarketTypeOK, StateOf, State, Trade

\* What commit_trade does: the trade is new, and it is the state of its good.
LEMMA AppliedFacts ==
    ASSUME MarketTypeOK, NEW r \in sent, TradeApplied(r)
    PROVE  /\ r \in TradeRequest /\ r.player \in Player /\ r.txn \in TxnId
           /\ r.offer.good \in Good
           /\ r.txn \notin CommittedTrades
           /\ CommittedTrades' = CommittedTrades \cup {r.txn}
           /\ market_trades'[r.txn] \in Trade
           /\ market_trades'[r.txn] = StateOf(r.offer.good)'
           /\ market_trades'[r.txn].good = r.offer.good
           /\ market'[r.offer.good].stock = market[r.offer.good].stock + r.offer.qty
           /\ traded'[r.txn] = r.offer.qty
           /\ \A t \in TxnId : t # r.txn => market_trades'[t] = market_trades[t]
           /\ \A g \in Good : g # r.offer.good => market'[g] = market[g]
           /\ AnswerTrade(r, "accepted", market_trades'[r.txn])
           /\ UNCHANGED <<sessions, sent>>
           /\ cooling' = cooling \cup {r.player}
           /\ market' \in [Good -> State]
           /\ market_trades' \in [TxnId -> Trade \cup {None}]
           /\ traded' \in [TxnId -> Int \cup {None}]
<1>1. /\ r \in TradeRequest /\ r.player \in Player /\ r.txn \in TxnId
      /\ r.offer.good \in Good /\ r.offer.qty \in Int
  BY MarketAssumption DEF MarketTypeOK, TradeRequest
<1> DEFINE state == [stock |-> market[r.offer.good].stock + r.offer.qty,
                     price |-> r.offer.price]
           trade == [good |-> r.offer.good, stock |-> state.stock, price |-> state.price]
<1>2. state \in State
  BY <1>1, MarketAssumption DEF TradeApplied, Tradable, State, TradeRequest
<1>3. trade \in Trade /\ trade # None /\ trade.good = r.offer.good
  BY <1>1, <1>2, NoTradeAssumption DEF Trade, State
<1>4. /\ market' = [market EXCEPT ![r.offer.good] = state]
      /\ market_trades' = [market_trades EXCEPT ![r.txn] = trade]
      /\ traded' = [traded EXCEPT ![r.txn] = r.offer.qty]
      /\ AnswerTrade(r, "accepted", trade)
  BY DEF TradeApplied
<1>5. /\ UNCHANGED <<sessions, sent>> /\ cooling' = cooling \cup {r.player}
      /\ market_trades[r.txn] = None
  BY DEF TradeApplied, TradeAdmitted, Charged, IsNew, LookupTrade
<1>6. market'[r.offer.good] = state
  BY <1>1, <1>4 DEF MarketTypeOK
<1>7. market_trades'[r.txn] = trade
  BY <1>1, <1>4 DEF MarketTypeOK
<1>8. StateOf(r.offer.good)' = trade
  BY <1>6 DEF StateOf
<1>9. state.stock = market[r.offer.good].stock + r.offer.qty
  OBVIOUS
<1> HIDE DEF state, trade
<1>10. CommittedTrades' = CommittedTrades \cup {r.txn} /\ r.txn \notin CommittedTrades
  BY <1>1, <1>3, <1>4, <1>5 DEF CommittedTrades, MarketTypeOK
<1>11. /\ market' \in [Good -> State]
       /\ market_trades' \in [TxnId -> Trade \cup {None}]
       /\ traded' \in [TxnId -> Int \cup {None}]
  BY <1>1, <1>2, <1>3, <1>4 DEF MarketTypeOK
<1>12. /\ \A t \in TxnId : t # r.txn => market_trades'[t] = market_trades[t]
       /\ \A g \in Good : g # r.offer.good => market'[g] = market[g]
       /\ traded'[r.txn] = r.offer.qty
  BY <1>1, <1>4 DEF MarketTypeOK
<1>13. market'[r.offer.good].stock = market[r.offer.good].stock + r.offer.qty
  BY <1>6, <1>9
<1> QED
  BY <1>1, <1>3, <1>4, <1>5, <1>7, <1>8, <1>10, <1>11, <1>12, <1>13

LEMMA AppliedKeepsMarketInv ==
    ASSUME MarketInv, NEW r \in sent, TradeApplied(r)
    PROVE  MarketInv'
<1> DEFINE trade == market_trades'[r.txn]
<1>0. MarketTypeOK
  BY DEF MarketInv
<1>1. MarketTypeOK'
  <2>1. acks' \subseteq MarketAck
    <3>1. [player |-> r.player, txn |-> r.txn, verdict |-> "accepted",
           state |-> trade] \in MarketAck
      BY <1>0, AppliedFacts DEF MarketAck, Verdicts
    <3>2. AnswerTrade(r, "accepted", trade)
      BY <1>0, AppliedFacts
    <3> QED
      BY <1>0, <3>1, <3>2 DEF AnswerTrade, MarketTypeOK
  <2> QED
    BY <1>0, <2>1, AppliedFacts DEF MarketTypeOK
<1>2. ReplayReturnsRecorded'
  <2> SUFFICES ASSUME NEW a \in acks', a.verdict = "accepted"
               PROVE  a.state = market_trades'[a.txn]
    BY DEF ReplayReturnsRecorded
  <2>1. CASE a \in acks
    <3>1. a.state = market_trades[a.txn] /\ a \in MarketAck
      BY <1>0, <2>1 DEF MarketInv, ReplayReturnsRecorded, MarketTypeOK
    <3>2. a.txn \in CommittedTrades
      BY <3>1, NoTradeAssumption DEF MarketAck, CommittedTrades
    <3>3. a.txn # r.txn /\ a.txn \in TxnId
      BY <1>0, <3>2, AppliedFacts DEF CommittedTrades
    <3> QED
      BY <1>0, <3>1, <3>3, AppliedFacts
  <2>2. CASE a \notin acks
    <3>1. AnswerTrade(r, "accepted", trade)
      BY <1>0, AppliedFacts
    <3>2. a.state = trade /\ a.txn = r.txn
      BY <2>2, <3>1 DEF AnswerTrade
    <3> QED
      BY <3>2
  <2> QED
    BY <2>1, <2>2
<1>3. MarketIsSomeTrade'
  <2> SUFFICES ASSUME NEW g \in Good
               PROVE  LET trades == {t \in CommittedTrades' : market_trades'[t].good = g}
                      IN  IF trades = {} THEN market'[g] = Untouched
                          ELSE \E t \in trades : StateOf(g)' = market_trades'[t]
    BY DEF MarketIsSomeTrade
  <2>1. CASE g = r.offer.good
    BY <1>0, <2>1, AppliedFacts
  <2>2. CASE g # r.offer.good
    <3> DEFINE trades == {t \in CommittedTrades : market_trades[t].good = g}
               newer  == {t \in CommittedTrades' : market_trades'[t].good = g}
    <3>1. newer = trades
      BY <1>0, <2>2, AppliedFacts DEF CommittedTrades
    <3>2. \A t \in trades : market_trades'[t] = market_trades[t]
      BY <1>0, AppliedFacts DEF CommittedTrades
    <3>3. StateOf(g)' = StateOf(g) /\ market'[g] = market[g]
      BY <1>0, <2>2, AppliedFacts DEF StateOf
    <3>4. IF trades = {} THEN market[g] = Untouched
          ELSE \E t \in trades : StateOf(g) = market_trades[t]
      BY DEF MarketInv, MarketIsSomeTrade
    <3> HIDE DEF trades
    <3> QED
      BY <3>1, <3>2, <3>3, <3>4
  <2> QED
    BY <2>1, <2>2
<1> QED
  BY <1>1, <1>2, <1>3 DEF MarketInv

LEMMA MarketNextInv == MarketInv /\ [MarketNext]_marketVars => MarketInv'
<1> SUFFICES ASSUME MarketInv, [MarketNext]_marketVars PROVE MarketInv'
  OBVIOUS
<1>1. CASE UNCHANGED marketVars
  BY <1>1, ClientsKeepMarketInv DEF marketVars, marketTables, MarketInv, MarketTypeOK
<1>2. CASE \E r \in TradeRequest : ClientSends(r) /\ UNCHANGED marketTables
  BY <1>2, ClientsKeepMarketInv DEF ClientSends, MarketInv, MarketTypeOK
<1>3. CASE \E p \in Player : (Join(p) \/ Leave(p) \/ CoolDown(p)) /\ UNCHANGED marketTables
  BY <1>3, ClientsKeepMarketInv DEF Join, Leave, CoolDown, MarketInv, MarketTypeOK
<1>4. CASE Restart /\ UNCHANGED marketTables
  BY <1>4, ClientsKeepMarketInv DEF Restart, MarketInv, MarketTypeOK
<1>5. ASSUME NEW r \in sent, TradeDecided(r) \/ TradeThrottled(r) \/ TradeFails(r)
      PROVE  MarketInv'
  <2>0. r \in TradeRequest /\ r.player \in Player /\ r.txn \in TxnId /\ r.offer.good \in Good
    BY MarketAssumption DEF MarketInv, MarketTypeOK, TradeRequest
  <2>1. CASE TradeApplied(r)
    BY <2>1, AppliedKeepsMarketInv
  <2>2. CASE TradeRejected(r)
    <3>1. StateOf(r.offer.good) \in Trade
      BY <2>0, StateOfType DEF MarketInv
    <3>2. cooling' \subseteq Player /\ UNCHANGED <<marketTables, sessions, sent>>
      BY <2>0, <2>2 DEF TradeRejected, TradeAdmitted, Charged, MarketInv, MarketTypeOK
    <3> QED
      BY <2>2, <3>1, <3>2, AnswerKeepsMarketInv DEF TradeRejected, Verdicts
  <2>3. CASE TradeFails(r)
    BY <2>0, <2>3, ClientsKeepMarketInv DEF TradeFails, TradeAdmitted, Charged, MarketInv, MarketTypeOK
  <2>4. CASE TradeReplayed(r)
    <3>1. LookupTrade(r.txn) \in Trade /\ LookupTrade(r.txn) = market_trades[r.txn]
      BY <2>0, <2>4 DEF TradeReplayed, LookupTrade, MarketInv, MarketTypeOK
    <3>2. cooling' \subseteq Player /\ UNCHANGED <<marketTables, sessions, sent>>
      BY <2>4 DEF TradeReplayed, MarketInv, MarketTypeOK
    <3> QED
      BY <2>4, <3>1, <3>2, AnswerKeepsMarketInv DEF TradeReplayed, Verdicts
  <2>5. CASE TradeThrottled(r)
    <3>1. StateOf(r.offer.good) \in Trade
      BY <2>0, StateOfType DEF MarketInv
    <3>2. cooling' \subseteq Player /\ UNCHANGED <<marketTables, sessions, sent>>
      BY <2>5 DEF TradeThrottled, MarketInv, MarketTypeOK
    <3> QED
      BY <2>5, <3>1, <3>2, AnswerKeepsMarketInv DEF TradeThrottled, Verdicts
  <2> QED
    BY <1>5, <2>1, <2>2, <2>3, <2>4, <2>5 DEF TradeDecided
<1> QED
  BY <1>1, <1>2, <1>3, <1>4, <1>5 DEF MarketNext

\* The inductive invariant holds.
THEOREM MarketInvariant == MarketSpec => []MarketInv
BY MarketInitInv, MarketNextInv, PTL DEF MarketSpec

\* Stocks stay in 0..MaxStock and recorded prices are not negative: the checks
\* of Market::apply are enough.
THEOREM MarketTypeCorrect == MarketSpec => []MarketTypeOK
<1>1. MarketInv => MarketTypeOK
  BY DEF MarketInv
<1> QED
  BY <1>1, MarketInvariant, PTL

\* A replay is answered with the recorded state, however the market has moved
\* since the trade was committed.
THEOREM ReplayRecorded == MarketSpec => []ReplayReturnsRecorded
<1>1. MarketInv => ReplayReturnsRecorded
  BY DEF MarketInv
<1> QED
  BY <1>1, MarketInvariant, PTL

\* commit_trade keeps the tables market and market_trades together.
THEOREM TablesAgree == MarketSpec => []MarketIsSomeTrade
<1>1. MarketInv => MarketIsSomeTrade
  BY DEF MarketInv
<1> QED
  BY <1>1, MarketInvariant, PTL

\* commit_trade is the only write path of both tables.
THEOREM MarketMoves == MarketSpec => MarketMovesWithItsTrade
<1> DEFINE A == /\ \A t \in CommittedTrades : market_trades'[t] = market_trades[t]
                /\ \A g \in Good : market'[g] # market[g] =>
                     \E t \in CommittedTrades' \ CommittedTrades :
                        /\ CommittedTrades' = CommittedTrades \cup {t}
                        /\ market_trades'[t] = StateOf(g)'
                        /\ market'[g].stock = market[g].stock + traded'[t]
<1>1. MarketInv /\ [MarketNext]_marketVars => [A]_marketVars
  <2> SUFFICES ASSUME MarketInv, MarketNext PROVE A
    OBVIOUS
  <2>0. MarketTypeOK
    BY DEF MarketInv
  <2>1. CASE UNCHANGED marketTables
    BY <2>1 DEF marketTables
  <2>2. ASSUME NEW r \in sent, TradeApplied(r) PROVE A
    <3>1. \A t \in CommittedTrades : market_trades'[t] = market_trades[t]
      BY <2>0, <2>2, AppliedFacts DEF CommittedTrades
    <3>2. ASSUME NEW g \in Good, market'[g] # market[g]
          PROVE  /\ r.txn \in CommittedTrades' \ CommittedTrades
                 /\ CommittedTrades' = CommittedTrades \cup {r.txn}
                 /\ market_trades'[r.txn] = StateOf(g)'
                 /\ market'[g].stock = market[g].stock + traded'[r.txn]
      <4>1. g = r.offer.good
        BY <2>0, <2>2, <3>2, AppliedFacts
      <4> QED
        BY <2>0, <2>2, <4>1, AppliedFacts
    <3> QED
      BY <3>1, <3>2
  <2>3. UNCHANGED marketTables \/ \E r \in sent : TradeApplied(r)
    BY DEF MarketNext, ClientSends, Join, Leave, CoolDown, Restart, TradeDecided,
           TradeRejected, TradeThrottled, TradeFails, TradeReplayed
  <2> QED
    BY <2>1, <2>2, <2>3
<1> QED
  BY <1>1, MarketInvariant, PTL DEF MarketSpec, MarketMovesWithItsTrade

-----------------------------------------------------------------------------
(* Stocks are sums.  The quantity of a trade is history: the table does    *)
(* not keep it.                                                            *)

\* Every committed trade has a quantity.
TradedOK == \A t \in CommittedTrades : traded[t] \in Int

\* A trade that is committed adds its quantity to its good's, and nothing to
\* any other's.
LEMMA AppliedKeepsStocks ==
    ASSUME MarketTypeOK, TradedOK, StockIsSum, NEW r \in sent, TradeApplied(r)
    PROVE  TradedOK' /\ StockIsSum'
<1>1. r.offer.good \in Good /\ r.offer.qty \in Int
  BY MarketAssumption DEF MarketTypeOK, TradeRequest
<1>2. /\ CommittedTrades' = CommittedTrades \cup {r.txn} /\ r.txn \notin CommittedTrades
      /\ market_trades'[r.txn].good = r.offer.good
      /\ market'[r.offer.good].stock = market[r.offer.good].stock + r.offer.qty
      /\ traded'[r.txn] = r.offer.qty
      /\ \A g \in Good : g # r.offer.good => market'[g] = market[g]
  BY AppliedFacts
<1>3. \A t \in CommittedTrades : market_trades'[t] = market_trades[t]
  BY AppliedFacts DEF CommittedTrades
<1>4. \A t \in CommittedTrades : traded'[t] = traded[t]
  <2>1. traded' = [traded EXCEPT ![r.txn] = r.offer.qty]
    BY DEF TradeApplied
  <2> QED
    BY <1>2, <2>1 DEF MarketTypeOK, CommittedTrades
<1>5. TradedOK'
  BY <1>1, <1>2, <1>4 DEF TradedOK
<1>6. ASSUME NEW g \in Good PROVE market'[g].stock = SumFunction(QuantitiesOf(g)')
  <2> DEFINE f == QuantitiesOf(g)
             h == QuantitiesOf(g)'
             S == {u \in CommittedTrades : market_trades[u].good = g}
             T == {u \in CommittedTrades' : market_trades'[u].good = g}
  <2>1. f = [t \in S |-> traded[t]] /\ h = [t \in T |-> traded'[t]]
    BY DEF QuantitiesOf
  <2>2. market[g].stock = SumFunction(f)
    BY DEF StockIsSum
  <2>3. CASE g = r.offer.good
    <3>1. T = S \cup {r.txn} /\ r.txn \notin S
      BY <1>2, <1>3, <2>3
    <3>2. IsFiniteSet(S)
      BY MarketAssumption, FS_Subset DEF CommittedTrades
    <3>3. /\ IsFiniteSet(DOMAIN f)
          /\ \A t \in DOMAIN f : f[t] \in Int /\ h[t] = f[t]
      BY <1>4, <2>1, <3>1, <3>2 DEF TradedOK
    <3>4. h[r.txn] = r.offer.qty
      BY <1>2, <2>1, <3>1
    <3>5. DOMAIN h = DOMAIN f \cup {r.txn} /\ r.txn \notin DOMAIN f
      BY <2>1, <3>1
    <3>6. SumFunction(h) = SumFunction(f) + h[r.txn]
      <4> HIDE DEF f, h
      <4> QED BY <1>1, <3>3, <3>4, <3>5, SumExtended
    <3> QED
      BY <1>2, <2>2, <2>3, <3>4, <3>6
  <2>4. CASE g # r.offer.good
    <3>1. T = S
      BY <1>2, <1>3, <2>4
    <3>2. h = f
      BY <1>4, <2>1, <3>1
    <3> QED
      BY <1>2, <2>2, <2>4, <3>2
  <2> QED
    BY <2>3, <2>4
<1> QED
  BY <1>5, <1>6 DEF StockIsSum

\* No retry, copy, restart or failure of the store applies a trade twice or
\* loses one: a stock is the sum of what was traded.
THEOREM StocksAreSums == MarketSpec => []StockIsSum
<1>1. MarketInit => TradedOK /\ StockIsSum
  <2> SUFFICES ASSUME MarketInit PROVE TradedOK /\ StockIsSum
    OBVIOUS
  <2>1. CommittedTrades = {}
    BY DEF MarketInit, ClientsInit, CommittedTrades
  <2>2. ASSUME NEW g \in Good PROVE market[g].stock = SumFunction(QuantitiesOf(g))
    <3>1. DOMAIN QuantitiesOf(g) = {}
      BY <2>1 DEF QuantitiesOf
    <3> QED
      BY <3>1, SumOfEmpty DEF MarketInit, ClientsInit, Untouched
  <2> QED
    BY <2>1, <2>2 DEF TradedOK, StockIsSum
<1>2. MarketInv /\ TradedOK /\ StockIsSum /\ [MarketNext]_marketVars => TradedOK' /\ StockIsSum'
  <2> SUFFICES ASSUME MarketInv, TradedOK, StockIsSum, [MarketNext]_marketVars PROVE TradedOK' /\ StockIsSum'
    OBVIOUS
  <2>1. CASE UNCHANGED marketTables
    <3>1. \A g \in Good : QuantitiesOf(g)' = QuantitiesOf(g)
      BY <2>1 DEF QuantitiesOf, CommittedTrades, marketTables
    <3>2. TradedOK'
      BY <2>1 DEF TradedOK, CommittedTrades, marketTables
    <3> QED
      BY <2>1, <3>1, <3>2 DEF StockIsSum, marketTables
  <2>2. ASSUME NEW r \in sent, TradeApplied(r) PROVE TradedOK' /\ StockIsSum'
    BY <2>2, AppliedKeepsStocks DEF MarketInv
  <2>3. UNCHANGED marketTables \/ \E r \in sent : TradeApplied(r)
    BY DEF MarketNext, ClientSends, Join, Leave, CoolDown, Restart, TradeDecided,
           TradeRejected, TradeThrottled, TradeFails, TradeReplayed, marketVars, marketTables
  <2> QED
    BY <2>1, <2>2, <2>3
<1> QED
  BY <1>1, <1>2, MarketInvariant, PTL DEF MarketSpec
==============================================================================
