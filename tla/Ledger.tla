-------------------------------- MODULE Ledger --------------------------------
(***************************************************************************)
(* The gold ledger: Server::on_econ, Ledger::apply of crate sw-econ, and   *)
(* the SQLite tables players and ledger behind it.  The server may stop    *)
(* between any two datagrams; the database keeps what was committed.       *)
(***************************************************************************)
EXTENDS Clients

CONSTANTS
    MaxGold,     \* i64::MAX
    Amount,      \* the signed deltas clients send
    MaxTxns      \* bound: how many different transactions clients ask for

ASSUME LedgerAssumption ==
    /\ MaxGold \in Nat \ {0}
    /\ Amount \subseteq -(MaxGold + 1)..MaxGold
    /\ MaxTxns \in Nat
    /\ IsFiniteSet(TxnId)

Row == [player : Player, amount : Amount]

ASSUME NoRowAssumption == None \notin Row /\ None \notin Int

VARIABLES
    gold,        \* players.gold
    ledger       \* table ledger, keyed by txn_id

ledgerVars == <<gold, ledger, sessions, cooling, sent, acks>>
ledgerTables == <<gold, ledger>>

EconTxn == [player : Player, txn : TxnId, amount : Amount]

LedgerAck == [player : Player, txn : TxnId, accepted : BOOLEAN, new_balance : 0..MaxGold]

LedgerInit ==
    /\ gold = [p \in Player |-> 0]
    /\ ledger = [t \in TxnId |-> None]
    /\ ClientsInit

-----------------------------------------------------------------------------
(* on_econ.  A datagram that finds no session, a note that is too long and *)
(* a new transaction within the limiter's interval change nothing and are  *)
(* not answered: as if they were lost.                                     *)

\* Mutant of LookupTxn: only the transactions of connected players are found.
LookupTxnOfConnected(t) ==
    IF ledger[t] = None \/ ledger[t].player \notin sessions THEN None
    ELSE gold[ledger[t].player]

\* Db::lookup_txn joins the row with the balance its player has now; ids are
\* u64, stored bijectively as i64.
LookupTxn(t) == IF ledger[t] = None THEN None ELSE gold[ledger[t].player]

AnswerTxn(r, accepted, balance) ==
    acks' = acks \cup {[player |-> r.player, txn |-> r.txn,
                        accepted |-> accepted, new_balance |-> balance]}

TxnAdmitted(r) ==
    /\ r.player \in sessions
    /\ LookupTxn(r.txn) = None
    /\ Charged(r.player)

\* Mutant of Affordable: the sum is not checked against i64.
AffordableUnchecked(r) == gold[r.player] + r.amount >= 0

\* balance.checked_add(amount): Some and not negative.
Affordable(r) == gold[r.player] + r.amount \in 0..MaxGold

\* Mutant of EconApplied: the balance is set from the amount.
EconAppliedSets(r) ==
    /\ TxnAdmitted(r)
    /\ Affordable(r)
    /\ r.amount >= 0
    /\ gold' = [gold EXCEPT ![r.player] = r.amount]
    /\ ledger' = [ledger EXCEPT ![r.txn] = [player |-> r.player, amount |-> r.amount]]
    /\ AnswerTxn(r, TRUE, r.amount)

\* Mutant of EconApplied: the row records the magnitude of the amount.
EconAppliedUnsigned(r) ==
    /\ TxnAdmitted(r)
    /\ Affordable(r)
    /\ gold' = [gold EXCEPT ![r.player] = @ + r.amount]
    /\ ledger' = [ledger EXCEPT ![r.txn] =
                    [player |-> r.player,
                     amount |-> IF r.amount < 0 THEN -r.amount ELSE r.amount]]
    /\ AnswerTxn(r, TRUE, gold[r.player] + r.amount)

\* Ledger::apply commits: commit_txn appends the row and sets the balance in
\* one database transaction.
EconApplied(r) ==
    /\ TxnAdmitted(r)
    /\ Affordable(r)
    /\ LET balance == gold[r.player] + r.amount
       IN  /\ gold' = [gold EXCEPT ![r.player] = balance]
           /\ ledger' = [ledger EXCEPT ![r.txn] =
                           [player |-> r.player, amount |-> r.amount]]
           /\ AnswerTxn(r, TRUE, balance)

\* Insufficient funds, or the sum does not fit an i64: nothing is recorded.
EconRefused(r) ==
    /\ TxnAdmitted(r)
    /\ ~Affordable(r)
    /\ AnswerTxn(r, FALSE, gold[r.player])
    /\ UNCHANGED ledgerTables

\* Mutant of EconFails: the answer is sent although nothing was committed.
EconFailsAnswered(r) ==
    /\ TxnAdmitted(r)
    /\ Affordable(r)
    /\ AnswerTxn(r, TRUE, gold[r.player] + r.amount)
    /\ UNCHANGED ledgerTables

\* The store fails: the limiter stays charged, there is no answer.
EconFails(r) ==
    /\ TxnAdmitted(r)
    /\ UNCHANGED <<ledgerTables, acks>>

\* The transaction id was committed before: never throttled.
EconReplayed(r) ==
    /\ r.player \in sessions
    /\ LookupTxn(r.txn) # None
    /\ AnswerTxn(r, TRUE, LookupTxn(r.txn))
    /\ UNCHANGED <<ledgerTables, sessions, cooling, sent>>

-----------------------------------------------------------------------------
LedgerNext ==
    \/ \E r \in EconTxn :
          Cardinality(sent) < MaxTxns /\ ClientSends(r) /\ UNCHANGED ledgerTables
    \/ \E p \in Player : (Join(p) \/ Leave(p) \/ CoolDown(p)) /\ UNCHANGED ledgerTables
    \/ Restart /\ UNCHANGED ledgerTables
    \/ \E r \in sent : EconApplied(r) \/ EconRefused(r) \/ EconFails(r) \/ EconReplayed(r)

LedgerSpec == LedgerInit /\ [][LedgerNext]_ledgerVars

-----------------------------------------------------------------------------
(* Properties.                                                             *)

\* Type invariant: a balance is never negative and always fits an i64.
LedgerTypeOK ==
    /\ gold \in [Player -> 0..MaxGold]
    /\ ledger \in [TxnId -> Row \cup {None}]
    /\ sessions \subseteq Player
    /\ cooling \subseteq Player
    /\ sent \subseteq EconTxn
    /\ acks \subseteq LedgerAck

CommittedTxns == {t \in TxnId : ledger[t] # None}

\* The amounts of a player's committed transactions.
AmountsOf(p) ==
    [t \in {u \in CommittedTxns : ledger[u].player = p} |-> ledger[t].amount]

\* A balance is the sum of the player's committed transactions: retries,
\* duplicates, restarts and store failures never apply one twice and never
\* lose one.
BalanceIsSum == \A p \in Player : gold[p] = SumFunction(AmountsOf(p))

\* The transaction that `a` answers is in the table: the row of its id is the
\* one its player asked for.
InTable(a) ==
    \E r \in sent :
        /\ r.player = a.player /\ r.txn = a.txn
        /\ ledger[r.txn] = [player |-> r.player, amount |-> r.amount]

\* Two players have chosen the same id.
Shared(t) == \E q, r \in sent : q.txn = t /\ r.txn = t /\ q.player # r.player

\* What a client is told was accepted is in the database, for that client and
\* with the amount it asked for, whatever happens to the server afterwards:
\* as long as no other player chooses the same id.  Ledger::apply answers for
\* the id alone, so whoever chose the id of another is told that a transaction
\* was accepted which nobody ever records.
AcceptedIsDurable ==
    \A a \in acks : a \in LedgerAck /\ a.accepted /\ ~Shared(a.txn) => InTable(a)

\* Every committed transaction was asked for by its player, with its amount.
CommittedWasSent ==
    \A t \in CommittedTxns :
        [player |-> ledger[t].player, txn |-> t, amount |-> ledger[t].amount] \in sent

\* A step that moves gold moves one player's, by the amount of the one row
\* it appends; rows are never changed.
GoldMovesWithItsRow ==
    [][/\ \A t \in CommittedTxns : ledger'[t] = ledger[t]
       /\ \A p \in Player : gold'[p] # gold[p] =>
            \E t \in CommittedTxns' \ CommittedTxns :
               /\ CommittedTxns' = CommittedTxns \cup {t}
               /\ ledger'[t].player = p
               /\ gold'[p] = gold[p] + ledger'[t].amount]_ledgerVars

\* "A duplicate is harmless": a transaction its player was told is refused
\* is not applied to that player by a later copy of it.
RefusedStaysRefused ==
    [][\A a \in acks : ~a.accepted /\ ledger[a.txn] = None =>
         ledger'[a.txn] = None \/ ledger'[a.txn].player # a.player]_ledgerVars
=============================================================================
