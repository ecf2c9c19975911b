-------------------------------- MODULE Clients --------------------------------
(***************************************************************************)
(* The clients of the gold ledger and of the port market, their sessions   *)
(* and the limiter that gates what is new: the same for both.              *)
(*                                                                         *)
(* Clients choose transaction ids and resend a request until they see its  *)
(* answer, over a channel that loses, delays and duplicates: a request     *)
(* once sent may reach the server any number of times, at any time, and an *)
(* answer once sent stays in `acks`.  The server may stop between any two  *)
(* datagrams.                                                              *)
(***************************************************************************)
EXTENDS Integers, FiniteSets, Functions

CONSTANTS
    Player,      \* player rows
    TxnId,       \* transaction and trade ids (u64)
    None         \* no row

VARIABLES
    sessions,    \* players with a session on the server
    cooling,     \* players whose last new request is within the interval of
                 \* the limiter: econ_limiter in Ledger, trade_limiter in Market
    sent,        \* requests clients have sent
    acks         \* answers the server has sent

ClientsInit ==
    /\ sessions = {}
    /\ cooling = {}
    /\ sent = {}
    /\ acks = {}

\* A client does not use an id for two requests.
ClientSends(r) ==
    /\ \A q \in sent : q.player = r.player /\ q.txn = r.txn => q = r
    /\ sent' = sent \cup {r}
    /\ UNCHANGED <<sessions, cooling, acks>>

Join(p) ==
    /\ p \notin sessions
    /\ sessions' = sessions \cup {p}
    /\ UNCHANGED <<cooling, sent, acks>>

\* on_disconnect clears the player's limiters.
Leave(p) ==
    /\ p \in sessions
    /\ sessions' = sessions \ {p}
    /\ cooling' = cooling \ {p}
    /\ UNCHANGED <<sent, acks>>

\* The process stops and starts again on the same database.
Restart ==
    /\ sessions' = {}
    /\ cooling' = {}
    /\ UNCHANGED <<sent, acks>>

\* The limiter's interval elapses.
CoolDown(p) ==
    /\ p \in cooling
    /\ cooling' = cooling \ {p}
    /\ UNCHANGED <<sessions, sent, acks>>

\* A new request is charged to the limiter before it is applied.
Charged(p) ==
    /\ p \notin cooling
    /\ cooling' = cooling \cup {p}
    /\ UNCHANGED <<sessions, sent>>
================================================================================
