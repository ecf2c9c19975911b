------------------------------- MODULE PeerPool -------------------------------
(***************************************************************************)
(* What the UDP host promises the server: a pool of PeerIds.  An id is     *)
(* lent to one connection at a time; a poll returns a batch of events, and *)
(* an id that is given up while a batch is being filled or consumed is not *)
(* lent again before the next poll.                                        *)
(*                                                                         *)
(* Transport implements this specification; Sessions is built on it.       *)
(***************************************************************************)
EXTENDS Naturals, Sequences, FiniteSets

CONSTANTS
    Id,          \* PeerIds
    Conn,        \* connections of remote clients
    None         \* no connection

ASSUME PoolAssumption == None \notin Conn

VARIABLES
    owner,       \* the connection an id is lent to, or None
    retired,     \* ids given up since the last poll began
    polling,     \* whether the host is inside poll
    batch        \* events not yet consumed

poolVars == <<owner, retired, polling, batch>>

PoolEvent == [kind : {"Connected", "Data", "Disconnected"}, id : Id, conn : Conn]

PoolInit ==
    /\ owner = [id \in Id |-> None]
    /\ retired = {}
    /\ polling = FALSE
    /\ batch = <<>>

Report(kind, id, c) == [kind |-> kind, id |-> id, conn |-> c]

\* poll begins: the caller has consumed the last batch, retired ids are free.
Poll ==
    /\ ~polling
    /\ batch = <<>>
    /\ polling' = TRUE
    /\ retired' = {}
    /\ UNCHANGED <<owner, batch>>

Lendable(id) == owner[id] = None /\ id \notin retired

Connects(c) == \A id \in Id : owner[id] # c

Accept(id, c) ==
    /\ polling
    /\ Lendable(id)
    /\ Connects(c)
    /\ owner' = [owner EXCEPT ![id] = c]
    /\ batch' = Append(batch, Report("Connected", id, c))
    /\ UNCHANGED <<retired, polling>>

Receive(id) ==
    /\ polling
    /\ owner[id] # None
    /\ batch' = Append(batch, Report("Data", id, owner[id]))
    /\ UNCHANGED <<owner, retired, polling>>

\* The peer left, timed out, or was replaced and found no id.
Lose(id) ==
    /\ polling
    /\ owner[id] # None
    /\ owner' = [owner EXCEPT ![id] = None]
    /\ retired' = retired \cup {id}
    /\ batch' = Append(batch, Report("Disconnected", id, owner[id]))
    /\ UNCHANGED polling

\* A newer connection takes over from the one at `old`, under another id.
Replace(old, new, c) ==
    /\ polling
    /\ owner[old] # None
    /\ old # new
    /\ Lendable(new)
    /\ Connects(c)
    /\ owner' = [owner EXCEPT ![old] = None, ![new] = c]
    /\ retired' = retired \cup {old}
    /\ batch' = batch \o <<Report("Disconnected", old, owner[old]),
                           Report("Connected", new, c)>>
    /\ UNCHANGED polling

\* poll returns its batch.
Return ==
    /\ polling
    /\ polling' = FALSE
    /\ UNCHANGED <<owner, retired, batch>>

\* The caller takes the next event.
Deliver ==
    /\ ~polling
    /\ batch # <<>>
    /\ batch' = Tail(batch)
    /\ UNCHANGED <<owner, retired, polling>>

\* disconnect: no event is produced.
Vacate(id) ==
    /\ owner' = [owner EXCEPT ![id] = None]
    /\ retired' = retired \cup {id}
    /\ UNCHANGED <<polling, batch>>

Drop(id) ==
    /\ ~polling
    /\ owner[id] # None
    /\ Vacate(id)

\* shutdown: every connection is reported once.
Reset ==
    /\ ~polling
    /\ batch = <<>>
    /\ owner' = [id \in Id |-> None]
    /\ retired' = {}
    /\ LET lent == {id \in Id : owner[id] # None}
       IN  \E order \in [1..Cardinality(lent) -> lent] :
             /\ \A i, j \in DOMAIN order : order[i] = order[j] => i = j
             /\ batch' = [i \in DOMAIN order |->
                            Report("Disconnected", order[i], owner[order[i]])]
    /\ UNCHANGED polling

PoolNext ==
    \/ Poll
    \/ \E id \in Id, c \in Conn : Accept(id, c)
    \/ \E id \in Id : Receive(id) \/ Lose(id) \/ Drop(id)
    \/ \E old, new \in Id, c \in Conn : Replace(old, new, c)
    \/ Return
    \/ Deliver
    \/ Reset

PoolSpec == PoolInit /\ [][PoolNext]_poolVars
=============================================================================
