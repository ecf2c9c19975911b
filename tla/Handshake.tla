------------------------------ MODULE Handshake ------------------------------
(***************************************************************************)
(* How clients get a session: NetClient with its retries and its growing   *)
(* pauses, the admission limiters of on_hello_at, and a network between    *)
(* them that loses and delays.  Time passes in steps of HelloRetryMs; all  *)
(* durations are numbers of steps, rounded up.                             *)
(*                                                                         *)
(* A client that gives up on a connection tells nobody (DropPeer), and the *)
(* server keeps the peer, here "stale", until the client's next connection *)
(* replaces it or it times out.                                            *)
(***************************************************************************)
EXTENDS Naturals, FiniteSets

CONSTANTS
    Client,              \* each with its own token and its own address
    Source,              \* the hosts (IP addresses) on which clients run
    HelloRetry,          \* HelloRetryMs
    DefaultReconnect,    \* DefaultReconnectMs
    MaxReconnect,        \* MaxReconnectMs
    HelloInterval,       \* hello_min_interval_ms, of each peer and of each player
    NewInterval,         \* new_session_min_interval_ms
    SourceInterval,      \* source_session_min_interval_ms_i64
    MaxDelay,            \* bounds the way of a datagram
    MaxFaults            \* bounds losses, failures and restarts

\* What Config::validate and the client's constants guarantee; a datagram is
\* gone before the client that sent it opens its next connection.
ASSUME HandshakeAssumption ==
    /\ IsFiniteSet(Client)
    /\ {HelloRetry, DefaultReconnect, MaxReconnect, HelloInterval,
        NewInterval, SourceInterval} \subseteq Nat \ {0}
    /\ {MaxDelay, MaxFaults} \subseteq Nat
    /\ HelloInterval <= HelloRetry
    /\ SourceInterval > 2 * NewInterval
    /\ MaxDelay < DefaultReconnect /\ DefaultReconnect <= MaxReconnect

VARIABLES
    status,          \* _status, per client
    helloIn,         \* time until the next hello, _lastHelloMs + HelloRetryMs
    reconnectIn,     \* time until _nextReconnectMs
    backoff,         \* _reconnectBackoffMs
    net,             \* the datagrams under way and how long they may still take
    peer,            \* per client, the server's peer at its address: "none",
                     \* "live" (the client's connection) or "stale"
    session,         \* whether that peer has a session
    known,           \* identity_players, which are in the database
    helloLeft,       \* hello_limiter: the rest of the peer's interval
    playerLeft,      \* reconnect_limiter
    sourceLeft,      \* source_session_limiter
    newLeft,         \* new_session_limiter
    source,          \* the host on which each client runs
    faults           \* what MaxFaults counts

client == <<status, helloIn, reconnectIn, backoff>>
limits == <<helloLeft, playerLeft, sourceLeft, newLeft>>
server == <<peer, session, known, limits>>
vars == <<client, net, server, source, faults>>

Minus(t) == IF t = 0 THEN 0 ELSE t - 1
Lesser(a, b) == IF a < b THEN a ELSE b

Message(c, kind) == [client |-> c, kind |-> kind, left |-> MaxDelay]

\* The datagrams that a client which drops its connection will not look at.
ToClient(c) == {m \in net : m.client = c /\ m.kind \in {"accept", "accepted", "rejected"}}

\* Connect has been called on every client, and the database is new.
Init ==
    /\ status = [c \in Client |-> "Disconnected"]
    /\ helloIn = [c \in Client |-> 0]
    /\ reconnectIn = [c \in Client |-> 0]
    /\ backoff = [c \in Client |-> DefaultReconnect]
    /\ net = {}
    /\ peer = [c \in Client |-> "none"]
    /\ session = [c \in Client |-> FALSE]
    /\ known = {}
    /\ helloLeft = [c \in Client |-> 0]
    /\ playerLeft = [c \in Client |-> 0]
    /\ sourceLeft = [s \in Source |-> 0]
    /\ newLeft = 0
    /\ source \in [Client -> Source]
    /\ faults = 0

Fault == faults < MaxFaults /\ faults' = faults + 1

-----------------------------------------------------------------------------
(* The client.                                                             *)

\* Mutant of NextBackoff: the pause stays as it is.
SameBackoff(b) == b

NextBackoff(b) == Lesser(2 * b, MaxReconnect)

\* ScheduleReconnect, after which the client is not connected.
ScheduleReconnect(c) ==
    /\ status' = [status EXCEPT ![c] = "Disconnected"]
    /\ reconnectIn' = [reconnectIn EXCEPT ![c] = backoff[c]]
    /\ backoff' = [backoff EXCEPT ![c] = NextBackoff(@)]
    /\ UNCHANGED helloIn

\* The transport has no peer any more: what comes for it is ignored.
Dropped(c) ==
    /\ peer' = [peer EXCEPT ![c] = IF @ = "live" THEN "stale" ELSE @]
    /\ UNCHANGED <<session, known, limits>>

\* Poll, when a hello is due.
RetryHello(c) ==
    /\ status[c] = "Handshaking"
    /\ helloIn[c] = 0
    /\ net' = net \cup {Message(c, "hello")}
    /\ helloIn' = [helloIn EXCEPT ![c] = HelloRetry]
    /\ UNCHANGED <<status, reconnectIn, backoff, server, source, faults>>

\* Poll, when the pause is over: the transport makes a peer, or fails.
OpenPeer(c) ==
    /\ status[c] = "Disconnected"
    /\ reconnectIn[c] = 0
    /\ \/ /\ status' = [status EXCEPT ![c] = "Connecting"]
          /\ net' = net \cup {Message(c, "connect")}
          /\ UNCHANGED <<helloIn, reconnectIn, backoff, faults>>
       \/ /\ Fault
          /\ ScheduleReconnect(c)
          /\ UNCHANGED net
    /\ UNCHANGED <<server, source>>

\* OnPeerConnected
AcceptArrives(c, m) ==
    /\ m.kind = "accept"
    /\ status[c] = "Connecting"
    /\ status' = [status EXCEPT ![c] = "Handshaking"]
    /\ net' = (net \ {m}) \cup {Message(c, "hello")}
    /\ helloIn' = [helloIn EXCEPT ![c] = HelloRetry]
    /\ UNCHANGED <<reconnectIn, backoff, server, source, faults>>

\* OnServerHello, accepted: no hello is due any more.
AcceptedArrives(c, m) ==
    /\ m.kind = "accepted"
    /\ net' = net \ {m}
    /\ \/ /\ status[c] = "Handshaking"
          /\ status' = [status EXCEPT ![c] = "Ready"]
          /\ backoff' = [backoff EXCEPT ![c] = DefaultReconnect]
          /\ helloIn' = [helloIn EXCEPT ![c] = 0]
       \/ /\ status[c] # "Handshaking"
          /\ UNCHANGED <<status, backoff, helloIn>>
    /\ UNCHANGED <<reconnectIn, server, source, faults>>

\* OnServerHello, rejected: EndHandshakeAttempt.
RejectedArrives(c, m) ==
    /\ m.kind = "rejected"
    /\ \/ /\ status[c] = "Handshaking"
          /\ ScheduleReconnect(c)
          /\ Dropped(c)
          /\ net' = net \ ToClient(c)
       \/ /\ status[c] # "Handshaking"
          /\ net' = net \ {m}
          /\ UNCHANGED <<client, server>>
    /\ UNCHANGED <<source, faults>>

\* OnPeerDisconnected: the transport gives up connecting, or misses the server.
PeerDisconnected(c) ==
    /\ \/ status[c] = "Connecting" /\ ~\E m \in net : m.client = c
       \/ status[c] \in {"Handshaking", "Ready"} /\ peer[c] = "none"
    /\ ScheduleReconnect(c)
    /\ Dropped(c)
    /\ net' = net \ ToClient(c)
    /\ UNCHANGED <<source, faults>>

-----------------------------------------------------------------------------
(* The server.                                                             *)

\* The host makes a peer and drops the one that was at the address, with its session.
ConnectArrives(c, m) ==
    /\ m.kind = "connect"
    /\ peer' = [peer EXCEPT ![c] = "live"]
    /\ session' = [session EXCEPT ![c] = FALSE]
    /\ helloLeft' = [helloLeft EXCEPT ![c] = 0]
    /\ net' = (net \ {m}) \cup {Message(c, "accept")}
    /\ UNCHANGED <<client, known, playerLeft, sourceLeft, newLeft, source, faults>>

\* The answer to a client, which sees it if it still has the connection.
Answer(c, m, kind) ==
    net' = (net \ {m}) \cup IF peer[c] = "live" THEN {Message(c, kind)} ELSE {}

\* on_hello_at: the peer has a session already.  (A database that fails here is as
\* good as an answer that is lost.)
Again(c, m) ==
    /\ session[c]
    /\ Answer(c, m, "accepted")
    /\ UNCHANGED <<session, known, playerLeft, sourceLeft, newLeft, faults>>

\* on_hello_at: one of the limiters is not over.  The ones asked before it are charged.
Busy(c, m) ==
    /\ ~session[c]
    /\ \/ sourceLeft[source[c]] > 0
       \/ IF c \in known THEN playerLeft[c] > 0 ELSE newLeft > 0
    /\ sourceLeft' = [sourceLeft EXCEPT ![source[c]] = IF @ = 0 THEN SourceInterval ELSE @]
    /\ Answer(c, m, "rejected")
    /\ UNCHANGED <<session, known, playerLeft, newLeft, faults>>

\* on_hello_at: admitted, or the database fails and nothing is answered.
Admit(c, m) ==
    /\ ~session[c]
    /\ sourceLeft[source[c]] = 0
    /\ IF c \in known THEN playerLeft[c] = 0 ELSE newLeft = 0
    /\ sourceLeft' = [sourceLeft EXCEPT ![source[c]] = SourceInterval]
    /\ newLeft' = IF c \in known THEN newLeft ELSE NewInterval
    /\ \/ /\ session' = [session EXCEPT ![c] = TRUE]
          /\ known' = known \cup {c}
          /\ playerLeft' = [playerLeft EXCEPT ![c] = HelloInterval]
          /\ Answer(c, m, "accepted")
          /\ UNCHANGED faults
       \/ /\ Fault
          /\ playerLeft' = [playerLeft EXCEPT ![c] = IF c \in known THEN HelloInterval ELSE @]
          /\ net' = net \ {m}
          /\ UNCHANGED <<session, known>>

HelloArrives(c, m) ==
    /\ m.kind = "hello"
    /\ \/ /\ peer[c] = "none" \/ helloLeft[c] > 0
          /\ net' = net \ {m}
          /\ UNCHANGED <<session, known, limits, faults>>
       \/ /\ peer[c] # "none" /\ helloLeft[c] = 0
          /\ helloLeft' = [helloLeft EXCEPT ![c] = HelloInterval]
          /\ Again(c, m) \/ Busy(c, m) \/ Admit(c, m)
    /\ UNCHANGED <<client, peer, source>>

\* The host has not heard of the client for too long.
HostTimeout(c) ==
    /\ peer[c] = "stale"
    /\ peer' = [peer EXCEPT ![c] = "none"]
    /\ session' = [session EXCEPT ![c] = FALSE]
    /\ helloLeft' = [helloLeft EXCEPT ![c] = 0]
    /\ UNCHANGED <<client, net, known, playerLeft, sourceLeft, newLeft, source, faults>>

\* The server starts again: only the database is left.
Restart ==
    /\ Fault
    /\ peer' = [c \in Client |-> "none"]
    /\ session' = [c \in Client |-> FALSE]
    /\ helloLeft' = [c \in Client |-> 0]
    /\ playerLeft' = [c \in Client |-> 0]
    /\ sourceLeft' = [s \in Source |-> 0]
    /\ newLeft' = 0
    /\ UNCHANGED <<client, net, known, source>>

-----------------------------------------------------------------------------

Lose(m) ==
    /\ Fault
    /\ net' = net \ {m}
    /\ UNCHANGED <<client, server, source>>

Arrives(m) ==
    \/ ConnectArrives(m.client, m) \/ AcceptArrives(m.client, m) \/ HelloArrives(m.client, m)
    \/ AcceptedArrives(m.client, m) \/ RejectedArrives(m.client, m)

Due(c) ==
    \/ status[c] = "Handshaking" /\ helloIn[c] = 0
    \/ status[c] = "Disconnected" /\ reconnectIn[c] = 0

\* Time passes, once nothing is due any more.
Tick ==
    /\ \A m \in net : m.left > 0
    /\ ~\E c \in Client : Due(c)
    /\ net' = {[m EXCEPT !.left = @ - 1] : m \in net}
    /\ helloIn' = [c \in Client |-> Minus(helloIn[c])]
    /\ reconnectIn' = [c \in Client |-> Minus(reconnectIn[c])]
    /\ helloLeft' = [c \in Client |-> Minus(helloLeft[c])]
    /\ playerLeft' = [c \in Client |-> Minus(playerLeft[c])]
    /\ sourceLeft' = [s \in Source |-> Minus(sourceLeft[s])]
    /\ newLeft' = Minus(newLeft)
    /\ UNCHANGED <<status, backoff, peer, session, known, source, faults>>

Proceed ==
    \/ Tick
    \/ \E c \in Client : RetryHello(c) \/ OpenPeer(c)
    \/ \E m \in net : Arrives(m)

Next ==
    \/ Proceed
    \/ \E c \in Client : PeerDisconnected(c) \/ HostTimeout(c)
    \/ \E m \in net : Lose(m)
    \/ Restart

\* Time passes, the game polls, datagrams that are not lost arrive, and LiteNetLib
\* reports a connection that failed.
FairSpec ==
    /\ Init /\ [][Next]_vars
    /\ WF_vars(Proceed)
    /\ \A c \in Client : WF_vars(PeerDisconnected(c))

-----------------------------------------------------------------------------

\* Once the faults are over, every client gets a session and keeps it: rejections
\* that arrive after a later hello was admitted, limiters charged by hellos of
\* connections the client has given up, and pauses of clients on one host do not
\* keep each other going.
Connected ==
    <>[](\A c \in Client : status[c] = "Ready" /\ session[c] /\ peer[c] = "live")
=============================================================================
