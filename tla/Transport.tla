------------------------------ MODULE Transport ------------------------------
(***************************************************************************)
(* The UDP host of the server (crate sw-net, type Host): the table of live *)
(* peers, the slots their PeerIds name, the per-IP counters, the reconnect *)
(* watermarks, and the poll that turns datagrams into a batch of events.   *)
(*                                                                         *)
(* The host is single threaded: poll, disconnect and shutdown are called   *)
(* by the server's loop.  What it does not control is the network: any     *)
(* datagram a client ever sent may arrive late, twice, or never, so every  *)
(* datagram is an input a drain step may pick.                             *)
(*                                                                         *)
(* A poll is a sequence of steps, one per iteration of the code's loops:   *)
(*   PollBegin, ExpireWatermark*, ExpireEnd, (one datagram)*, DrainEnd,    *)
(*   MaintainSlot*, MaintainEnd                                            *)
(* after which the caller consumes the batch (Dispatch, LocalDisconnect).  *)
(*                                                                         *)
(* Time: `now` is the caller's timestamp of a poll.  Instants are kept as  *)
(* distances from it, in units of one poll interval: a peer's idle is      *)
(* now - last_recv (counted up to MaxIdle), a watermark's ttl is           *)
(* expires_at - now.  The keepalive fields of a peer guard none of the     *)
(* steps below and are left out.                                           *)
(*                                                                         *)
(* A slot s of the code is s + 1 here, which is also its PeerId.           *)
(***************************************************************************)
EXTENDS Integers, Sequences, FiniteSets

CONSTANTS
    Addr,                \* remote socket addresses
    IP,                  \* remote IP addresses
    IpOf,                \* the IP of an address
    None,                \* Option::None
    MaxPeers,            \* max_peers
    MaxPeersPerIp,       \* max_peers_per_ip
    ConnectTimes,        \* the connect_time values clients put in requests
    ConnectionNumbers,   \* the connection_number values of headers (two bits)
    Timeout,             \* DEFAULT_TIMEOUT, in poll intervals
    MaxIdle,             \* bound: up to where the idle time of a peer is counted
    MaxGeneration,       \* u64::MAX of the watermark generation
    MaxPollPackets,      \* MAX_POLL_PACKETS
    MaxPollScans,        \* MAX_POLL_MAINTENANCE_SCANS
    MaxPollTimeouts,     \* MAX_POLL_TIMEOUT_EVENTS
    MaxPollCleanups      \* MAX_POLL_WATERMARK_CLEANUPS

\* bind_with_limits refuses anything else.
ASSUME LimitsAssumption ==
    /\ MaxPeers \in Nat \ {0}
    /\ MaxPeersPerIp \in 1..MaxPeers

\* The compile-time constants of the crate, and the shape of addresses.
ASSUME HostAssumption ==
    /\ IsFiniteSet(Addr)
    /\ IpOf \in [Addr -> IP]
    /\ None \notin Addr
    /\ ConnectTimes \subseteq Int
    /\ Timeout \in Nat \ {0}
    /\ MaxIdle \in Nat
    /\ MaxGeneration \in Nat \ {0}
    /\ MaxPollPackets \in Nat \ {0}
    /\ MaxPollScans \in Nat \ {0}
    /\ MaxPollTimeouts \in Nat \ {0}
    /\ MaxPollCleanups \in Nat \ {0}

Slots == 1..MaxPeers

\* struct Peer, without the keepalive fields.
Peer == [slot : Slots, connect_time : ConnectTimes,
         connection_number : ConnectionNumbers, idle : 0..MaxIdle]

\* struct ReconnectWatermark.
Watermark == [connect_time : ConnectTimes, ttl : 0..Timeout,
              generation : 1..MaxGeneration]

\* The connection a PeerId names: which peer, since when.
Connection == [id : Slots, addr : Addr, connect_time : ConnectTimes]

\* None is no record: what a map lookup that misses returns.
ASSUME NoneAssumption ==
    None \notin Peer /\ None \notin Watermark /\ None \notin Connection

VARIABLES
    peers,                      \* HashMap<SocketAddr, Peer>
    peer_slots,                 \* Vec<Option<SocketAddr>>, its first slot_count slots
    slot_count,                 \* peer_slots.len()
    free_peer_slots,            \* VecDeque of retired slots
    available_free_peer_slots,  \* the prefix that existed when the poll began
    peers_per_ip,               \* HashMap<IpAddr, usize>, 0 for a missing key
    reconnect_watermarks,       \* HashMap<SocketAddr, ReconnectWatermark>
    reconnect_watermark_order,  \* VecDeque<(SocketAddr, u64)>
    next_generation,            \* next_reconnect_watermark_generation
    maintenance_cursor,
    phase,                      \* where in its loop the caller is
    work,                       \* PollWork: iterations of this phase, timeout events
    events,                     \* the batch: what poll has produced and the caller not consumed
    known                       \* history: the connections the caller was told of

slotVars == <<peers, peer_slots, slot_count, free_peer_slots,
              available_free_peer_slots, peers_per_ip>>
markVars == <<reconnect_watermarks, reconnect_watermark_order, next_generation>>
vars == <<slotVars, markVars, maintenance_cursor, phase, work, events, known>>

-----------------------------------------------------------------------------
(* State.                                                                  *)

\* An event names the connection it is about, which in the code only the
\* PeerId does.
Event == [kind : {"Connected", "Data", "Disconnected"}, conn : Connection]

Phases == {"idle", "expire", "drain", "maintain", "dispatch"}

OrderEntry == [addr : Addr, generation : 1..MaxGeneration]

NoWork == [steps |-> 0, timeouts |-> 0]

\* bind_with_limits: everything starts empty.
Init ==
    /\ peers = [a \in Addr |-> None]
    /\ peer_slots = [s \in Slots |-> None]
    /\ slot_count = 0
    /\ free_peer_slots = <<>>
    /\ available_free_peer_slots = 0
    /\ peers_per_ip = [i \in IP |-> 0]
    /\ reconnect_watermarks = [a \in Addr |-> None]
    /\ reconnect_watermark_order = <<>>
    /\ next_generation = 0
    /\ maintenance_cursor = 0
    /\ phase = "idle"
    /\ work = NoWork
    /\ events = <<>>
    /\ known = {}

Live == {a \in Addr : peers[a] # None}

ConnectionOf(a) == [id |-> peers[a].slot, addr |-> a,
                    connect_time |-> peers[a].connect_time]

LiveConnections == {ConnectionOf(a) : a \in Live}

\* The retired slots this poll may not hand out: the free queue beyond the
\* prefix that existed when the poll began.
Retired == {free_peer_slots[i] :
              i \in (available_free_peer_slots + 1)..Len(free_peer_slots)}

\* peer_addr(peer): the address of a PeerId that is live.
PeerAddr(id) ==
    LET a == peer_slots[id]
    IN  IF a # None /\ peers[a] # None /\ peers[a].slot = id THEN a ELSE None

EventOf(kind, a) == [kind |-> kind, conn |-> ConnectionOf(a)]

-----------------------------------------------------------------------------
(* The slot table.                                                         *)

\* Mutant of RemovePeerAt: the slot still names the address.
RemovePeerAtKeepsSlot(a) ==
    /\ peers' = [peers EXCEPT ![a] = None]
    /\ free_peer_slots' = Append(free_peer_slots, peers[a].slot)
    /\ peers_per_ip' = [peers_per_ip EXCEPT ![IpOf[a]] = @ - 1]
    /\ UNCHANGED <<peer_slots, slot_count, available_free_peer_slots>>

\* Mutant of RemovePeerAt: the slot may be handed out by the same poll.
RemovePeerAtAvailable(a) ==
    /\ peers' = [peers EXCEPT ![a] = None]
    /\ peer_slots' = [peer_slots EXCEPT ![peers[a].slot] = None]
    /\ free_peer_slots' = Append(free_peer_slots, peers[a].slot)
    /\ peers_per_ip' = [peers_per_ip EXCEPT ![IpOf[a]] = @ - 1]
    /\ available_free_peer_slots' = available_free_peer_slots + 1
    /\ UNCHANGED slot_count

\* remove_peer_at: the slot joins the back of the free queue.
RemovePeerAt(a) ==
    /\ peers' = [peers EXCEPT ![a] = None]
    /\ peer_slots' = [peer_slots EXCEPT ![peers[a].slot] = None]
    /\ free_peer_slots' = Append(free_peer_slots, peers[a].slot)
    /\ peers_per_ip' = [peers_per_ip EXCEPT ![IpOf[a]] = @ - 1]
    /\ UNCHANGED <<slot_count, available_free_peer_slots>>

\* allocate_peer_slot: grow the table to its limit before reusing a slot,
\* and reuse only one that was free when the poll began.
CanAllocate == slot_count < MaxPeers \/ available_free_peer_slots > 0

AllocatedSlot ==
    IF slot_count < MaxPeers THEN slot_count + 1 ELSE Head(free_peer_slots)

NewPeer(slot, ct, num) ==
    [slot |-> slot, connect_time |-> ct, connection_number |-> num, idle |-> 0]

\* What allocate_peer_slot leaves of the table and of the queue `free`.
AllocateFrom(free) ==
    IF slot_count < MaxPeers
    THEN /\ slot_count' = slot_count + 1
         /\ free_peer_slots' = free
         /\ UNCHANGED available_free_peer_slots
    ELSE /\ free_peer_slots' = Tail(free)
         /\ available_free_peer_slots' = available_free_peer_slots - 1
         /\ UNCHANGED slot_count

\* allocate_peer_slot then insert_peer, for an address with no peer.
InsertPeer(a, ct, num) ==
    /\ AllocateFrom(free_peer_slots)
    /\ peers' = [peers EXCEPT ![a] = NewPeer(AllocatedSlot, ct, num)]
    /\ peer_slots' = [peer_slots EXCEPT ![AllocatedSlot] = a]
    /\ peers_per_ip' = [peers_per_ip EXCEPT ![IpOf[a]] = @ + 1]

\* Mutant of ReplacePeer: the slot of the replaced peer is not freed.
ReplacePeerLeaksSlot(a, ct, num) ==
    /\ AllocateFrom(free_peer_slots)
    /\ peers' = [peers EXCEPT ![a] = NewPeer(AllocatedSlot, ct, num)]
    /\ peer_slots' = [peer_slots EXCEPT ![peers[a].slot] = None,
                                        ![AllocatedSlot] = a]
    /\ UNCHANGED peers_per_ip

\* remove_peer_at, then allocate_peer_slot and insert_peer at the same
\* address: the slot just retired is at the back of the queue, behind every
\* slot that may be reused.
ReplacePeer(a, ct, num) ==
    /\ AllocateFrom(Append(free_peer_slots, peers[a].slot))
    /\ peers' = [peers EXCEPT ![a] = NewPeer(AllocatedSlot, ct, num)]
    /\ peer_slots' = [peer_slots EXCEPT ![peers[a].slot] = None,
                                        ![AllocatedSlot] = a]
    /\ UNCHANGED peers_per_ip

-----------------------------------------------------------------------------
(* Reconnect watermarks.                                                   *)

\* The order entry still stands for the watermark of its address.
Current(entry) ==
    /\ reconnect_watermarks[entry.addr] # None
    /\ reconnect_watermarks[entry.addr].generation = entry.generation

\* Mutant of RecordInto: the newest watermark is queued first.
RecordIntoFront(marks, order, generation, a, ct) ==
    LET full  == Len(order) = MaxPeers
        old   == Head(order)
        evict == full /\ Current(old)
        kept  == IF evict THEN [marks EXCEPT ![old.addr] = None] ELSE marks
    IN  /\ reconnect_watermarks' =
             [kept EXCEPT ![a] =
                [connect_time |-> IF kept[a] # None /\ kept[a].connect_time > ct
                                  THEN kept[a].connect_time ELSE ct,
                 ttl |-> Timeout, generation |-> generation]]
        /\ reconnect_watermark_order' =
             <<[addr |-> a, generation |-> generation]>> \o
             (IF full THEN Tail(order) ELSE order)
        /\ next_generation' = generation

\* record_reconnect_watermark, on the maps left after a wrap of the generation.
RecordInto(marks, order, generation, a, ct) ==
    LET full  == Len(order) = MaxPeers
        old   == Head(order)
        evict == full /\ Current(old)
        kept  == IF evict THEN [marks EXCEPT ![old.addr] = None] ELSE marks
    IN  /\ reconnect_watermarks' =
             [kept EXCEPT ![a] =
                [connect_time |-> IF kept[a] # None /\ kept[a].connect_time > ct
                                  THEN kept[a].connect_time ELSE ct,
                 ttl |-> Timeout, generation |-> generation]]
        /\ reconnect_watermark_order' =
             Append(IF full THEN Tail(order) ELSE order,
                    [addr |-> a, generation |-> generation])
        /\ next_generation' = generation

RecordWatermark(a, ct) ==
    IF next_generation = MaxGeneration
    THEN RecordInto([b \in Addr |-> None], <<>>, 1, a, ct)
    ELSE RecordInto(reconnect_watermarks, reconnect_watermark_order,
                    next_generation + 1, a, ct)

\* Mutant of PassesWatermark: the watermark is not compared.
PassesAnyWatermark(a, ct) == TRUE

\* The part of handle_connect_request that compares with a watermark.
PassesWatermark(a, ct) ==
    reconnect_watermarks[a] # None => ct >= reconnect_watermarks[a].connect_time

RaiseWatermark(a, ct) ==
    reconnect_watermarks' =
        IF reconnect_watermarks[a] = None THEN reconnect_watermarks
        ELSE [reconnect_watermarks EXCEPT ![a].connect_time = ct]

\* Mutant of ForgetWatermark: the watermark of a live peer stays.
ForgetWatermarkNever(a) == UNCHANGED reconnect_watermarks

ForgetWatermark(a) ==
    reconnect_watermarks' = [reconnect_watermarks EXCEPT ![a] = None]

-----------------------------------------------------------------------------
(* poll: its first part.                                                   *)

Age(n) == IF n < MaxIdle THEN n + 1 ELSE n

\* poll_with_work begins, one interval after the last one did: what was free
\* becomes available for reuse.
PollBegin ==
    /\ phase = "idle"
    /\ phase' = "expire"
    /\ work' = NoWork
    /\ available_free_peer_slots' = Len(free_peer_slots)
    /\ peers' = [a \in Addr |->
                   IF peers[a] = None THEN None
                   ELSE [peers[a] EXCEPT !.idle = Age(@)]]
    /\ reconnect_watermarks' =
         [a \in Addr |->
            IF reconnect_watermarks[a] = None THEN None
            ELSE [reconnect_watermarks[a] EXCEPT !.ttl = IF @ = 0 THEN 0 ELSE @ - 1]]
    /\ UNCHANGED <<peer_slots, slot_count, free_peer_slots, peers_per_ip,
                   reconnect_watermark_order, next_generation,
                   maintenance_cursor, events, known>>

\* The loop of expire_reconnect_watermarks goes on: its front entry is stale,
\* or stands for a watermark whose time has come.
ExpireContinues ==
    /\ work.steps < MaxPollCleanups
    /\ reconnect_watermark_order # <<>>
    /\ LET front == Head(reconnect_watermark_order)
       IN  Current(front) => reconnect_watermarks[front.addr].ttl = 0

ExpireWatermark ==
    /\ phase = "expire"
    /\ ExpireContinues
    /\ LET front == Head(reconnect_watermark_order)
       IN  IF Current(front) THEN ForgetWatermark(front.addr)
                             ELSE UNCHANGED reconnect_watermarks
    /\ reconnect_watermark_order' = Tail(reconnect_watermark_order)
    /\ work' = [work EXCEPT !.steps = @ + 1]
    /\ UNCHANGED <<slotVars, next_generation, maintenance_cursor, phase, events, known>>

ExpireEnd ==
    /\ phase = "expire"
    /\ ~ExpireContinues
    /\ phase' = "drain"
    /\ work' = NoWork
    /\ UNCHANGED <<slotVars, markVars, maintenance_cursor, events, known>>

-----------------------------------------------------------------------------
(* drain_socket: one action per kind of datagram and outcome.              *)

Drain ==
    /\ phase = "drain"
    /\ work.steps < MaxPollPackets
    /\ work' = [work EXCEPT !.steps = @ + 1]
    /\ UNCHANGED <<phase, maintenance_cursor, known>>

\* Mutant of ConnectReplaces: the newcomer is announced before the peer it
\* replaces is reported gone.
ConnectReplacesSwapped(a, ct, num) ==
    /\ Drain
    /\ a \in Live
    /\ ct > peers[a].connect_time
    /\ IF CanAllocate
       THEN /\ ReplacePeer(a, ct, num)
            /\ events' = events \o
                 <<[kind |-> "Connected",
                    conn |-> [id |-> AllocatedSlot, addr |-> a, connect_time |-> ct]],
                   EventOf("Disconnected", a)>>
            /\ ForgetWatermark(a)
            /\ UNCHANGED <<reconnect_watermark_order, next_generation>>
       ELSE /\ RemovePeerAt(a)
            /\ events' = Append(events, EventOf("Disconnected", a))
            /\ RecordWatermark(a, ct)

\* handle_connect_request, a peer is live at the address: a newer request
\* replaces it.  With no slot to hand the newcomer is left to retry, behind
\* a watermark.
ConnectReplaces(a, ct, num) ==
    /\ Drain
    /\ a \in Live
    /\ ct > peers[a].connect_time
    /\ IF CanAllocate
       THEN /\ ReplacePeer(a, ct, num)
            /\ events' = events \o
                 <<EventOf("Disconnected", a),
                   [kind |-> "Connected",
                    conn |-> [id |-> AllocatedSlot, addr |-> a, connect_time |-> ct]]>>
            /\ ForgetWatermark(a)
            /\ UNCHANGED <<reconnect_watermark_order, next_generation>>
       ELSE /\ RemovePeerAt(a)
            /\ events' = Append(events, EventOf("Disconnected", a))
            /\ RecordWatermark(a, ct)

\* handle_connect_request, a peer is live at the address: a request older
\* than it is dropped, and its own one is answered again.
ConnectRepeats(a, ct) ==
    /\ Drain
    /\ a \in Live
    /\ ct <= peers[a].connect_time
    /\ UNCHANGED <<slotVars, markVars, events>>

\* Mutant of HasRoom: off by one at the per-IP limit.
HasRoomAtLimit(a) ==
    /\ Cardinality(Live) < MaxPeers
    /\ peers_per_ip[IpOf[a]] <= MaxPeersPerIp

HasRoom(a) ==
    /\ Cardinality(Live) < MaxPeers
    /\ peers_per_ip[IpOf[a]] < MaxPeersPerIp

\* handle_connect_request, no peer at the address: accepted.
ConnectAccepted(a, ct, num) ==
    /\ Drain
    /\ a \notin Live
    /\ PassesWatermark(a, ct)
    /\ HasRoom(a)
    /\ CanAllocate
    /\ InsertPeer(a, ct, num)
    /\ ForgetWatermark(a)
    /\ events' = Append(events,
         [kind |-> "Connected",
          conn |-> [id |-> AllocatedSlot, addr |-> a, connect_time |-> ct]])
    /\ UNCHANGED <<reconnect_watermark_order, next_generation>>

\* handle_connect_request, no peer at the address: too old, or no room.  A
\* request that is refused for want of room still raises the watermark.
ConnectRefused(a, ct) ==
    /\ Drain
    /\ a \notin Live
    /\ IF PassesWatermark(a, ct)
       THEN /\ ~(HasRoom(a) /\ CanAllocate)
            /\ RaiseWatermark(a, ct)
       ELSE UNCHANGED reconnect_watermarks
    /\ UNCHANGED <<slotVars, reconnect_watermark_order, next_generation, events>>

\* handle_datagram: the header names a connection by its number alone, and is
\* for the peer at the address when that has the same number.
Heard(a, num) == a \in Live /\ peers[a].connection_number = num

Refresh(a) ==
    /\ peers' = [peers EXCEPT ![a].idle = 0]
    /\ UNCHANGED <<peer_slots, slot_count, free_peer_slots,
                   available_free_peer_slots, peers_per_ip>>

\* handle_datagram, UNRELIABLE.
HandleUnreliable(a, num) ==
    /\ Drain
    /\ Heard(a, num)
    /\ Refresh(a)
    /\ events' = Append(events, EventOf("Data", a))
    /\ UNCHANGED markVars

\* handle_ping and handle_pong.
HandlePingPong(a, num) ==
    /\ Drain
    /\ Heard(a, num)
    /\ Refresh(a)
    /\ UNCHANGED <<markVars, events>>

\* Mutant of HandleDisconnect: no event for the caller.
HandleDisconnectSilently(a, ct, num) ==
    /\ Drain
    /\ Heard(a, num)
    /\ peers[a].connect_time = ct
    /\ RemovePeerAt(a)
    /\ UNCHANGED <<markVars, events>>

\* handle_disconnect: only of the connection it names.
HandleDisconnect(a, ct, num) ==
    /\ Drain
    /\ Heard(a, num)
    /\ peers[a].connect_time = ct
    /\ RemovePeerAt(a)
    /\ events' = Append(events, EventOf("Disconnected", a))
    /\ UNCHANGED markVars

\* Every other datagram is dropped: fragmented, unknown, of no live peer, of
\* another connection number, with a wrong key or protocol.
DropDatagram ==
    /\ Drain
    /\ UNCHANGED <<slotVars, markVars, events>>

\* The socket would block, or the packet or byte budget is spent.
DrainEnd ==
    /\ phase = "drain"
    /\ phase' = "maintain"
    /\ work' = NoWork
    /\ UNCHANGED <<slotVars, markVars, maintenance_cursor, events, known>>

-----------------------------------------------------------------------------
(* process_peer_maintenance: one iteration of its loop per step.           *)

MaintainContinues == work.steps < slot_count /\ work.steps < MaxPollScans

\* The slot the cursor is at, after wrapping it.
CursorSlot == IF maintenance_cursor >= slot_count THEN 1 ELSE maintenance_cursor + 1

Expired(a) == a # None /\ peers[a].idle > Timeout

MaintainSlot ==
    /\ phase = "maintain"
    /\ MaintainContinues
    /\ maintenance_cursor' = CursorSlot
    /\ LET a == peer_slots[CursorSlot]
       IN  IF Expired(a) /\ work.timeouts < MaxPollTimeouts
           THEN /\ RemovePeerAt(a)
                /\ events' = Append(events, EventOf("Disconnected", a))
                /\ work' = [steps |-> work.steps + 1, timeouts |-> work.timeouts + 1]
           ELSE /\ UNCHANGED <<slotVars, events>>
                /\ work' = [work EXCEPT !.steps = @ + 1]
    /\ UNCHANGED <<markVars, phase, known>>

\* Mutant of MaintainEnd: every poll scans from the first slot.
MaintainEndRewinds ==
    /\ phase = "maintain"
    /\ ~MaintainContinues
    /\ maintenance_cursor' = 0
    /\ phase' = "dispatch"
    /\ work' = NoWork
    /\ UNCHANGED <<slotVars, markVars, events, known>>

MaintainEnd ==
    /\ phase = "maintain"
    /\ ~MaintainContinues
    /\ maintenance_cursor' = IF slot_count = 0 THEN 0 ELSE maintenance_cursor
    /\ phase' = "dispatch"
    /\ work' = NoWork
    /\ UNCHANGED <<slotVars, markVars, events, known>>

-----------------------------------------------------------------------------
(* The caller.                                                             *)

\* The caller consumes the first event of the batch.
Dispatch ==
    /\ phase = "dispatch"
    /\ events # <<>>
    /\ events' = Tail(events)
    /\ known' = CASE Head(events).kind = "Connected"    -> known \cup {Head(events).conn}
                  [] Head(events).kind = "Disconnected" -> known \ {Head(events).conn}
                  [] OTHER                              -> known
    /\ UNCHANGED <<slotVars, markVars, maintenance_cursor, phase, work>>

\* disconnect(peer): the caller drops a peer it knows, while it consumes a
\* batch.  A peer already gone is left alone, and there is no event.
LocalDisconnect(conn) ==
    /\ phase = "dispatch"
    /\ known' = known \ {conn}
    /\ LET a == PeerAddr(conn.id)
       IN  IF a # None THEN RemovePeerAt(a) ELSE UNCHANGED slotVars
    /\ UNCHANGED <<markVars, maintenance_cursor, phase, work, events>>

\* The batch is consumed; the caller goes round its loop.
DispatchEnd ==
    /\ phase = "dispatch"
    /\ events = <<>>
    /\ phase' = "idle"
    /\ UNCHANGED <<slotVars, markVars, maintenance_cursor, work, events, known>>

\* shutdown: every peer is reported once, in the order the map yields them,
\* and the host is as new.
Shutdown ==
    /\ phase = "idle"
    /\ \E order \in [1..Cardinality(Live) -> Live] :
         /\ \A i, j \in DOMAIN order : order[i] = order[j] => i = j
         /\ events' = [i \in DOMAIN order |-> EventOf("Disconnected", order[i])]
    /\ peers' = [a \in Addr |-> None]
    /\ peer_slots' = [s \in Slots |-> None]
    /\ slot_count' = 0
    /\ free_peer_slots' = <<>>
    /\ available_free_peer_slots' = 0
    /\ peers_per_ip' = [i \in IP |-> 0]
    /\ reconnect_watermarks' = [a \in Addr |-> None]
    /\ reconnect_watermark_order' = <<>>
    /\ next_generation' = 0
    /\ maintenance_cursor' = 0
    /\ phase' = "dispatch"
    /\ UNCHANGED <<work, known>>

-----------------------------------------------------------------------------
\* What the server's loop does of itself.
PollLoop ==
    \/ PollBegin
    \/ ExpireWatermark
    \/ ExpireEnd
    \/ DrainEnd
    \/ MaintainSlot
    \/ MaintainEnd
    \/ Dispatch
    \/ DispatchEnd

Datagram(a, ct, num) ==
    \/ ConnectReplaces(a, ct, num)
    \/ ConnectRepeats(a, ct)
    \/ ConnectAccepted(a, ct, num)
    \/ ConnectRefused(a, ct)
    \/ HandleUnreliable(a, num)
    \/ HandlePingPong(a, num)
    \/ HandleDisconnect(a, ct, num)

Next ==
    \/ PollLoop
    \/ \E a \in Addr, ct \in ConnectTimes, num \in ConnectionNumbers : Datagram(a, ct, num)
    \/ DropDatagram
    \/ \E conn \in known : LocalDisconnect(conn)
    \/ Shutdown

Spec == Init /\ [][Next]_vars

-----------------------------------------------------------------------------
(* Properties.                                                             *)

\* Type invariant: every field of Host keeps its type and its capacity.
SlotTypeOK ==
    /\ peers \in [Addr -> Peer \cup {None}]
    /\ peer_slots \in [Slots -> Addr \cup {None}]
    /\ slot_count \in 0..MaxPeers
    /\ free_peer_slots \in Seq(Slots)
    /\ available_free_peer_slots \in 0..Len(free_peer_slots)

WatermarkTypeOK ==
    /\ reconnect_watermarks \in [Addr -> Watermark \cup {None}]
    /\ reconnect_watermark_order \in Seq(OrderEntry)
    /\ next_generation \in 0..MaxGeneration

TypeOK ==
    /\ SlotTypeOK
    /\ WatermarkTypeOK
    /\ peers_per_ip \in [IP -> Nat]
    /\ maintenance_cursor \in 0..slot_count
    /\ phase \in Phases
    /\ work \in [steps : Nat, timeouts : Nat]
    /\ events \in Seq(Event)
    /\ known \subseteq Connection

\* The table of peers and the table of slots are inverse to each other, so
\* peer_addr finds exactly the live peers; only grown slots are in use.
SlotsMatchPeers ==
    /\ \A a \in Live : peer_slots[peers[a].slot] = a
    /\ \A s \in Slots : peer_slots[s] # None =>
         /\ s <= slot_count
         /\ peer_slots[s] \in Live
         /\ peers[peer_slots[s]].slot = s

\* The queue lists each member of V once and nothing else.
Lists(queue, V) ==
    /\ \A i, j \in DOMAIN queue : queue[i] = queue[j] => i = j
    /\ {queue[i] : i \in DOMAIN queue} = V

Vacant == {s \in 1..slot_count : peer_slots[s] = None}

\* The free queue lists every vacant slot of the grown table once: no slot
\* is leaked by a removal, none is handed out twice.
FreeQueueExact == Lists(free_peer_slots, Vacant)

PeersAt(i) == {a \in Live : IpOf[a] = i}

\* The per-IP counter that admits peers is the number of peers at that IP,
\* and neither limit given to bind_with_limits is exceeded.
PeerLimits ==
    /\ \A i \in IP : peers_per_ip[i] = Cardinality(PeersAt(i))
    /\ \A i \in IP : peers_per_ip[i] <= MaxPeersPerIp
    /\ Cardinality(Live) <= MaxPeers

\* The PeerId of the connection means that connection, or no one: and then
\* no one before the next poll.
KeepsId(conn) ==
    \/ /\ conn.addr \in Live
       /\ peers[conn.addr].slot = conn.id
       /\ peers[conn.addr].connect_time = conn.connect_time
    \/ /\ peer_slots[conn.id] = None
       /\ conn.id \in Retired \/ phase = "dispatch"

\* While a batch is filled and consumed its PeerIds keep their meaning: the
\* slot an event names is held by the connection the event is about, or it
\* is vacant and not handed out again before the caller has consumed the
\* batch.
BatchKeepsIds ==
    /\ \A i \in DOMAIN events : KeepsId(events[i].conn)
    /\ phase \in {"idle", "expire"} => events = <<>>

\* disconnect(peer) by a caller that learnt of peers from events alone drops
\* the connection the caller means: its PeerId names that one or no one.
CallerNamesItsPeer ==
    \A conn \in known :
        PeerAddr(conn.id) # None => conn \in LiveConnections

\* Between batches the caller has been told of every connection and of every
\* disconnection: what it believes connected is what is connected.
CallerAgrees == phase = "idle" => known = LiveConnections

\* A live peer has no watermark, and every watermark has its own order entry,
\* whence at most MaxPeers of them: the queue can expire or evict them all.
WatermarksQueued ==
    /\ \A a \in Live : reconnect_watermarks[a] = None
    /\ \A a \in Addr : reconnect_watermarks[a] # None =>
         \E i \in DOMAIN reconnect_watermark_order :
            reconnect_watermark_order[i] =
              [addr |-> a, generation |-> reconnect_watermarks[a].generation]
    /\ Len(reconnect_watermark_order) <= MaxPeers

\* The expiry loop may stop at the first watermark that is not due: when it
\* stops short of its budget, no due watermark is left behind it.
NoDueWatermarkLeft ==
    phase = "expire" /\ ~ExpireContinues /\ work.steps < MaxPollCleanups =>
        \A a \in Addr : reconnect_watermarks[a] # None => reconnect_watermarks[a].ttl > 0

\* The connect_time the host holds an address to: of its live peer or of its
\* watermark.
Floor(a) ==
    {peers[b].connect_time : b \in Live \cap {a}} \cup
    IF reconnect_watermarks[a] = None THEN {} ELSE {reconnect_watermarks[a].connect_time}

\* A delayed request never takes an address back to an older connection while
\* the host still holds it to a newer one, across a replacement for which
\* there was no slot too.
ConnectTimeMonotone ==
    [][\A a \in Addr : \A x \in Floor(a), y \in Floor(a)' : x <= y]_vars

\* The polls the cursor takes to come round all the slots.
Rotation == (MaxPeers + MaxPollScans - 1) \div MaxPollScans

\* How often the cursor can find a slot's peer expired and the timeouts of the
\* poll spent: each time on other ones of the slots scanned before it.
SpentVisits == (MaxPollScans - 1) \div MaxPollTimeouts

MaxOverdue == Rotation * (SpentVisits + 1) - 1

\* The idle time is counted as far as SilentPeerDropped tells apart.
ASSUME IdleAssumption == Timeout + MaxOverdue < MaxIdle

\* A peer that falls silent is dropped in bounded time, although no poll scans
\* all the slots and a scan passes an expired peer when the timeouts of its
\* poll are spent: the peers that spent them cannot connect again and expire
\* again before the cursor is back.
SilentPeerDropped ==
    phase = "dispatch" => \A a \in Live : peers[a].idle <= Timeout + MaxOverdue

-----------------------------------------------------------------------------
(* Refinement.                                                             *)

\* Ids are slots; the ones not available to this poll are the free queue
\* beyond its available prefix.
Pool == INSTANCE PeerPool WITH
    Id <- Slots,
    Conn <- Connection,
    owner <- [s \in Slots |->
                IF peer_slots[s] = None THEN None ELSE ConnectionOf(peer_slots[s])],
    retired <- Retired,
    polling <- phase \in {"expire", "drain", "maintain"},
    batch <- [i \in DOMAIN events |->
                [kind |-> events[i].kind, id |-> events[i].conn.id, conn |-> events[i].conn]]

\* The host keeps the promise the server is written against: ids are lent to
\* one connection at a time and never reused within a batch.
ImplementsPool == Pool!PoolSpec
=============================================================================
