-------------------------------- MODULE Wire ---------------------------------
(***************************************************************************)
(* From a message of the server or of a client to what the other side      *)
(* reads: the codec and the generated contracts (module Codec), inside the *)
(* packets of the transport (module Packets), through the host's dispatch  *)
(* of datagrams and the server's dispatch of payloads, and through the     *)
(* client's.  One message at a time: every state that matters to the order *)
(* of messages is in the modules Transport and Sessions.                   *)
(*                                                                         *)
(* A scalar of a message is zero, which FlatBuffers leaves out, or a value *)
(* of its own, so that a value read from the wrong place shows.            *)
(***************************************************************************)
EXTENDS Codec, Packets

CONSTANTS
    NameLengths,       \* lengths of names and lines, in bytes
    MooringLengths,    \* lengths of the names of moorings, in bytes
    WireStringLen,     \* max_wire_string_len of the configuration
    Batch,             \* SNAPSHOT_ENTITIES_PER_PACKET, CELL_ENTITIES_PER_PACKET
    CellsPerUpdate     \* AOI_CELLS_PER_UPDATE

ASSUME WireAssumption ==
    /\ WireStringLen \in 1..4096
    /\ Batch \in Nat \ {0} /\ CellsPerUpdate \in Nat \ {0}
    /\ NameLengths \subseteq Nat /\ MooringLengths \subseteq Nat

VARIABLES
    pc,        \* "compose", "to_client", "to_server", "to_caller", "read" or "skipped"
    sent,      \* the message that was encoded, or the control packet that was built
    packet,    \* the datagram in flight; None: the message was too long to send
    got        \* what the receiver made of it

vars == <<pc, sent, packet, got>>

\* Mutant of MAX_MOORING_NAME_BYTES: one byte more.
MooringNameByteMore == 836

MAX_MOORING_NAME_BYTES == 835

\* The connection of the one peer, as the host knows it.
Peer == [connection_number |-> 2, connect_time |-> 70, local_peer_id |-> 3]

ConnectKey == [len |-> 15, text |-> "sailwind-online"]

Str(len, text) == [len |-> len, text |-> text]

\* What the game leaves in a scalar: nothing, or v.
ZeroOr(v) == {0, v}

-----------------------------------------------------------------------------
(* What the server puts into its messages.                                 *)

\* A session that an update shows: is it aboard a boat, and its clock.
Seen == [aboard : BOOLEAN, timed : BOOLEAN]

player_snap(s, i) ==
    [player_id |-> 10 + i, pos |-> <<i, 1, 2>>, rot |-> <<i, 3, 4, 5>>,
     aboard_boat |-> IF s.aboard THEN 20 + i ELSE 0, t_ms |-> IF s.timed THEN 30 + i ELSE 0]

boat_snap(s, i) ==
    [boat_id |-> 20 + i, owner |-> 10 + i, pos |-> <<i, 1, 2>>, rot |-> <<i, 3, 4, 5>>,
     vel |-> <<i, 6, 7>>, t_ms |-> IF s.timed THEN 30 + i ELSE 0]

PlayersOf(seen) == [i \in DOMAIN seen |-> player_snap(seen[i], i)]

BoatsOf(seen) ==
    FoldLeft(LAMBDA acc, i : IF seen[i].aboard THEN Append(acc, boat_snap(seen[i], i)) ELSE acc,
             << >>, [i \in DOMAIN seen |-> i])

Batches == UNION {[1..n -> Seen] : n \in 0..Batch}

\* A row of the table moorings.
MooringRow(len, created) ==
    [boat_id |-> 21, owner |-> 11, cell |-> <<8, 9>>, pos |-> <<1, 2, 3>>,
     rot |-> <<4, 5, 6, 7>>, name |-> Str(len, "name"), created_at |-> created]

Capabilities ==
    [protocol_version |-> PROTOCOL_VERSION,
     features |-> <<Str(10, "unreliable"), Str(3, "aoi"), Str(4, "econ"), Str(6, "market"),
                    Str(7, "moorage"), Str(4, "chat")>>,
     tick_hz |-> 30, snapshot_hz |-> 4, aoi_radius_cells |-> 2, cell_size_m |-> 1024]

Clocks == [day : ZeroOr(41), time_of_day : ZeroOr(42), moon_phase : ZeroOr(43)]

-----------------------------------------------------------------------------
(* Sending.                                                                *)

Init == pc = "compose" /\ sent = None /\ packet = None /\ got = None

AsData(bytes) == Buffer(bytes.len, {Part(0, bytes.len, bytes)})

TooLong(bytes) == bytes.len > MTU - HEADER_SIZE

\* Server::send and Server::send_bounded, over Host::send_unreliable.
Send(table, args, bytes) ==
    /\ pc = "compose"
    /\ sent' = [table |-> table, args |-> args]
    /\ packet' = IF TooLong(bytes) THEN None
                 ELSE build_unreliable(Peer.connection_number, AsData(bytes))
    /\ pc' = "to_client"
    /\ UNCHANGED got

SnapshotArgs(seen) ==
    [seq |-> 50, server_tick |-> 51, players |-> PlayersOf(seen), boats |-> BoatsOf(seen)]

\* The end of a recipient's turn in broadcast_snapshots.
SendSnapshot ==
    \E seen \in Batches :
        /\ seen # << >>
        /\ Send("SnapshotDelta", SnapshotArgs(seen), snapshot_delta(SnapshotArgs(seen)))

CellArgs(seen, moorings) ==
    [seq |-> 50, cell |-> <<8, 9>>, players |-> PlayersOf(seen), boats |-> BoatsOf(seen),
     moorings |-> moorings]

\* The players of a cell, or the note that there is nothing in it.
SendCell ==
    \E seen \in Batches :
        Send("CellSnapshot", CellArgs(seen, << >>), cell_snapshot(CellArgs(seen, << >>)))

\* One mooring of a cell; a row with a longer name is passed over.
SendMooring ==
    \E len \in MooringLengths, created \in ZeroOr(52) :
        LET row == MooringRow(len, created) IN
        IF len <= MAX_MOORING_NAME_BYTES
          THEN Send("CellSnapshot", CellArgs(<< >>, <<row>>),
                    cell_snapshot(CellArgs(<< >>, <<row>>)))
          ELSE /\ pc = "compose"
               /\ pc' = "skipped"
               /\ sent' = [table |-> "CellSnapshot", args |-> CellArgs(<< >>, <<row>>)]
               /\ UNCHANGED <<packet, got>>

MoorAckArgs(accepted, record, reason) ==
    [seq |-> 50, accepted |-> accepted, record |-> record, reason |-> reason]

\* The answer of on_moor to a request with this name.
AnswerMoor ==
    \E len \in MooringLengths, created \in ZeroOr(52) :
        LET limit == Min({WireStringLen, MAX_MOORING_NAME_BYTES})
            args == IF len > limit THEN MoorAckArgs(0, None, Str(33, "too long"))
                    ELSE MoorAckArgs(1, MooringRow(len, created), Str(0, "empty"))
        IN  Send("MoorAck", args, moor_ack(args))

\* One chunk of the cells a client gains and loses.
SendAoiUpdate ==
    \E added, removed \in 0..CellsPerUpdate :
        /\ added + removed \in 1..CellsPerUpdate
        /\ LET args == [seq |-> 50, added |-> [i \in 1..added |-> <<i, 60>>],
                        removed |-> [i \in 1..removed |-> <<i, 61>>]]
           IN  Send("AoiUpdate", args, aoi_update(args))

\* send_accepted_hello, and reject_hello with its reason, on a server with the
\* default name (21 bytes): Config does not bound server_name.
SendHello ==
    \E accepted \in {0, 1}, gold \in ZeroOr(53), clock \in Clocks, seed \in ZeroOr(54),
       day \in ZeroOr(55), len \in NameLengths :
        /\ accepted = 0 => gold = 0
        /\ LET args == [seq |-> 50, accepted |-> accepted,
                        reason |-> IF accepted = 1 THEN Str(0, "empty") ELSE Str(len, "reason"),
                        player_id |-> 10 * accepted, server_name |-> Str(21, "server"),
                        balance_gold |-> gold, capabilities |-> Capabilities, clock |-> clock,
                        weather |-> [seed |-> seed, epoch_day |-> day]]
           IN  Send("ServerHello", args, server_hello(args))

SendClock ==
    \E clock \in Clocks :
        LET args == clock @@ ("seq" :> 50) IN Send("WorldClock", args, world_clock(args))

SendLedgerAck ==
    \E txn \in ZeroOr(12), accepted \in {0, 1}, balance \in ZeroOr(13), len \in {0, 20} :
        LET args == [seq |-> 50, txn_id |-> txn, accepted |-> accepted,
                     new_balance |-> balance, reason |-> Str(len, "reason")]
        IN  Send("LedgerAck", args, ledger_ack(args))

SendMarketAck ==
    \E txn \in ZeroOr(12), accepted \in {0, 1}, port \in ZeroOr(14), item \in ZeroOr(15),
       stock \in ZeroOr(16), price \in ZeroOr(17) :
        LET args == [seq |-> 50, txn_id |-> txn, accepted |-> accepted, port_id |-> port,
                     item_id |-> item, stock |-> stock, price |-> price,
                     reason |-> Str(20, "reason")]
        IN  Send("MarketStateAck", args, market_state_ack(args))

\* on_chat: a line within the limit that is too long once encoded is dropped.
SendChat ==
    \E name, text \in NameLengths, channel \in ZeroOr(18), t \in ZeroOr(19) :
        LET args == [seq |-> 50, player_id |-> 11, display_name |-> Str(name, "who"),
                     text |-> Str(text, "line"), channel |-> channel, t_ms |-> t]
            bytes == chat_broadcast(args)
        IN  /\ name <= WireStringLen /\ text <= WireStringLen
            /\ ~TooLong(bytes)
            /\ Send("ChatBroadcast", args, bytes)

-----------------------------------------------------------------------------
(* What a client sends: messages, and the packets of the connection.       *)

OrNone(x) == {None, x}

\* The payloads; a field that is not a scalar may be absent.  A table that
\* only the server sends reaches the server as well, if a client says so.
ClientMessages ==
    {[table |-> "ClientHello",
      args |-> [seq |-> 1, protocol_version |-> 1, display_name |-> n, token |-> t,
                game_build |-> Str(7, "build"), mod_version |-> None,
                api_surface_hash |-> Str(64, "hash")]]
        : n \in OrNone(Str(4, "who")), t \in OrNone(Str(32, "token"))}
    \cup
    {[table |-> "ClientState",
      args |-> [seq |-> 2, pos |-> p, rot |-> r, vel |-> v, aboard_boat |-> a, t_ms |-> t]]
        : p \in OrNone(<<1, 2, 3>>), r \in OrNone(<<4, 5, 6, 7>>), v \in OrNone(<<8, 9, 10>>),
          a \in ZeroOr(21), t \in ZeroOr(22)}
    \cup
    {[table |-> "EconTxn",
      args |-> [seq |-> 3, txn_id |-> x, amount_gold |-> g, kind |-> k, note |-> n]]
        : x \in ZeroOr(23), g \in ZeroOr(24), k \in ZeroOr(25), n \in OrNone(Str(5, "note"))}
    \cup
    {[table |-> "MarketTradeRequest",
      args |-> [seq |-> 4, txn_id |-> x, port_id |-> p, item_id |-> i, qty |-> q,
                unit_price |-> u]]
        : x \in ZeroOr(23), p \in ZeroOr(26), i \in ZeroOr(27), q \in ZeroOr(28),
          u \in ZeroOr(29)}
    \cup
    {[table |-> "MoorRequest", args |-> [seq |-> 5, pos |-> p, rot |-> r, name |-> n]]
        : p \in OrNone(<<1, 2, 3>>), r \in OrNone(<<4, 5, 6, 7>>), n \in OrNone(Str(5, "name"))}
    \cup
    {[table |-> "ChatSend", args |-> [seq |-> 6, text |-> t, channel |-> c]]
        : t \in OrNone(Str(5, "line")), c \in ZeroOr(30)}
    \cup
    {[table |-> "WorldClock", args |-> clock @@ ("seq" :> 7)] : clock \in Clocks}

\* A payload, under a connection number that may be an older one.
ClientSends ==
    \E m \in ClientMessages, number \in 0..(MAX_CONNECTION_NUMBER - 1) :
        /\ pc = "compose"
        /\ sent' = m @@ ("number" :> number)
        /\ packet' = build_unreliable(number, AsData(EncodeClient(m.table, m.args)))
        /\ pc' = "to_server"
        /\ UNCHANGED got

\* The packets of the connection that a client sends.
Controls ==
    [kind : {"connect"}, number : 0..3, time : {70, 71}, peer_id : ZeroOr(5),
     addr_size : {16, 20, 28}, key : {ConnectKey, Str(15, "other key"), Str(0, "empty")}]
    \cup [kind : {"ping", "pong"}, number : 0..3, sequence : {0, 1, 65535}]
    \cup [kind : {"disconnect"}, number : 0..3, time : {70, 71}]
    \cup [kind : {"mtu_check"}, number : {0, 2}]

PacketOf(c) ==
    CASE c.kind = "connect" ->
            build_connect_request(c.number, c.time, c.peer_id, c.addr_size,
                                  write_litenet_string(c.key))
      [] c.kind = "ping" -> build_ping(c.number, c.sequence)
      [] c.kind = "pong" -> build_pong(c.number, c.sequence, 90)
      [] c.kind = "disconnect" -> build_disconnect(c.number, c.time)
      [] c.kind = "mtu_check" ->
            Buffer(HEADER_SIZE, {HeaderPart(connected(Property.MTU_CHECK, c.number))})

\* One of them, whole, or with its end missing.
ClientControls ==
    \E c \in Controls :
        LET whole == PacketOf(c) IN
        \E len \in {0, HEADER_SIZE, whole.len - 1, whole.len} :
            /\ pc = "compose"
            /\ sent' = c @@ ("cut" :> (len < whole.len))
            /\ packet' = Prefix(whole, len)
            /\ pc' = "to_server"
            /\ UNCHANGED got

-----------------------------------------------------------------------------
(* Receiving.                                                              *)

vec3_of(v) == IF v = None THEN <<0, 0, 0>> ELSE v
quat_of(q) == IF q = None THEN <<0, 0, 0, 1>> ELSE q

UnwrapOr(s, default) == IF s = None THEN default ELSE s

Ignored == [to |-> "nobody"]

\* What each handler takes out of its table.
HandlerReads(table, f) ==
    CASE table = "ClientHello" -> f
      [] table = "ClientState" ->
            [f EXCEPT !.pos = vec3_of(@), !.rot = quat_of(@), !.vel = vec3_of(@)]
      [] table = "EconTxn" -> [f EXCEPT !.note = UnwrapOr(@, Str(0, "empty"))]
      [] table = "MarketTradeRequest" -> f
      [] table = "MoorRequest" ->
            [f EXCEPT !.pos = vec3_of(@), !.rot = quat_of(@),
                      !.name = UnwrapOr(@, Str(7, "mooring"))]
      [] table = "ChatSend" -> [f EXCEPT !.text = UnwrapOr(@, Str(0, "empty"))]

Handled == {"ClientHello", "ClientState", "EconTxn", "MarketTradeRequest", "MoorRequest",
            "ChatSend"}

\* handle_data_at, up to the handler.
handle_data(data) ==
    LET env == DecodeEnvelope(Get(data, 0, data.len))
    IN  IF env = None \/ env.table \notin Handled THEN Ignored
        ELSE [to |-> env.table, seq |-> env.seq, fields |-> HandlerReads(env.table, env.fields)]

\* handle_connect_request, up to the state of the peers.
handle_connect_request(data) ==
    LET req == parse_connect_request(data)
        key == read_litenet_string(req.connect_data)
    IN  IF req = Malformed THEN Ignored
        ELSE IF req.protocol_id # PROTOCOL_ID
          THEN [to |-> "connect", reply |-> build_control(Property.INVALID_PROTOCOL)]
        ELSE IF key # ConnectKey THEN Ignored
        ELSE [to |-> "connect",
              reply |-> build_connect_accept(req.connect_time, req.connection_number,
                                             Peer.local_peer_id, FALSE)]

\* handle_ping, handle_pong and handle_disconnect of a live peer.
handle_ping(data) ==
    LET seq == read_sequence(data)
    IN  IF seq = Malformed THEN Ignored
        ELSE [to |-> "ping",
              reply |-> build_pong(Peer.connection_number, seq.sequence, 91)]

handle_pong(data) ==
    LET seq == read_sequence(data)
    IN  IF seq = Malformed THEN Ignored ELSE [to |-> "pong", sequence |-> seq.sequence]

handle_disconnect(data) ==
    LET time == read_disconnect_time(data)
    IN  IF time = Malformed THEN Ignored
        ELSE IF time.connect_time # Peer.connect_time THEN Ignored
        ELSE [to |-> "disconnect", reply |-> build_control(Property.SHUTDOWN_OK)]

\* Mutant of handle_datagram: the packets of an older connection are taken.
HandleAnyConnection(data) ==
    LET header == from_byte(Get(data, 0, 1))
    IN  IF data.len = 0 \/ header.fragmented THEN Ignored
        ELSE CASE header.property = Property.CONNECT_REQUEST -> handle_connect_request(data)
               [] header.property = Property.UNRELIABLE -> handle_data(Suffix(data, HEADER_SIZE))
               [] header.property = Property.PING -> handle_ping(data)
               [] header.property = Property.PONG -> handle_pong(data)
               [] header.property = Property.DISCONNECT -> handle_disconnect(data)
               [] OTHER -> Ignored

handle_datagram(data) ==
    LET header == from_byte(Get(data, 0, 1))
    IN  IF \/ data.len = 0
           \/ header.fragmented
           \/ /\ header.property # Property.CONNECT_REQUEST
              /\ header.connection_number # Peer.connection_number
          THEN Ignored
        ELSE CASE header.property = Property.CONNECT_REQUEST -> handle_connect_request(data)
               [] header.property = Property.UNRELIABLE -> handle_data(Suffix(data, HEADER_SIZE))
               [] header.property = Property.PING -> handle_ping(data)
               [] header.property = Property.PONG -> handle_pong(data)
               [] header.property = Property.DISCONNECT -> handle_disconnect(data)
               [] OTHER -> Ignored

\* drain_socket: a datagram longer than the MTU is dropped.
HostReceives ==
    /\ pc = "to_server"
    /\ got' = IF packet.len > MTU THEN Ignored ELSE handle_datagram(packet)
    /\ pc' = IF "reply" \in DOMAIN got' THEN "to_caller" ELSE "read"
    /\ packet' = IF "reply" \in DOMAIN got' THEN got'.reply ELSE packet
    /\ UNCHANGED sent

\* LiteNetLib's reading of a reply: the accepted connection, or the control.
CallerReads ==
    /\ pc = "to_caller"
    /\ pc' = "read"
    /\ LET header == from_byte(Get(packet, 0, 1)) IN
       got' = CASE header.property = Property.CONNECT_ACCEPT /\ packet.len = 15 ->
                     [to |-> "accepted", time |-> Get(packet, 1, 8),
                      number |-> Get(packet, 9, 1), reused |-> Get(packet, 10, 1),
                      peer_id |-> Get(packet, 11, 4)]
                [] header.property = Property.PONG ->
                     [to |-> "pong", number |-> header.connection_number,
                      sequence |-> Get(packet, 1, 2), ticks |-> Get(packet, 3, 8)]
                [] OTHER -> [to |-> "control", property |-> header.property]
    /\ UNCHANGED <<sent, packet>>

\* The client's Codec.TryDispatch: the identifier first, then the payload.
TryDispatch(buf) ==
    LET env == DecodeEnvelope(buf)
    IN  IF buf.identifier # "SWO0" \/ env = None THEN Ignored
        ELSE [to |-> env.table, args |-> env.fields @@ ("seq" :> env.seq)]

ClientReceives ==
    /\ pc = "to_client"
    /\ packet # None
    /\ LET header == from_byte(Get(packet, 0, 1))
           data == Suffix(packet, HEADER_SIZE)
       IN  got' = IF header = connected(Property.UNRELIABLE, Peer.connection_number)
                    THEN TryDispatch(Get(data, 0, data.len)) ELSE Ignored
    /\ pc' = "read"
    /\ UNCHANGED <<sent, packet>>

Next ==
    \/ SendSnapshot \/ SendCell \/ SendMooring \/ AnswerMoor \/ SendAoiUpdate \/ SendHello
    \/ SendClock \/ SendLedgerAck \/ SendMarketAck \/ SendChat
    \/ ClientSends \/ ClientControls
    \/ HostReceives \/ CallerReads \/ ClientReceives

Spec == Init /\ [][Next]_vars

-----------------------------------------------------------------------------
(* What holds.                                                             *)

TypeOK ==
    /\ pc \in {"compose", "to_client", "to_server", "to_caller", "read", "skipped"}
    /\ packet = None \/ packet.len \in Nat

WithDefaults(m) ==
    LET absent == {n \in DOMAIN m.args : m.args[n] = None}
        default(n) == CASE n \in {"pos", "vel"} -> <<0, 0, 0>>
                        [] n = "rot" -> <<0, 0, 0, 1>>
                        [] n = "name" -> Str(7, "mooring")
                        [] n \in {"note", "text"} -> Str(0, "empty")
    IN  [n \in DOMAIN m.args \ {"seq"} |->
            IF n \in absent /\ m.table # "ClientHello" THEN default(n) ELSE m.args[n]]

ReadOfControl(c) ==
    CASE c.kind = "connect" ->
            IF c.key = ConnectKey /\ c.addr_size # 20
              THEN [to |-> "accepted", time |-> c.time, number |-> c.number, reused |-> 0,
                    peer_id |-> Peer.local_peer_id]
              ELSE Ignored
      [] c.kind # "connect" /\ c.number # Peer.connection_number -> Ignored
      [] c.kind = "ping" /\ c.number = Peer.connection_number ->
            [to |-> "pong", number |-> c.number, sequence |-> c.sequence, ticks |-> 91]
      [] c.kind = "pong" /\ c.number = Peer.connection_number ->
            [to |-> "pong", sequence |-> c.sequence]
      [] c.kind = "disconnect" /\ c.number = Peer.connection_number ->
            IF c.time = Peer.connect_time
              THEN [to |-> "control", property |-> Property.SHUTDOWN_OK] ELSE Ignored
      [] c.kind = "mtu_check" /\ c.number = Peer.connection_number -> Ignored

\* What arrives is what was sent, through every layer: each field of each
\* message of the server and of the clients, absent ones as the defaults of
\* the handlers, nothing of an older connection, and in the replies the
\* connection that was asked for.  A packet of the connection whose end is
\* missing is ignored or means what the whole one means.
ReadAsSent ==
    pc = "read" =>
        CASE "kind" \in DOMAIN sent ->
                got \in {ReadOfControl(sent)} \cup (IF sent.cut THEN {Ignored} ELSE {})
          [] "number" \in DOMAIN sent /\ "table" \in DOMAIN sent ->
                got = IF sent.number = Peer.connection_number /\ sent.table \in Handled
                        THEN [to |-> sent.table, seq |-> sent.args.seq,
                              fields |-> WithDefaults(sent)]
                        ELSE Ignored
          [] "number" \notin DOMAIN sent -> got = [to |-> sent.table, args |-> sent.args]

\* The limits of the server keep every packet it builds within the MTU,
\* whichever fields are zero and so however many vtables a batch needs; and the
\* limit of a mooring's name is not lower than it must be for a full record.
\* A ServerHello also carries the configured server_name, which no limit
\* bounds: the property is about hellos with the default name.
PacketsFit ==
    /\ pc = "to_client" => packet # None
    /\ pc = "skipped" =>
          LET row == sent.args.moorings[1]
          IN  \/ row.created_at = 0
              \/ TooLong(cell_snapshot(sent.args))
              \/ TooLong(moor_ack(MoorAckArgs(1, row, Str(0, "empty"))))
=============================================================================
