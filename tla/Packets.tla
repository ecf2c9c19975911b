------------------------------- MODULE Packets -------------------------------
(***************************************************************************)
(* sw-net protocol: the LiteNetLib packets, byte by byte as far as their   *)
(* layout goes.                                                            *)
(*                                                                         *)
(* A buffer is its length and its parts, each a value at an offset with a  *)
(* width; a byte no part covers is zero.  Values are the integers a field  *)
(* holds; text and application payloads are one part each.                 *)
(***************************************************************************)
EXTENDS Integers, Sequences, SequencesExt

PROTOCOL_ID == 13
MAX_CONNECTION_NUMBER == 4
MTU == 1024
HEADER_SIZE == 1
CONNECT_REQUEST_HEADER_SIZE == 18
CONNECT_ACCEPT_SIZE == 15
PING_SIZE == HEADER_SIZE + 2
PONG_SIZE == HEADER_SIZE + 10
DISCONNECT_SIZE == HEADER_SIZE + 8

Property ==
    [UNRELIABLE |-> 0, PING |-> 3, PONG |-> 4, CONNECT_REQUEST |-> 5, CONNECT_ACCEPT |-> 6,
     DISCONNECT |-> 7, MTU_CHECK |-> 9, SHUTDOWN_OK |-> 13, INVALID_PROTOCOL |-> 15]

-----------------------------------------------------------------------------
(* Buffers.                                                                *)

Part(at, width, value) == [at |-> at, width |-> width, value |-> value]

Buffer(len, parts) == [len |-> len, parts |-> parts]

Get(buf, at, width) ==
    LET here == {p \in buf.parts : p.at = at /\ p.width = width}
    IN  IF here = {} THEN 0 ELSE (CHOOSE p \in here : TRUE).value

Shift(parts, by) == {[p EXCEPT !.at = @ + by] : p \in parts}

\* buf[from..]
Suffix(buf, from) ==
    Buffer(buf.len - from, Shift({p \in buf.parts : p.at >= from}, -from))

\* The first n bytes of a buffer.
Prefix(buf, n) == Buffer(n, {p \in buf.parts : p.at + p.width <= n})

-----------------------------------------------------------------------------
(* The property byte.                                                      *)

Header(property, connection_number, fragmented) ==
    [property |-> property, connection_number |-> connection_number, fragmented |-> fragmented]

from_byte(b) == Header(b % 32, (b \div 32) % 4, b >= 128)

to_byte(h) ==
    (h.property % 32) + ((h.connection_number * 32) % 128) + (IF h.fragmented THEN 128 ELSE 0)

plain(property) == Header(property, 0, FALSE)
connected(property, connection_number) == Header(property, connection_number, FALSE)

HeaderPart(h) == Part(0, 1, to_byte(h))

-----------------------------------------------------------------------------
(* Building.                                                               *)

build_unreliable(connection_number, data) ==
    Buffer(HEADER_SIZE + data.len,
           {HeaderPart(connected(Property.UNRELIABLE, connection_number))}
               \cup Shift(data.parts, HEADER_SIZE))

build_ping(connection_number, sequence) ==
    Buffer(PING_SIZE, {HeaderPart(connected(Property.PING, connection_number)),
                       Part(1, 2, sequence % 65536)})

build_pong(connection_number, sequence, time_ticks) ==
    Buffer(PONG_SIZE, {HeaderPart(connected(Property.PONG, connection_number)),
                       Part(1, 2, sequence % 65536), Part(3, 8, time_ticks)})

build_disconnect(connection_number, connect_time) ==
    Buffer(DISCONNECT_SIZE, {HeaderPart(connected(Property.DISCONNECT, connection_number)),
                             Part(1, 8, connect_time)})

build_control(property) == Buffer(HEADER_SIZE, {HeaderPart(plain(property))})

build_connect_accept(connect_time, connection_number, local_peer_id, reused) ==
    Buffer(CONNECT_ACCEPT_SIZE,
           {HeaderPart(plain(Property.CONNECT_ACCEPT)), Part(1, 8, connect_time),
            Part(9, 1, connection_number), Part(10, 1, IF reused THEN 1 ELSE 0),
            Part(11, 4, local_peer_id)})

build_connect_request(connection_number, connect_time, peer_id, addr_size, connect_data) ==
    LET data_start == CONNECT_REQUEST_HEADER_SIZE + addr_size
    IN  Buffer(data_start + connect_data.len,
               {HeaderPart(connected(Property.CONNECT_REQUEST, connection_number)),
                Part(1, 4, PROTOCOL_ID), Part(5, 8, connect_time), Part(13, 4, peer_id),
                Part(CONNECT_REQUEST_HEADER_SIZE - 1, 1, addr_size)}
                   \cup Shift(connect_data.parts, data_start))

\* A string is [len, text]; its length is sent plus one, zero means empty.
write_litenet_string(s) ==
    IF s.len = 0 THEN Buffer(2, {Part(0, 2, 0)})
    ELSE Buffer(2 + s.len, {Part(0, 2, (s.len + 1) % 65536), Part(2, s.len, s.text)})

-----------------------------------------------------------------------------
(* Reading.  Malformed is what a reader that returns None returns.         *)

Malformed == [malformed |-> TRUE]

parse_connect_request(buf) ==
    LET header == from_byte(Get(buf, 0, 1))
        addr_size == Get(buf, CONNECT_REQUEST_HEADER_SIZE - 1, 1)
        data_start == CONNECT_REQUEST_HEADER_SIZE + addr_size
    IN  IF \/ buf.len < CONNECT_REQUEST_HEADER_SIZE
           \/ header.property # Property.CONNECT_REQUEST
           \/ header.connection_number >= MAX_CONNECTION_NUMBER
           \/ addr_size \notin {16, 28}
           \/ buf.len < data_start
          THEN Malformed
          ELSE [connection_number |-> header.connection_number,
                protocol_id |-> Get(buf, 1, 4),
                connect_time |-> Get(buf, 5, 8),
                peer_id |-> Get(buf, 13, 4),
                connect_data |-> Suffix(buf, data_start)]

read_litenet_string(data) ==
    LET raw == Get(data, 0, 2)
    IN  IF data.len < 2 THEN Malformed
        ELSE IF raw = 0 THEN [len |-> 0, text |-> "empty"]
        ELSE IF data.len < 2 + (raw - 1) THEN Malformed
        ELSE [len |-> raw - 1, text |-> Get(data, 2, raw - 1)]

read_sequence(buf) == IF buf.len < 3 THEN Malformed ELSE [sequence |-> Get(buf, 1, 2)]

read_disconnect_time(buf) ==
    IF buf.len < DISCONNECT_SIZE THEN Malformed ELSE [connect_time |-> Get(buf, 1, 8)]
=============================================================================
