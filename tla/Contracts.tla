------------------------------ MODULE Contracts ------------------------------
(***************************************************************************)
(* sw-contracts: the generated tables and structs, the Payload union and   *)
(* the root Envelope.                                                      *)
(*                                                                         *)
(* A table is the sequence of its fields in the order in which `create`    *)
(* adds them, with the vtable slot of each.  The types say what the        *)
(* verifier visits and how an accessor reads the field: a scalar, a        *)
(* struct, "string", "table", or a vector of one of them.                  *)
(***************************************************************************)
EXTENDS FlatBuffers

ScalarSize(type) ==
    CASE type \in {"bool", "u8"} -> 1
      [] type = "u16" -> 2
      [] type \in {"u32", "f32"} -> 4
      [] type \in {"u64", "i64"} -> 8

Scalars == {"bool", "u8", "u16", "u32", "f32", "u64", "i64"}

\* The structs: the byte offset of each component, an f32 or an i32.
Vec3 == <<0, 4, 8>>             \* x, y, z
QuatC == <<0, 4, 8, 12>>        \* x, y, z, w
GridCell == <<0, 4>>            \* cx, cz

Structs == {"Vec3", "QuatC", "GridCell"}

LayoutOf(struct) ==
    CASE struct = "Vec3" -> Vec3 [] struct = "QuatC" -> QuatC [] struct = "GridCell" -> GridCell

\* Xxx::new and the accessors of its components.
NewStruct(layout, components) ==
    [offset \in ToSet(layout) |->
        components[CHOOSE i \in DOMAIN layout : layout[i] = offset]]

Components(layout, struct) == [i \in DOMAIN layout |-> struct[layout[i]]]

F(name, slot, type) == [name |-> name, slot |-> slot, type |-> type, of |-> "none"]
FOf(name, slot, type, of) == [name |-> name, slot |-> slot, type |-> type, of |-> of]

WorldClock ==
    << F("moon_phase", 8, "f32"), F("time_of_day", 6, "f32"), F("day", 4, "u32") >>

WeatherSeed == << F("seed", 4, "u64"), F("epoch_day", 6, "u32") >>

CapabilityManifest ==
    << F("cell_size_m", 14, "f32"), FOf("features", 6, "vector", "string"),
       F("protocol_version", 4, "u16"), F("aoi_radius_cells", 12, "u8"),
       F("snapshot_hz", 10, "u8"), F("tick_hz", 8, "u8") >>

ClientHello ==
    << F("api_surface_hash", 14, "string"), F("mod_version", 12, "string"),
       F("game_build", 10, "string"), F("token", 8, "string"),
       F("display_name", 6, "string"), F("protocol_version", 4, "u16") >>

ServerHello ==
    << F("balance_gold", 12, "i64"), F("player_id", 8, "u64"),
       FOf("weather", 18, "table", "WeatherSeed"), FOf("clock", 16, "table", "WorldClock"),
       FOf("capabilities", 14, "table", "CapabilityManifest"),
       F("server_name", 10, "string"), F("reason", 6, "string"), F("accepted", 4, "bool") >>

PlayerState ==
    << F("aboard_boat", 10, "u64"), F("player_id", 4, "u64"), F("t_ms", 12, "u32"),
       F("rot", 8, "QuatC"), F("pos", 6, "Vec3") >>

BoatState ==
    << F("owner", 6, "u64"), F("boat_id", 4, "u64"), F("t_ms", 14, "u32"),
       F("vel", 12, "Vec3"), F("rot", 10, "QuatC"), F("pos", 8, "Vec3") >>

ClientState ==
    << F("aboard_boat", 10, "u64"), F("t_ms", 12, "u32"), F("vel", 8, "Vec3"),
       F("rot", 6, "QuatC"), F("pos", 4, "Vec3") >>

SnapshotDelta ==
    << FOf("boats", 8, "vector", "BoatState"), FOf("players", 6, "vector", "PlayerState"),
       F("server_tick", 4, "u32") >>

MoorageRecord ==
    << F("created_at", 16, "u64"), F("owner", 6, "u64"), F("boat_id", 4, "u64"),
       F("name", 14, "string"), F("rot", 12, "QuatC"), F("pos", 10, "Vec3"),
       F("cell", 8, "GridCell") >>

MoorRequest == << F("name", 8, "string"), F("rot", 6, "QuatC"), F("pos", 4, "Vec3") >>

MoorAck ==
    << F("reason", 8, "string"), FOf("record", 6, "table", "MoorageRecord"),
       F("accepted", 4, "bool") >>

AoiUpdate ==
    << FOf("removed", 6, "vector", "GridCell"), FOf("added", 4, "vector", "GridCell") >>

CellSnapshot ==
    << FOf("moorings", 10, "vector", "MoorageRecord"), FOf("boats", 8, "vector", "BoatState"),
       FOf("players", 6, "vector", "PlayerState"), F("cell", 4, "GridCell") >>

EconTxn ==
    << F("amount_gold", 6, "i64"), F("txn_id", 4, "u64"), F("note", 10, "string"),
       F("kind", 8, "u8") >>

LedgerAck ==
    << F("new_balance", 8, "i64"), F("txn_id", 4, "u64"), F("reason", 10, "string"),
       F("accepted", 6, "bool") >>

MarketTradeRequest ==
    << F("unit_price", 12, "i64"), F("qty", 10, "i64"), F("txn_id", 4, "u64"),
       F("item_id", 8, "u32"), F("port_id", 6, "u32") >>

MarketStateAck ==
    << F("price", 14, "i64"), F("stock", 12, "i64"), F("txn_id", 4, "u64"),
       F("reason", 16, "string"), F("item_id", 10, "u32"), F("port_id", 8, "u32"),
       F("accepted", 6, "bool") >>

ChatSend == << F("text", 4, "string"), F("channel", 6, "u8") >>

ChatBroadcast ==
    << F("player_id", 4, "u64"), F("t_ms", 12, "u32"), F("text", 8, "string"),
       F("display_name", 6, "string"), F("channel", 10, "u8") >>

\* The union, in the order of its discriminants from 1; 0 is NONE.
Payload ==
    << "ClientHello", "ServerHello", "ClientState", "SnapshotDelta", "AoiUpdate",
       "CellSnapshot", "MoorRequest", "MoorAck", "EconTxn", "LedgerAck", "ChatSend",
       "ChatBroadcast", "WorldClock", "MarketTradeRequest", "MarketStateAck" >>

PayloadType(table) == CHOOSE i \in DOMAIN Payload : Payload[i] = table

\* The payload's offset; which table it is, payload_type says.
Envelope == << F("payload", 8, "union"), F("seq", 4, "u32"), F("payload_type", 6, "u8") >>

FieldsOf(table) ==
    CASE table = "WorldClock" -> WorldClock
      [] table = "WeatherSeed" -> WeatherSeed
      [] table = "CapabilityManifest" -> CapabilityManifest
      [] table = "ClientHello" -> ClientHello
      [] table = "ServerHello" -> ServerHello
      [] table = "PlayerState" -> PlayerState
      [] table = "BoatState" -> BoatState
      [] table = "ClientState" -> ClientState
      [] table = "SnapshotDelta" -> SnapshotDelta
      [] table = "MoorageRecord" -> MoorageRecord
      [] table = "MoorRequest" -> MoorRequest
      [] table = "MoorAck" -> MoorAck
      [] table = "AoiUpdate" -> AoiUpdate
      [] table = "CellSnapshot" -> CellSnapshot
      [] table = "EconTxn" -> EconTxn
      [] table = "LedgerAck" -> LedgerAck
      [] table = "MarketTradeRequest" -> MarketTradeRequest
      [] table = "MarketStateAck" -> MarketStateAck
      [] table = "ChatSend" -> ChatSend
      [] table = "ChatBroadcast" -> ChatBroadcast
      [] table = "Envelope" -> Envelope

SizeOf(type) ==
    IF type \in Scalars THEN ScalarSize(type)
    ELSE IF type \in Structs THEN 4 * Len(LayoutOf(type))
    ELSE 4

AlignmentOf(type) == IF type \in Scalars THEN ScalarSize(type) ELSE 4

\* Xxx::create: the args are a record; a field that is not a scalar or a
\* struct has the offset of its object.
Create(b, table, args) ==
    EndTable(b.used,
        FoldLeft(LAMBDA acc, f : AddField(acc, f, SizeOf(f.type), AlignmentOf(f.type),
                                          f.type \in Scalars, args[f.name]),
                 [b |-> b, slots |-> {}], FieldsOf(table)))

\* finish_envelope: the root around the payload that was created last.
FinishEnvelope(b, seq, table) ==
    Finish(Create(b, "Envelope",
                  [seq |-> seq, payload_type |-> PayloadType(table), payload |-> b.last]),
           "SWO0")

-----------------------------------------------------------------------------
(* Reading.                                                                *)

RECURSIVE ReadTable(_, _, _)

\* What the offset of a field names, for each type of field.
Follow(heap, f, offset) ==
    CASE f.type = "string" -> heap[offset]
      [] f.type = "table" -> ReadTable(heap, offset, f.of)
      [] f.type = "vector" ->
            [i \in DOMAIN heap[offset] |->
                CASE f.of \in Structs -> Components(LayoutOf(f.of), heap[offset][i])
                  [] f.of = "string" -> heap[heap[offset][i]]
                  [] f.of \notin Structs \cup {"string"} ->
                        ReadTable(heap, heap[offset][i], f.of)]

\* The accessor of a field: a scalar or its default, a struct, or the object.
ReadField(heap, table, f) ==
    IF f.type \in Scalars THEN GetSlot(table, f.slot, 0)
    ELSE LET value == GetSlot(table, f.slot, None)
         IN  IF value = None THEN None
             ELSE IF f.type \in Structs THEN Components(LayoutOf(f.type), value)
             ELSE Follow(heap, f, value)

FieldNamed(table, name) == CHOOSE f \in ToSet(FieldsOf(table)) : f.name = name

\* All the fields of a table, as its accessors return them.
ReadTable(heap, offset, table) ==
    [name \in {f.name : f \in ToSet(FieldsOf(table))} |->
        ReadField(heap, heap[offset], FieldNamed(table, name))]

\* root_as_envelope and Envelope's accessors: the verifier wants the union's
\* type and its value both or neither; payload_as_xxx reads the table that the
\* discriminant names.  The identifier is not looked at.
DecodeEnvelope(buf) ==
    LET env == buf.heap[buf.root]
        type == GetSlot(env, FieldNamed("Envelope", "payload_type").slot, 0)
        payload == GetSlot(env, FieldNamed("Envelope", "payload").slot, None)
    IN  IF (type = 0) # (payload = None) THEN None
        ELSE [seq |-> GetSlot(env, FieldNamed("Envelope", "seq").slot, 0),
              table |-> IF type \in DOMAIN Payload THEN Payload[type] ELSE "NONE",
              fields |-> IF type \in DOMAIN Payload
                            THEN ReadTable(buf.heap, payload, Payload[type]) ELSE None]
=============================================================================
