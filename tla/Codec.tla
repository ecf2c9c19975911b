-------------------------------- MODULE Codec --------------------------------
(***************************************************************************)
(* sw-server codec: one encoder per message of the server.  An encoder     *)
(* creates the strings, vectors and inner tables first, in this order, and *)
(* threads the builder; `last` is the offset of what was just created.     *)
(* A message is a record of the encoder's arguments.                       *)
(***************************************************************************)
EXTENDS Contracts

PROTOCOL_VERSION == 1

\* Creates one object per element of s, and then the vector of their offsets.
CreateEach(b, s, Build(_, _)) ==
    LET built == FoldLeft(LAMBDA acc, e : LET d == Build(acc.b, e)
                                          IN  [b |-> d, offsets |-> Append(acc.offsets, d.last)],
                          [b |-> b, offsets |-> << >>], s)
    IN  CreateVector(built.b, built.offsets, 4, 4)

build_player(b, pl) ==
    Create(b, "PlayerState",
           [player_id |-> pl.player_id, pos |-> NewStruct(Vec3, pl.pos),
            rot |-> NewStruct(QuatC, pl.rot), aboard_boat |-> pl.aboard_boat, t_ms |-> pl.t_ms])

build_boat(b, bs) ==
    Create(b, "BoatState",
           [boat_id |-> bs.boat_id, owner |-> bs.owner, pos |-> NewStruct(Vec3, bs.pos),
            rot |-> NewStruct(QuatC, bs.rot), vel |-> NewStruct(Vec3, bs.vel),
            t_ms |-> bs.t_ms])

build_mooring(b, m) ==
    LET name == CreateString(b, m.name)
    IN  Create(name, "MoorageRecord",
               [boat_id |-> m.boat_id, owner |-> m.owner, cell |-> NewStruct(GridCell, m.cell),
                pos |-> NewStruct(Vec3, m.pos), rot |-> NewStruct(QuatC, m.rot),
                name |-> name.last, created_at |-> m.created_at])

build_players(b, players) == CreateEach(b, players, build_player)
build_boats(b, boats) == CreateEach(b, boats, build_boat)
build_moorings(b, moorings) == CreateEach(b, moorings, build_mooring)

WorldClockTable(b, clock) ==
    Create(b, "WorldClock", [day |-> clock.day, time_of_day |-> clock.time_of_day,
                             moon_phase |-> clock.moon_phase])

server_hello(m) ==
    LET reason == CreateString(NewBuilder, m.reason)
        name == CreateString(reason, m.server_name)
        features == CreateEach(name, m.capabilities.features, CreateString)
        caps == Create(features, "CapabilityManifest",
                       [m.capabilities EXCEPT !.features = features.last])
        clock == WorldClockTable(caps, m.clock)
        weather == Create(clock, "WeatherSeed", m.weather)
        hello == Create(weather, "ServerHello",
                        [accepted |-> m.accepted, reason |-> reason.last,
                         player_id |-> m.player_id, server_name |-> name.last,
                         balance_gold |-> m.balance_gold, capabilities |-> caps.last,
                         clock |-> clock.last, weather |-> weather.last])
    IN  FinishEnvelope(hello, m.seq, "ServerHello")

world_clock(m) == FinishEnvelope(WorldClockTable(NewBuilder, m), m.seq, "WorldClock")

snapshot_delta(m) ==
    LET players == build_players(NewBuilder, m.players)
        boats == build_boats(players, m.boats)
    IN  FinishEnvelope(Create(boats, "SnapshotDelta",
                              [server_tick |-> m.server_tick, players |-> players.last,
                               boats |-> boats.last]),
                       m.seq, "SnapshotDelta")

\* A vector of cells.
CreateCells(b, cells) ==
    CreateVector(b, [i \in DOMAIN cells |-> NewStruct(GridCell, cells[i])], 8, 4)

aoi_update(m) ==
    LET added == CreateCells(NewBuilder, m.added)
        removed == CreateCells(added, m.removed)
    IN  FinishEnvelope(Create(removed, "AoiUpdate",
                              [added |-> added.last, removed |-> removed.last]),
                       m.seq, "AoiUpdate")

cell_snapshot(m) ==
    LET players == build_players(NewBuilder, m.players)
        boats == build_boats(players, m.boats)
        moorings == build_moorings(boats, m.moorings)
    IN  FinishEnvelope(Create(moorings, "CellSnapshot",
                              [cell |-> NewStruct(GridCell, m.cell), players |-> players.last,
                               boats |-> boats.last, moorings |-> moorings.last]),
                       m.seq, "CellSnapshot")

moor_ack(m) ==
    LET reason == CreateString(NewBuilder, m.reason)
        record == IF m.record = None THEN reason ELSE build_mooring(reason, m.record)
    IN  FinishEnvelope(Create(record, "MoorAck",
                              [accepted |-> m.accepted, reason |-> reason.last,
                               record |-> IF m.record = None THEN None ELSE record.last]),
                       m.seq, "MoorAck")

ledger_ack(m) ==
    LET reason == CreateString(NewBuilder, m.reason)
    IN  FinishEnvelope(Create(reason, "LedgerAck",
                              [txn_id |-> m.txn_id, accepted |-> m.accepted,
                               new_balance |-> m.new_balance, reason |-> reason.last]),
                       m.seq, "LedgerAck")

market_state_ack(m) ==
    LET reason == CreateString(NewBuilder, m.reason)
    IN  FinishEnvelope(Create(reason, "MarketStateAck",
                              [txn_id |-> m.txn_id, accepted |-> m.accepted,
                               port_id |-> m.port_id, item_id |-> m.item_id,
                               stock |-> m.stock, price |-> m.price, reason |-> reason.last]),
                       m.seq, "MarketStateAck")

chat_broadcast(m) ==
    LET name == CreateString(NewBuilder, m.display_name)
        text == CreateString(name, m.text)
    IN  FinishEnvelope(Create(text, "ChatBroadcast",
                              [player_id |-> m.player_id, display_name |-> name.last,
                               text |-> text.last, channel |-> m.channel, t_ms |-> m.t_ms]),
                       m.seq, "ChatBroadcast")

-----------------------------------------------------------------------------
(* The client's encoders: of a message whose optional fields may be absent.*)

\* Creates the strings of a message, in the order of its fields, and the table.
CreateClientTable(table, m) ==
    LET fields == FieldsOf(table)
        strings == FoldLeft(LAMBDA acc, f :
                       IF f.type # "string" \/ m[f.name] = None THEN acc
                       ELSE LET d == CreateString(acc.b, m[f.name])
                            IN  [b |-> d, at |-> acc.at @@ (f.name :> d.last)],
                       [b |-> NewBuilder, at |-> << >>], fields)
        value(f) == IF m[f.name] = None THEN None
                    ELSE CASE f.type = "string" -> strings.at[f.name]
                           [] f.type \in Structs -> NewStruct(LayoutOf(f.type), m[f.name])
                           [] f.type \in Scalars -> m[f.name]
    IN  Create(strings.b, table,
               [name \in {f.name : f \in ToSet(fields)} |-> value(FieldNamed(table, name))])

EncodeClient(table, m) == FinishEnvelope(CreateClientTable(table, m), m.seq, table)
=============================================================================
