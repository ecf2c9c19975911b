------------------------------- MODULE Config --------------------------------
(***************************************************************************)
(* sw-server config: what `validate` accepts, and the cadences and limits  *)
(* that the server takes from an accepted configuration.  The constants of *)
(* the snapshot scheduler are parameters, so that small instances can be   *)
(* checked; the bounds of the other settings are the code's.               *)
(***************************************************************************)
EXTENDS Integers, FiniteSetsExt

CONSTANTS
    SNAPSHOT_PACKETS_PER_TICK,      \* recipients per tick
    SNAPSHOT_ENTITIES_PER_PACKET,   \* players per packet
    SNAPSHOT_VISIBILITY_CEILING,    \* players a recipient is shown at all
    SNAPSHOT_CLIENT_EXPIRY_SECS,    \* after which a client forgets a player
    MAX_TRANSPORT_PEERS

ASSUME ConfigAssumption ==
    /\ SNAPSHOT_PACKETS_PER_TICK \in Nat \ {0}
    /\ SNAPSHOT_ENTITIES_PER_PACKET \in Nat \ {0}
    /\ SNAPSHOT_VISIBILITY_CEILING \in Nat \ {0}
    /\ SNAPSHOT_CLIENT_EXPIRY_SECS \in Nat \ {0}
    /\ MAX_TRANSPORT_PEERS \in Nat \ {0}

MAX_AOI_RADIUS_CELLS == 16
MIN_CELL_SIZE_M == 1
MAX_CELL_SIZE_M == 1000000
MAX_TRADE_MIN_INTERVAL_MS == 3600000
MIN_HELLO_MIN_INTERVAL_MS == 1
MAX_HELLO_MIN_INTERVAL_MS == 250
MAX_NEW_SESSION_MIN_INTERVAL_MS == 1000
MAX_PLAYER_ROWS == 1000000
MAX_WIRE_STRING_LEN == 4096

\* The rates and sizes that a snapshot run varies are arguments.
Default(tick_hz, snapshot_hz, max_transport_peers) ==
    [tick_hz |-> tick_hz, snapshot_hz |-> snapshot_hz, clock_broadcast_secs |-> 10,
     aoi_radius_cells |-> 1, cell_size_m |-> 1024, hello_min_interval_ms |-> 250,
     new_session_min_interval_ms |-> 30, max_transport_peers |-> max_transport_peers,
     max_transport_peers_per_ip |-> 1, max_player_rows |-> 10000,
     trade_min_interval_ms |-> 250, client_state_min_interval_ms |-> 20,
     chat_min_interval_ms |-> 500, econ_min_interval_ms |-> 100, moor_min_interval_ms |-> 250,
     max_wire_string_len |-> 512]

checked_div_ceil(value, divisor) == (value + (divisor - 1)) \div divisor

\* Number of ticks between snapshots, and between clock broadcasts.
ticks_per_snapshot(cfg) == Max({cfg.tick_hz \div cfg.snapshot_hz, 1})
ticks_per_clock_broadcast(cfg) == Max({cfg.tick_hz * cfg.clock_broadcast_secs, 1})

snapshot_recurrence_ticks(peers, nominal_cadence_ticks) ==
    IF peers <= 1 THEN 0
    ELSE LET recipient_round == checked_div_ceil(peers, SNAPSHOT_PACKETS_PER_TICK)
             visible_players == Min({peers - 1, SNAPSHOT_VISIBILITY_CEILING})
             stable_chunks == checked_div_ceil(visible_players, SNAPSHOT_ENTITIES_PER_PACKET)
             aligned_due_interval ==
                 checked_div_ceil(nominal_cadence_ticks, recipient_round) * recipient_round
         IN  aligned_due_interval * stable_chunks

expiry_ticks(cfg) == cfg.tick_hz * SNAPSHOT_CLIENT_EXPIRY_SECS

validate(cfg) ==
    /\ cfg.tick_hz \in 1..255
    /\ cfg.snapshot_hz \in 1..255
    /\ cfg.snapshot_hz <= cfg.tick_hz
    /\ cfg.aoi_radius_cells \in 1..MAX_AOI_RADIUS_CELLS
    /\ cfg.cell_size_m \in MIN_CELL_SIZE_M..MAX_CELL_SIZE_M
    /\ cfg.hello_min_interval_ms \in MIN_HELLO_MIN_INTERVAL_MS..MAX_HELLO_MIN_INTERVAL_MS
    /\ cfg.new_session_min_interval_ms
          \in MIN_HELLO_MIN_INTERVAL_MS..MAX_NEW_SESSION_MIN_INTERVAL_MS
    /\ cfg.max_transport_peers \in 1..MAX_TRANSPORT_PEERS
    /\ snapshot_recurrence_ticks(cfg.max_transport_peers, ticks_per_snapshot(cfg))
          < expiry_ticks(cfg)
    /\ cfg.max_transport_peers_per_ip \in 1..cfg.max_transport_peers
    /\ cfg.max_player_rows \in 1..MAX_PLAYER_ROWS
    /\ \A interval \in {cfg.trade_min_interval_ms, cfg.client_state_min_interval_ms,
                        cfg.chat_min_interval_ms, cfg.econ_min_interval_ms,
                        cfg.moor_min_interval_ms} :
          interval \in 0..MAX_TRADE_MIN_INTERVAL_MS
    /\ cfg.max_wire_string_len \in 1..MAX_WIRE_STRING_LEN
=============================================================================
