# Sailwind Online: TLA+ models and proofs

Sailwind Online adds shared multiplayer to a sailing game. A Rust server owns
the shared state (who is connected, gold, the port market, moorings, the world
clock) and a C# client plugin talks to it over unreliable UDP with LiteNetLib
framing. This directory holds TLA+ modules translated from the server's code
and from the client's connection code,
TLC configurations that check them on small instances, and proofs that TLAPS
checks for every value of the constants. `PROJECT.json` indexes it: components,
runs, the source lines behind every definition, hazards, findings, theorems.

Source paths below are relative to `src/server/crates/` unless they begin with
`packages/` or `docs/`.

## 1. Inventory

### How the system runs

The server is one thread. `Server::run` (`sw-server/src/server.rs:307`) repeats,
until a stop flag is set:

1. `Host::poll` drains the socket and returns a batch of events;
2. every event of the batch is handled, one by one; an error is logged and the
   next event is handled;
3. `process_aoi_work`, `broadcast_snapshots`, `process_fanout_work` and
   `process_dirty_flush_at` each do an amount of queued work bounded per tick;
4. the clock is broadcast when its cadence is due, a flush of dirty players is
   begun every five seconds.

On the way out it flushes everything and shuts the host down. There are no data
races to model on the server. What is hard is elsewhere:

- **the network**: a datagram is lost, delayed, duplicated and reordered, and one
  of an old connection arrives in a new one;
- **batches**: the host is ahead of the server. When an event is handled, later
  events of the same batch have already happened to the host's tables, and the
  handler of an earlier event may have evicted the peer it is about;
- **names that are reused**: peer ids are slots, session generations and watermark
  generations wrap, transaction ids are chosen by clients;
- **work spread over ticks**: audiences, interest sets and dirty sets are captured
  in one tick and used in later ones, while the registry changes;
- **crashes**: SQLite keeps what was committed, everything else is gone.

### Components

| Component | State | Operations | What makes it correct |
|---|---|---|---|
| UDP host (`sw-net/src/lib.rs`, `Host`) | peers, slots, free-slot queue, per-IP counters, reconnect watermarks and their order queue, maintenance cursor | poll (expire, drain, maintain), disconnect, shutdown | tables agree, limits hold, an id means one connection for as long as a batch names it, an old request never evicts a newer connection, silent peers are dropped |
| Session registry (`sw-server/src/server.rs`) | sessions, player_peers, recipient indexes, world index, identity index, generation counter, hello limiter | hello, register, unregister, evict, re-key, disconnect, restart | one session per player, no session without its connection, indexes agree, generations are unique, identities persist |
| Gold ledger (`sw-econ`, `sw-persist`, `on_econ`) | tables players and ledger, econ limiter | apply, replay, refuse, fail, restart | no transaction applied twice, balances in range and equal to the sum of the rows, what a player is told was accepted is in the table |
| Port market (`sw-econ`, `sw-persist`, `on_trade`) | tables market and market_trades, trade limiter | apply, replay, throttle, reject, fail, restart | no trade applied twice, a replay answers what was recorded, the two tables agree, a retried trade is decided |
| Chat and clock fanout (`server.rs`) | chat queue and its bytes, clock slot, shared audience, turn flag | on_chat, broadcast_clock, process_fanout_work, invalidation on re-key | a line reaches the sessions it captured, once; limits and accounting are exact; chat is not starved |
| Lifecycle (`main.rs`, `Server::new`, `server.rs:1609`, migrations, table world) | schema version, epoch and seed, dirty and flush sets, pause flag | start, mark dirty, flush, pause, stop, flush_all, crash | nothing dirty is forgotten; what a crash loses is bounded; a clean shutdown loses nothing; the world stays the one clients know |
| Area of interest (`sw-world`, `server.rs:1217`) | world grid, subscriptions, published and hydrating cells, cursors | place, recenter, publish, hydrate page by page | what a client was told equals what it subscribes to, eventually |
| Moorage (`on_moor`) | table moorings | create, move, list by page | paged hydration misses no mooring |
| Snapshot scheduler (`server.rs:1099`) | recipient and candidate cursors, last visits | visit under budgets | every visible player is advertised within a bounded number of ticks |
| Configuration (`config.rs`) | the settings | defaults, validate, cadences | what validate accepts keeps the promises of the rest |
| Contracts and codec (`sw-contracts`, `codec.rs`) | buffers | encode, verify, read | what is read is what was sent, and it fits the MTU |
| Packets (`sw-net/src/protocol.rs`) | buffers | build, parse | likewise for the transport's own packets |
| Rate limiters (`ratelimit.rs`) | last-seen maps, bounded map | allow, clear, prune | an honest key is not locked out, memory stays bounded |
| Client connection (`packages/net`, NetClient) | connection state, hello timer, backoff | connect, hello, resend, reconnect | a reachable server leads to a ready session |
| Client sync (`packages/sync`, SnapshotCache) | rings of samples per entity | push, sample, prune | stale entities go |
| World clock, validation, dispatcher, ready gate, adapters, plugins, tools | queues, flags | | float arithmetic, I/O or glue |

Interactions: the host hands the registry batches of events that name peers by
id; the registry calls back into the host (`peer_addr`, `disconnect`, `send`);
ledger and market share the database and the session table; fanout, interest
work and the scheduler read the registry's indexes and compare the generations
they captured. The hazards of this code, each at its line with the properties
that would catch it, are in `PROJECT.json`.

## 2. Modules

| Module | Models | Uses |
|---|---|---|
| `PeerPool` | what the host promises: ids lent to one connection at a time, none reused while a batch names it | |
| `Transport` | the host itself, loop iteration by loop iteration | implements `PeerPool` |
| `Sessions` | the registry and the hello handshake | extends `PeerPool` |
| `Clients` | the clients of ledger and market, their sessions and the limiter of what is new | |
| `Ledger` | `on_econ`, `Ledger::apply`, tables players and ledger | extends `Clients` |
| `Market` | `on_trade`, `Market::apply`, tables market and market_trades | extends `Clients` |
| `Fanout` | `on_chat`, `broadcast_clock`, `process_fanout_work` | |
| `Lifecycle` | one process after another on one database: start, flush, shutdown, crash | |
| `Aoi` | subscriptions, `process_aoi_work`, `on_moor` and the pages of moorings | |
| `Config` | what `validate` accepts, and the cadences | |
| `Snapshots` | `broadcast_snapshots` | extends `Config` |
| `Handshake` | `NetClient`, the admission limiters of `on_hello_at`, and the network between them | |
| `FlatBuffers` | the builder and the reader of the library (external) | |
| `Contracts` | the generated tables, structs and unions | extends `FlatBuffers` |
| `Codec` | the encoders of the server | extends `Contracts` |
| `Packets` | the transport's packets | |
| `Wire` | a message from one end to the other | extends `Codec`, `Packets` |
| `MC…` | small instances of each | |
| `…Proofs` | theorems about each; `EconomyProofs` about `Ledger` and `Market` | |
| `SumsProofs` | lemmas about sums over finite functions | extended by the proofs that count |

`Transport` and `Sessions` meet at `PeerPool`: every behaviour of `Transport` is one of
`PoolSpec` (checked by TLC, proved in `TransportProofs`), and `Sessions` has `PeerPool`'s actions as its
environment. The server is therefore checked against what the host really
guarantees, without the product of both state spaces.

Definitions named `…AtLimit`, `…Unchecked`, `…KeepsSlot` and the like, marked
"Mutant of", are deliberate bugs. Putting one in place of the definition it
follows makes TLC violate the property `PROJECT.json` pairs it with; nothing else
uses them.

### State and actions against the code

**Transport.** Variables are `Host`'s fields under their own names. Slot `s` of
the code is `s + 1`, as its `PeerId` is. `Instant`s are distances from the poll's
`now` in poll intervals (`idle`, `ttl`); `idle` is counted up to
`MaxIdle`, beyond what is compared with it. A poll is `PollBegin`, `ExpireWatermark`*, a datagram*, `MaintainSlot`*
and a dispatch of the batch, one step for each iteration of a loop, with the
code's budgets (`MaxPoll…`). Every datagram any client may ever have sent is a
possible input, which covers loss, delay, duplication and reordering. `known`
(what the caller was told) is a history variable. A connection number comes with
the request, independent of its `connect_time`, and is all that later datagrams
name their connection by. Keepalive pings and the RTT estimate guard no step and
are left out.

**Sessions.** One action handles one event with the whole of its handler.
`HelloAdmitted` is `on_hello_at` to its end: row, identity index, eviction of the
identity's earlier session, registration with a possible re-key. Whatever refuses
a hello before a table changes (inner limiters, validation, row ceiling, database
errors) is one refusal, `HelloAnswered`. What a `Data` event contains is chosen
when it is handled. `Restart` keeps the players table only.

**Clients, Ledger, Market.** `sent` and `acks` are the two directions of the channel: a
request once sent may be handled any number of times, at any time later. One
action is one outcome of the handler (applied, refused, replayed, throttled,
failed) with its database transaction and its answer; a failure leaves the
database as it was and sends nothing. Limiters are the set of players inside
their interval. Integers have a small maximum in place of i64's, with overflow
rejected as `checked_add` does. Trade ids that SQLite's i64 cannot hold are
those outside `Storable`. `MCEconomy` puts both on one server: they share the sessions and
nothing else, and the clients of one behaviour use one of the two.

**Fanout.** A recipient is (peer, generation) as in the code, plus `born`, the
number of the session that was meant (history). The captured slice is in peer
order, so an audience is the set of its members and the position in it is the
last peer visited; its `tag` stands for the address of the `Arc`, which is what
`retained_fanout_audience_entries` deduplicates by. Events, the fanout loop and
the clock broadcast are phases of a tick; one step visits one recipient. A clock
may be due at any tick. Cells are on a line, since `contains` is all fanout asks
of them.

**Lifecycle.** What a row of players loses in a crash is the time since its last
activity, so the model keeps that time (`wait`) in place of `last_seen`. A tick is
events, one flush step and the cadence, in the order of `Server::run`; a flush step
chooses which of its writes fail. `Boot` to the first tick follows `main` and
`Server::new` statement by statement (migrate, epoch, seed, bind), and `Crash` may
come between any two. `FLUSH_INTERVAL` is wall-clock time, so an interval has any
number of ticks from `MinTicksPerFlush` (slow ticks) to `MaxTicksPerFlush`. Nothing
is assumed about how many players an interval can write, since `validate` does not
check it: a player with more of the flush ahead of it than that is `Crowded`, and its
`wait` is `Excused` from then on.

**Aoi.** Cells are numbers on a line. A tick is a run of work items, each the whole of
`process_one_aoi_work` for the recipient whose turn it is, so the number of items per
tick plays no part. `Prepared` is the session as `prepare_cell_hydration` leaves it;
its first branch, which discards a delivery outside the area, is dead, since
`next_aoi_chunk` has done so before. `owed` and `told` are history. A row that moves
or leaves while its cell is delivered is no longer owed. Outside of the properties:
`players_remaining` is fixed when a delivery begins, so newcomers may push a resident
out of the scan (snapshots show it anyway); a new mooring is not sent to those who
already have its cell; a lost AoiUpdate or cell snapshot is not sent again.

**Config, Snapshots.** `validate` is modelled check by check; the constants of the
scheduler are parameters, since the recurrence it computes depends on them. `Tick` is
`broadcast_snapshots` whole. The code walks two ordered sets from a cursor, to the end
and round again (`range` after it, then `range` up to it); here this is an order on
numbers, `Precedes(after, a, b)`, and what a packet or a tick takes is the `First` few
of a set in it. Peers and players are numbered apart, as ids of slots and of rows are:
`Logins` says who may log in where. `age` and `shown` are history and start over
whenever a session changes. The tick counter wraps at `TickModulus`.

**Handshake.** `NetClient` with its states, timers and growing pauses; on the server
the four limiters that gate a hello, with what is left of their intervals. Time passes
in steps of `HelloRetryMs`, and only when nothing that must happen now is left. A
datagram is lost (a fault), or arrives within `MaxDelay`, in any order; the assumption
`MaxDelay < DefaultReconnect` keeps those of a client's earlier connection from
meeting its next one, which is `Transport`'s subject. LiteNetLib is external.

**FlatBuffers, Contracts, Codec, Packets, Wire.** A buffer is not a string of bytes but
the parts placed in it, with offsets and widths; padding, vtables and their sharing
are counted, so lengths are exact. A table is its fields in the order in which
`create` adds them, with slot and type, from which building, verifying and reading
follow. Scalars are zero, which FlatBuffers leaves out, or a value of their own.
`Wire` takes one message at a time through the encoder, the packet, the host's or the
client's dispatch, and the accessors, and cut-off packets of the connection through
the host's.

## 3. Runs

| Run | Instance | States | Shows |
|---|---|---|---|
| `transport` | 4 addresses, 3 IPs, 2 slots, 1 per IP, 2 connect times, 2 connection numbers, generations up to 3, two scans, one timeout and one cleanup per poll | 254,000 (symmetry) | tables, free queue, limits, ids within a batch, watermarks and their expiry, connect times, refinement of `PeerPool` |
| `transport_timeouts` | 4 addresses, 4 slots, two scans and one timeout per poll, a timeout of two intervals | 942,000 | silent peers are dropped within a bound, also those passed when the timeouts of a poll are spent |
| `sessions` | 3 peers, 3 connections, 3 identities, 2 rows, batches of 2, generations up to 4 | 1,380,000 (symmetry) | the registry invariants |
| `economy` | 2 players, 3 ids; amounts -2, 1, 3, balances to 3, 3 transactions; or 2 goods, 4 offers, one id of the three not storable, 2 trades | 109,000 | balances and stocks, acceptances that are in the table, replays, one row per movement; a trade that is resent is decided |
| `fanout` | 2 peers, 2 cells, 2 queued lines of one byte, 4 sessions, generations up to 3 | 624,000 | the fanout invariants; chat is not starved |
| `lifecycle` | 3 players, 1 write per tick, 2 or 3 ticks per interval, 3 attempts, 2 processes | 524,000 | tracked activity, bounded loss, clean shutdown, a stable world; activity is written in the end |
| `aoi` | 2 peers, 2 boats (1 with an old name), 2 cells, radius 1, chunks of 3, 3 joins, moves or departures, 1 request to moor, 1 failing query | 80,000 | no work forgotten, cells delivered whole; whoever stays is served |
| `snapshots` | 4 peers, 4 players in another order, 2 cells, 2 recipients per tick, 2 players per packet, 4 configurations, 2 changes, ticks mod 8 | 175,000 | the wait of a visible player is bounded; the longest wait goes first |
| `handshake` | 2 clients on 1 or 2 hosts, the code's intervals in units of 250 ms, 1 loss, failure or restart | 625,000 | both clients are connected in the end |
| `wire` | every table, the server's own limits, name lengths around them | 9,800 | read as sent, within the MTU |
| `lifecycle_loss`, `snapshots_expiry` | | | findings, section 5 |

Why the bounds are enough for the cases that matter:

- Two slots and more addresses than slots give replacement with and without a
  free slot, slots reused in the next poll, and a newcomer racing a removal.
  Two connect times let an address be replaced, lose its slot, leave a
  watermark and be tried again by the older request. Generations that run out
  after three watermarks or three sessions make the wrap and the re-key ordinary
  steps; both need fewer live entries than generations, as the code has. Two
  connection numbers are one that is heard and one that is not, and let a replacement
  keep the number of the connection it replaces or change it.
- A silent peer is passed when the timeouts of the poll were spent on slots scanned
  before its own. Those are at most `MaxPollScans - 1` slots, always the same ones, and
  each time `MaxPollTimeouts` of them are emptied; a peer that connects there again has to
  be silent for the whole timeout before it can spend another. So a peer is dropped at
  the visit after `SpentVisits`, and the cursor visits it every `Rotation` polls, which is
  the bound `Timeout + MaxOverdue`. The code has 2 * (511 / 64 + 1) = 16 polls, half a
  second at 30 Hz, against a timeout of 5 seconds. In the run the bound is 4 polls, and
  they are needed: the second of two slots that are scanned together expires just after
  a scan, is passed in the next one and dropped two polls later. The bound is about
  budgets and timeout together: it would not hold for a timeout so short that the peers
  ahead are back and expired when the cursor comes round.
- Two events per batch are the smallest in which one handler undoes what the
  next event relies on; three identities with two rows meet the row ceiling.
- Amounts and offers are chosen so that some overdraw, some overflow, one has a
  bad price, and two players may choose the same id.
- Three players with one write per tick wait for each other, so that a player is
  dirtied while it waits in the flush, and a pause leaves some unwritten. Three are
  more than a short interval writes and as many as a long one does: the third is
  crowded out or not, as the intervals fall.
  Two processes are a crash and a recovery from it.
- Cells two apart with radius one share a cell, so a move leaves some cells published
  and drops others, the one being delivered among them; a chunk of three is smaller
  than such a change (two cells left, two entered). Two rows make a second page, and the old name a row that is
  skipped. A packet and a scan of one player make the scan of two take two items.
- Four peers with two recipients per tick make rounds of one and two ticks; the four
  configurations are cadences below, at and above the round, one of them not valid.
- Two clients are what the admission limiters need to get in each other's way: a new
  player per second, and a host's next one after two. Without the doubling of the
  pause (the mutant) they do so for ever.
- Name lengths from 0 to 8 have every padding, and those around 512 and 833 the limit
  of a mooring's name and the end of the packet.
- Four sessions on two peer ids give a reused id with jobs still queued, and a
  re-key by the fourth; the number of chat lines and clocks is not bounded.

Named bounds that are not in the code: `MaxBatch` (Sessions), `MaxIdle` (Transport),
`MaxTxns` (Ledger), `MaxTrades` (Market), `MaxSessions` (Fanout), `MaxBoots` (Lifecycle), `MaxChanges`, `MaxMoors` and
`MaxFailures` (Aoi), `MaxChanges` (Snapshots), `MaxDelay` and `MaxFaults` (Handshake).

Deadlock is checked but in `lifecycle`, `aoi` and `wire`. There the model may stop:
after the last process, when nobody has work and the changes are used up, and when
the message has been read.

### Fairness

- `fanout`: weak fairness of the tick. Whether the clock is due, and what sessions
  do, is unconstrained.
- `economy`: time passes (the limiter's interval ends), a client that lost its session
  joins again, and strong fairness of "a copy of the trade is decided", for each player
  and id: the client resends so often that a copy arrives outside the interval and
  finds a working database. Nothing is promised of a client that asks once.
- `lifecycle`: weak fairness of the loop and of the shutdown. Writes may fail for
  ever; the property is about behaviours in which from some time on none pauses the
  flush and nobody is crowded out of it.
- `aoi`: weak fairness of the work, which every tick does.
- `handshake`: weak fairness of time, polls and deliveries, and of LiteNetLib telling
  its user of a connection that failed. Losses, failures and restarts are bounded:
  with endless ones nothing can be promised.

## 4. Proofs

TLAPS proves the following for every value of the constants that satisfies the
named assumptions of the modules. The assumptions are what the code enforces or
what its types say: limits as `bind_with_limits` accepts them, budgets that are
not zero, finitely many addresses, ids and identities, `None` distinct from any
record, and counters with room for more values than there are peers (u64), or than
there are peers and ticks between two snapshots (the u32 of the scheduler).

- **SumsProofs.** What the community modules' `SumFunction` does when an entry is
  added, removed, replaced or shifted, for any finite domain. The fold is a recursive
  definition over sets, so these are inductions on a cardinality. The provers cannot
  instantiate an induction theorem with a predicate, but they can take a least
  counterexample: the set of sizes for which a fact fails, if not empty, has a least
  element (`LeastNat`), and the fact at that size follows from the one below it.
- **TransportProofs.** Inductive invariant: `SlotInv /\ LimitInv /\ WatermarkInv
  /\ BatchKeepsIds /\ LoopTypeOK`. Slots, peers and free queue have to be carried
  together, because an allocation pops the free queue or grows the table and only
  "the queue lists exactly the vacant slots" says that neither result is in use.
  `BatchKeepsIds` needs that the available prefix of the free queue holds no slot
  retired since the poll began. Results: `TypeCorrect`, `SlotsConsistent`,
  `LimitsHold`, `NoAliasing`, `WatermarksBounded`. On top of it:
  - `Told`: the events not consumed yet take what the caller believes to what is
    connected, each connection is begun once and ended after it began. An event is
    pushed where the peer table changes, so every action keeps it, and between
    batches it is `CallerAgrees`. With `BatchKeepsIds` it gives `CallerNamesItsPeer`.
    Results: `CallerIsTold`, `CallerAlwaysAgrees`, `DisconnectNamesItsPeer`.
  - `OldestFirst`: the entries of the order queue that still stand for a watermark are
    sorted by the time it has left, and no entry has a generation that was not given
    out yet. The second part keeps a stale entry stale when its address gets a new
    watermark; a wrap of the generation, which starts over with both maps empty, cannot
    revive one. Results: `WatermarksInOrder`, `ExpiryComplete`.
  - `ConnectTimesRise` follows the floor of an address through each handler: from the
    peer to its watermark when it is dropped, from the watermark to the next peer.
  - `HostImplementsPool`: initial states map to initial states and every action to
    a `PeerPool` step or a stutter. Replacements map to `PeerPool`'s replacement in one
    step, retirements to an id that is given up and not lent before the next poll,
    which is what `BatchKeepsIds` says of the queue.
- **SessionsProofs.** Inductive invariant: the five checked invariants and two
  more, `EventsKeepIds` (an event's id is owned by its connection, or was given up
  since the poll began and is not lent yet), which makes `peer_addr(...)` a test
  for the very connection of the event, and `RowsDense` (row ids are 1 to the
  number of rows), which makes a new row's id new. Results: `TypeCorrect`,
  `TablesAgree`, `GenerationsUnique`, `NoGhostSession`, `IdentitiesPersist`.
- **EconomyProofs.** Inductive invariants of types, durability and provenance, one
  for the ledger and one for the market. For the ledger: every row is a request its
  player sent, every answer is to a request its player sent, and an accepted id has a
  row. If nobody else sent the id, the row is therefore the player's own, which is
  `AcceptedDurable`; without the condition it is false (section 5). Results: `LedgerTypeCorrect`,
  `AcceptedDurable`, `NothingInvented`, `GoldMoves`; `MarketTypeCorrect`,
  `ReplayRecorded`, `TablesAgree`, `MarketMoves`. The
  action properties say that gold, or a stock, moves only together with exactly
  one new row that accounts for it; with `SumsProofs` that is the inductive step of
  `BalancesAreSums` and `StocksAreSums`.
- **FanoutProofs.** Inductive invariant: the registry's births and generations
  grow; every audience in use is "of the past": its generations are at most the
  last one given out, so that no later session can match a member by mistake, and
  no two members share a peer or a birth; queued lines have distinct numbers; the
  shared audience is the registry. A re-key, which does give generations out
  again, is safe because it empties every audience. Results: `TypeCorrect`,
  `RecipientsKeepMeaning`, `SentOnce`, `ChatDeliveredAsMeant`, `CacheCurrent`.
  The second invariant, `QueueInv`, adds the sum of the sizes and `CacheShared`: a
  shared audience that is not the clock's is the last line's, if both exist. Without
  it `AudiencesFit` is not inductive: a line each with an audience of its own, the
  clock's and the shared one would be one audience more than the limit was computed
  for. Results: `QueueInvariant`, `BytesCounted`, `AudiencesAlwaysFit`.
- **LifecycleProofs.** Inductive invariant: `TypeOK`, `ActivityTracked`,
  `ShutdownCovers` (during a shutdown, whoever is unsaved is still to be written),
  `OutcomeAtEnd` (an outcome is reported by a process that is down) and `WorldLoaded`
  (what the process and the clients know is in the table). `CleanShutdown` needs the
  second: the sets `flush_all` begins with are those that tracking is about. Results:
  `TypeCorrect`, `ActivityAlwaysTracked`, `ShutdownIsClean`, `WorldAlwaysStable`.
  `LossAlwaysBounded` needs `FlushOnTime`: activity is from this interval, or from
  the one before and then its player is excused or in the flush, with no more players
  ahead of it in the order of ids than the ticks left of a short interval can write.
  It holds for any number of players and any budget, with intervals whose length
  varies. What it says of a server that is too full for its rate is what the code
  does: the lowest ids are written in time, and of the others nothing is promised. The
  comment on `DIRTY_DB_UPDATES_PER_TICK` has 1,024 sessions in mind at the default 30
  Hz (8 * 150 = 1,200 writes per interval), where nobody is crowded out as long as
  ticks are on time; below 26 Hz a full server is (section 5).
- **AoiProofs.** Inductive invariant: `TypeOK`, `WorkIsScheduled` and, per session,
  `Delivery`: there is one delivery at most, what it owes is in its cell and ahead of
  its cursor, and if it has sent something its cell was told of. That the cursor goes
  to the smallest row ahead is what keeps the rest ahead of it; a row moored or moved
  behind it meanwhile was not owed. Results: `TypeCorrect`, `WorkAlwaysScheduled`,
  `CellsDeliveredWhole`, for any radius, any budgets and any number of rows.
- **SnapshotsProofs.** Its first part is a theory of the order that goes round: it is
  a strict order on any finite set, with the places 0 to the size less 1; the first n
  have n elements; and going on after the last of them leaves the others where they
  were, n places further to the front (`MovesUp`), with the n behind them
  (`OrderAdvances`). Both round robins are instances of it. The inductive invariant has
  four parts:
  - `TypeOK`;
  - `InTime`: the ticks since a recipient's last visit and the ids between the cursor
    and it are together at most the cadence and the number of ids. The counter of ticks
    wraps, and only this says that the difference the code computes has not come round.
    It has to count ids and not live peers, since sessions come and go meanwhile;
  - `Served`: what a player has waited, the ticks to the recipient's next visit (`Wait`)
    and a period for each visit after that one up to the player's packet (`Packets`) are
    within the bound. `Wait` has two modes, not due yet and due and waiting for the
    cursor, and their change is where cadence and round robin beat against each other;
    `Packets` counts the rest of a round that a change of sessions cut short on its own,
    which is the one turn more in the bound;
  - `Sorted`: the order of the next packets is the order of the waits.

  After a change of the sessions every wait is 0, and `Served` and `Sorted` follow from
  the types alone, wherever the cursors are; a tick keeps them. Results: `TypeCorrect`,
  `VisitedInTime`, `NobodyStarves` (`RecurrenceBounded`), `LongestWaitGoesFirst`. From
  the bound, `ShownInTime`: the promise of `validate` that `snapshots_expiry` refutes
  holds when `WorstWait(cfg) + 1 < expiry_ticks(cfg)`, the bound for the peers the
  configuration admits. At the default rates 512 peers satisfy it (89 of 150 ticks); the
  default of 1,024 peers does not (153), and of it the theorem says nothing.

Only model-checked:

- liveness (`TradeSettled`, `ChatWorkedOff`, `ActivityPersisted`,
  `AreaDelivered`, `Connected`), which this prover has no rules for;
- `SilentPeerDropped`, whose argument counts visits of the cursor across polls;
- `ReadAsSent` and `PacketsFit`: the reader follows offsets, a RECURSIVE operator, with
  which the prover loses its SMT backend, and the inputs are the code's own finite set
  of tables and limits.

## 5. Where the code and its documentation differ

With a run that shows it:

- `lifecycle_loss`: `docs/02-architecture/persistence.md:51` says that a crash loses at
  most one interval. Activity just after a flush began waits for the next one, and
  there for its turn: `LossBounded` holds with two intervals, and not with one.
- `snapshots_expiry`: `sw-server/src/config.rs:68` calls `snapshot_recurrence_ticks` the
  worst case between two advertisements, and `validate` compares it with the client's
  expiry. It is computed for `max_transport_peers` only. With fewer live peers a round
  is shorter, a recipient may be looked at just before it is due and then waits for
  another round. `tick_hz` 30, `snapshot_hz` 1 and 1,000 peers are accepted with 96
  ticks; with 928 live peers a player returns after 174, beyond the 150 of the expiry.

As the exception of a property that holds only with it:

- `AcceptedIsDurable`, ids that two players chose: `Ledger::apply` answers a transaction
  id it finds with "accepted", whoever committed it. A player who chose the id of another
  one is told so of a transaction that is not in the log, with the other player's
  balance; `sw-econ/src/lib.rs:8` says that accepted transactions are committed to it.
  `Market::apply` answers for a trade's id in the same way.
- `TradeSettled`, ids outside `Storable`: a trade id above i64::MAX is a legal wire value
  (`econ.fbs:16`) that `Db::lookup_trade` cannot bind; `on_trade` fails before it answers,
  each time the trade is resent. `Db::lookup_txn` casts its id and does not fail.
- `LossBounded` and `ActivityPersisted`, players that are `Crowded`: `server.rs:57` says
  that 1,024 sessions drain in 128 ticks, which is less than the five seconds at 30 Hz.
  `validate` accepts 1,024 peers at 20 Hz, 800 writes per interval: each new flush starts
  over from the lowest id, and as long as the others play on the highest ids are not
  written before the shutdown.

Also visible in the models, without a run of their own:

- `Ledger!LookupTxn`: `sw-econ/src/lib.rs:4` says that replaying a transaction returns the
  original result. `Db::lookup_txn` joins the row with the balance the player has *now*,
  so a replay after another transaction answers differently.

- `Ledger!RefusedStaysRefused`: nothing is recorded of a refused transaction, so a
  delayed copy is applied once the balance suffices, although its player was told it
  was refused; `docs/02-architecture/networking.md:38` calls a duplicate harmless.
- `Sessions!HelloKeysActive`: a hello that follows the eviction of its peer in the same
  batch charges the hello limiter for a peer that is gone, and no event clears the
  entry; `sw-server/src/ratelimit.rs:4` says the map holds active keys.
- `Lifecycle!ErrorMeansLoss`: when the third attempt of `flush_all` saves everybody who
  was left, it still returns an error, "shutdown persistence failed for 0 player(s)
  after 3 attempts".
- The limit of a mooring's name is tight only for a record without zero fields; with a
  zero `created_at` a longer name would fit. The length of `server_name` is not
  validated, and a long one makes every ServerHello exceed the MTU. A chat line and a
  display name that are each within their limits may be too long together; the line is
  then accepted and dropped when it is sent (`server.rs:952`). `root_as_envelope` does
  not look at the file identifier; the client does.

## 6. Not modelled, and what is left

Not modelled because there is nothing for a model checker in it: the world clock's, the
coordinate checks' and the interpolator's float arithmetic; the client's ring of
samples, which one thread fills in order of arrival with no promise about their order;
the main thread's queue of callbacks; reading the configuration from file, environment
and arguments; the reflection adapters of the game API, which is not in the repository;
plugins, generators and test harnesses.

Modelled in part: the eviction of the oldest key of a full bounded limiter is left out
(its maps are as large as the peers and players it can meet), and of the client's
connection a second `Connect` by the user, `Dispose`, and a hello too large for the
transport.

What is left: a composition of `Handshake` with `Transport`'s watermarks, for datagrams
that outlive a connection.
