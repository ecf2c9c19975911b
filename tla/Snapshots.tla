------------------------------ MODULE Snapshots ------------------------------
(***************************************************************************)
(* The snapshot scheduler: broadcast_snapshots of sw-server, called once a *)
(* tick, with the sessions that join, move and leave between two ticks and *)
(* a configuration that `validate` accepted.                               *)
(*                                                                         *)
(* Two round robins are nested.  Each tick takes the next recipients after *)
(* a cursor over the peers; a recipient that is due is shown the next few  *)
(* of the players around it after its own cursor.  Peers and players are   *)
(* numbers, each kept in order by the code (BTreeSet): what it takes from  *)
(* a range of one is here a set of numbers with an order that goes round.  *)
(***************************************************************************)
EXTENDS Config, FiniteSets

CONSTANTS
    Peer,              \* numbers, the ids of peers
    Player,            \* numbers, the ids of players
    Logins,            \* pairs: the players as which the user of a peer may log in
    Cell,              \* numbers, the cells in which a player may be
    Configs,           \* the configurations a run starts from
    TickModulus,       \* the width of the tick counter: 2^32 in the code
    MaxChanges,        \* bounds how often a session joins, leaves or moves
    None

ASSUME SnapshotsAssumption ==
    /\ Peer \subseteq Nat /\ IsFiniteSet(Peer)
    /\ Player \subseteq Nat
    /\ Logins \subseteq Peer \X Player
    /\ Cell \subseteq Int /\ 0 \in Cell
    /\ TickModulus \in Nat \ {0}
    /\ MaxChanges \in Nat
    /\ None \notin Int

\* The counter of ticks is wide enough that a recipient which is due stays so
\* while the cursor goes once through the ids of peers: at most 255 and 1,024
\* ticks in the code, against 2^32.
ASSUME TickAssumption ==
    \A c \in Configs : validate(c) => ticks_per_snapshot(c) + Cardinality(Peer) < TickModulus

VARIABLES
    cfg,           \* the configuration
    sessions,      \* the live sessions, by peer
    tick,          \* snapshot_tick
    cursor,        \* snapshot_recipient_cursor
    changes,       \* how often a session has joined, left or moved
    age,           \* history: ticks since a player was last shown to a
                   \* recipient, or since the sessions last changed
    shown          \* history: the pairs of a recipient and a player it was
                   \* shown since then

vars == <<cfg, sessions, tick, cursor, changes, age, shown>>

Live == DOMAIN sessions
Players == {sessions[p].player_id : p \in Live}

\* A new session: in the origin's cell, its turn not begun.
NewSession(player) ==
    [player_id |-> player, cell |-> 0, cursor |-> None, remaining |-> 0, last_visit |-> 0]

\* The waits start again.
Changed ==
    /\ age' = [v \in Live' |-> [w \in Players' |-> 0]]
    /\ shown' = {}
    /\ changes' = changes + 1

\* Before the first tick, with the sessions that the first poll let in.
Init ==
    /\ cfg \in {c \in Configs : validate(c)}
    /\ \E live \in SUBSET Peer : \E login \in [live -> Player] :
          /\ \A p \in live : <<p, login[p]>> \in Logins
          /\ \A p, q \in live : login[p] = login[q] => p = q
          /\ Cardinality(live) <= cfg.max_transport_peers
          /\ sessions = [p \in live |-> NewSession(login[p])]
    /\ age = [v \in Live |-> [w \in Players |-> 0]]
    /\ shown = {}
    /\ tick = 0
    /\ cursor = None
    /\ changes = 0

-----------------------------------------------------------------------------
(* The sessions change.  A player that logs in again elsewhere leaves      *)
(* first.                                                                  *)

Join(p, player) ==
    /\ changes < MaxChanges
    /\ p \notin Live
    /\ player \notin Players
    /\ Cardinality(Live) < cfg.max_transport_peers
    /\ sessions' = [q \in Live \cup {p} |-> IF q = p THEN NewSession(player) ELSE sessions[q]]
    /\ Changed
    /\ UNCHANGED <<cfg, tick, cursor>>

Leave(p) ==
    /\ changes < MaxChanges
    /\ p \in Live
    /\ sessions' = [q \in Live \ {p} |-> sessions[q]]
    /\ Changed
    /\ UNCHANGED <<cfg, tick, cursor>>

Move(p, cell) ==
    /\ changes < MaxChanges
    /\ p \in Live
    /\ cell # sessions[p].cell
    /\ sessions' = [sessions EXCEPT ![p].cell = cell]
    /\ Changed
    /\ UNCHANGED <<cfg, tick, cursor>>

-----------------------------------------------------------------------------
(* Numbers in the order in which they come after one of them, and then     *)
(* from the smallest: range((Excluded(after), Unbounded)) and              *)
(* range(..=after).                                                        *)

Precedes(after, a, b) ==
    IF a > after <=> b > after THEN a < b ELSE a > after

Ahead(after, S, a) == {b \in S : Precedes(after, b, a)}

\* The first n of a set, or all of it.
First(n, S, after) == {a \in S : Cardinality(Ahead(after, S, a)) < n}

LastOf(S, after) == CHOOSE a \in S : \A b \in S \ {a} : Precedes(after, b, a)

-----------------------------------------------------------------------------
(* A tick.                                                                 *)

\* Mutant of Recipients: the cursor is not looked at.
RecipientsFirst == First(SNAPSHOT_PACKETS_PER_TICK, Live, -1)

\* The recipient the last tick ended with; None is before all.
RecipientCursor == IF cursor = None THEN -1 ELSE cursor

\* ordered_peers_after
Recipients == First(SNAPSHOT_PACKETS_PER_TICK, Live, RecipientCursor)

\* The players the AoI filter lets through.
Near(v) ==
    LET radius == cfg.aoi_radius_cells
    IN  {sessions[p].player_id :
            p \in {q \in Live \ {v} : sessions[q].cell - sessions[v].cell \in -radius..radius}}

\* player_candidates_after, the AoI filter and the ceiling.
Selected(v) == First(SNAPSHOT_VISIBILITY_CEILING, Near(v), sessions[v].player_id)

Due(v, now) ==
    \/ sessions[v].last_visit = 0
    \/ (now - sessions[v].last_visit) % TickModulus >= ticks_per_snapshot(cfg)

\* Mutant of Begin: every packet starts over.
BeginFirst(v) == sessions[v].player_id

\* The number after which a recipient's packet starts.
Begin(v) ==
    IF sessions[v].cursor \in Selected(v) THEN sessions[v].cursor ELSE sessions[v].player_id

\* How many are left of the round through what it is shown.
Left(v) ==
    LET s == sessions[v]
        all == Cardinality(Selected(v))
    IN  IF s.remaining = 0 \/ s.cursor \notin Selected(v) THEN all
        ELSE Min({s.remaining, all})

\* The players in the packet of a recipient that is due.
Shown(v) == First(Min({Left(v), SNAPSHOT_ENTITIES_PER_PACKET}), Selected(v), Begin(v))

Visited(v, now) ==
    IF Selected(v) = {}
      THEN [sessions[v] EXCEPT !.last_visit = now, !.cursor = None, !.remaining = 0]
      ELSE [sessions[v] EXCEPT !.last_visit = now,
                               !.cursor = LastOf(Shown(v), Begin(v)),
                               !.remaining = Left(v) - Cardinality(Shown(v))]

Visits(now) == {v \in Recipients : Due(v, now)}

\* broadcast_snapshots
Tick ==
    LET now == (tick + 1) % TickModulus
        visits == Visits(now)
        shows == UNION {{<<v, w>> : w \in Shown(v)} : v \in visits}
    IN  /\ tick' = now
        /\ cursor' = IF Recipients = {} THEN cursor ELSE LastOf(Recipients, RecipientCursor)
        /\ sessions' = [v \in Live |-> IF v \in visits THEN Visited(v, now) ELSE sessions[v]]
        /\ age' = [v \in Live |-> [w \in Players |->
                      IF <<v, w>> \in shows \/ w \notin Selected(v) THEN 0 ELSE age[v][w] + 1]]
        /\ shown' = shown \cup shows
        /\ UNCHANGED <<cfg, changes>>

Next ==
    \/ \E p \in Peer, player \in Player : <<p, player>> \in Logins /\ Join(p, player)
    \/ \E p \in Peer : Leave(p)
    \/ \E p \in Peer, cell \in Cell : Move(p, cell)
    \/ Tick

Spec == Init /\ [][Next]_vars

-----------------------------------------------------------------------------
(* What holds, and what the documentation says.                            *)

Session ==
    [player_id : Player, cell : Cell, cursor : Player \cup {None}, remaining : Nat,
     last_visit : 0..(TickModulus - 1)]

\* Type invariant: no two sessions have the same player.
TypeOK ==
    /\ cfg \in Configs /\ validate(cfg)
    /\ Live \subseteq Peer /\ sessions \in [Live -> Session]
    /\ \A p, q \in Live : sessions[p].player_id = sessions[q].player_id => p = q
    /\ Cardinality(Live) <= cfg.max_transport_peers
    /\ tick \in 0..(TickModulus - 1)
    /\ cursor \in Peer \cup {None}
    /\ changes \in 0..MaxChanges
    /\ age \in [Live -> [Players -> Nat]]
    /\ shown \subseteq Live \X Players

\* The most ticks between two visits of a recipient while n peers are live.
Gap(n) == ticks_per_snapshot(cfg) + checked_div_ceil(n, SNAPSHOT_PACKETS_PER_TICK) - 1

\* Once the sessions stay as they are, no player that a recipient is shown is
\* left out for longer than one turn more than the packets of a round, at most
\* Gap ticks apart: with the cursors wherever the change left them, the counter
\* of ticks wrapping, and however the round robin of the peers and the cadence
\* of a recipient fall together.
RecurrenceBounded ==
    \A v \in Live, w \in Players :
        age[v][w] <= Gap(Cardinality(Live))
                        * (1 + checked_div_ceil(Cardinality(Selected(v)), SNAPSHOT_ENTITIES_PER_PACKET))

\* A packet shows the players that have waited longest: nobody is shown again
\* to a recipient while somebody else in its view has waited longer.
LongestWaitFirst ==
    [][Tick =>
        \A v \in Live : \A w, x \in Selected(v) :
            (age'[v][w] = 0 /\ age'[v][x] # 0) => age[v][w] >= age[v][x]]_vars

\* What validate promises of a configuration it accepts: the ticks between two
\* showings of a player in a stable selection, which are age + 1 or more, are
\* less than those after which a client forgets it.
ShownBeforeExpiry == \A pair \in shown : age[pair[1]][pair[2]] + 1 < expiry_ticks(cfg)
=============================================================================
