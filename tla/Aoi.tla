--------------------------------- MODULE Aoi ---------------------------------
(***************************************************************************)
(* Areas of interest: the cells around a player (sw-world Subscription),   *)
(* the bounded delivery of their changes and of their contents             *)
(* (process_aoi_work of sw-server), and the moorings that are part of the  *)
(* contents (on_moor, sw-persist table moorings).                          *)
(*                                                                         *)
(* Cells are numbers on a line: the order (cz, cx) of the code is theirs,  *)
(* and the cells around one are those at most Radius away.  A session is   *)
(* bound to one player for its life, so peers stand for their players.     *)
(***************************************************************************)
EXTENDS Integers, Sequences, FiniteSets, FiniteSetsExt

CONSTANTS
    Peer, Boat,            \* numbers; a boat may bear the number of a player
    Cell,                  \* the cells in which a player may be, 0 the origin's
    Radius,                \* aoi_radius_cells
    CellsPerUpdate,        \* AOI_CELLS_PER_UPDATE
    ScanPerWork,           \* CELL_ENTITY_SCAN_PER_WORK
    EntitiesPerPacket,     \* CELL_ENTITIES_PER_PACKET
    LegacyBoats,           \* boats with a name that an earlier server accepted
    MaxChanges,            \* bounds joins after the first, departures and moves
    MaxMoors,              \* bounds the requests to moor
    MaxFailures,           \* bounds the ticks in which a query fails
    None

ASSUME AoiAssumption ==
    /\ Peer \subseteq Nat \ {0} /\ IsFiniteSet(Peer)
    /\ Boat \subseteq Nat \ {0} /\ IsFiniteSet(Boat)
    /\ LegacyBoats \subseteq Boat
    /\ Cell \subseteq Int /\ 0 \in Cell /\ IsFiniteSet(Cell)
    /\ {Radius, MaxChanges, MaxMoors, MaxFailures} \subseteq Nat
    /\ {CellsPerUpdate, ScanPerWork, EntitiesPerPacket} \subseteq Nat \ {0}

VARIABLES
    sessions,      \* the live sessions, by peer
    recipients,    \* aoi_recipients: the peers with work
    cursor,        \* aoi_recipient_cursor
    moorings,      \* the table: the cell of each boat, None if it is not moored
    legacy,        \* the boats whose rows have a name that is too long
    changes, moors, failures,   \* what the bounds count
    owed,          \* history, per peer: the rows <<cell, boat>> that were there
                   \* when the delivery of the cell began, and are still to come
    told           \* history, per peer: cells a snapshot of which was sent

vars == <<sessions, recipients, cursor, moorings, legacy, changes, moors, failures, owed, told>>

Live == DOMAIN sessions

Without(f, k) == [x \in DOMAIN f \ {k} |-> f[x]]
With(f, k, v) == [x \in DOMAIN f \cup {k} |-> IF x = k THEN v ELSE f[x]]

\* The first n members of a set of numbers.
Lowest(S, n) == {x \in S : Cardinality({y \in S : y < x}) < n}

\* The first n members of a set of numbers, from the one after `after` around to it.
FirstAfter(S, after, n) ==
    LET above == IF after = None THEN S ELSE {x \in S : x > after}
        place(x) == 1 + IF x \in above
                          THEN Cardinality({y \in above : y < x})
                          ELSE Cardinality(above) + Cardinality({y \in S \ above : y < x})
    IN  [i \in 1..Min({n, Cardinality(S)}) |-> CHOOSE x \in S : place(x) = i]

\* The member after `after`, or the first one when there is none.
NextAfter(S, after) == FirstAfter(S, after, 1)[1]

cells_in_radius(center) == (center - Radius)..(center + Radius)

\* A new session: in the origin's cell, nothing of its area published.  `waiting`
\* are the hydration_cells; `active` holds the active_hydration, if there is one.
NewSession ==
    [cell |-> 0, published |-> {}, waiting |-> {}, hcursor |-> None, active |-> {}]

Sub(s) == cells_in_radius(s.cell)

\* session_has_aoi_work
HasWork(s) == s.published # Sub(s) \/ s.active # {} \/ s.waiting # {}

\* A server before its first tick, with the rows that are in its database.
Init ==
    /\ sessions = << >>
    /\ recipients = {}
    /\ cursor = None
    /\ moorings \in [Boat -> Cell \cup {None}]
    /\ legacy = LegacyBoats
    /\ changes = 0 /\ moors = 0 /\ failures = 0
    /\ owed = << >> /\ told = << >>

-----------------------------------------------------------------------------
(* What the events of a poll do.                                           *)

\* An accepted hello: register_session schedules the whole area.
Join(p) ==
    /\ changes < MaxChanges
    /\ p \in Peer \ Live
    /\ sessions' = With(sessions, p, NewSession)
    /\ owed' = With(owed, p, {}) /\ told' = With(told, p, {})
    /\ recipients' = recipients \cup {p}
    /\ changes' = changes + 1
    /\ UNCHANGED <<cursor, moorings, legacy, moors, failures>>

Leave(p) ==
    /\ changes < MaxChanges
    /\ p \in Live
    /\ sessions' = Without(sessions, p)
    /\ owed' = Without(owed, p) /\ told' = Without(told, p)
    /\ recipients' = recipients \ {p}
    /\ changes' = changes + 1
    /\ UNCHANGED <<cursor, moorings, legacy, moors, failures>>

\* emit_aoi: the area changed.
Scheduled(p, from, to) ==
    IF cells_in_radius(from) = cells_in_radius(to) THEN recipients ELSE recipients \cup {p}

\* on_client_state, recentred on another cell.
Move(p, cell) ==
    /\ changes < MaxChanges
    /\ p \in Live
    /\ cell # sessions[p].cell
    /\ sessions' = [sessions EXCEPT ![p].cell = cell]
    /\ recipients' = Scheduled(p, sessions[p].cell, cell)
    /\ changes' = changes + 1
    /\ UNCHANGED <<cursor, moorings, legacy, moors, failures, owed, told>>

\* on_moor and upsert_mooring: the row of the boat is written or moves.
Moor(boat, cell) ==
    /\ moors < MaxMoors
    /\ Live # {}
    /\ moorings' = [moorings EXCEPT ![boat] = cell]
    /\ legacy' = legacy \ {boat}
    /\ owed' = [p \in Live |-> {r \in owed[p] : r[2] # boat \/ r[1] = cell}]
    /\ moors' = moors + 1
    /\ UNCHANGED <<sessions, recipients, cursor, changes, failures, told>>

-----------------------------------------------------------------------------
(* process_aoi_work: a tick gives one work item to each of the next few        *)
(* recipients.  The items of a tick touch nothing but the session and the      *)
(* schedule of their own recipient, so a tick is a run of the actions below,   *)
(* each of which is one item of the recipient whose turn it is.                *)

\* Mutant of NeedsMore: after an error the peer is left out.
NeedsMoreUnlessFailed(s, failed) == HasWork(s) /\ ~failed

NeedsMore(s, failed) == failed \/ HasWork(s)

\* The end of an item of p, which leaves its session as s.
Served(p, s, failed) ==
    /\ cursor' = p
    /\ recipients' = IF NeedsMore(s, failed) THEN recipients ELSE recipients \ {p}
    /\ sessions' = [sessions EXCEPT ![p] = s]
    /\ failures' = IF failed THEN failures + 1 ELSE failures
    /\ UNCHANGED <<moorings, legacy, changes, moors>>

\* next_aoi_chunk
Removed(s) == Lowest(s.published \ Sub(s), CellsPerUpdate)
Added(s) == Lowest(Sub(s) \ s.published, CellsPerUpdate - Cardinality(Removed(s)))

\* Some cells that were left and entered are published.
SendChunk(p) ==
    LET s == sessions[p]
        gone == Removed(s)
    IN  /\ Removed(s) \cup Added(s) # {}
        /\ Served(p, [s EXCEPT !.published = (@ \ gone) \cup Added(s),
                               !.waiting = (@ \ gone) \cup Added(s),
                               !.active = {h \in @ : h.cell \notin gone}],
                  FALSE)
        /\ owed' = [owed EXCEPT ![p] = {r \in @ : r[1] \notin gone}]
        /\ told' = [told EXCEPT ![p] = @ \ gone]

\* The start of the delivery of a cell.
Hydration(cell) ==
    [cell |-> cell, pcursor |-> None, premaining |-> Cardinality(Live), mcursor |-> None,
     pcomplete |-> Live = {}, sent_any |-> FALSE]

\* Mutant of Prepared: the cell stays among those that wait.
PreparedAgain(s) ==
    IF s.active # {} THEN {s}
    ELSE {[s EXCEPT !.hcursor = cell, !.active = {Hydration(cell)}] :
             cell \in {c \in s.waiting : c = NextAfter(s.waiting, s.hcursor)}}

\* prepare_cell_hydration: the next cell, if none is being delivered; the session
\* with which the item goes on, or none when no cell waits.
Prepared(s) ==
    IF s.active # {} THEN {s}
    ELSE {[s EXCEPT !.waiting = @ \ {cell}, !.hcursor = cell, !.active = {Hydration(cell)}] :
             cell \in {c \in s.waiting : c = NextAfter(s.waiting, s.hcursor)}}

\* The rows that a delivery which begins now owes.
RowsOf(cell) == {<<cell, b>> : b \in {x \in Boat \ legacy : moorings[x] = cell}}

\* What the item of p owes that delivers h.
Owed(p, h) == IF sessions[p].active = {} THEN RowsOf(h.cell) ELSE owed[p]

\* Nothing is left to publish.
Published(s) == Removed(s) = {} /\ Added(s) = {}

\* Nothing to publish and nothing to deliver.
Idle(p) ==
    /\ Published(sessions[p])
    /\ Prepared(sessions[p]) = {}
    /\ Served(p, sessions[p], FALSE)
    /\ UNCHANGED <<owed, told>>

\* The scan of the players got to `last`, `left` are to come; any of them in the
\* cell were sent.
PlayersSent(p, s, h, last, left, any) ==
    /\ Served(p, [s EXCEPT !.active =
                    {[h EXCEPT !.pcursor = last, !.premaining = left,
                               !.pcomplete = left = 0 \/ left = h.premaining,
                               !.sent_any = @ \/ any]}],
              FALSE)
    /\ told' = [told EXCEPT ![p] = IF any THEN @ \cup {h.cell} ELSE @]
    /\ owed' = [owed EXCEPT ![p] = Owed(p, h)]

\* The next players of the cell: the scan stops when the packet is full.
ScanPlayers(p) ==
    /\ Published(sessions[p])
    /\ \E s \in Prepared(sessions[p]) : \E h \in s.active :
         /\ ~h.pcomplete
         /\ \E scan \in {FirstAfter(Live, h.pcursor, Min({h.premaining, ScanPerWork}))} :
              LET here(n) == {i \in 1..n : sessions[scan[i]].cell = h.cell}
                  full == {n \in 1..Len(scan) : Cardinality(here(n)) = EntitiesPerPacket}
                  examined == IF full = {} THEN Len(scan) ELSE Min(full)
                  last == IF examined = 0 THEN h.pcursor ELSE scan[examined]
              IN  PlayersSent(p, s, h, last, h.premaining - examined, here(examined) # {})

\* Mutant of RowsAfter: the row next to the last one is skipped.
RowsAtLeast(cell, after) ==
    {b \in Boat : moorings[b] = cell /\ (after = None \/ b > after + 1)}

\* moorings_in_cell_after
RowsAfter(cell, after) ==
    {b \in Boat : moorings[b] = cell /\ (after = None \/ b > after)}

\* The query for the next mooring fails.
QueryFails(p, s, h) ==
    /\ failures < MaxFailures
    /\ Served(p, s, TRUE)
    /\ owed' = [owed EXCEPT ![p] = Owed(p, h)]
    /\ UNCHANGED told

\* No mooring is left: an empty snapshot is sent if there was no other.
CellComplete(p, s, h) ==
    /\ RowsAfter(h.cell, h.mcursor) = {}
    /\ Served(p, [s EXCEPT !.active = {}], FALSE)
    /\ owed' = [owed EXCEPT ![p] = Owed(p, h)]
    /\ told' = [told EXCEPT ![p] = IF h.sent_any THEN @ ELSE @ \cup {h.cell}]

\* The next mooring is sent, unless its name is too long.
SendMooring(p, s, h) ==
    \E row \in RowsAfter(h.cell, h.mcursor) :
        /\ \A b \in RowsAfter(h.cell, h.mcursor) : row <= b
        /\ \/ /\ row \in legacy
              /\ Served(p, [s EXCEPT !.active = {[h EXCEPT !.mcursor = row]}], FALSE)
              /\ owed' = [owed EXCEPT ![p] = Owed(p, h)]
              /\ UNCHANGED told
           \/ /\ row \notin legacy
              /\ Served(p, [s EXCEPT !.active = {[h EXCEPT !.mcursor = row, !.sent_any = TRUE]}], FALSE)
              /\ owed' = [owed EXCEPT ![p] = Owed(p, h) \ {<<h.cell, row>>}]
              /\ told' = [told EXCEPT ![p] = @ \cup {h.cell}]

\* The moorings of the cell, one at a time, once its players are through.
NextMooring(p) ==
    /\ Published(sessions[p])
    /\ \E s \in Prepared(sessions[p]) : \E h \in s.active :
         /\ h.pcomplete
         /\ QueryFails(p, s, h) \/ CellComplete(p, s, h) \/ SendMooring(p, s, h)

\* process_one_aoi_work for the recipient whose turn it is.
Work ==
    \E p \in recipients :
        /\ p = NextAfter(recipients, cursor)
        /\ SendChunk(p) \/ Idle(p) \/ ScanPlayers(p) \/ NextMooring(p)

Next ==
    \/ \E p \in Peer : Join(p) \/ Leave(p)
    \/ \E p \in Peer, cell \in Cell : Move(p, cell)
    \/ \E boat \in Boat, cell \in Cell : Moor(boat, cell)
    \/ Work

Spec == Init /\ [][Next]_vars

\* The loop of Server::run never stops ticking.
FairSpec == Spec /\ WF_vars(Work)

-----------------------------------------------------------------------------
(* What holds.                                                             *)

TypeOK ==
    /\ Live \subseteq Peer
    /\ DOMAIN owed = Live /\ DOMAIN told = Live
    /\ cursor \in Peer \cup {None}
    /\ moorings \in [Boat -> Cell \cup {None}] /\ legacy \subseteq Boat
    /\ changes \in 0..MaxChanges /\ moors \in 0..MaxMoors /\ failures \in 0..MaxFailures

\* No work is forgotten: between two ticks, all live sessions of which
\* something is still to be told are scheduled, after changes of the area, half
\* delivered cells, failed queries and departures.  (The peers whose area was
\* left and entered again before its turn may be scheduled for nothing.)
WorkIsScheduled ==
    /\ recipients \subseteq Live
    /\ \A p \in Live : HasWork(sessions[p]) => p \in recipients

\* A cell that counts as delivered was: some snapshot of it was sent since the
\* client was told of the cell, and every mooring that was in the cell when its
\* delivery began, and still is, was in one, whatever was moored meanwhile,
\* whichever queries failed and wherever the player went in between.
DeliveredWhole ==
    \A p \in Live :
        LET s == sessions[p]
            open == s.waiting \cup {h.cell : h \in s.active}
        IN  /\ open \subseteq s.published
            /\ s.published \ open \subseteq told[p]
            /\ \A r \in owed[p] : \E h \in s.active : r[1] = h.cell

\* Everybody is served: whoever stays connected is in the end told of the whole
\* area around it and of what is in it, while others have work too and each tick
\* serves only some.
AreaDelivered ==
    \A p \in Peer : [](p \in Live => <>(p \notin Live \/ ~HasWork(sessions[p])))
=============================================================================
