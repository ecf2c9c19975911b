------------------------------ MODULE Lifecycle ------------------------------
(***************************************************************************)
(* One server process after another on the same database: start-up, the    *)
(* persistence of player activity, and the way the process ends.           *)
(*                                                                         *)
(* Server::new opens and migrates the database, loads the identities,      *)
(* reads or stores the world's epoch and weather seed, and binds.  In the  *)
(* fixed-tick loop a message of a player makes it dirty; every             *)
(* FLUSH_INTERVAL the dirty players join the ones to flush, and each tick  *)
(* writes a few of them, smallest id first, until a write fails, which     *)
(* pauses the flush until the next interval.  A disconnect writes at once. *)
(* Ctrl-c ends the loop, and flush_all tries three times to write          *)
(* everybody who is left.  A crash may come anywhere.                      *)
(*                                                                         *)
(* What is written is players.last_seen, so all that matters of a row is   *)
(* how long ago the activity was that it does not reflect yet.  Sessions   *)
(* are named by their player: Sessions shows that a player has one at most.*)
(***************************************************************************)
EXTENDS Integers, FiniteSets

CONSTANTS
    Player,            \* player ids
    UpdatesPerTick,    \* DIRTY_DB_UPDATES_PER_TICK
    MinTicksPerFlush,  \* ticks that begin in one FLUSH_INTERVAL: the least, when ticks
                       \* take longer than tick_hz asks for, ...
    MaxTicksPerFlush,  \* ... and the most, when they sleep for the rest of their time
    FlushAttempts,     \* SHUTDOWN_FLUSH_ATTEMPTS
    MaxBoots           \* bound: processes ever started

ASSUME LifecycleAssumption ==
    /\ Player \subseteq Nat /\ IsFiniteSet(Player)
    /\ UpdatesPerTick \in Nat \ {0}
    /\ MaxTicksPerFlush \in Nat \ {0}
    /\ MinTicksPerFlush \in 1..MaxTicksPerFlush
    /\ FlushAttempts \in Nat \ {0}
    /\ MaxBoots \in Nat

Key == {"clock_epoch_ms", "weather_seed"}

SCHEMA_VERSION == 2

\* Longer than any wait that is promised, and the wait of a player to whom
\* nothing is promised: a write failed that held up its own, or the flush began
\* with more players before it than the interval's ticks write.
Overdue == MaxTicksPerFlush + MinTicksPerFlush + 1
Excused == Overdue + 1

VARIABLES
    \* The database.
    user_version,
    world,             \* table world: 0 is no row, n a value chosen by the n-th process
    \* The process.
    phase,
    memory,            \* epoch_ms and weather_seed
    sessions,          \* "none", or a session that is "clean" or "dirty"
    dirty_players,
    flush_players,
    flush_paused,
    ticks,             \* ticks since last_flush
    pending,           \* flush_all: players still to be written
    attempts,          \* flush_all: attempts made
    \* History.
    boots,             \* processes ever started
    told,              \* the epoch and seed the first clients were told
    wait,              \* ticks since the activity that last_seen does not reflect; 0: none
    outcome            \* how the last process ended

dbVars == <<user_version, world>>
flushVars == <<sessions, dirty_players, flush_players, flush_paused, ticks>>
shutdownVars == <<pending, attempts>>
historyVars == <<boots, told, wait, outcome>>
vars == <<dbVars, phase, memory, flushVars, shutdownVars, historyVars>>

NoSessions == [p \in Player |-> "none"]

Unset == [k \in Key |-> 0]

Live == {p \in Player : sessions[p] # "none"}

Unsaved == {p \in Player : wait[p] # 0}

Init ==
    /\ user_version = 0
    /\ world = Unset
    /\ phase = "down"
    /\ memory = Unset
    /\ sessions = NoSessions
    /\ dirty_players = {} /\ flush_players = {} /\ flush_paused = FALSE /\ ticks = 0
    /\ pending = {} /\ attempts = 0
    /\ boots = 0
    /\ told = Unset
    /\ wait = [p \in Player |-> 0]
    /\ outcome = "none"

-----------------------------------------------------------------------------
(* Start-up: main and Server::new.                                         *)

\* A new process on the same database: whatever the last one had not written
\* is gone.
Boot ==
    /\ phase = "down" /\ boots < MaxBoots
    /\ boots' = boots + 1
    /\ phase' = "open"
    /\ memory' = Unset
    /\ sessions' = NoSessions
    /\ dirty_players' = {} /\ flush_players' = {} /\ flush_paused' = FALSE /\ ticks' = 0
    /\ pending' = {} /\ attempts' = 0
    /\ wait' = [p \in Player |-> 0]
    /\ outcome' = "none"
    /\ UNCHANGED <<dbVars, told>>

\* Db::migrate: one transaction per version, from the one the database has.
Migrate ==
    /\ phase = "open"
    /\ IF user_version < SCHEMA_VERSION
       THEN user_version' = user_version + 1 /\ UNCHANGED phase
       ELSE phase' = "epoch" /\ UNCHANGED user_version
    /\ UNCHANGED <<world, memory, flushVars, shutdownVars, historyVars>>

\* Mutant of GetOrInit: the default is used and not stored.
GetOrDefault(key) ==
    /\ memory' = [memory EXCEPT ![key] = IF world[key] # 0 THEN world[key] ELSE boots]
    /\ UNCHANGED world

\* Db::world_get_or_init with a value of this process as the default.
GetOrInit(key) ==
    LET value == IF world[key] # 0 THEN world[key] ELSE boots
    IN  /\ world' = [world EXCEPT ![key] = value]
        /\ memory' = [memory EXCEPT ![key] = value]

InitEpoch ==
    /\ phase = "epoch"
    /\ GetOrInit("clock_epoch_ms")
    /\ phase' = "seed"
    /\ UNCHANGED <<user_version, flushVars, shutdownVars, historyVars>>

InitSeed ==
    /\ phase = "seed"
    /\ GetOrInit("weather_seed")
    /\ phase' = "bind"
    /\ UNCHANGED <<user_version, flushVars, shutdownVars, historyVars>>

\* The socket is bound and the loop begins; every hello from now on tells the
\* clock and the seed.
Bind ==
    /\ phase = "bind"
    /\ phase' = "loop"
    /\ told' = IF told = Unset THEN memory ELSE told
    /\ UNCHANGED <<dbVars, memory, flushVars, shutdownVars, boots, wait, outcome>>

\* The process is killed, or an error of start-up ends it.
Die ==
    /\ phase # "down"
    /\ phase' = "down"
    /\ outcome' = "died"
    /\ UNCHANGED <<dbVars, memory, flushVars, shutdownVars, boots, told, wait>>

-----------------------------------------------------------------------------
(* The loop: Server::run.                                                  *)

\* `while self.running`: one more tick, or the flush of the shutdown.
Poll ==
    /\ phase = "loop"
    /\ phase' = "events"
    /\ UNCHANGED <<dbVars, memory, flushVars, shutdownVars, historyVars>>

\* on_hello_at: admission writes last_seen, and the new session, also one
\* that replaces a session of the player on another peer, starts dirty.
Hello(p) ==
    /\ phase = "events"
    /\ sessions' = [sessions EXCEPT ![p] = "dirty"]
    /\ dirty_players' = dirty_players \cup {p}
    /\ wait' = [wait EXCEPT ![p] = 0]
    /\ UNCHANGED <<dbVars, phase, memory, flush_players, flush_paused, ticks,
                   shutdownVars, boots, told, outcome>>

\* on_client_state.
ClientState(p) ==
    /\ phase = "events"
    /\ p \in Live
    /\ sessions' = [sessions EXCEPT ![p] = "dirty"]
    /\ dirty_players' = dirty_players \cup {p}
    /\ wait' = [wait EXCEPT ![p] = IF @ = 0 THEN 1 ELSE @]
    /\ UNCHANGED <<dbVars, phase, memory, flush_players, flush_paused, ticks,
                   shutdownVars, boots, told, outcome>>

\* on_disconnect: last_seen is written at once.
Disconnect(p) ==
    /\ phase = "events"
    /\ p \in Live
    /\ sessions' = [sessions EXCEPT ![p] = "none"]
    /\ flush_players' = flush_players \ {p}
    /\ dirty_players' = dirty_players \ {p}
    /\ wait' = [wait EXCEPT ![p] = 0]
    /\ UNCHANGED <<dbVars, phase, memory, flush_paused, ticks,
                   shutdownVars, boots, told, outcome>>

\* on_disconnect when the write fails: the player stays with the flush, which
\* is paused for everybody.
DisconnectFails(p) ==
    /\ phase = "events"
    /\ p \in Live
    /\ sessions' = [sessions EXCEPT ![p] = "none"]
    /\ flush_players' = flush_players \cup {p}
    /\ flush_paused' = TRUE
    /\ wait' = [q \in Player |-> IF wait[q] = 0 THEN 0 ELSE Excused]
    /\ UNCHANGED <<dbVars, phase, memory, dirty_players, ticks,
                   shutdownVars, boots, told, outcome>>

EndEvents ==
    /\ phase = "events"
    /\ phase' = "flush"
    /\ UNCHANGED <<dbVars, memory, flushVars, shutdownVars, historyVars>>

\* The members of a BTreeSet of ids that are taken before p.
Before(S, p) == {q \in S : q < p}

\* Mutant of Batch: the largest ids first.
BatchLast ==
    {p \in flush_players :
        Cardinality({q \in flush_players : p < q}) < UpdatesPerTick}

\* The players a tick may write: the first of flush_players in their order.
Batch == {p \in flush_players : Cardinality(Before(flush_players, p)) < UpdatesPerTick}

\* Mutant of CleanAfter: a player that became dirty again is marked clean.
CleanAlways(p) == "clean"

\* The session's dirty flag after its player was written.
CleanAfter(p) == IF p \in dirty_players THEN "dirty" ELSE "clean"

\* The wait of a player that nobody has written, one tick later.
Later(n) == IF n \in {0, Overdue, Excused} THEN n ELSE n + 1

\* process_dirty_flush_at: `done` are written, in order, and then either the
\* batch is at its end or the next write fails and pauses the flush.
ProcessDirtyFlush(done) ==
    /\ phase = "flush"
    /\ done \subseteq Batch
    /\ \A p \in done : \A q \in Batch : q < p => q \in done
    /\ ~flush_paused \/ done = {}
    /\ flush_players' = flush_players \ done
    /\ sessions' = [p \in Player |->
                        IF p \in done \cap Live THEN CleanAfter(p) ELSE sessions[p]]
    /\ LET failed == ~flush_paused /\ done # Batch
       IN  /\ flush_paused' = (flush_paused \/ failed)
           /\ wait' = [p \in Player |->
                         CASE p \in done               -> 0
                           [] p \notin done /\ failed  -> IF wait[p] = 0 THEN 0 ELSE Excused
                           [] p \notin done /\ ~failed -> Later(wait[p])]
    /\ phase' = "cadence"
    /\ UNCHANGED <<dbVars, memory, dirty_players, ticks, shutdownVars, boots, told, outcome>>

\* Mutant of BeginDirtyFlush: a pause is not lifted.
BeginDirtyFlushPaused ==
    /\ flush_players' = flush_players \cup dirty_players
    /\ dirty_players' = {}
    /\ ticks' = 0
    /\ UNCHANGED flush_paused

\* begin_dirty_flush.
BeginDirtyFlush ==
    /\ flush_paused' = FALSE
    /\ flush_players' = flush_players \cup dirty_players
    /\ dirty_players' = {}
    /\ ticks' = 0

\* A flush of S does not reach p in an interval, if its ticks are slow.
Crowded(S, p) == Cardinality(Before(S, p)) >= UpdatesPerTick * MinTicksPerFlush

\* The end of a tick.  FLUSH_INTERVAL is wall-clock time: the next flush begins
\* in the first tick that starts after it is over.
Cadence ==
    /\ phase = "cadence"
    /\ \/ /\ ticks + 1 >= MinTicksPerFlush
          /\ BeginDirtyFlush
          /\ wait' = [p \in Player |->
                        IF wait[p] # 0 /\ Crowded(flush_players', p) THEN Excused
                        ELSE wait[p]]
       \/ /\ ticks + 1 < MaxTicksPerFlush
          /\ ticks' = ticks + 1
          /\ UNCHANGED <<dirty_players, flush_players, flush_paused, wait>>
    /\ phase' = "loop"
    /\ UNCHANGED <<dbVars, memory, sessions, shutdownVars, boots, told, outcome>>

-----------------------------------------------------------------------------
(* The end: Server::flush_all.                                             *)

\* Mutant of ToFlush: only the players of live sessions.
ToFlushLive == Live

\* Whom flush_all has to write.
ToFlush == Live \cup dirty_players \cup flush_players

\* Ctrl-c: the loop ends before its next tick.
Stop ==
    /\ phase = "loop"
    /\ phase' = "shutdown"
    /\ pending' = ToFlush
    /\ flush_players' = flush_players \cup ToFlush
    /\ attempts' = 0
    /\ UNCHANGED <<dbVars, memory, sessions, dirty_players, flush_paused, ticks, historyVars>>

\* One attempt of flush_all: some of the writes succeed.
FlushAttempt(done) ==
    /\ phase = "shutdown"
    /\ attempts < FlushAttempts
    /\ pending # {}
    /\ done \subseteq pending
    /\ attempts' = attempts + 1
    /\ pending' = pending \ done
    /\ flush_players' = flush_players \ done
    /\ dirty_players' = dirty_players \ done
    /\ sessions' = [p \in Player |-> IF p \in done \cap Live THEN "clean" ELSE sessions[p]]
    /\ wait' = [p \in Player |-> IF p \in done THEN 0 ELSE wait[p]]
    /\ UNCHANGED <<dbVars, phase, memory, flush_paused, ticks, boots, told, outcome>>

\* `if pending.is_empty() { return Ok(()) }`, at the head of an attempt.
FlushedAll == pending = {} /\ attempts < FlushAttempts

\* flush_all returns, and with it the process: with Ok, or, when the attempts
\* are used up, with an error.
Exit ==
    /\ phase = "shutdown"
    /\ FlushedAll \/ attempts = FlushAttempts
    /\ phase' = "down"
    /\ outcome' = IF FlushedAll THEN "ok" ELSE "error"
    /\ UNCHANGED <<dbVars, memory, flushVars, shutdownVars, boots, told, wait>>

-----------------------------------------------------------------------------
Loop ==
    \/ Poll \/ EndEvents \/ Cadence
    \/ \E done \in SUBSET Player : ProcessDirtyFlush(done)

Next ==
    \/ Boot \/ Migrate \/ InitEpoch \/ InitSeed \/ Bind \/ Die
    \/ Loop
    \/ \E p \in Player : Hello(p) \/ ClientState(p) \/ Disconnect(p) \/ DisconnectFails(p)
    \/ Stop
    \/ \E done \in SUBSET Player : FlushAttempt(done)
    \/ Exit

Spec == Init /\ [][Next]_vars

\* The process runs: the loop goes on, a tick is over after finitely many
\* events, and a shutdown ends.
FairSpec ==
    /\ Spec
    /\ WF_vars(Loop)
    /\ WF_vars(Exit \/ \E done \in SUBSET Player : FlushAttempt(done))

-----------------------------------------------------------------------------
(* Properties.                                                             *)

Phase == {"down", "open", "epoch", "seed", "bind", "loop", "events", "flush", "cadence",
          "shutdown"}

\* Type invariant.
TypeOK ==
    /\ user_version \in 0..SCHEMA_VERSION
    /\ world \in [Key -> 0..MaxBoots]
    /\ phase \in Phase
    /\ memory \in [Key -> 0..MaxBoots]
    /\ sessions \in [Player -> {"none", "clean", "dirty"}]
    /\ dirty_players \subseteq Player
    /\ flush_players \subseteq Player
    /\ flush_paused \in BOOLEAN
    /\ ticks \in 0..(MaxTicksPerFlush - 1)
    /\ pending \subseteq Player
    /\ attempts \in 0..FlushAttempts
    /\ boots \in 0..MaxBoots
    /\ told \in [Key -> 0..MaxBoots]
    /\ wait \in [Player -> 0..Excused]
    /\ outcome \in {"none", "ok", "error", "died"}

\* While the loop runs, activity that is not in the database belongs to a
\* player that a flush will still write, also after writes that failed,
\* disconnects, and messages that arrive in the middle of a flush; and the
\* dirty flag of a session says exactly that its player is one of these.
ActivityTracked ==
    phase \notin {"down", "shutdown"} =>
        /\ Unsaved \subseteq dirty_players \cup flush_players
        /\ \A p \in Live : sessions[p] = "dirty" <=> p \in dirty_players \cup flush_players

\* Activity is in the database after one interval, until the flush begins, and
\* the ticks the flush takes, which are an interval's at most; messages that
\* arrive during the flush push nobody back.  Nothing is promised to a player
\* when a write failed, or when the flush began with more players before it in
\* the order of ids than UpdatesPerTick in each tick of the interval can write.
LossBounded == \A p \in Player : wait[p] # Overdue

\* "Writes flush on a fixed interval, on player disconnect, and on graceful
\* shutdown, so a crash loses at most one interval of state": no activity that
\* is not in the database is older than an interval, those waits left aside for
\* which LossBounded promises nothing.  (A wait of n is of more than n - 2 ticks.)
LossWithinInterval ==
    \A p \in Player : wait[p] # Excused => wait[p] <= MaxTicksPerFlush + 1

\* flush_all reports success only when everything has been written.
CleanShutdown == outcome = "ok" => Unsaved = {}

\* Every process that serves clients has the epoch and the weather seed that
\* the first one told them, whatever crashed during the start-ups before.
WorldStable == phase \in {"loop", "events", "flush", "cadence", "shutdown"} => memory = told

\* Once the store no longer pauses the flush, and as long as the flush is not
\* crowded, every activity is written, unless the process ends first.
ActivityPersisted ==
    <>[][flush_paused' => flush_paused]_vars
      /\ <>[](\A p \in Player : ~Crowded(flush_players, p)) =>
        \A p \in Player : (wait[p] # 0) ~> (wait[p] = 0 \/ phase = "down")

\* What the error of flush_all says: "shutdown persistence failed for {failed}
\* player(s)".  The third attempt may write everybody, and the error is then
\* about 0 players.
ErrorMeansLoss == outcome = "error" => pending # {}

=============================================================================
