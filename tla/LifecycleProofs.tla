--------------------------- MODULE LifecycleProofs ---------------------------
(***************************************************************************)
(* Proofs about Lifecycle, for every set of players, every budget and      *)
(* interval of the flush and any number of processes: nothing dirty is     *)
(* forgotten, a shutdown that reports success lost nothing, what a crash   *)
(* loses is bounded for whoever the flush reaches, and every process has   *)
(* the world that the first one told its clients.                          *)
(***************************************************************************)
EXTENDS Lifecycle, SumsProofs

Serving == {"loop", "events", "flush", "cadence", "shutdown"}

\* What flush_all has still to write covers what is not saved.
ShutdownCovers == phase = "shutdown" => Unsaved \subseteq pending

\* A process that has ended, and only one, has an outcome; it writes nothing any more.
OutcomeAtEnd ==
    /\ outcome # "none" => phase = "down"
    /\ outcome = "ok" => Unsaved = {}

\* A row of the world table is never written again once it is there, and the
\* values in memory are those of the rows that start-up has reached.
Stored == \A k \in Key : world[k] # 0

WorldLoaded ==
    /\ phase # "down" => boots # 0
    /\ told # Unset => Stored /\ told = world
    /\ phase = "seed" =>
         /\ world["clock_epoch_ms"] # 0
         /\ memory["clock_epoch_ms"] = world["clock_epoch_ms"]
    /\ phase \in Serving \cup {"bind"} => Stored /\ memory = world
    /\ phase \in Serving => told = world

\* The inductive invariant.
Inv ==
    /\ TypeOK
    /\ ActivityTracked
    /\ ShutdownCovers
    /\ OutcomeAtEnd
    /\ WorldLoaded

-----------------------------------------------------------------------------

LEMMA Constants ==
    /\ UpdatesPerTick \in Nat /\ UpdatesPerTick >= 1
    /\ MinTicksPerFlush \in Nat /\ MaxTicksPerFlush \in Nat
    /\ 1 <= MinTicksPerFlush /\ MinTicksPerFlush <= MaxTicksPerFlush
    /\ FlushAttempts \in Nat /\ MaxBoots \in Nat
    /\ Overdue \in Nat /\ Excused \in Nat /\ Excused = Overdue + 1
    /\ 1 < Overdue
BY LifecycleAssumption DEF Overdue, Excused

\* The wait that a tick makes longer stays within its bound.
LEMMA LaterType ==
    ASSUME NEW n \in 0..Excused
    PROVE  Later(n) \in 0..Excused /\ (Later(n) = 0 <=> n = 0)
BY Constants DEF Later

LEMMA InitInv == Init => Inv
<1> SUFFICES ASSUME Init PROVE Inv
  OBVIOUS
<1> USE DEF Init
<1>1. TypeOK
  <2>1. world \in [Key -> 0..MaxBoots] /\ memory \in [Key -> 0..MaxBoots]
        /\ told \in [Key -> 0..MaxBoots]
    BY Constants DEF Unset
  <2>2. sessions \in [Player -> {"none", "clean", "dirty"}] /\ wait \in [Player -> 0..Excused]
    BY Constants DEF NoSessions
  <2>3. user_version \in 0..SCHEMA_VERSION /\ ticks \in 0..(MaxTicksPerFlush - 1)
        /\ attempts \in 0..FlushAttempts /\ boots \in 0..MaxBoots
    BY Constants DEF SCHEMA_VERSION
  <2> QED
    BY <2>1, <2>2, <2>3 DEF TypeOK, Phase
<1>2. ActivityTracked /\ ShutdownCovers /\ OutcomeAtEnd
  BY DEF ActivityTracked, ShutdownCovers, OutcomeAtEnd
<1>3. WorldLoaded
  BY DEF WorldLoaded, Serving
<1> QED
  BY <1>1, <1>2, <1>3 DEF Inv

-----------------------------------------------------------------------------
(* Start-up.                                                               *)

LEMMA BootInv == Inv /\ Boot => Inv'
<1> SUFFICES ASSUME Inv, Boot PROVE Inv'
  OBVIOUS
<1> USE DEF Inv, Boot, dbVars
<1>1. TypeOK'
  <2>1. /\ memory' \in [Key -> 0..MaxBoots]
        /\ sessions' \in [Player -> {"none", "clean", "dirty"}]
        /\ wait' \in [Player -> 0..Excused]
    BY Constants DEF Unset, NoSessions
  <2>2. /\ ticks' \in 0..(MaxTicksPerFlush - 1) /\ attempts' \in 0..FlushAttempts
        /\ boots' \in 0..MaxBoots
    BY Constants DEF TypeOK
  <2> QED
    BY <2>1, <2>2 DEF TypeOK, Phase
<1>2. Unsaved' = {} /\ Live' = {}
  BY DEF Unsaved, Live, NoSessions
<1>3. ActivityTracked' /\ ShutdownCovers' /\ OutcomeAtEnd'
  BY <1>2 DEF ActivityTracked, ShutdownCovers, OutcomeAtEnd
<1>4. WorldLoaded'
  BY DEF WorldLoaded, Serving, Stored, TypeOK
<1> QED
  BY <1>1, <1>3, <1>4

LEMMA MigrateInv == Inv /\ Migrate => Inv'
<1> SUFFICES ASSUME Inv, Migrate PROVE Inv'
  OBVIOUS
<1> USE DEF Inv, Migrate, flushVars, shutdownVars, historyVars
<1>1. TypeOK'
  BY DEF TypeOK, SCHEMA_VERSION, Phase
<1>2. Unsaved' = Unsaved /\ Live' = Live
  BY DEF Unsaved, Live
<1>3. ActivityTracked' /\ ShutdownCovers' /\ OutcomeAtEnd'
  BY <1>2 DEF ActivityTracked, ShutdownCovers, OutcomeAtEnd
<1>4. WorldLoaded'
  BY DEF WorldLoaded, Serving, Stored
<1> QED
  BY <1>1, <1>3, <1>4

\* What a row that is read or stored leaves.
LEMMA GetOrInitEffect ==
    ASSUME TypeOK, boots # 0, NEW key \in Key, GetOrInit(key)
    PROVE  /\ world' \in [Key -> 0..MaxBoots] /\ memory' \in [Key -> 0..MaxBoots]
           /\ world'[key] # 0 /\ memory'[key] = world'[key]
           /\ \A k \in Key \ {key} : world'[k] = world[k] /\ memory'[k] = memory[k]
           /\ Stored => world' = world
BY DEF GetOrInit, TypeOK, Stored

LEMMA InitEpochInv == Inv /\ InitEpoch => Inv'
<1> SUFFICES ASSUME Inv, InitEpoch PROVE Inv'
  OBVIOUS
<1> USE DEF Inv, InitEpoch, flushVars, shutdownVars, historyVars
<1>1. "clock_epoch_ms" \in Key /\ boots # 0 /\ TypeOK
  BY DEF Key, WorldLoaded
<1> HIDE DEF Inv
<1>2. /\ world' \in [Key -> 0..MaxBoots] /\ memory' \in [Key -> 0..MaxBoots]
      /\ world'["clock_epoch_ms"] # 0
      /\ memory'["clock_epoch_ms"] = world'["clock_epoch_ms"]
      /\ Stored => world' = world
  BY <1>1, GetOrInitEffect
<1> USE DEF Inv
<1>3. TypeOK'
  BY <1>2 DEF TypeOK, Phase
<1>4. Unsaved' = Unsaved /\ Live' = Live
  BY DEF Unsaved, Live
<1>5. ActivityTracked' /\ ShutdownCovers' /\ OutcomeAtEnd'
  BY <1>4 DEF ActivityTracked, ShutdownCovers, OutcomeAtEnd
<1>6. WorldLoaded'
  BY <1>1, <1>2 DEF WorldLoaded, Serving, Stored
<1> QED
  BY <1>3, <1>5, <1>6

LEMMA InitSeedInv == Inv /\ InitSeed => Inv'
<1> SUFFICES ASSUME Inv, InitSeed PROVE Inv'
  OBVIOUS
<1> USE DEF Inv, InitSeed, flushVars, shutdownVars, historyVars
<1>1. "weather_seed" \in Key /\ boots # 0 /\ TypeOK
  BY DEF Key, WorldLoaded
<1> HIDE DEF Inv
<1>2. /\ world' \in [Key -> 0..MaxBoots] /\ memory' \in [Key -> 0..MaxBoots]
      /\ world'["weather_seed"] # 0
      /\ memory'["weather_seed"] = world'["weather_seed"]
      /\ \A k \in Key \ {"weather_seed"} : world'[k] = world[k] /\ memory'[k] = memory[k]
      /\ Stored => world' = world
  BY <1>1, GetOrInitEffect
<1> USE DEF Inv
<1>3. TypeOK'
  BY <1>2 DEF TypeOK, Phase
<1>4. Unsaved' = Unsaved /\ Live' = Live
  BY DEF Unsaved, Live
<1>5. ActivityTracked' /\ ShutdownCovers' /\ OutcomeAtEnd'
  BY <1>4 DEF ActivityTracked, ShutdownCovers, OutcomeAtEnd
<1>6. Stored' /\ memory' = world'
  BY <1>2 DEF WorldLoaded, Key, Stored
<1>7. WorldLoaded'
  BY <1>1, <1>2, <1>6 DEF WorldLoaded, Serving
<1> QED
  BY <1>3, <1>5, <1>7

LEMMA BindInv == Inv /\ Bind => Inv'
<1> SUFFICES ASSUME Inv, Bind PROVE Inv'
  OBVIOUS
<1> USE DEF Inv, Bind, dbVars, flushVars, shutdownVars
<1>1. TypeOK'
  BY DEF TypeOK, Phase
<1>2. Unsaved' = Unsaved /\ Live' = Live
  BY DEF Unsaved, Live
<1>3. ActivityTracked' /\ ShutdownCovers' /\ OutcomeAtEnd'
  BY <1>2 DEF ActivityTracked, ShutdownCovers, OutcomeAtEnd
<1>4. WorldLoaded'
  BY DEF WorldLoaded, Serving, Stored
<1> QED
  BY <1>1, <1>3, <1>4

LEMMA DieInv == Inv /\ Die => Inv'
<1> SUFFICES ASSUME Inv, Die PROVE Inv'
  OBVIOUS
<1> USE DEF Inv, Die, dbVars, flushVars, shutdownVars
<1>1. TypeOK'
  BY DEF TypeOK, Phase
<1>2. ActivityTracked' /\ ShutdownCovers' /\ OutcomeAtEnd'
  BY DEF ActivityTracked, ShutdownCovers, OutcomeAtEnd
<1>3. WorldLoaded'
  BY DEF WorldLoaded, Serving, Stored
<1> QED
  BY <1>1, <1>2, <1>3

-----------------------------------------------------------------------------
(* The loop.  Its actions leave the world alone and stay in the loop.      *)

LEMMA LoopKeepsWorld ==
    ASSUME Inv, phase \in Serving, phase' \in Serving \cup {"down"},
           UNCHANGED <<world, memory, boots, told>>
    PROVE  WorldLoaded'
BY DEF Inv, WorldLoaded, Serving, Stored

\* Steps that only move on.
LEMMA MoveOnInv ==
    ASSUME Inv, Poll \/ EndEvents
    PROVE  Inv'
<1> USE DEF Inv, Poll, EndEvents, dbVars, flushVars, shutdownVars, historyVars
<1>1. TypeOK'
  BY DEF TypeOK, Phase
<1>2. Unsaved' = Unsaved /\ Live' = Live
  BY DEF Unsaved, Live
<1>3. ActivityTracked' /\ ShutdownCovers' /\ OutcomeAtEnd'
  BY <1>2 DEF ActivityTracked, ShutdownCovers, OutcomeAtEnd
<1>4. WorldLoaded'
  BY LoopKeepsWorld DEF Serving
<1> QED
  BY <1>1, <1>3, <1>4

LEMMA HelloInv ==
    ASSUME Inv, NEW p \in Player, Hello(p) \/ ClientState(p)
    PROVE  Inv'
<1> USE DEF Inv, Hello, ClientState, dbVars, shutdownVars
<1>1. TypeOK'
  <2>1. /\ sessions' \in [Player -> {"none", "clean", "dirty"}]
        /\ wait' \in [Player -> 0..Excused]
    BY Constants DEF TypeOK
  <2> QED
    BY <2>1 DEF TypeOK
<1>2. /\ Unsaved' \subseteq Unsaved \cup {p}
      /\ Live' = Live \cup {p}
      /\ sessions'[p] = "dirty"
      /\ \A q \in Player \ {p} : sessions'[q] = sessions[q]
  BY DEF Unsaved, Live, TypeOK
<1>3. ActivityTracked' /\ ShutdownCovers' /\ OutcomeAtEnd'
  BY <1>2 DEF ActivityTracked, ShutdownCovers, OutcomeAtEnd, Live
<1>4. WorldLoaded'
  BY LoopKeepsWorld DEF Serving
<1> QED
  BY <1>1, <1>3, <1>4

LEMMA DisconnectInv ==
    ASSUME Inv, NEW p \in Player, Disconnect(p) \/ DisconnectFails(p)
    PROVE  Inv'
<1> USE DEF Inv, Disconnect, DisconnectFails, dbVars, shutdownVars
<1>1. TypeOK'
  <2>1. /\ sessions' \in [Player -> {"none", "clean", "dirty"}]
        /\ wait' \in [Player -> 0..Excused]
    BY Constants DEF TypeOK
  <2> QED
    BY <2>1 DEF TypeOK
<1>2. /\ Unsaved' = Unsaved \/ Unsaved' = Unsaved \ {p}
      /\ Disconnect(p) => Unsaved' = Unsaved \ {p}
      /\ Live' = Live \ {p}
      /\ \A q \in Player \ {p} : sessions'[q] = sessions[q]
  BY Constants DEF Unsaved, Live, TypeOK
<1>3. ActivityTracked' /\ ShutdownCovers' /\ OutcomeAtEnd'
  BY <1>2 DEF ActivityTracked, ShutdownCovers, OutcomeAtEnd, Live
<1>4. WorldLoaded'
  BY LoopKeepsWorld DEF Serving
<1> QED
  BY <1>1, <1>3, <1>4

\* A player that is written is saved, and its session is dirty only if it
\* became dirty again since the flush began.
LEMMA ProcessDirtyFlushInv ==
    ASSUME Inv, NEW done \in SUBSET Player, ProcessDirtyFlush(done)
    PROVE  Inv'
<1> USE DEF Inv, ProcessDirtyFlush, dbVars, shutdownVars
<1>1. /\ sessions' \in [Player -> {"none", "clean", "dirty"}]
      /\ wait' \in [Player -> 0..Excused]
  BY Constants, LaterType DEF TypeOK, CleanAfter
<1>2. TypeOK'
  BY <1>1 DEF TypeOK, Phase
<1>3. Unsaved' = Unsaved \ done
  <2> SUFFICES ASSUME NEW p \in Player
               PROVE  wait'[p] # 0 <=> wait[p] # 0 /\ p \notin done
    BY DEF Unsaved
  <2>1. wait[p] \in 0..Excused
    BY DEF TypeOK
  <2> QED
    BY <2>1, LaterType, Constants DEF TypeOK
<1>4. Live' = Live
  BY DEF Live, CleanAfter, TypeOK
<1>5. ActivityTracked'
  <2>1. \A p \in Live : sessions'[p] = "dirty" <=> p \in dirty_players \cup (flush_players \ done)
    BY DEF ActivityTracked, Live, CleanAfter, TypeOK
  <2> QED
    BY <1>3, <1>4, <2>1 DEF ActivityTracked
<1>6. ShutdownCovers' /\ OutcomeAtEnd'
  BY <1>3 DEF ShutdownCovers, OutcomeAtEnd
<1>7. WorldLoaded'
  BY LoopKeepsWorld DEF Serving
<1> QED
  BY <1>2, <1>5, <1>6, <1>7

LEMMA CadenceInv ==
    ASSUME Inv, Cadence
    PROVE  Inv'
<1> USE DEF Inv, Cadence, BeginDirtyFlush, dbVars, shutdownVars, historyVars
<1>1. TypeOK'
  <2>1. ticks' \in 0..(MaxTicksPerFlush - 1)
    BY Constants DEF TypeOK
  <2>2. flush_paused' \in BOOLEAN /\ flush_players' \subseteq Player /\ dirty_players' \subseteq Player
    BY DEF TypeOK
  <2>3. wait' \in [Player -> 0..Excused]
    BY Constants DEF TypeOK
  <2> QED
    BY <2>1, <2>2, <2>3 DEF TypeOK, Phase
<1>2. Unsaved' = Unsaved /\ Live' = Live /\ UNCHANGED sessions
      /\ (dirty_players \cup flush_players)' = dirty_players \cup flush_players
  BY Constants DEF Unsaved, Live, TypeOK
<1>3. ActivityTracked' /\ ShutdownCovers' /\ OutcomeAtEnd'
  BY <1>2 DEF ActivityTracked, ShutdownCovers, OutcomeAtEnd
<1>4. WorldLoaded'
  BY LoopKeepsWorld DEF Serving
<1> QED
  BY <1>1, <1>3, <1>4

-----------------------------------------------------------------------------
(* The end.                                                                *)

LEMMA StopInv ==
    ASSUME Inv, Stop
    PROVE  Inv'
<1> USE DEF Inv, Stop, dbVars, historyVars
<1>1. TypeOK'
  BY Constants DEF TypeOK, Phase, ToFlush, Live
<1>2. Unsaved' = Unsaved
  BY DEF Unsaved
<1>3. ActivityTracked' /\ ShutdownCovers' /\ OutcomeAtEnd'
  BY <1>2 DEF ActivityTracked, ShutdownCovers, OutcomeAtEnd, ToFlush
<1>4. WorldLoaded'
  BY LoopKeepsWorld DEF Serving
<1> QED
  BY <1>1, <1>3, <1>4

LEMMA FlushAttemptInv ==
    ASSUME Inv, NEW done \in SUBSET Player, FlushAttempt(done)
    PROVE  Inv'
<1> USE DEF Inv, FlushAttempt, dbVars
<1>1. TypeOK'
  <2>1. /\ sessions' \in [Player -> {"none", "clean", "dirty"}]
        /\ wait' \in [Player -> 0..Excused]
        /\ attempts' \in 0..FlushAttempts
    BY Constants DEF TypeOK
  <2> QED
    BY <2>1 DEF TypeOK
<1>2. Unsaved' = Unsaved \ done
  BY DEF Unsaved, TypeOK
<1>3. ActivityTracked' /\ ShutdownCovers' /\ OutcomeAtEnd'
  BY <1>2 DEF ActivityTracked, ShutdownCovers, OutcomeAtEnd
<1>4. WorldLoaded'
  BY LoopKeepsWorld DEF Serving
<1> QED
  BY <1>1, <1>3, <1>4

LEMMA ExitInv ==
    ASSUME Inv, Exit
    PROVE  Inv'
<1> USE DEF Inv, Exit, dbVars, flushVars, shutdownVars
<1>1. TypeOK'
  BY DEF TypeOK, Phase
<1>2. Unsaved' = Unsaved
  BY DEF Unsaved
<1>3. ActivityTracked' /\ ShutdownCovers' /\ OutcomeAtEnd'
  BY <1>2 DEF ActivityTracked, ShutdownCovers, OutcomeAtEnd, FlushedAll
<1>4. WorldLoaded'
  BY LoopKeepsWorld DEF Serving
<1> QED
  BY <1>1, <1>3, <1>4

-----------------------------------------------------------------------------

LEMMA StutterInv == Inv /\ UNCHANGED vars => Inv'
<1> SUFFICES ASSUME Inv, UNCHANGED vars PROVE Inv'
  OBVIOUS
<1> USE DEF Inv, vars, dbVars, flushVars, shutdownVars, historyVars
<1>1. TypeOK'
  BY DEF TypeOK
<1>2. Unsaved' = Unsaved /\ Live' = Live
  BY DEF Unsaved, Live
<1>3. ActivityTracked' /\ ShutdownCovers' /\ OutcomeAtEnd'
  BY <1>2 DEF ActivityTracked, ShutdownCovers, OutcomeAtEnd
<1>4. WorldLoaded'
  BY DEF WorldLoaded, Stored
<1> QED
  BY <1>1, <1>3, <1>4

LEMMA NextInv == Inv /\ [Next]_vars => Inv'
<1> SUFFICES ASSUME Inv, [Next]_vars PROVE Inv'
  OBVIOUS
<1>1. CASE Boot \/ Migrate \/ InitEpoch \/ InitSeed \/ Bind \/ Die
  BY <1>1, BootInv, MigrateInv, InitEpochInv, InitSeedInv, BindInv, DieInv
<1>2. CASE Poll \/ EndEvents \/ Cadence
  BY <1>2, MoveOnInv, CadenceInv
<1>3. CASE \E done \in SUBSET Player : ProcessDirtyFlush(done) \/ FlushAttempt(done)
  BY <1>3, ProcessDirtyFlushInv, FlushAttemptInv
<1>4. CASE \E p \in Player : Hello(p) \/ ClientState(p) \/ Disconnect(p) \/ DisconnectFails(p)
  BY <1>4, HelloInv, DisconnectInv
<1>5. CASE Stop \/ Exit
  BY <1>5, StopInv, ExitInv
<1>6. CASE UNCHANGED vars
  BY <1>6, StutterInv
<1> QED
  BY <1>1, <1>2, <1>3, <1>4, <1>5, <1>6 DEF Next, Loop

LEMMA Invariant == Spec => []Inv
<1> QED
  BY InitInv, NextInv, PTL DEF Spec

\* Every state of the server and of its database has its type: in particular the
\* attempts of flush_all, the ticks of the interval and the waits stay bounded.
THEOREM TypeCorrect == Spec => []TypeOK
<1>1. Inv => TypeOK
  BY DEF Inv
<1> QED
  BY <1>1, Invariant, PTL

\* on_client_state, process_dirty_flush_at and on_disconnect between them never
\* forget a player whose activity is not in the database.
THEOREM ActivityAlwaysTracked == Spec => []ActivityTracked
<1>1. Inv => ActivityTracked
  BY DEF Inv
<1> QED
  BY <1>1, Invariant, PTL

\* A shutdown whose flush_all returns Ok lost nothing.
THEOREM ShutdownIsClean == Spec => []CleanShutdown
<1>1. Inv => CleanShutdown
  BY DEF Inv, OutcomeAtEnd, CleanShutdown
<1> QED
  BY <1>1, Invariant, PTL

\* world_get_or_init gives every process that serves clients the epoch and the
\* seed that the first one told them, through crashes during start-up.
THEOREM WorldAlwaysStable == Spec => []WorldStable
<1>1. Inv => WorldStable
  BY DEF Inv, WorldLoaded, WorldStable, Serving
<1> QED
  BY <1>1, Invariant, PTL

-----------------------------------------------------------------------------
(* How much a crash may lose: the budget of a tick and the length of the   *)
(* interval.                                                               *)

\* Flush steps since the flush began.
Elapsed == IF phase = "cadence" THEN ticks + 1 ELSE ticks

\* The flush reaches p in the ticks that are left of an interval, however slow.
Reached(p) ==
    /\ ~flush_paused
    /\ p \in flush_players
    /\ Cardinality(Before(flush_players, p)) < UpdatesPerTick * (MinTicksPerFlush - Elapsed)

\* Activity is from this interval, or from the one before and its player is
\* about to be flushed; or nothing is promised.
Timely(p) ==
    \/ wait[p] = Excused
    \/ wait[p] <= Elapsed + 1
    \/ Reached(p) /\ wait[p] <= MaxTicksPerFlush + 1 + Elapsed

FlushOnTime == phase \notin {"down", "shutdown"} => \A p \in Player : Timely(p)

\* Finite sets of players.
LEMMA PlayersFinite ==
    ASSUME NEW S \in SUBSET Player
    PROVE  /\ IsFiniteSet(S)
           /\ Cardinality(S) \in Nat
           /\ \A R \in SUBSET S : Cardinality(R) <= Cardinality(S)
<1>1. IsFiniteSet(Player)
  BY LifecycleAssumption
<1>2. IsFiniteSet(S)
  BY <1>1, FS_Subset
<1>3. Cardinality(S) \in Nat
  BY <1>2, FS_CardinalityType
<1>4. \A R \in SUBSET S : Cardinality(R) <= Cardinality(S)
  BY <1>2, FS_Subset
<1> QED BY <1>2, <1>3, <1>4

LEMMA BeforeType ==
    ASSUME NEW S \in SUBSET Player, NEW p \in Player
    PROVE  /\ Before(S, p) \in SUBSET S
           /\ Before(S, p) \in SUBSET Player
           /\ IsFiniteSet(Before(S, p))
           /\ Cardinality(Before(S, p)) \in Nat
<1>1. Before(S, p) \in SUBSET S /\ Before(S, p) \in SUBSET Player
  BY DEF Before
<1> QED BY <1>1, PlayersFinite

\* Elapsed is bounded, and there is a tick left for whoever is reached.
LEMMA ElapsedType ==
    ASSUME TypeOK
    PROVE  /\ Elapsed \in Nat /\ Elapsed <= MaxTicksPerFlush
           /\ \A p \in Player : Reached(p) => Elapsed < MinTicksPerFlush
<1>1. Elapsed \in Nat /\ Elapsed <= MaxTicksPerFlush
  BY Constants DEF Elapsed, TypeOK
<1>2. ASSUME NEW p \in Player, Reached(p) PROVE Elapsed < MinTicksPerFlush
  <2>1. Cardinality(Before(flush_players, p)) \in Nat
    BY BeforeType DEF TypeOK
  <2>2. 0 < UpdatesPerTick * (MinTicksPerFlush - Elapsed)
    <3>1. PICK c \in Nat : c = Cardinality(Before(flush_players, p))
      BY <2>1
    <3>2. c < UpdatesPerTick * (MinTicksPerFlush - Elapsed)
      BY <1>2, <3>1 DEF Reached
    <3>3. UpdatesPerTick * (MinTicksPerFlush - Elapsed) \in Int
      BY <1>1, Constants
    <3> QED BY <3>1, <3>2, <3>3
  <2>3. PICK d \in Int : d = MinTicksPerFlush - Elapsed
    BY <1>1, Constants
  <2>4. 0 < UpdatesPerTick * d
    BY <2>2, <2>3
  <2>5. d > 0
    BY <2>3, <2>4, Constants
  <2> QED BY <1>1, <2>3, <2>5, Constants
<1> QED BY <1>1, <1>2

\* A player that is not in the batch of a tick has the whole batch before it,
\* and the batch uses up the budget.
LEMMA BatchBefore ==
    ASSUME TypeOK, NEW p \in flush_players, p \notin Batch
    PROVE  /\ Batch \in SUBSET Before(flush_players, p)
           /\ Cardinality(Batch) >= UpdatesPerTick
<1> DEFINE F == flush_players
<1>0. F \in SUBSET Player /\ Player \subseteq Nat /\ p \in Player
  BY LifecycleAssumption DEF TypeOK
<1>1. Batch \in SUBSET Before(F, p)
  <2> SUFFICES ASSUME NEW q \in Batch, ~(q < p) PROVE FALSE
    BY <1>0 DEF Batch, Before
  <2>1. q \in F /\ q \in Nat /\ p \in Nat
    BY <1>0 DEF Batch
  <2>2. Before(F, p) \in SUBSET Before(F, q)
    <3> SUFFICES ASSUME NEW r \in F, r < p PROVE r < q
      BY DEF Before
    <3>1. r \in Nat
      BY <1>0
    <3> QED BY <2>1, <3>1
  <2>3. Cardinality(Before(F, p)) <= Cardinality(Before(F, q))
    BY <1>0, <2>1, <2>2, BeforeType, PlayersFinite
  <2>4. Cardinality(Before(F, q)) < UpdatesPerTick /\ ~(Cardinality(Before(F, p)) < UpdatesPerTick)
    BY DEF Batch
  <2>5. Cardinality(Before(F, q)) \in Nat /\ Cardinality(Before(F, p)) \in Nat
    BY <1>0, <2>1, BeforeType
  <2> QED BY <2>3, <2>4, <2>5, Constants
<1> DEFINE Rest == F \ Batch
<1>2. Rest \in SUBSET Nat /\ Rest # {}
  BY <1>0
<1>3. PICK r \in Rest : \A q \in Rest : r <= q
  BY <1>2, LeastNat
<1>4. Before(F, r) \in SUBSET Batch
  <2> SUFFICES ASSUME NEW q \in Before(F, r) PROVE q \in Batch
    OBVIOUS
  <2>1. q \in F /\ q < r /\ q \in Nat /\ r \in Nat
    BY <1>0, <1>3 DEF Before
  <2> QED BY <1>3, <2>1
<1>5. Batch \in SUBSET Player /\ r \in Player
  BY <1>0, <1>3 DEF Batch
<1>6. ~(Cardinality(Before(F, r)) < UpdatesPerTick)
  BY <1>3 DEF Batch
<1>7. Cardinality(Before(F, r)) <= Cardinality(Batch)
  BY <1>4, <1>5, PlayersFinite
<1>8. Cardinality(Before(F, r)) \in Nat /\ Cardinality(Batch) \in Nat
  BY <1>0, <1>5, BeforeType, PlayersFinite
<1> QED BY <1>1, <1>6, <1>7, <1>8, Constants

\* The invariant bounds the waits.
LEMMA OnTimeBounds ==
    ASSUME TypeOK, NEW p \in Player, Timely(p)
    PROVE  wait[p] # Overdue
<1>1. Elapsed \in Nat /\ Elapsed <= MaxTicksPerFlush
      /\ (Reached(p) => Elapsed < MinTicksPerFlush)
  BY ElapsedType
<1>2. /\ Overdue = MaxTicksPerFlush + MinTicksPerFlush + 1
      /\ Excused = MaxTicksPerFlush + MinTicksPerFlush + 2
  BY Constants DEF Overdue, Excused
<1>3. wait[p] \in Nat
  BY Constants DEF TypeOK
<1> QED BY <1>1, <1>2, <1>3, Constants DEF Timely

\* A step that takes nobody into the flush reaches whom it reached.
LEMMA FewerReached ==
    ASSUME TypeOK, NEW p \in Player, Reached(p), p \in flush_players',
           flush_players' \subseteq flush_players, flush_paused' = flush_paused,
           Elapsed' = Elapsed
    PROVE  Reached(p)'
<1>1. flush_players \in SUBSET Player /\ flush_players' \in SUBSET Player
  BY DEF TypeOK
<1>2. Before(flush_players', p) \in SUBSET Before(flush_players, p)
  BY DEF Before
<1>3. PICK c \in Nat, d \in Nat : /\ c = Cardinality(Before(flush_players', p))
                                  /\ d = Cardinality(Before(flush_players, p))
                                  /\ c <= d
  BY <1>1, <1>2, BeforeType, PlayersFinite
<1>4. PICK b \in Int : b = UpdatesPerTick * (MinTicksPerFlush - Elapsed)
  BY ElapsedType, Constants
<1>5. d < b
  BY <1>3, <1>4 DEF Reached
<1>6. c < b
  BY <1>3, <1>4, <1>5
<1>7. Cardinality(Before(flush_players', p)) < UpdatesPerTick * (MinTicksPerFlush - Elapsed')
  BY <1>3, <1>4, <1>6
<1> QED BY <1>7 DEF Reached

\* process_dirty_flush_at that is not paused and does not fail: the batch is
\* written, the others have a budget's worth fewer before them and a tick less.
LEMMA FlushKeepsReached ==
    ASSUME Inv, ProcessDirtyFlush(Batch), ~flush_paused,
           NEW p \in Player, p \notin Batch, Reached(p)
    PROVE  Reached(p)'
<1> DEFINE F == flush_players
           G == flush_players \ Batch
<1>1. /\ TypeOK /\ phase = "flush" /\ phase' = "cadence" /\ flush_players' = G
      /\ ticks' = ticks /\ ~flush_paused'
  BY DEF Inv, ProcessDirtyFlush
<1>2. Elapsed' = Elapsed + 1 /\ Elapsed \in Nat
  BY <1>1, ElapsedType DEF Elapsed
<1>3. p \in F /\ F \in SUBSET Player /\ G \in SUBSET Player /\ p \in G
  BY <1>1 DEF Reached, TypeOK
<1>4. Batch \in SUBSET Before(F, p) /\ Cardinality(Batch) >= UpdatesPerTick
  BY <1>1, <1>3, BatchBefore
<1>5. Before(G, p) = Before(F, p) \ Batch
  BY DEF Before
<1>6. IsFiniteSet(Before(F, p)) /\ Batch \in SUBSET Player
  BY <1>3, <1>4, BeforeType
<1>7. Cardinality(Before(G, p)) = Cardinality(Before(F, p)) - Cardinality(Batch)
  <2>1. Before(F, p) \cap Batch = Batch
    BY <1>4
  <2>2. IsFiniteSet(Batch)
    BY <1>6, PlayersFinite
  <2> QED BY <1>5, <1>6, <2>1, <2>2, FS_Difference
<1>8. PICK c \in Nat, d \in Nat, b \in Nat : /\ c = Cardinality(Before(G, p))
                                             /\ d = Cardinality(Before(F, p))
                                             /\ b = Cardinality(Batch)
  BY <1>3, <1>6, BeforeType, PlayersFinite
<1>9. PICK k \in Int : k = MinTicksPerFlush - Elapsed
  BY <1>2, Constants
<1>10. d < UpdatesPerTick * k
  BY <1>8, <1>9 DEF Reached
<1>11. UpdatesPerTick * k = UpdatesPerTick * (k - 1) + UpdatesPerTick
       /\ UpdatesPerTick * (k - 1) \in Int
  BY <1>9, Constants
<1>12. c < UpdatesPerTick * (k - 1)
  <2>1. c = d - b /\ b >= UpdatesPerTick
    BY <1>4, <1>7, <1>8
  <2> QED BY <1>8, <1>10, <1>11, <2>1, Constants
<1>13. MinTicksPerFlush - Elapsed' = k - 1
  BY <1>2, <1>9, Constants
<1>14. Cardinality(Before(flush_players', p)) < UpdatesPerTick * (MinTicksPerFlush - Elapsed')
  BY <1>1, <1>8, <1>12, <1>13
<1> QED BY <1>1, <1>3, <1>14 DEF Reached

LEMMA FlushKeepsTimely ==
    ASSUME Inv, LossBounded, FlushOnTime, NEW done \in SUBSET Player, ProcessDirtyFlush(done)
    PROVE  FlushOnTime'
<1>1. TypeOK /\ phase = "flush" /\ phase' = "cadence"
      /\ ticks' = ticks /\ flush_players' = flush_players \ done
      /\ \A p \in Player : Timely(p)
  BY DEF Inv, ProcessDirtyFlush, FlushOnTime
<1> DEFINE failed == ~flush_paused /\ done # Batch
<1>2. /\ flush_paused' = (flush_paused \/ failed)
      /\ flush_paused => done = {}
      /\ \A p \in Player :
           wait'[p] = CASE p \in done               -> 0
                        [] p \notin done /\ failed  -> IF wait[p] = 0 THEN 0 ELSE Excused
                        [] p \notin done /\ ~failed -> Later(wait[p])
  BY DEF ProcessDirtyFlush
<1>3. Elapsed = ticks /\ Elapsed' = Elapsed + 1 /\ Elapsed \in Nat
  BY <1>1 DEF Elapsed, TypeOK
<1>5. ASSUME NEW p \in Player PROVE Timely(p)'
  <2>1. wait[p] \in Nat /\ wait[p] # Overdue
    BY <1>1 DEF TypeOK, LossBounded
  <2>2. CASE p \in done \/ wait[p] = 0 \/ failed
    <3>1. wait'[p] = 0 \/ wait'[p] = Excused
      BY <1>2, <2>2 DEF Later
    <3> QED BY <1>3, <3>1 DEF Timely
  <2>3. CASE p \notin done /\ wait[p] # 0 /\ ~failed
    <3>1. wait'[p] = Later(wait[p])
      BY <1>2, <2>3
    <3>2. CASE wait[p] = Excused
      <4>1. wait'[p] = Excused
        BY <3>1, <3>2 DEF Later
      <4> QED BY <4>1 DEF Timely
    <3>3. CASE wait[p] # Excused
      <4>1. wait'[p] = wait[p] + 1
        BY <2>1, <2>3, <3>1, <3>3 DEF Later
      <4>2. Timely(p)
        BY <1>1
      <4>3. Reached(p) => Reached(p)'
        <5> SUFFICES ASSUME Reached(p) PROVE Reached(p)'
          OBVIOUS
        <5>1. ~flush_paused /\ done = Batch
          BY <2>3 DEF Reached
        <5> QED BY <2>3, <5>1, FlushKeepsReached
      <4> QED BY <1>3, <2>1, <3>3, <4>1, <4>2, <4>3, Constants DEF Timely
    <3> QED BY <3>2, <3>3
  <2> QED BY <2>2, <2>3
<1> QED BY <1>5 DEF FlushOnTime

\* begin_dirty_flush: nobody who was reached is left of the last flush.
LEMMA CadenceKeepsTimely ==
    ASSUME Inv, FlushOnTime, Cadence
    PROVE  FlushOnTime'
<1>1. TypeOK /\ phase = "cadence" /\ phase' = "loop" /\ \A p \in Player : Timely(p)
  BY DEF Inv, Cadence, FlushOnTime
<1>2. Elapsed = ticks + 1 /\ ticks \in Nat /\ Elapsed' = ticks'
  BY <1>1 DEF Elapsed, TypeOK
<1>3. CASE UNCHANGED <<dirty_players, flush_players, flush_paused, wait>> /\ ticks' = ticks + 1
  <2>1. Elapsed' = Elapsed /\ UNCHANGED <<flush_players, flush_paused, wait>>
    BY <1>2, <1>3
  <2>2. ASSUME NEW p \in Player PROVE Timely(p)'
    <3>1. Reached(p) => Reached(p)'
      BY <2>1 DEF Reached
    <3> QED BY <1>1, <2>1, <3>1 DEF Timely
  <2> QED BY <2>2 DEF FlushOnTime
<1>4. CASE /\ ticks + 1 >= MinTicksPerFlush
           /\ BeginDirtyFlush
           /\ wait' = [p \in Player |->
                        IF wait[p] # 0 /\ Crowded(flush_players', p) THEN Excused
                        ELSE wait[p]]
  <2>1. /\ ticks' = 0 /\ flush_paused' = FALSE
        /\ flush_players' = flush_players \cup dirty_players
    BY <1>4 DEF BeginDirtyFlush
  <2>2. Elapsed >= MinTicksPerFlush /\ Elapsed' = 0 /\ Elapsed <= MaxTicksPerFlush
    BY <1>1, <1>2, <1>4, <2>1, ElapsedType
  <2>3. ASSUME NEW p \in Player PROVE Timely(p)'
    <3>1. wait[p] \in Nat /\ wait'[p] \in {wait[p], Excused}
      BY <1>1, <1>4 DEF TypeOK
    <3>2. CASE wait'[p] = Excused
      BY <3>2 DEF Timely
    <3>3. CASE wait[p] = 0 /\ wait'[p] = wait[p]
      BY <2>2, <3>3 DEF Timely
    <3>4. CASE wait[p] # 0 /\ wait'[p] = wait[p] /\ wait[p] # Excused
      <4>1. ~Reached(p)
        BY <1>1, <1>2, <2>2, ElapsedType, Constants
      <4>2. wait[p] <= Elapsed + 1
        BY <1>1, <3>4, <4>1 DEF Timely
      <4>3. wait'[p] <= MaxTicksPerFlush + 1 + Elapsed'
        BY <1>2, <2>2, <3>1, <3>4, <4>2, Constants
      <4>4. p \in flush_players'
        BY <1>1, <2>1, <3>4 DEF Inv, ActivityTracked, Unsaved
      <4>5. ~Crowded(flush_players', p)
        BY <1>4, <3>4
      <4>6. Cardinality(Before(flush_players', p)) < UpdatesPerTick * (MinTicksPerFlush - Elapsed')
        <5>1. flush_players' \in SUBSET Player
          BY <1>1, <2>1 DEF TypeOK
        <5>2. PICK c \in Nat : c = Cardinality(Before(flush_players', p))
          BY <5>1, BeforeType
        <5>3. PICK b \in Nat : b = UpdatesPerTick * MinTicksPerFlush
          BY Constants
        <5>4. MinTicksPerFlush - Elapsed' = MinTicksPerFlush
          BY <2>2, Constants
        <5>5. ~(c >= b)
          BY <4>5, <5>2, <5>3 DEF Crowded
        <5> QED BY <5>2, <5>3, <5>4, <5>5
      <4> QED BY <2>1, <4>3, <4>4, <4>6 DEF Timely, Reached
    <3> QED BY <3>1, <3>2, <3>3, <3>4
  <2> QED BY <2>3 DEF FlushOnTime
<1> QED BY <1>3, <1>4 DEF Cadence

\* What the events of a tick do.
LEMMA EventKeepsTimely ==
    ASSUME Inv, FlushOnTime, NEW p \in Player,
           Hello(p) \/ ClientState(p) \/ Disconnect(p) \/ DisconnectFails(p)
    PROVE  FlushOnTime'
<1>1. TypeOK /\ phase = "events" /\ phase' = "events" /\ ticks' = ticks
      /\ \A q \in Player : Timely(q)
  BY DEF Inv, Hello, ClientState, Disconnect, DisconnectFails, FlushOnTime
<1>2. Elapsed' = Elapsed /\ Elapsed \in Nat
  BY <1>1 DEF Elapsed, TypeOK
<1>3. CASE DisconnectFails(p)
  <2>1. \A q \in Player : wait'[q] = 0 \/ wait'[q] = Excused
    BY <1>3 DEF DisconnectFails
  <2> QED BY <1>2, <2>1 DEF FlushOnTime, Timely
<1>4. CASE Hello(p) \/ ClientState(p) \/ Disconnect(p)
  <2>1. /\ flush_paused' = flush_paused
        /\ flush_players' \subseteq flush_players
        /\ \A q \in Player : q # p => (q \in flush_players' <=> q \in flush_players)
        /\ \A q \in Player : q # p => wait'[q] = wait[q]
    BY <1>1, <1>4 DEF Hello, ClientState, Disconnect, TypeOK
  <2>2. ASSUME NEW q \in Player, q \in flush_players => q \in flush_players'
        PROVE  Reached(q) => Reached(q)'
    <3> SUFFICES ASSUME Reached(q) PROVE Reached(q)'
      OBVIOUS
    <3>1. q \in flush_players'
      BY <2>2 DEF Reached
    <3> QED BY <1>1, <1>2, <2>1, <3>1, FewerReached
  <2>3. ASSUME NEW q \in Player, q # p PROVE Timely(q)'
    <3>1. Reached(q) => Reached(q)'
      BY <2>1, <2>2, <2>3
    <3> QED BY <1>1, <1>2, <2>1, <2>3, <3>1 DEF Timely
  <2>4. Timely(p)'
    <3>1. CASE wait'[p] = 0 \/ wait'[p] = 1
      BY <1>2, <3>1 DEF Timely
    <3>2. CASE wait'[p] = wait[p] /\ flush_players' = flush_players
      <4>1. Reached(p) => Reached(p)'
        BY <2>2, <3>2
      <4> QED BY <1>1, <1>2, <3>2, <4>1 DEF Timely
    <3> QED BY <1>1, <1>4, <3>1, <3>2 DEF Hello, ClientState, Disconnect, TypeOK
  <2> QED BY <2>3, <2>4 DEF FlushOnTime
<1> QED BY <1>3, <1>4

LEMMA OnTimeNext == Inv /\ LossBounded /\ FlushOnTime /\ [Next]_vars => FlushOnTime'
<1> SUFFICES ASSUME Inv, LossBounded, FlushOnTime, [Next]_vars PROVE FlushOnTime'
  OBVIOUS
<1>1. CASE phase' \in {"down", "shutdown"}
  BY <1>1 DEF FlushOnTime
<1>2. CASE Boot
  <2>1. phase' = "open" /\ ticks' = 0 /\ \A p \in Player : wait'[p] = 0
    BY <1>2 DEF Boot
  <2>2. Elapsed' = 0
    BY <2>1 DEF Elapsed
  <2>3. \A p \in Player : Timely(p)'
    BY <2>1, <2>2 DEF Timely
  <2> QED BY <2>3 DEF FlushOnTime
<1>3. ASSUME UNCHANGED <<flush_players, flush_paused, wait>>, Elapsed' = Elapsed,
             phase \notin {"down", "shutdown"}
      PROVE  FlushOnTime'
  <2>1. ASSUME NEW p \in Player PROVE Timely(p)'
    <3>1. Timely(p)
      BY <1>3 DEF FlushOnTime
    <3>2. Reached(p) => Reached(p)'
      BY <1>3 DEF Reached
    <3> QED BY <1>3, <3>1, <3>2 DEF Timely
  <2> QED BY <2>1 DEF FlushOnTime
<1>4. CASE Migrate \/ InitEpoch \/ InitSeed \/ Bind
  BY <1>3, <1>4 DEF Migrate, InitEpoch, InitSeed, Bind, flushVars, historyVars, Elapsed
<1>5. CASE Poll \/ EndEvents
  BY <1>3, <1>5 DEF Poll, EndEvents, flushVars, historyVars, Elapsed
<1>6. CASE \E done \in SUBSET Player : ProcessDirtyFlush(done)
  BY <1>6, FlushKeepsTimely
<1>7. CASE Cadence
  BY <1>7, CadenceKeepsTimely
<1>8. CASE \E p \in Player : Hello(p) \/ ClientState(p) \/ Disconnect(p) \/ DisconnectFails(p)
  BY <1>8, EventKeepsTimely
<1>9. CASE Die \/ Stop \/ Exit \/ \E done \in SUBSET Player : FlushAttempt(done)
  BY <1>1, <1>9 DEF Die, Stop, Exit, FlushAttempt
<1>10. CASE UNCHANGED vars
  <2>1. UNCHANGED <<flush_players, flush_paused, wait, phase, ticks>>
    BY <1>10 DEF vars, flushVars, historyVars
  <2>2. Elapsed' = Elapsed
    BY <2>1 DEF Elapsed
  <2>3. CASE phase \in {"down", "shutdown"}
    BY <1>1, <2>1, <2>3
  <2> QED BY <1>3, <2>1, <2>2, <2>3
<1> QED BY <1>2, <1>4, <1>5, <1>6, <1>7, <1>8, <1>9, <1>10 DEF Next, Loop

\* The inductive invariant: once the process has stopped, nobody waits longer.
LossInv == FlushOnTime /\ (phase \in {"down", "shutdown"} => LossBounded)

LEMMA LossInvBounds == Inv /\ LossInv => LossBounded
<1> SUFFICES ASSUME Inv, LossInv, phase \notin {"down", "shutdown"},
                    NEW p \in Player
             PROVE  wait[p] # Overdue
  BY DEF LossInv, LossBounded
<1> QED BY OnTimeBounds DEF LossInv, FlushOnTime, Inv

LEMMA LossInvNext == Inv /\ LossInv /\ [Next]_vars => LossInv'
<1> SUFFICES ASSUME Inv, LossInv, [Next]_vars PROVE LossInv'
  OBVIOUS
<1>1. LossBounded /\ FlushOnTime
  BY LossInvBounds DEF LossInv
<1>2. FlushOnTime'
  BY <1>1, OnTimeNext
<1>3. ASSUME phase' \in {"down", "shutdown"} PROVE LossBounded'
  <2>1. \A p \in Player : wait'[p] = wait[p] \/ wait'[p] = 0
    <3>1. CASE UNCHANGED wait
      BY <3>1
    <3>2. CASE \E done \in SUBSET Player : FlushAttempt(done)
      BY <3>2 DEF FlushAttempt
    <3> QED BY <1>3, <3>1, <3>2
         DEF Next, Loop, Boot, Migrate, InitEpoch, InitSeed, Bind, Die, Poll, EndEvents,
             Cadence, ProcessDirtyFlush, Hello, ClientState, Disconnect, DisconnectFails,
             Stop, Exit, vars, historyVars
  <2>2. Overdue # 0
    BY Constants
  <2> QED BY <1>1, <2>1, <2>2 DEF LossBounded
<1> QED BY <1>2, <1>3 DEF LossInv

\* DIRTY_DB_UPDATES_PER_TICK and FLUSH_INTERVAL bound what a crash loses: one
\* interval and the flush that follows it, for whoever the flush began with no
\* more players before than the interval's ticks write, unless a write failed.
\* No bound on the number of players is assumed.
THEOREM LossAlwaysBounded == Spec => []LossBounded
<1>1. Init => LossInv
  BY Constants DEF Init, LossInv, LossBounded, FlushOnTime
<1> QED BY <1>1, LossInvNext, LossInvBounds, Invariant, PTL DEF Spec

=============================================================================
