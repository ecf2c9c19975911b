------------------------------- MODULE Sessions -------------------------------
(***************************************************************************)
(* The session registry of the server (crate sw-server, type Server), on   *)
(* top of the pool of PeerIds the UDP host promises (PeerPool): the hello  *)
(* handshake, the eviction of an identity's earlier session, disconnects,  *)
(* and the tables and indexes that must agree about who is connected.      *)
(*                                                                         *)
(* The server's loop polls the host and then handles the events of the     *)
(* batch one by one.  While it does, the host has already moved on: an     *)
(* event may be about a peer that a later event of the batch reports gone, *)
(* or that the handler of an earlier one has just evicted.                 *)
(*                                                                         *)
(* What a datagram says is chosen when it is handled.  The limiters behind *)
(* the hello limiter, the validation of strings, the row ceiling and       *)
(* errors of the database each refuse a hello before it changes any table, *)
(* and are one refusal here.                                               *)
(***************************************************************************)
EXTENDS PeerPool, Integers

CONSTANTS
    Identity,        \* token hashes
    MaxPlayerRows,   \* max_player_rows
    MaxGeneration,   \* u64::MAX of the session generation
    MaxBatch         \* bound: events of one batch

\* A PeerId is a number.  A re-key leaves room: there are far fewer peers than
\* generations.
ASSUME SessionsAssumption ==
    /\ IsFiniteSet(Id)
    /\ IsFiniteSet(Identity)
    /\ Id \subseteq Nat
    /\ None \notin Id
    /\ MaxPlayerRows \in Nat \ {0}
    /\ MaxGeneration \in Nat
    /\ MaxGeneration > Cardinality(Id)
    /\ MaxBatch \in Nat

Player == 1..MaxPlayerRows

\* struct Session: what the registry needs of it.  `conn` is history: the
\* connection whose hello created the session.
Session == [generation : 1..MaxGeneration, player_id : Player,
            identity_hash : Identity, conn : Conn]

ASSUME NoSessionAssumption == None \notin Session /\ None \notin Player

VARIABLES
    sessions,                  \* HashMap<PeerId, Session>
    player_peers,              \* HashMap<u64, PeerId>; its keys are player_order
    snapshot_recipients,       \* BTreeSet<PeerId>
    aoi_recipients,            \* BTreeSet<PeerId>
    world,                     \* the players the world index has placed in a cell
    identity_players,          \* HashMap<String, u64>
    next_session_generation,
    hello_limiter,             \* its entry for a peer: none, or whether the interval is over
    rows                       \* the players table: the id of an identity

registryVars == <<sessions, player_peers, snapshot_recipients, aoi_recipients, world,
                  next_session_generation>>
identityVars == <<identity_players, rows>>
serverVars == <<registryVars, identityVars, hello_limiter>>
vars == <<poolVars, serverVars>>

-----------------------------------------------------------------------------
(* State.                                                                  *)

\* Server::new on an empty database.
Init ==
    /\ PoolInit
    /\ sessions = [id \in Id |-> None]
    /\ player_peers = [p \in Player |-> None]
    /\ snapshot_recipients = {}
    /\ aoi_recipients = {}
    /\ world = {}
    /\ next_session_generation = 0
    /\ hello_limiter = [id \in Id |-> "none"]
    /\ rows = [i \in Identity |-> None]
    /\ identity_players = rows

Registered == {id \in Id : sessions[id] # None}

Admitted == {i \in Identity : rows[i] # None}

-----------------------------------------------------------------------------
(* The registry.                                                           *)

\* rekey_live_session_generations: 1, 2, ... in the order of the peers.
Rekeyed(ss) ==
    [id \in Id |->
       IF ss[id] = None THEN None
       ELSE [ss[id] EXCEPT !.generation =
               Cardinality({j \in Id : ss[j] # None /\ j <= id})]]

\* Mutant of Rekey: the counter starts over, the live sessions keep theirs.
RekeyNothing(ss) == ss

\* The registry with a re-key, when the generations are used up.
Rekey(ss) == IF next_session_generation = MaxGeneration THEN Rekeyed(ss) ELSE ss

\* Mutant of NextGeneration: the generations are never used up.
NextGenerationUnchecked(ss) == next_session_generation + 1

\* allocate_session_generation, among the sessions ss.
NextGeneration(ss) ==
    IF next_session_generation = MaxGeneration
    THEN Cardinality({j \in Id : ss[j] # None}) + 1
    ELSE next_session_generation + 1

\* The sessions once the ones of the peers `gone` are unregistered.
Without(gone) == [id \in Id |-> IF id \in gone THEN None ELSE sessions[id]]

\* unregister_session of the peers `gone`, then register_session at id.
Register(gone, id, p, i, c) ==
    /\ sessions' = [Rekey(Without(gone)) EXCEPT ![id] =
                      [generation |-> NextGeneration(Without(gone)), player_id |-> p,
                       identity_hash |-> i, conn |-> c]]
    /\ player_peers' = [player_peers EXCEPT ![p] = id]
    /\ snapshot_recipients' = (snapshot_recipients \ gone) \cup {id}
    /\ aoi_recipients' = (aoi_recipients \ gone) \cup {id}
    /\ next_session_generation' = NextGeneration(Without(gone))
    /\ world' = world \cup {p}

\* unregister_session of a peer that left, and the world index.
Unregister(id) ==
    LET p == sessions[id].player_id
    IN  /\ sessions' = [sessions EXCEPT ![id] = None]
        /\ player_peers' =
             IF player_peers[p] = id THEN [player_peers EXCEPT ![p] = None]
             ELSE player_peers
        /\ snapshot_recipients' = snapshot_recipients \ {id}
        /\ aoi_recipients' = aoi_recipients \ {id}
        /\ world' = world \ {p}
        /\ UNCHANGED next_session_generation

-----------------------------------------------------------------------------
(* Handling the batch.                                                     *)

\* The server takes the next event, which has this kind and this peer.
Handle(kind, id) ==
    /\ Deliver
    /\ Head(batch).kind = kind
    /\ Head(batch).id = id

HandleConnected(id) ==
    /\ Handle("Connected", id)
    /\ UNCHANGED serverVars

\* on_disconnect.
OnDisconnect(id) ==
    /\ Handle("Disconnected", id)
    /\ hello_limiter' = [hello_limiter EXCEPT ![id] = "none"]
    /\ IF sessions[id] # None THEN Unregister(id) ELSE UNCHANGED registryVars
    /\ UNCHANGED identityVars

\* on_client_state moves the interest set of a session.
OnClientState(id) ==
    /\ Handle("Data", id)
    /\ sessions[id] # None
    /\ aoi_recipients' = aoi_recipients \cup {id}
    /\ UNCHANGED <<sessions, player_peers, snapshot_recipients, world,
                   next_session_generation, identityVars, hello_limiter>>

\* Any other datagram, a hello within the limiter's interval, or garbage.
HandleOther(id) ==
    /\ Handle("Data", id)
    /\ UNCHANGED serverVars

\* hello_limiter.allow lets a hello through, which charges the peer.
HelloAllowed(id) == hello_limiter[id] # "charged"

\* on_hello_at, for a peer that already has a session (answered again, or
\* refused another identity), or refused before it changes a table.
HelloAnswered(id) ==
    /\ Handle("Data", id)
    /\ HelloAllowed(id)
    /\ hello_limiter' = [hello_limiter EXCEPT ![id] = "charged"]
    /\ UNCHANGED <<registryVars, identityVars>>

\* Mutant of PeerKnown: the host is not asked.
PeerAlwaysKnown(id) == TRUE

\* host.peer_addr(peer) is Some.
PeerKnown(id) == owner[id] # None

\* admit_player_by_token: the row of the identity, or a new one while there
\* is room for it.
PlayerOf(i) == IF rows[i] # None THEN rows[i] ELSE Cardinality(Admitted) + 1

HasRow(i) == rows[i] # None \/ Cardinality(Admitted) < MaxPlayerRows

\* Mutant of Superseded: the earlier session is left alone.
SupersededIgnored(p) == {}

\* The earlier session's peer of a player, if any.
Superseded(p) == {pp \in Id : player_peers[p] = pp}

\* on_hello_at, admitted: the row, the index of identities, the eviction of
\* the identity's earlier session, the new session.
HelloAdmitted(id, i) ==
    /\ ~polling
    /\ batch # <<>>
    /\ Head(batch).kind = "Data"
    /\ Head(batch).id = id
    /\ HelloAllowed(id)
    /\ sessions[id] = None
    /\ PeerKnown(id)
    /\ HasRow(i)
    /\ LET p    == PlayerOf(i)
           gone == Superseded(p) \ {id}
       IN  /\ rows' = [rows EXCEPT ![i] = p]
           /\ identity_players' = [identity_players EXCEPT ![i] = p]
           /\ owner' = [o \in Id |-> IF o \in gone THEN None ELSE owner[o]]
           /\ retired' = retired \cup {o \in gone : owner[o] # None}
           /\ hello_limiter' = [o \in Id |-> IF o \in gone THEN "none"
                                             ELSE IF o = id THEN "charged"
                                             ELSE hello_limiter[o]]
           /\ Register(gone, id, p, i, Head(batch).conn)
    /\ batch' = Tail(batch)
    /\ UNCHANGED polling

-----------------------------------------------------------------------------
(* The rest of the loop, time, and the end of the process.                 *)

\* The host: what poll does before it returns its batch.
Host ==
    /\ \/ Poll
       \/ Return
       \/ /\ Len(batch) < MaxBatch
          /\ \/ \E id \in Id, c \in Conn : Accept(id, c)
             \/ \E id \in Id : Receive(id) \/ Lose(id)
             \/ \E old, new \in Id, c \in Conn : Replace(old, new, c)
    /\ UNCHANGED serverVars

\* process_aoi_work has delivered all there is for a recipient.
AoiDelivered(id) ==
    /\ ~polling
    /\ batch = <<>>
    /\ id \in aoi_recipients
    /\ aoi_recipients' = aoi_recipients \ {id}
    /\ UNCHANGED <<poolVars, sessions, player_peers, snapshot_recipients, world,
                   next_session_generation, identityVars, hello_limiter>>

\* The interval of the hello limiter elapses for a peer.
HelloCoolDown(id) ==
    /\ hello_limiter[id] = "charged"
    /\ hello_limiter' = [hello_limiter EXCEPT ![id] = "over"]
    /\ UNCHANGED <<poolVars, registryVars, identityVars>>

\* Mutant of LoadIdentityPlayers: the index starts empty.
LoadNoIdentityPlayers == [i \in Identity |-> None]

\* load_identity_players: the index is read from the table.
LoadIdentityPlayers == rows

\* The process stops anywhere and starts again: Server::new.
Restart ==
    /\ owner' = [id \in Id |-> None]
    /\ retired' = {}
    /\ polling' = FALSE
    /\ batch' = <<>>
    /\ sessions' = [id \in Id |-> None]
    /\ player_peers' = [p \in Player |-> None]
    /\ snapshot_recipients' = {}
    /\ aoi_recipients' = {}
    /\ world' = {}
    /\ next_session_generation' = 0
    /\ hello_limiter' = [id \in Id |-> "none"]
    /\ identity_players' = LoadIdentityPlayers
    /\ UNCHANGED rows

Next ==
    \/ Host
    \/ \E id \in Id :
         \/ HandleConnected(id)
         \/ OnDisconnect(id)
         \/ OnClientState(id)
         \/ HandleOther(id)
         \/ HelloAnswered(id)
         \/ \E i \in Identity : HelloAdmitted(id, i)
         \/ AoiDelivered(id)
         \/ HelloCoolDown(id)
    \/ Restart

Spec == Init /\ [][Next]_vars

-----------------------------------------------------------------------------
(* Properties.                                                             *)

\* Type invariant.
TypeOK ==
    /\ owner \in [Id -> Conn \cup {None}]
    /\ retired \subseteq Id
    /\ polling \in BOOLEAN
    /\ batch \in Seq(PoolEvent)
    /\ sessions \in [Id -> Session \cup {None}]
    /\ player_peers \in [Player -> Id \cup {None}]
    /\ snapshot_recipients \subseteq Id
    /\ aoi_recipients \subseteq Id
    /\ world \subseteq Player
    /\ identity_players \in [Identity -> Player \cup {None}]
    /\ next_session_generation \in 0..MaxGeneration
    /\ hello_limiter \in [Id -> {"none", "charged", "over"}]
    /\ rows \in [Identity -> Player \cup {None}]

\* The tables that say who is connected agree: a player has one session, the
\* indexes list exactly the registered peers, and the world holds exactly
\* the connected players, through evictions and late hellos.
RegistryConsistent ==
    /\ \A id \in Registered : player_peers[sessions[id].player_id] = id
    /\ \A p \in Player : player_peers[p] # None =>
         /\ player_peers[p] \in Registered
         /\ sessions[player_peers[p]].player_id = p
    /\ snapshot_recipients = Registered
    /\ aoi_recipients \subseteq Registered
    /\ world = {sessions[id].player_id : id \in Registered}

\* Two sessions never have the same generation, and the next one allocated is
\* new, also across a re-key: a fanout that captured (peer, generation) means
\* one session.
GenerationsDistinct ==
    /\ \A id, other \in Registered :
         sessions[id].generation = sessions[other].generation => id = other
    /\ \A id \in Registered : sessions[id].generation <= next_session_generation

\* A session belongs to the connection that owns its peer, or the event that
\* will end it is still in the batch: no session outlives its connection and
\* none is taken over by the next connection lent the same id.
SessionHasItsConnection ==
    \A id \in Registered :
        \/ owner[id] = sessions[id].conn
        \/ \E k \in DOMAIN batch : batch[k].kind = "Disconnected" /\ batch[k].id = id

\* The index of identities is the players table: one id per identity and one
\* identity per id, within the row ceiling; and the session of an identity
\* is played by its row.
IdentityIndexExact ==
    /\ identity_players = rows
    /\ \A i, j \in Admitted : rows[i] = rows[j] => i = j
    /\ \A id \in Registered : rows[sessions[id].identity_hash] = sessions[id].player_id

\* "Callers ... call clear when that peer or player disconnects.  This keeps
\* the map bounded to active/session keys": between batches the hello limiter
\* holds entries of connected peers alone.
HelloKeysActive ==
    ~polling /\ batch = <<>> =>
        \A id \in Id : hello_limiter[id] # "none" => owner[id] # None
=============================================================================
