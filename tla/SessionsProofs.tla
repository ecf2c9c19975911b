---------------------------- MODULE SessionsProofs ----------------------------
(***************************************************************************)
(* Proofs about Sessions, for every set of peers, connections and          *)
(* identities: the tables agree, generations are distinct also across a    *)
(* re-key, no session outlives its connection, an identity is its row.     *)
(***************************************************************************)
EXTENDS Sessions, FiniteSetTheorems, TLAPS

\* The event is about the connection that owns its peer now, or its peer was
\* given up since the poll began and is not lent again before the next.
KeepsId(e) == owner[e.id] = e.conn \/ (owner[e.id] = None /\ e.id \in retired)

EventsKeepIds == \A k \in DOMAIN batch : KeepsId(batch[k])

\* AUTOINCREMENT on a table no row leaves: the next id is unused.
RowsDense == \A i \in Admitted : rows[i] <= Cardinality(Admitted)

\* The inductive invariant.  EventsKeepIds is what PeerPool promises of a
\* batch, and makes peer_addr a test for the very connection of the event.
Inv ==
    /\ TypeOK
    /\ EventsKeepIds
    /\ RegistryConsistent
    /\ GenerationsDistinct
    /\ SessionHasItsConnection
    /\ IdentityIndexExact
    /\ RowsDense

-----------------------------------------------------------------------------
(* Cardinalities.                                                          *)

LEMMA AdmittedFinite ==
    /\ IsFiniteSet(Admitted)
    /\ Cardinality(Admitted) \in Nat
BY SessionsAssumption, FS_Subset, FS_CardinalityType DEF Admitted

\* The place of j among the peers L.
Rank(L, j) == Cardinality({n \in L : n <= j})

\* The ranks rekey_live_session_generations gives are distinct and small.
LEMMA Ranks ==
    ASSUME NEW L \in SUBSET Id, NEW j \in L
    PROVE  /\ Rank(L, j) \in 1..Cardinality(L)
           /\ \A k \in L : Rank(L, k) = Rank(L, j) => k = j
           /\ Cardinality(L) \in Nat
           /\ Cardinality(L) < MaxGeneration
<1> DEFINE Below(k) == {n \in L : n <= k}
<1>1. IsFiniteSet(L) /\ Cardinality(L) <= Cardinality(Id)
  BY SessionsAssumption, FS_Subset
<1>2. Cardinality(L) \in Nat /\ Cardinality(Id) \in Nat
  BY <1>1, SessionsAssumption, FS_CardinalityType
<1>3. Cardinality(L) < MaxGeneration
  BY <1>1, <1>2, SessionsAssumption
<1>4. \A k \in L : IsFiniteSet(Below(k)) /\ Cardinality(Below(k)) \in Nat
                   /\ Cardinality(Below(k)) <= Cardinality(L)
  BY <1>1, FS_Subset, FS_CardinalityType
<1>5. L \subseteq Nat
  BY SessionsAssumption
<1>6. Cardinality(Below(j)) # 0
  <2>1. j \in Below(j)
    BY <1>5
  <2> QED
    BY <1>4, <2>1, FS_EmptySet
<1>7. ASSUME NEW k \in L, Cardinality(Below(k)) = Cardinality(Below(j))
      PROVE  k = j
  <2>1. CASE k <= j
    <3>1. Below(k) \subseteq Below(j)
      <4> SUFFICES ASSUME NEW n \in L, n <= k PROVE n <= j
        OBVIOUS
      <4>1. n \in Nat /\ k \in Nat /\ j \in Nat
        BY <1>5
      <4> QED
        BY <2>1, <4>1
    <3>2. Below(k) = Below(j)
      BY <1>4, <1>7, <3>1, FS_Subset
    <3>3. j \in Below(j)
      BY <1>5
    <3> QED
      BY <1>5, <2>1, <3>2, <3>3
  <2>2. CASE j <= k
    <3>1. Below(j) \subseteq Below(k)
      <4> SUFFICES ASSUME NEW n \in L, n <= j PROVE n <= k
        OBVIOUS
      <4>1. n \in Nat /\ k \in Nat /\ j \in Nat
        BY <1>5
      <4> QED
        BY <2>2, <4>1
    <3>2. Below(k) = Below(j)
      BY <1>4, <1>7, <3>1, FS_Subset
    <3>3. k \in Below(k)
      BY <1>5
    <3> QED
      BY <1>5, <2>2, <3>2, <3>3
  <2> QED
    BY <1>5, <2>1, <2>2
<1> QED
  BY <1>2, <1>3, <1>4, <1>6, <1>7 DEF Rank

-----------------------------------------------------------------------------
(* The initial state.                                                      *)

LEMMA InitInv == Init => Inv
<1> SUFFICES ASSUME Init PROVE Inv
  OBVIOUS
<1>1. TypeOK
  <2>1. polling \in BOOLEAN
    BY DEF Init, PoolInit
  <2>2. batch \in Seq(PoolEvent) /\ next_session_generation \in 0..MaxGeneration
    BY SessionsAssumption DEF Init, PoolInit
  <2>3. hello_limiter \in [Id -> {"none", "charged", "over"}]
    BY DEF Init
  <2> QED
    BY <2>1, <2>2, <2>3 DEF Init, PoolInit, TypeOK
<1>2. Registered = {} /\ Admitted = {}
  BY DEF Init, Registered, Admitted
<1>3. EventsKeepIds
  BY DEF Init, PoolInit, EventsKeepIds
<1>4. RegistryConsistent
  BY <1>2 DEF Init, RegistryConsistent
<1>5. GenerationsDistinct /\ SessionHasItsConnection
  BY <1>2 DEF GenerationsDistinct, SessionHasItsConnection
<1>6. IdentityIndexExact /\ RowsDense
  BY <1>2 DEF Init, IdentityIndexExact, RowsDense
<1> QED
  BY <1>1, <1>3, <1>4, <1>5, <1>6 DEF Inv

-----------------------------------------------------------------------------
(* The parts of the invariant that a step does not touch.                  *)

LEMMA RegistryUnchanged ==
    ASSUME Inv, UNCHANGED registryVars
    PROVE  /\ RegistryConsistent' /\ GenerationsDistinct' /\ Registered' = Registered
BY DEF Inv, registryVars, RegistryConsistent, GenerationsDistinct, Registered

LEMMA IdentityUnchanged ==
    ASSUME Inv, UNCHANGED identityVars,
           \A id \in Registered' : id \in Registered /\ sessions'[id] = sessions[id]
    PROVE  IdentityIndexExact' /\ RowsDense'
<1>1. Admitted' = Admitted
  BY DEF identityVars, Admitted
<1> QED
  BY <1>1 DEF Inv, identityVars, IdentityIndexExact, RowsDense

-----------------------------------------------------------------------------
(* The host.                                                               *)

\* An event added at the end of the batch.
LEMMA AppendedEvent ==
    ASSUME NEW b \in Seq(PoolEvent), NEW e \in PoolEvent
    PROVE  /\ Append(b, e) \in Seq(PoolEvent)
           /\ \A k \in DOMAIN Append(b, e) :
                (k \in DOMAIN b /\ Append(b, e)[k] = b[k]) \/ Append(b, e)[k] = e
           /\ \A k \in DOMAIN b : k \in DOMAIN Append(b, e) /\ Append(b, e)[k] = b[k]
           /\ \E k \in DOMAIN Append(b, e) : Append(b, e)[k] = e
<1>1. Len(b) + 1 \in DOMAIN Append(b, e) /\ Append(b, e)[Len(b) + 1] = e
  OBVIOUS
<1> QED
  BY <1>1

\* The rest of a batch once its first event is taken.
LEMMA TakenEvent ==
    ASSUME NEW b \in Seq(PoolEvent), b # <<>>
    PROVE  /\ Tail(b) \in Seq(PoolEvent)
           /\ Head(b) \in PoolEvent /\ 1 \in DOMAIN b /\ Head(b) = b[1]
           /\ \A k \in DOMAIN Tail(b) : k + 1 \in DOMAIN b /\ Tail(b)[k] = b[k + 1]
           /\ \A k \in DOMAIN b : b[k] # Head(b) =>
                k - 1 \in DOMAIN Tail(b) /\ Tail(b)[k - 1] = b[k]
OBVIOUS

LEMMA HostTypes ==
    ASSUME TypeOK, Host
    PROVE  TypeOK'
<1>1. CASE Poll \/ Return
  BY <1>1 DEF Host, Poll, Return, TypeOK, serverVars, registryVars, identityVars
<1>2. ASSUME NEW id \in Id, NEW c \in Conn, Accept(id, c) PROVE TypeOK'
  <2>1. Report("Connected", id, c) \in PoolEvent
    BY DEF Report, PoolEvent
  <2> QED
    BY <1>2, <2>1, AppendedEvent
    DEF Host, Accept, TypeOK, serverVars, registryVars, identityVars
<1>3. ASSUME NEW id \in Id, Receive(id) PROVE TypeOK'
  <2>1. Report("Data", id, owner[id]) \in PoolEvent
    BY <1>3 DEF Report, PoolEvent, Receive, TypeOK
  <2> QED
    BY <1>3, <2>1, AppendedEvent
    DEF Host, Receive, TypeOK, serverVars, registryVars, identityVars
<1>4. ASSUME NEW id \in Id, Lose(id) PROVE TypeOK'
  <2>1. Report("Disconnected", id, owner[id]) \in PoolEvent
    BY <1>4 DEF Report, PoolEvent, Lose, TypeOK
  <2> QED
    BY <1>4, <2>1, AppendedEvent
    DEF Host, Lose, TypeOK, serverVars, registryVars, identityVars
<1>5. ASSUME NEW old \in Id, NEW new \in Id, NEW c \in Conn, Replace(old, new, c)
      PROVE  TypeOK'
  <2>1. /\ Report("Disconnected", old, owner[old]) \in PoolEvent
        /\ Report("Connected", new, c) \in PoolEvent
    BY <1>5 DEF Report, PoolEvent, Replace, TypeOK
  <2>2. batch' \in Seq(PoolEvent)
    BY <1>5, <2>1 DEF Replace, TypeOK
  <2> QED
    BY <1>5, <2>2 DEF Host, Replace, TypeOK, serverVars, registryVars, identityVars
<1> QED
  BY <1>1, <1>2, <1>3, <1>4, <1>5 DEF Host

\* No event of the batch is about a peer that may be lent.
LEMMA LendableUnused ==
    ASSUME TypeOK, EventsKeepIds, PoolAssumption, NEW id \in Id, Lendable(id)
    PROVE  \A k \in DOMAIN batch : batch[k].id # id
<1> SUFFICES ASSUME NEW k \in DOMAIN batch, batch[k].id = id PROVE FALSE
  OBVIOUS
<1>1. batch[k] \in PoolEvent /\ KeepsId(batch[k])
  BY DEF TypeOK, EventsKeepIds
<1> QED
  BY <1>1 DEF KeepsId, Lendable, PoolEvent

\* The events of the batch before a step of the host keep their peers.
LEMMA HostKeepsIds ==
    ASSUME TypeOK, EventsKeepIds, Host
    PROVE  EventsKeepIds'
<1> USE PoolAssumption
<1> DEFINE Kept(e) == owner'[e.id] = e.conn \/ (owner'[e.id] = None /\ e.id \in retired')
<1>0. (\A k \in DOMAIN batch' : Kept(batch'[k])) => EventsKeepIds'
  BY DEF EventsKeepIds, KeepsId
<1>1. CASE Poll \/ Return
  BY <1>1 DEF Poll, Return, EventsKeepIds, KeepsId
<1>2. ASSUME NEW id \in Id, NEW c \in Conn, Accept(id, c) PROVE EventsKeepIds'
  <2> DEFINE e == Report("Connected", id, c)
  <2>1. e \in PoolEvent /\ e.id = id /\ e.conn = c
    BY DEF Report, PoolEvent
  <2>2. batch' = Append(batch, e) /\ owner' = [owner EXCEPT ![id] = c] /\ retired' = retired
    BY <1>2 DEF Accept
  <2>3. \A k \in DOMAIN batch : batch[k].id # id /\ batch[k] \in PoolEvent /\ KeepsId(batch[k])
    BY <1>2, LendableUnused DEF Accept, TypeOK, EventsKeepIds
  <2>4. Kept(e)
    BY <2>1, <2>2 DEF KeepsId, TypeOK
  <2>5. \A k \in DOMAIN batch : Kept(batch[k])
    BY <2>2, <2>3 DEF KeepsId, TypeOK, PoolEvent
  <2> HIDE DEF e, Kept
  <2> QED
    BY <1>0, <2>1, <2>2, <2>4, <2>5, AppendedEvent DEF TypeOK
<1>3. ASSUME NEW id \in Id, Receive(id) PROVE EventsKeepIds'
  <2> DEFINE e == Report("Data", id, owner[id])
  <2>1. e \in PoolEvent /\ e.id = id /\ e.conn = owner[id]
    BY <1>3 DEF Report, PoolEvent, Receive, TypeOK
  <2>2. batch' = Append(batch, e) /\ UNCHANGED <<owner, retired>>
    BY <1>3 DEF Receive
  <2> HIDE DEF e
  <2> QED
    BY <2>1, <2>2, AppendedEvent DEF EventsKeepIds, TypeOK, KeepsId
<1>4. ASSUME NEW id \in Id, Lose(id) PROVE EventsKeepIds'
  <2> DEFINE e == Report("Disconnected", id, owner[id])
  <2>1. e \in PoolEvent /\ e.id = id
    BY <1>4 DEF Report, PoolEvent, Lose, TypeOK
  <2>2. /\ batch' = Append(batch, e) /\ owner' = [owner EXCEPT ![id] = None]
        /\ retired' = retired \cup {id}
    BY <1>4 DEF Lose
  <2>3. \A k \in DOMAIN batch : batch[k] \in PoolEvent /\ KeepsId(batch[k])
    BY DEF TypeOK, EventsKeepIds
  <2>4. Kept(e)
    BY <2>1, <2>2 DEF KeepsId, TypeOK
  <2>5. \A k \in DOMAIN batch : Kept(batch[k])
    BY <2>2, <2>3 DEF KeepsId, TypeOK, PoolEvent
  <2> HIDE DEF e, Kept
  <2> QED
    BY <1>0, <2>1, <2>2, <2>4, <2>5, AppendedEvent DEF TypeOK
<1>5. ASSUME NEW old \in Id, NEW new \in Id, NEW c \in Conn, Replace(old, new, c)
      PROVE  EventsKeepIds'
  <2> DEFINE d == Report("Disconnected", old, owner[old])
             e == Report("Connected", new, c)
  <2>1. /\ d \in PoolEvent /\ d.id = old
        /\ e \in PoolEvent /\ e.id = new /\ e.conn = c
    BY <1>5 DEF Report, PoolEvent, Replace, TypeOK
  <2>2. /\ batch' = batch \o <<d, e>>
        /\ owner' = [owner EXCEPT ![old] = None, ![new] = c]
        /\ retired' = retired \cup {old}
        /\ old # new
    BY <1>5 DEF Replace
  <2>3. \A k \in DOMAIN batch : batch[k].id # new /\ batch[k] \in PoolEvent /\ KeepsId(batch[k])
    BY <1>5, LendableUnused DEF Replace, TypeOK, EventsKeepIds
  <2>4. Kept(d) /\ Kept(e)
    BY <2>1, <2>2 DEF KeepsId, TypeOK
  <2>5. \A k \in DOMAIN batch : Kept(batch[k])
    BY <2>2, <2>3 DEF KeepsId, TypeOK, PoolEvent
  <2> HIDE DEF d, e, Kept
  <2>6. \A k \in DOMAIN batch' :
          (k \in DOMAIN batch /\ batch'[k] = batch[k]) \/ batch'[k] = d \/ batch'[k] = e
    BY <2>1, <2>2 DEF TypeOK
  <2> QED
    BY <1>0, <2>4, <2>5, <2>6
<1> QED
  BY <1>1, <1>2, <1>3, <1>4, <1>5 DEF Host

LEMMA HostKeepsSessions ==
    ASSUME Inv, Host
    PROVE  SessionHasItsConnection'
<1>0. TypeOK /\ UNCHANGED registryVars
  BY DEF Inv, Host, serverVars
<1>1. Registered' = Registered /\ sessions' = sessions
  BY <1>0 DEF Registered, registryVars
<1> SUFFICES ASSUME NEW id \in Registered
             PROVE  \/ owner'[id] = sessions[id].conn
                    \/ \E k \in DOMAIN batch' :
                         batch'[k].kind = "Disconnected" /\ batch'[k].id = id
  BY <1>1 DEF SessionHasItsConnection
<1>2. \/ owner[id] = sessions[id].conn
      \/ \E k \in DOMAIN batch : batch[k].kind = "Disconnected" /\ batch[k].id = id
  BY DEF Inv, SessionHasItsConnection
<1>3. id \in Id /\ sessions[id] \in Session /\ sessions[id].conn # None
  BY <1>0, PoolAssumption DEF Registered, TypeOK, Session
<1>4. CASE Poll \/ Return
  BY <1>2, <1>4 DEF Poll, Return
<1>5. ASSUME NEW x \in Id, NEW c \in Conn, Accept(x, c)
      PROVE  \/ owner'[id] = sessions[id].conn
             \/ \E k \in DOMAIN batch' :
                  batch'[k].kind = "Disconnected" /\ batch'[k].id = id
  <2>1. Report("Connected", x, c) \in PoolEvent
    BY DEF Report, PoolEvent
  <2>2. owner[id] = sessions[id].conn => owner'[id] = owner[id]
    BY <1>0, <1>3, <1>5 DEF Accept, Lendable, TypeOK
  <2> QED
    BY <1>0, <1>2, <1>5, <2>1, <2>2, AppendedEvent DEF Accept, TypeOK
<1>6. ASSUME NEW x \in Id, Receive(x)
      PROVE  \/ owner'[id] = sessions[id].conn
             \/ \E k \in DOMAIN batch' :
                  batch'[k].kind = "Disconnected" /\ batch'[k].id = id
  <2>1. Report("Data", x, owner[x]) \in PoolEvent
    BY <1>0, <1>6 DEF Report, PoolEvent, Receive, TypeOK
  <2> QED
    BY <1>0, <1>2, <1>6, <2>1, AppendedEvent DEF Receive, TypeOK
<1>7. ASSUME NEW x \in Id, Lose(x)
      PROVE  \/ owner'[id] = sessions[id].conn
             \/ \E k \in DOMAIN batch' :
                  batch'[k].kind = "Disconnected" /\ batch'[k].id = id
  <2> DEFINE e == Report("Disconnected", x, owner[x])
  <2>1. e \in PoolEvent /\ e.kind = "Disconnected" /\ e.id = x
    BY <1>0, <1>7 DEF Report, PoolEvent, Lose, TypeOK
  <2>2. batch' = Append(batch, e) /\ owner' = [owner EXCEPT ![x] = None]
    BY <1>7 DEF Lose
  <2> HIDE DEF e
  <2>3. CASE id = x
    BY <1>0, <2>1, <2>2, <2>3, AppendedEvent DEF TypeOK
  <2>4. CASE id # x
    BY <1>0, <1>2, <1>3, <2>1, <2>2, <2>4, AppendedEvent DEF TypeOK
  <2> QED
    BY <2>3, <2>4
<1>8. ASSUME NEW old \in Id, NEW new \in Id, NEW c \in Conn, Replace(old, new, c)
      PROVE  \/ owner'[id] = sessions[id].conn
             \/ \E k \in DOMAIN batch' :
                  batch'[k].kind = "Disconnected" /\ batch'[k].id = id
  <2> DEFINE d == Report("Disconnected", old, owner[old])
             e == Report("Connected", new, c)
  <2>1. /\ d \in PoolEvent /\ d.kind = "Disconnected" /\ d.id = old
        /\ e \in PoolEvent
    BY <1>0, <1>8 DEF Report, PoolEvent, Replace, TypeOK
  <2>2. batch' = batch \o <<d, e>> /\ owner' = [owner EXCEPT ![old] = None, ![new] = c]
    BY <1>8 DEF Replace
  <2> HIDE DEF d, e
  <2>3. /\ \A k \in DOMAIN batch : k \in DOMAIN batch' /\ batch'[k] = batch[k]
        /\ \E k \in DOMAIN batch' : batch'[k] = d
    <3>1. Len(batch) + 1 \in DOMAIN batch' /\ batch'[Len(batch) + 1] = d
      BY <1>0, <2>1, <2>2 DEF TypeOK
    <3>2. \A k \in DOMAIN batch : k \in DOMAIN batch' /\ batch'[k] = batch[k]
      BY <1>0, <2>1, <2>2 DEF TypeOK
    <3> QED
      BY <3>1, <3>2
  <2>4. CASE id = old
    BY <2>1, <2>3, <2>4
  <2>5. CASE id # old
    <3>1. owner[id] = sessions[id].conn => owner'[id] = owner[id]
      BY <1>0, <1>3, <1>8, <2>2, <2>5 DEF Replace, Lendable, TypeOK
    <3> QED
      BY <1>2, <2>3, <3>1
  <2> QED
    BY <2>4, <2>5
<1> QED
  BY <1>4, <1>5, <1>6, <1>7, <1>8 DEF Host

LEMMA HostInv ==
    ASSUME Inv, Host
    PROVE  Inv'
<1>1. UNCHANGED registryVars /\ UNCHANGED identityVars
  BY DEF Host, serverVars
<1>2. sessions' = sessions
  BY <1>1 DEF registryVars
<1>3. RegistryConsistent' /\ GenerationsDistinct' /\ Registered' = Registered
  BY <1>1, RegistryUnchanged
<1>4. IdentityIndexExact' /\ RowsDense'
  BY <1>1, <1>2, <1>3, IdentityUnchanged
<1> QED
  BY <1>3, <1>4, HostTypes, HostKeepsIds, HostKeepsSessions DEF Inv

-----------------------------------------------------------------------------
(* Handlers.                                                               *)

\* j's disconnection is still to be handled.
Ending(j, b) == \E k \in DOMAIN b : b[k].kind = "Disconnected" /\ b[k].id = j

\* Taking the first event leaves the others, and what they mean, as they are.
LEMMA Handled ==
    ASSUME Inv, batch # <<>>, batch' = Tail(batch),
           NEW gone \in SUBSET Id,
           \A o \in Id : owner'[o] = IF o \in gone THEN None ELSE owner[o],
           retired' = retired \cup {o \in gone : owner[o] # None}
    PROVE  /\ Head(batch) \in PoolEvent
           /\ KeepsId(Head(batch))
           /\ batch' \in Seq(PoolEvent)
           /\ EventsKeepIds'
           /\ \A j \in Id : Ending(j, batch) => \/ Ending(j, batch')
                                               \/ /\ Head(batch).kind = "Disconnected"
                                                  /\ Head(batch).id = j
<1>0. batch \in Seq(PoolEvent)
  BY DEF Inv, TypeOK
<1>1. /\ Tail(batch) \in Seq(PoolEvent)
      /\ Head(batch) \in PoolEvent /\ 1 \in DOMAIN batch /\ Head(batch) = batch[1]
      /\ \A k \in DOMAIN Tail(batch) : k + 1 \in DOMAIN batch /\ Tail(batch)[k] = batch[k + 1]
      /\ \A k \in DOMAIN batch : batch[k] # Head(batch) =>
           k - 1 \in DOMAIN Tail(batch) /\ Tail(batch)[k - 1] = batch[k]
  BY <1>0, TakenEvent
<1>2. KeepsId(Head(batch))
  BY <1>1 DEF Inv, EventsKeepIds
<1>3. EventsKeepIds'
  <2> SUFFICES ASSUME NEW k \in DOMAIN batch' PROVE KeepsId(batch[k])'
    BY DEF EventsKeepIds
  <2>1. k + 1 \in DOMAIN batch /\ batch'[k] = batch[k + 1]
    BY <1>1
  <2>2. KeepsId(batch[k + 1]) /\ batch[k + 1] \in PoolEvent
    BY <1>0, <2>1 DEF Inv, EventsKeepIds
  <2>3. batch[k + 1].id \in Id
    BY <2>2 DEF PoolEvent
  <2> QED
    BY <2>1, <2>2, <2>3 DEF KeepsId
<1>4. ASSUME NEW j \in Id, Ending(j, batch)
      PROVE  \/ Ending(j, batch')
             \/ Head(batch).kind = "Disconnected" /\ Head(batch).id = j
  BY <1>1, <1>4 DEF Ending
<1> QED
  BY <1>1, <1>2, <1>3, <1>4

\* The handlers that change no session and no row.
LEMMA QuietHandlers ==
    ASSUME Inv, NEW id \in Id,
           \/ HandleConnected(id) \/ OnClientState(id) \/ HandleOther(id)
           \/ HelloAnswered(id)
    PROVE  Inv'
<1>1. /\ batch # <<>> /\ batch' = Tail(batch) /\ UNCHANGED <<owner, retired, polling>>
      /\ Head(batch).kind # "Disconnected"
      /\ UNCHANGED <<sessions, player_peers, snapshot_recipients, world,
                     next_session_generation, identityVars>>
      /\ aoi_recipients' \in {aoi_recipients, aoi_recipients \cup (Registered \cap {id})}
      /\ hello_limiter' \in [Id -> {"none", "charged", "over"}]
  BY DEF Inv, TypeOK, HandleConnected, OnClientState, HandleOther, HelloAnswered, Handle,
         Deliver, serverVars, registryVars, Registered
<1>2. /\ Head(batch) \in PoolEvent
      /\ batch' \in Seq(PoolEvent)
      /\ EventsKeepIds'
      /\ \A j \in Id : Ending(j, batch) => Ending(j, batch')
  <2> DEFINE gone == {}
  <2>1. /\ gone \in SUBSET Id
        /\ \A o \in Id : owner'[o] = IF o \in gone THEN None ELSE owner[o]
        /\ retired' = retired \cup {o \in gone : owner[o] # None}
    BY <1>1
  <2> HIDE DEF gone
  <2> QED
    BY <1>1, <2>1, Handled
<1>3. Registered' = Registered
  BY <1>1 DEF Registered
<1>4. TypeOK'
  BY <1>1, <1>2 DEF Inv, TypeOK, Registered, identityVars
<1>5. RegistryConsistent'
  BY <1>1, <1>3 DEF Inv, RegistryConsistent
<1>6. GenerationsDistinct'
  BY <1>1, <1>3 DEF Inv, GenerationsDistinct
<1>7. SessionHasItsConnection'
  BY <1>1, <1>2, <1>3 DEF Inv, SessionHasItsConnection, Ending, Registered
<1>8. IdentityIndexExact' /\ RowsDense'
  BY <1>1, <1>3, IdentityUnchanged
<1> QED
  BY <1>2, <1>4, <1>5, <1>6, <1>7, <1>8 DEF Inv

LEMMA OnDisconnectInv ==
    ASSUME Inv, NEW id \in Id, OnDisconnect(id)
    PROVE  Inv'
<1>1. /\ batch # <<>> /\ batch' = Tail(batch) /\ UNCHANGED <<owner, retired, polling>>
      /\ Head(batch).id = id
      /\ UNCHANGED identityVars
  BY DEF OnDisconnect, Handle, Deliver
<1>2. /\ batch' \in Seq(PoolEvent)
      /\ EventsKeepIds'
      /\ \A j \in Id : j # id /\ Ending(j, batch) => Ending(j, batch')
  <2> DEFINE gone == {}
  <2>1. /\ gone \in SUBSET Id
        /\ \A o \in Id : owner'[o] = IF o \in gone THEN None ELSE owner[o]
        /\ retired' = retired \cup {o \in gone : owner[o] # None}
    BY <1>1
  <2> HIDE DEF gone
  <2> QED
    BY <1>1, <2>1, Handled
<1>3. hello_limiter' \in [Id -> {"none", "charged", "over"}]
  BY DEF OnDisconnect, Inv, TypeOK
<1>4. CASE sessions[id] = None
  <2>1. UNCHANGED registryVars
    BY <1>4 DEF OnDisconnect
  <2>2. UNCHANGED <<sessions, player_peers, snapshot_recipients, aoi_recipients, world,
                    next_session_generation>>
    BY <2>1 DEF registryVars
  <2>3. RegistryConsistent' /\ GenerationsDistinct' /\ Registered' = Registered
    BY <2>1, RegistryUnchanged
  <2>4. TypeOK'
    BY <1>1, <1>2, <1>3, <2>2 DEF Inv, TypeOK, identityVars
  <2>5. SessionHasItsConnection'
    BY <1>1, <1>2, <1>4, <2>2, <2>3 DEF Inv, SessionHasItsConnection, Ending, Registered
  <2>6. IdentityIndexExact' /\ RowsDense'
    BY <1>1, <2>2, <2>3, IdentityUnchanged
  <2> QED
    BY <1>2, <2>3, <2>4, <2>5, <2>6 DEF Inv
<1>5. CASE sessions[id] # None
  <2> DEFINE p == sessions[id].player_id
  <2>0. /\ id \in Registered /\ sessions[id] \in Session /\ p \in Player
        /\ player_peers[p] = id
    BY <1>5 DEF Inv, TypeOK, Registered, RegistryConsistent, Session
  <2>1. /\ sessions' = [sessions EXCEPT ![id] = None]
        /\ player_peers' = [player_peers EXCEPT ![p] = None]
        /\ snapshot_recipients' = snapshot_recipients \ {id}
        /\ aoi_recipients' = aoi_recipients \ {id}
        /\ world' = world \ {p}
        /\ UNCHANGED next_session_generation
    BY <1>5, <2>0 DEF OnDisconnect, Unregister
  <2> HIDE DEF p
  <2>2. Registered' = Registered \ {id} /\ \A j \in Registered' : sessions'[j] = sessions[j]
    BY <2>1 DEF Inv, TypeOK, Registered
  <2>3. TypeOK'
    BY <1>1, <1>2, <1>3, <2>0, <2>1 DEF Inv, TypeOK, identityVars
  <2>4. RegistryConsistent'
    <3>1. \A j \in Registered : j # id => sessions[j].player_id # p
      BY <2>0 DEF Inv, RegistryConsistent
    <3>2. \A j \in Registered : sessions[j].player_id \in Player
      BY DEF Inv, TypeOK, Registered, Session
    <3>3. \A j \in Registered' : player_peers'[sessions'[j].player_id] = j
      BY <2>0, <2>1, <2>2, <3>1, <3>2 DEF Inv, TypeOK, RegistryConsistent
    <3>4. \A q \in Player : player_peers'[q] # None =>
            /\ player_peers'[q] \in Registered'
            /\ sessions'[player_peers'[q]].player_id = q
      <4> SUFFICES ASSUME NEW q \in Player, player_peers'[q] # None
                   PROVE  /\ player_peers'[q] \in Registered'
                          /\ sessions'[player_peers'[q]].player_id = q
        OBVIOUS
      <4>1. q # p /\ player_peers'[q] = player_peers[q]
        BY <2>0, <2>1 DEF Inv, TypeOK
      <4>2. player_peers[q] \in Registered /\ sessions[player_peers[q]].player_id = q
        BY <4>1 DEF Inv, RegistryConsistent
      <4>3. player_peers[q] # id
        BY <4>1, <4>2 DEF p
      <4> QED
        BY <2>2, <4>1, <4>2, <4>3
    <3>5. snapshot_recipients' = Registered' /\ aoi_recipients' \subseteq Registered'
      BY <2>1, <2>2 DEF Inv, RegistryConsistent
    <3>6. world' = {sessions'[j].player_id : j \in Registered'}
      <4>1. world = {sessions[j].player_id : j \in Registered}
        BY DEF Inv, RegistryConsistent
      <4>2. sessions[id].player_id = p
        BY DEF p
      <4> QED
        BY <2>0, <2>1, <2>2, <3>1, <4>1, <4>2
    <3> QED
      BY <3>3, <3>4, <3>5, <3>6 DEF RegistryConsistent
  <2>5. GenerationsDistinct'
    BY <2>1, <2>2 DEF Inv, GenerationsDistinct
  <2>6. SessionHasItsConnection'
    BY <1>1, <1>2, <2>2 DEF Inv, SessionHasItsConnection, Ending, Registered
  <2>7. IdentityIndexExact' /\ RowsDense'
    BY <1>1, <2>2, IdentityUnchanged
  <2> QED
    BY <1>2, <2>3, <2>4, <2>5, <2>6, <2>7 DEF Inv
<1> QED
  BY <1>4, <1>5

-----------------------------------------------------------------------------
(* Admission.                                                              *)

\* allocate_session_generation: a re-key keeps everything of a session but its
\* generation, and the new generation is above all of them.
LEMMA Generations ==
    ASSUME Inv, NEW gone \in SUBSET Id
    PROVE  LET ss == Rekey(Without(gone))
               g  == NextGeneration(Without(gone))
           IN  /\ ss \in [Id -> Session \cup {None}]
               /\ g \in 1..MaxGeneration
               /\ \A j \in Id : ss[j] # None <=> j \in Registered \ gone
               /\ \A j \in Registered \ gone :
                    /\ ss[j].player_id = sessions[j].player_id
                    /\ ss[j].identity_hash = sessions[j].identity_hash
                    /\ ss[j].conn = sessions[j].conn
                    /\ ss[j].generation < g
               /\ \A j, k \in Registered \ gone :
                    ss[j].generation = ss[k].generation => j = k
<1> DEFINE old == Without(gone)
           L == Registered \ gone
<1>0. TypeOK /\ GenerationsDistinct /\ L \in SUBSET Id
  BY DEF Inv, Registered
<1>1. /\ old \in [Id -> Session \cup {None}]
      /\ \A j \in Id : old[j] # None <=> j \in L
      /\ \A j \in L : old[j] = sessions[j] /\ old[j] \in Session
  BY <1>0 DEF Without, TypeOK, Registered
<1>2. L = {j \in Id : old[j] # None}
  BY <1>0, <1>1
<1>3. IsFiniteSet(L) /\ Cardinality(L) \in Nat /\ Cardinality(L) < MaxGeneration
  <2>1. IsFiniteSet(L) /\ Cardinality(L) <= Cardinality(Id)
    BY <1>0, SessionsAssumption, FS_Subset
  <2>2. Cardinality(L) \in Nat /\ Cardinality(Id) \in Nat
    BY <2>1, SessionsAssumption, FS_CardinalityType
  <2> QED
    BY <2>1, <2>2, SessionsAssumption
<1>4. next_session_generation \in 0..MaxGeneration /\ MaxGeneration \in Nat
  BY <1>0, SessionsAssumption DEF TypeOK
<1> HIDE DEF old, L
<1>5. CASE next_session_generation # MaxGeneration
  <2>1. Rekey(old) = old /\ NextGeneration(old) = next_session_generation + 1
    BY <1>5 DEF Rekey, NextGeneration
  <2>2. next_session_generation + 1 \in 1..MaxGeneration
    BY <1>4, <1>5
  <2>3. \A j \in L : /\ old[j].generation <= next_session_generation
                     /\ old[j].generation \in 1..MaxGeneration
    BY <1>0, <1>1 DEF GenerationsDistinct, L, Session
  <2>4. \A j \in L : old[j].generation < next_session_generation + 1
    BY <1>4, <2>3
  <2>5. \A j, k \in L : old[j].generation = old[k].generation => j = k
    BY <1>0, <1>1 DEF GenerationsDistinct, L
  <2> QED
    BY <1>1, <2>1, <2>2, <2>4, <2>5 DEF old, L
<1>6. CASE next_session_generation = MaxGeneration
  <2> DEFINE re == Rekeyed(old)
  <2>1. Rekey(old) = re /\ NextGeneration(old) = Cardinality(L) + 1
    BY <1>2, <1>6 DEF Rekey, NextGeneration
  <2>2. \A j \in L : /\ Rank(L, j) \in 1..Cardinality(L)
                     /\ \A k \in L : Rank(L, k) = Rank(L, j) => k = j
    BY <1>0, Ranks
  <2>3. \A j \in Id : {n \in Id : old[n] # None /\ n <= j} = {n \in L : n <= j}
    BY <1>2
  <2>4. \A j \in L : Rank(L, j) \in 1..MaxGeneration /\ Rank(L, j) < Cardinality(L) + 1
    BY <1>3, <1>4, <2>2
  <2>5. re = [j \in Id |-> IF old[j] = None THEN None
                           ELSE [old[j] EXCEPT !.generation = Rank(L, j)]]
    BY <2>3 DEF Rekeyed, Rank
  <2> HIDE DEF re
  <2>6. \A j \in Id \ L : re[j] = None
    BY <1>1, <2>5
  <2>7. \A j \in L : re[j] = [old[j] EXCEPT !.generation = Rank(L, j)]
    BY <1>0, <1>1, <2>5
  <2>8. \A j \in L : /\ re[j] \in Session /\ re[j].generation = Rank(L, j)
                     /\ re[j].player_id = old[j].player_id
                     /\ re[j].identity_hash = old[j].identity_hash
                     /\ re[j].conn = old[j].conn
    BY <1>1, <2>4, <2>7 DEF Session
  <2>9. re \in [Id -> Session \cup {None}]
    <3>1. \A j \in Id : re[j] \in Session \cup {None}
      BY <2>6, <2>8
    <3> QED
      BY <2>5, <3>1
  <2>10. \A j \in Id : re[j] # None <=> j \in L
    BY <2>6, <2>8, NoSessionAssumption
  <2>11. Cardinality(L) + 1 \in 1..MaxGeneration
    BY <1>3, <1>4
  <2>12. \A j \in L : re[j].generation < Cardinality(L) + 1
    BY <2>4, <2>8
  <2>13. \A j, k \in L : re[j].generation = re[k].generation => j = k
    BY <2>2, <2>8
  <2> QED
    BY <1>1, <2>1, <2>8, <2>9, <2>10, <2>11, <2>12, <2>13 DEF old, L
<1> QED
  BY <1>5, <1>6

\* admit_player_by_token: the row of an identity is its own.
LEMMA AdmittedRow ==
    ASSUME Inv, NEW i \in Identity, HasRow(i)
    PROVE  /\ PlayerOf(i) \in Player
           /\ \A j \in Admitted : rows[j] = PlayerOf(i) => j = i
           /\ rows[i] # None => PlayerOf(i) = rows[i]
           /\ rows[i] = None => PlayerOf(i) = Cardinality(Admitted) + 1
<1>1. Cardinality(Admitted) \in Nat
  BY AdmittedFinite
<1>2. CASE rows[i] # None
  BY <1>2 DEF PlayerOf, Inv, TypeOK, IdentityIndexExact, Admitted
<1>3. CASE rows[i] = None
  <2>1. Cardinality(Admitted) < MaxPlayerRows
    BY <1>3 DEF HasRow
  <2>2. PlayerOf(i) = Cardinality(Admitted) + 1
    BY <1>3 DEF PlayerOf
  <2>3. \A j \in Admitted : rows[j] <= Cardinality(Admitted) /\ rows[j] \in Player
    BY DEF Inv, RowsDense, TypeOK, Admitted
  <2>4. \A j \in Admitted : rows[j] # PlayerOf(i)
    BY <1>1, <2>2, <2>3 DEF Player
  <2>5. PlayerOf(i) \in Player
    BY <1>1, <2>1, <2>2, SessionsAssumption DEF Player
  <2> QED
    BY <1>3, <2>2, <2>4, <2>5
<1> QED
  BY <1>2, <1>3

LEMMA HelloAdmittedInv ==
    ASSUME Inv, NEW id \in Id, NEW i \in Identity, HelloAdmitted(id, i)
    PROVE  Inv'
<1> DEFINE p    == PlayerOf(i)
           gone == Superseded(p) \ {id}
           ss   == Rekey(Without(gone))
           g    == NextGeneration(Without(gone))
           new  == [generation |-> g, player_id |-> p, identity_hash |-> i,
                    conn |-> Head(batch).conn]
           R    == Registered \ gone
<1>1. /\ batch # <<>> /\ batch' = Tail(batch) /\ Head(batch).id = id
      /\ Head(batch).kind = "Data"
      /\ sessions[id] = None /\ owner[id] # None /\ HasRow(i)
      /\ rows' = [rows EXCEPT ![i] = p]
      /\ identity_players' = [identity_players EXCEPT ![i] = p]
      /\ owner' = [o \in Id |-> IF o \in gone THEN None ELSE owner[o]]
      /\ retired' = retired \cup {o \in gone : owner[o] # None}
      /\ hello_limiter' = [o \in Id |-> IF o \in gone THEN "none"
                                        ELSE IF o = id THEN "charged"
                                        ELSE hello_limiter[o]]
      /\ sessions' = [ss EXCEPT ![id] = new]
      /\ player_peers' = [player_peers EXCEPT ![p] = id]
      /\ snapshot_recipients' = (snapshot_recipients \ gone) \cup {id}
      /\ aoi_recipients' = (aoi_recipients \ gone) \cup {id}
      /\ next_session_generation' = g
      /\ world' = world \cup {p}
      /\ polling' = polling
  BY DEF HelloAdmitted, Register, PeerKnown
<1>2. gone \in SUBSET Id /\ id \notin gone /\ id \notin Registered
  BY <1>1 DEF Superseded, Registered
<1>3. /\ p \in Player
      /\ \A j \in Admitted : rows[j] = p => j = i
      /\ rows[i] # None => p = rows[i]
      /\ rows[i] = None => p = Cardinality(Admitted) + 1
  BY <1>1, AdmittedRow
<1>4. /\ ss \in [Id -> Session \cup {None}]
      /\ g \in 1..MaxGeneration
      /\ \A j \in Id : ss[j] # None <=> j \in R
      /\ \A j \in R : /\ ss[j].player_id = sessions[j].player_id
                      /\ ss[j].identity_hash = sessions[j].identity_hash
                      /\ ss[j].conn = sessions[j].conn
                      /\ ss[j].generation < g
      /\ \A j, k \in R : ss[j].generation = ss[k].generation => j = k
  BY <1>2, Generations
\* The sessions of p are the ones evicted.
<1>5. /\ \A j \in Registered : sessions[j].player_id = p <=> j \in gone
      /\ gone \subseteq Registered
      /\ \A j \in gone : player_peers[p] = j
  <2>1. /\ \A j \in Registered : player_peers[sessions[j].player_id] = j
        /\ \A q \in Player : player_peers[q] # None =>
             player_peers[q] \in Registered /\ sessions[player_peers[q]].player_id = q
    BY DEF Inv, RegistryConsistent
  <2>2. \A j \in gone : j \in Id /\ player_peers[p] = j /\ j # None
    BY <1>2, SessionsAssumption DEF Superseded
  <2>3. gone \subseteq Registered /\ \A j \in gone : sessions[j].player_id = p
    BY <1>3, <2>1, <2>2
  <2>4. \A j \in Registered : sessions[j].player_id = p => j \in gone
    BY <1>2, <2>1 DEF Superseded, Registered
  <2> QED
    BY <2>2, <2>3, <2>4
<1>6. /\ Head(batch) \in PoolEvent
      /\ KeepsId(Head(batch))
      /\ batch' \in Seq(PoolEvent)
      /\ EventsKeepIds'
      /\ \A j \in Id : Ending(j, batch) => Ending(j, batch')
  <2>1. \A o \in Id : owner'[o] = IF o \in gone THEN None ELSE owner[o]
    BY <1>1
  <2> HIDE DEF gone
  <2> QED
    BY <1>1, <1>2, <2>1, Handled
<1>7. owner[id] = Head(batch).conn /\ Head(batch).conn \in Conn
  BY <1>1, <1>6 DEF KeepsId, PoolEvent
<1> HIDE DEF p, gone, ss, g, R
<1>8. /\ new \in Session /\ new # None /\ new.generation = g /\ new.player_id = p
      /\ new.identity_hash = i /\ new.conn = owner[id]
  BY <1>3, <1>4, <1>7, NoSessionAssumption DEF Session
<1> HIDE DEF new
<1>9. /\ Registered' = R \cup {id}
      /\ sessions'[id] = new
      /\ \A j \in R : sessions'[j] = ss[j] /\ j # id /\ j \in Registered /\ j \in Id
  <2>1. \A j \in R : j \in Registered /\ j # id /\ j \in Id
    BY <1>2 DEF R, Registered
  <2>2. sessions'[id] = new
    BY <1>1, <1>4
  <2>3. \A j \in Id : j # id => sessions'[j] = ss[j]
    BY <1>1, <1>4
  <2>4. Registered' = R \cup {id}
    BY <1>4, <1>8, <2>1, <2>2, <2>3 DEF Registered
  <2> QED
    BY <2>1, <2>2, <2>3, <2>4
<1>10. TypeOK'
  <2>1. owner' \in [Id -> Conn \cup {None}] /\ retired' \subseteq Id
    BY <1>1, <1>2 DEF Inv, TypeOK
  <2>2. hello_limiter' \in [Id -> {"none", "charged", "over"}]
    BY <1>1 DEF Inv, TypeOK
  <2>3. sessions' \in [Id -> Session \cup {None}]
    BY <1>1, <1>4, <1>8
  <2>4. /\ player_peers' \in [Player -> Id \cup {None}]
        /\ snapshot_recipients' \subseteq Id /\ aoi_recipients' \subseteq Id
        /\ world' \subseteq Player
    BY <1>1, <1>3 DEF Inv, TypeOK
  <2>5. /\ rows' \in [Identity -> Player \cup {None}]
        /\ identity_players' \in [Identity -> Player \cup {None}]
    BY <1>1, <1>3 DEF Inv, TypeOK
  <2>6. next_session_generation' \in 0..MaxGeneration
    BY <1>1, <1>4, SessionsAssumption
  <2>7. polling' \in BOOLEAN
    BY <1>1 DEF Inv, TypeOK
  <2> QED
    BY <1>6, <2>1, <2>2, <2>3, <2>4, <2>5, <2>6, <2>7 DEF TypeOK
<1>11. RegistryConsistent'
  <2>1. \A j \in R : sessions[j].player_id \in Player /\ sessions[j].player_id # p
    BY <1>5, <1>9 DEF R, Inv, TypeOK, Registered, Session
  <2>2. \A j \in Registered' : player_peers'[sessions'[j].player_id] = j
    <3>1. player_peers'[p] = id
      BY <1>1, <1>3 DEF Inv, TypeOK
    <3>2. \A j \in R : player_peers'[sessions[j].player_id] = j
      BY <1>1, <1>9, <2>1 DEF Inv, TypeOK, RegistryConsistent
    <3> QED
      BY <1>4, <1>8, <1>9, <3>1, <3>2
  <2>3. \A q \in Player : player_peers'[q] # None =>
          player_peers'[q] \in Registered' /\ sessions'[player_peers'[q]].player_id = q
    <3> SUFFICES ASSUME NEW q \in Player, player_peers'[q] # None
                 PROVE  player_peers'[q] \in Registered' /\ sessions'[player_peers'[q]].player_id = q
      OBVIOUS
    <3>1. CASE q = p
      BY <1>1, <1>3, <1>8, <1>9, <3>1 DEF Inv, TypeOK
    <3>2. CASE q # p
      <4>1. player_peers'[q] = player_peers[q]
        BY <1>1, <3>2 DEF Inv, TypeOK
      <4>2. player_peers[q] \in Registered /\ sessions[player_peers[q]].player_id = q
        BY <4>1 DEF Inv, RegistryConsistent
      <4>3. player_peers[q] \in R
        BY <1>5, <3>2, <4>2 DEF R
      <4> QED
        BY <1>4, <1>9, <4>1, <4>2, <4>3
    <3> QED
      BY <3>1, <3>2
  <2>4. snapshot_recipients' = Registered' /\ aoi_recipients' \subseteq Registered'
    BY <1>1, <1>9 DEF R, Inv, RegistryConsistent
  <2>5. world' = {sessions'[j].player_id : j \in Registered'}
    <3>1. world = {sessions[j].player_id : j \in Registered}
      BY DEF Inv, RegistryConsistent
    <3>2. \A j \in R : sessions'[j].player_id = sessions[j].player_id
      BY <1>4, <1>9
    <3>3. \A j \in Registered : j \in R \/ sessions[j].player_id = p
      BY <1>5 DEF R
    <3>4. sessions'[id].player_id = p
      BY <1>8, <1>9
    <3> QED
      BY <1>1, <1>9, <3>1, <3>2, <3>3, <3>4
  <2> QED
    BY <2>2, <2>3, <2>4, <2>5 DEF RegistryConsistent
<1>12. GenerationsDistinct'
  <2>1. \A j \in R : /\ sessions'[j].generation = ss[j].generation
                     /\ ss[j].generation \in Nat /\ ss[j].generation < g
    BY <1>4, <1>9 DEF Session
  <2>2. g \in Nat /\ sessions'[id].generation = g
    BY <1>4, <1>8, <1>9
  <2>3. \A j \in R : sessions'[j].generation # g /\ sessions'[j].generation <= g
    BY <2>1, <2>2
  <2>4. \A j, k \in R : sessions'[j].generation = sessions'[k].generation => j = k
    BY <1>4, <2>1
  <2> QED
    BY <1>1, <1>9, <2>2, <2>3, <2>4 DEF GenerationsDistinct
<1>13. SessionHasItsConnection'
  <2> SUFFICES ASSUME NEW j \in Registered'
               PROVE  owner'[j] = sessions'[j].conn \/ Ending(j, batch')
    BY DEF SessionHasItsConnection, Ending
  <2>1. CASE j = id
    BY <1>1, <1>2, <1>8, <1>9, <2>1
  <2>2. CASE j # id
    <3>1. j \in R /\ j \in Id /\ sessions'[j].conn = sessions[j].conn /\ j \in Registered
      BY <1>4, <1>9, <2>2
    <3>2. owner[j] = sessions[j].conn \/ Ending(j, batch)
      BY <3>1 DEF Inv, SessionHasItsConnection, Ending
    <3>3. owner'[j] = owner[j]
      BY <1>1, <3>1 DEF R
    <3> QED
      BY <1>6, <3>1, <3>2, <3>3
  <2> QED
    BY <2>1, <2>2
<1>14. Admitted' = Admitted \cup {i} /\ \A j \in Identity : j # i => rows'[j] = rows[j]
  BY <1>1, <1>3, NoSessionAssumption DEF Inv, TypeOK, Admitted
<1>15. rows'[i] = p
  BY <1>1 DEF Inv, TypeOK
<1>16. IdentityIndexExact'
  <2>1. identity_players' = rows'
    BY <1>1 DEF Inv, IdentityIndexExact
  <2>2. \A x, y \in Admitted' : rows'[x] = rows'[y] => x = y
    BY <1>3, <1>14, <1>15 DEF Inv, IdentityIndexExact, Admitted
  <2>3. \A j \in Registered' : rows'[sessions'[j].identity_hash] = sessions'[j].player_id
    <3>1. \A j \in R : sessions[j].identity_hash # i
      <4> SUFFICES ASSUME NEW j \in R, sessions[j].identity_hash = i PROVE FALSE
        OBVIOUS
      <4>1. rows[i] = sessions[j].player_id /\ sessions[j].player_id \in Player
        BY <1>9 DEF Inv, IdentityIndexExact, TypeOK, Registered, Session
      <4>2. sessions[j].player_id = p
        BY <1>3, <4>1, NoSessionAssumption
      <4> QED
        BY <1>5, <1>9, <4>2 DEF R
    <3>2. \A j \in R : /\ sessions[j].identity_hash \in Identity
                       /\ rows[sessions[j].identity_hash] = sessions[j].player_id
      BY <1>9 DEF Inv, IdentityIndexExact, TypeOK, Registered, Session
    <3> QED
      BY <1>4, <1>8, <1>9, <1>14, <1>15, <3>1, <3>2
  <2> QED
    BY <2>1, <2>2, <2>3 DEF IdentityIndexExact
<1>17. RowsDense'
  <2>1. IsFiniteSet(Admitted) /\ Cardinality(Admitted) \in Nat
    BY AdmittedFinite
  <2>2. Cardinality(Admitted') = IF i \in Admitted THEN Cardinality(Admitted)
                                 ELSE Cardinality(Admitted) + 1
    BY <1>14, <2>1, FS_AddElement
  <2>3. \A j \in Admitted : rows[j] <= Cardinality(Admitted) /\ rows[j] \in Nat
    BY DEF Inv, RowsDense, TypeOK, Admitted, Player
  <2>4. CASE i \in Admitted
    BY <1>3, <1>14, <1>15, <2>2, <2>3, <2>4 DEF RowsDense, Admitted
  <2>5. CASE i \notin Admitted
    <3>1. rows'[i] = Cardinality(Admitted) + 1 /\ Cardinality(Admitted)' = Cardinality(Admitted) + 1
      BY <1>3, <1>15, <2>2, <2>5 DEF Admitted
    <3>2. \A j \in Admitted : rows'[j] = rows[j]
      BY <1>14, <2>5 DEF Admitted
    <3>3. \A j \in Admitted' : rows'[j] <= Cardinality(Admitted) + 1
      BY <1>14, <2>1, <2>3, <3>1, <3>2
    <3> QED
      BY <3>1, <3>3 DEF RowsDense
  <2> QED
    BY <2>4, <2>5
<1> QED
  BY <1>6, <1>10, <1>11, <1>12, <1>13, <1>16, <1>17 DEF Inv

-----------------------------------------------------------------------------
(* The other steps, and the theorems.                                      *)

LEMMA RestartInv ==
    ASSUME Inv, Restart
    PROVE  Inv'
<1>1. TypeOK'
  <2>1. polling' \in BOOLEAN
    BY DEF Restart
  <2>2. batch' \in Seq(PoolEvent) /\ next_session_generation' \in 0..MaxGeneration
    BY SessionsAssumption DEF Restart
  <2>3. hello_limiter' \in [Id -> {"none", "charged", "over"}]
    BY DEF Restart
  <2> QED
    BY <2>1, <2>2, <2>3 DEF Restart, LoadIdentityPlayers, Inv, TypeOK
<1>2. Registered' = {} /\ Admitted' = Admitted
  BY DEF Restart, Registered, Admitted
<1>3. EventsKeepIds'
  BY DEF Restart, EventsKeepIds
<1>4. RegistryConsistent'
  BY <1>2 DEF Restart, RegistryConsistent
<1>5. GenerationsDistinct' /\ SessionHasItsConnection'
  BY <1>2 DEF GenerationsDistinct, SessionHasItsConnection
<1>6. IdentityIndexExact' /\ RowsDense'
  BY <1>2 DEF Restart, LoadIdentityPlayers, Inv, IdentityIndexExact, RowsDense
<1> QED
  BY <1>1, <1>3, <1>4, <1>5, <1>6 DEF Inv

\* Steps that change nothing but the AoI queue or the hello limiter.
LEMMA SmallSteps ==
    ASSUME Inv,
           UNCHANGED <<poolVars, sessions, player_peers, snapshot_recipients, world,
                       next_session_generation, identityVars>>,
           aoi_recipients' \subseteq aoi_recipients,
           hello_limiter' \in [Id -> {"none", "charged", "over"}]
    PROVE  Inv'
<1>1. Registered' = Registered
  BY DEF Registered
<1>2. TypeOK' /\ EventsKeepIds'
  BY DEF Inv, TypeOK, EventsKeepIds, KeepsId, poolVars, identityVars
<1>3. RegistryConsistent' /\ GenerationsDistinct'
  BY <1>1 DEF Inv, RegistryConsistent, GenerationsDistinct
<1>4. SessionHasItsConnection'
  BY <1>1 DEF Inv, SessionHasItsConnection, poolVars
<1>5. IdentityIndexExact' /\ RowsDense'
  BY <1>1, IdentityUnchanged
<1> QED
  BY <1>2, <1>3, <1>4, <1>5 DEF Inv

LEMMA NextInv == Inv /\ [Next]_vars => Inv'
<1> SUFFICES ASSUME Inv, [Next]_vars PROVE Inv'
  OBVIOUS
<1>1. CASE UNCHANGED vars
  BY <1>1, SmallSteps DEF vars, serverVars, registryVars, Inv, TypeOK
<1>2. CASE Host
  BY <1>2, HostInv
<1>3. ASSUME NEW id \in Id,
             HandleConnected(id) \/ OnClientState(id) \/ HandleOther(id) \/ HelloAnswered(id)
      PROVE  Inv'
  BY <1>3, QuietHandlers
<1>4. ASSUME NEW id \in Id, OnDisconnect(id) PROVE Inv'
  BY <1>4, OnDisconnectInv
<1>5. ASSUME NEW id \in Id, NEW i \in Identity, HelloAdmitted(id, i) PROVE Inv'
  BY <1>5, HelloAdmittedInv
<1>6. ASSUME NEW id \in Id, AoiDelivered(id) PROVE Inv'
  BY <1>6, SmallSteps DEF AoiDelivered, Inv, TypeOK
<1>7. ASSUME NEW id \in Id, HelloCoolDown(id) PROVE Inv'
  BY <1>7, SmallSteps DEF HelloCoolDown, registryVars, Inv, TypeOK
<1>8. CASE Restart
  BY <1>8, RestartInv
<1> QED
  BY <1>1, <1>2, <1>3, <1>4, <1>5, <1>6, <1>7, <1>8 DEF Next

\* The inductive invariant holds in every state the server reaches.
THEOREM Invariant == Spec => []Inv
BY InitInv, NextInv, PTL DEF Spec

\* Every table of the server keeps its type, and a re-key never runs out of
\* generations.
THEOREM TypeCorrect == Spec => []TypeOK
<1>1. Inv => TypeOK
  BY DEF Inv
<1> QED
  BY <1>1, Invariant, PTL

\* sessions, player_peers, the two recipient indexes and the world index agree
\* whenever a handler is entered or left: register_session's two errors never
\* happen.
THEOREM TablesAgree == Spec => []RegistryConsistent
<1>1. Inv => RegistryConsistent
  BY DEF Inv
<1> QED
  BY <1>1, Invariant, PTL

\* allocate_session_generation and rekey_live_session_generations never give
\* two live sessions one generation.
THEOREM GenerationsUnique == Spec => []GenerationsDistinct
<1>1. Inv => GenerationsDistinct
  BY DEF Inv
<1> QED
  BY <1>1, Invariant, PTL

\* No session outlives its connection unless its Disconnected event is still in
\* the batch: the peer_addr test in on_hello_at and the host's promise not to
\* reuse ids within a batch are enough.
THEOREM NoGhostSession == Spec => []SessionHasItsConnection
<1>1. Inv => SessionHasItsConnection
  BY DEF Inv
<1> QED
  BY <1>1, Invariant, PTL

\* The in-memory index of identities is the players table, across restarts.
THEOREM IdentitiesPersist == Spec => []IdentityIndexExact
<1>1. Inv => IdentityIndexExact
  BY DEF Inv
<1> QED
  BY <1>1, Invariant, PTL
=============================================================================
