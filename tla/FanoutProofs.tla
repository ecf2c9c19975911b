----------------------------- MODULE FanoutProofs -----------------------------
(***************************************************************************)
(* Proofs about Fanout, for any number of peers, cells, queue limits and   *)
(* generations: types and limits, that a captured recipient means the      *)
(* session it was captured from also across a re-key, that a chat line is  *)
(* delivered as meant and at most once, that the shared audience is the    *)
(* registry, that the byte counter is exact and that the audiences fit.    *)
(***************************************************************************)
EXTENDS Fanout, SumsProofs, FunctionTheorems

\* What the registry promises: births and generations grow, a birth is one
\* session's.
RegistryInv ==
    /\ RegistryTypeOK
    /\ \A p \in Registered : /\ sessions[p].generation <= next_session_generation
                             /\ sessions[p].born <= births
    /\ \A p, q \in Registered : sessions[p].born = sessions[q].born => p = q

\* An audience of the past, by the sessions ss and the generation g: it holds
\* no generation that is still to come, which is why no later session can
\* match one of its members by mistake.
AudienceOK(ss, g, a) ==
    /\ a \in Audience
    /\ \A r \in a.members :
         /\ r.generation <= g
         /\ (ss[r.peer] # None /\ ss[r.peer].generation = r.generation) =>
              ss[r.peer].born = r.born
    /\ \A r, q \in a.members : r.peer = q.peer \/ r.born = q.born => r = q

JobOK(ss, g, job) ==
    job \in Job /\ AudienceOK(ss, g, job.recipients) /\ Pending(job) # {}

ChatInv ==
    /\ chat_fanout \in Seq(Job)
    /\ Len(chat_fanout) <= ChatItems
    /\ \A i \in 1..Len(chat_fanout) :
         /\ JobOK(sessions, next_session_generation, chat_fanout[i])
         /\ chat_fanout[i].msg # 0
    /\ \A i, j \in 1..Len(chat_fanout) : chat_fanout[i].msg = chat_fanout[j].msg => i = j

ClockInv ==
    clock_fanout = None \/ JobOK(sessions, next_session_generation, clock_fanout)

CacheInv ==
    \/ fanout_audience_cache = None
    \/ /\ AudienceOK(sessions, next_session_generation, fanout_audience_cache)
       /\ fanout_audience_cache.members = Recipients
       /\ fanout_audience_cache.members # {}

\* The inductive invariant.
Inv ==
    /\ RegistryInv
    /\ ChatInv
    /\ ClockInv
    /\ CacheInv
    /\ PendingNotDelivered
    /\ TickTypeOK
    /\ chat_fanout_bytes \in Nat
    /\ fanout_prefer_clock \in BOOLEAN

-----------------------------------------------------------------------------
(* Finite sets.                                                            *)

\* A finite set does not cover a larger one.
LEMMA Pigeonhole ==
    ASSUME NEW T, IsFiniteSet(T), NEW U, IsFiniteSet(U), Cardinality(T) < Cardinality(U)
    PROVE  \E u \in U : u \notin T
<1>1. Cardinality(T) \in Nat /\ Cardinality(U) \in Nat
  BY FS_CardinalityType
<1> SUFFICES ASSUME U \subseteq T PROVE FALSE
  OBVIOUS
<1>2. Cardinality(U) <= Cardinality(T)
  BY FS_Subset
<1> QED BY <1>1, <1>2

\* The values of a function on a finite set are no more than its arguments.
LEMMA FiniteRange ==
    ASSUME NEW S, IsFiniteSet(S), NEW f, DOMAIN f = S, f = [x \in S |-> f[x]]
    PROVE  /\ IsFiniteSet({f[x] : x \in S})
           /\ Cardinality({f[x] : x \in S}) <= Cardinality(S)
<1> DEFINE T == {f[x] : x \in S}
<1>1. f \in [S -> T]
  OBVIOUS
<1>2. f \in Surjection(S, T)
  BY <1>1 DEF Surjection
<1> HIDE DEF T
<1>3. IsFiniteSet(T) /\ Cardinality(T) <= Cardinality(S)
  BY <1>2, FS_Surjection
<1> QED BY <1>3 DEF T

LEMMA RegisteredFinite ==
    /\ IsFiniteSet(Registered)
    /\ Cardinality(Registered) \in 0..MaxPeers
    /\ \A p \in Peer : p \notin Registered => Cardinality(Registered) < MaxPeers
<1>1. IsFiniteSet(Peer) /\ Cardinality(Peer) = MaxPeers
  BY FanoutAssumption, FS_Interval DEF Peer
<1>2. Registered \in SUBSET Peer
  BY DEF Registered
<1>3. IsFiniteSet(Registered) /\ Cardinality(Registered) <= MaxPeers
      /\ (Cardinality(Peer) = Cardinality(Registered) => Peer = Registered)
  BY <1>1, <1>2, FS_Subset
<1>4. Cardinality(Registered) \in Nat
  BY <1>3, FS_CardinalityType
<1> QED BY <1>1, <1>3, <1>4, FanoutAssumption

\* A line's number is one that no queued line has.
LEMMA FreeMsgIsFree ==
    ASSUME ChatInv, ChatHasRoom
    PROVE  FreeMsg \in 1..ChatItems /\ ~Queued(FreeMsg)
<1> DEFINE D == 1..Len(chat_fanout)
           f == [i \in D |-> chat_fanout[i].msg]
           T == {f[i] : i \in D}
<1>1. Len(chat_fanout) \in Nat /\ DOMAIN chat_fanout = D /\ Len(chat_fanout) < ChatItems
  BY DEF ChatInv, ChatHasRoom
<1>2. IsFiniteSet(D) /\ Cardinality(D) = Len(chat_fanout)
  <2>1. ASSUME NEW n \in Nat PROVE IsFiniteSet(1..n) /\ Cardinality(1..n) = n
    BY FS_Interval
  <2> QED BY <1>1, <2>1
<1>3. IsFiniteSet(1..ChatItems) /\ Cardinality(1..ChatItems) = ChatItems
  BY FanoutAssumption, FS_Interval
<1>4. DOMAIN f = D /\ f = [i \in D |-> f[i]]
  OBVIOUS
<1>5. IsFiniteSet(T) /\ Cardinality(T) <= Len(chat_fanout)
  <2> HIDE DEF D, f
  <2> QED BY <1>2, <1>4, FiniteRange
<1>6. Cardinality(T) \in Nat
  BY <1>5, FS_CardinalityType
<1>7. \E m \in 1..ChatItems : m \notin T
  <2> HIDE DEF T
  <2>1. Cardinality(T) < Cardinality(1..ChatItems)
    BY <1>1, <1>3, <1>5, <1>6, FanoutAssumption
  <2> QED BY <1>3, <1>5, <2>1, Pigeonhole
<1>8. \A m : m \notin T => ~Queued(m)
  BY <1>1 DEF Queued
<1> QED BY <1>7, <1>8 DEF FreeMsg

-----------------------------------------------------------------------------
(* Capturing an audience.                                                  *)

\* There is always an address for a new audience.
LEMMA FreshTagIsNat ==
    ASSUME NEW U, IsFiniteSet(U)
    PROVE  FreshTag(U) \in Nat
<1> DEFINE f == [a \in U |-> a.tag]
           T == {f[a] : a \in U}
<1>1. Cardinality(U) \in Nat
  BY FS_CardinalityType
<1>2. IsFiniteSet(T) /\ Cardinality(T) <= Cardinality(U)
  <2>1. DOMAIN f = U /\ f = [a \in U |-> f[a]]
    OBVIOUS
  <2> HIDE DEF f
  <2> QED BY <2>1, FiniteRange
<1>3. Cardinality(T) \in Nat
  BY <1>2, FS_CardinalityType
<1>4. IsFiniteSet(0..Cardinality(U)) /\ Cardinality(0..Cardinality(U)) = Cardinality(U) + 1
  BY <1>1, FS_Interval
<1>5. \E n \in 0..Cardinality(U) : n \notin T
  <2> HIDE DEF T
  <2>1. Cardinality(T) < Cardinality(0..Cardinality(U))
    BY <1>1, <1>2, <1>3, <1>4
  <2> QED BY <1>2, <1>4, <2>1, Pigeonhole
<1>6. \E n \in 0..Cardinality(U) : \A a \in U : a.tag # n
  BY <1>5
<1>7. FreshTag(U) \in 0..Cardinality(U)
  BY <1>6 DEF FreshTag
<1> QED BY <1>1, <1>7

LEMMA AudiencesFinite ==
    ASSUME ChatInv, NEW clock, NEW cache
    PROVE  IsFiniteSet(Audiences(chat_fanout, clock, cache))
<1> DEFINE D == 1..Len(chat_fanout)
           f == [i \in D |-> chat_fanout[i].recipients]
           Queue == {chat_fanout[i].recipients : i \in DOMAIN chat_fanout}
           OfClock == IF clock = None THEN {} ELSE {clock.recipients}
           OfCache == IF cache = None THEN {} ELSE {cache}
<1>1. Len(chat_fanout) \in Nat /\ DOMAIN chat_fanout = D
  BY DEF ChatInv
<1>2. IsFiniteSet(D)
  BY <1>1, FS_Interval
<1>3. IsFiniteSet({f[i] : i \in D})
  <2>1. DOMAIN f = D /\ f = [i \in D |-> f[i]]
    OBVIOUS
  <2> HIDE DEF f, D
  <2> QED BY <1>2, <2>1, FiniteRange
<1>4. IsFiniteSet(Queue)
  <2>1. Queue = {f[i] : i \in D}
    BY <1>1
  <2> QED BY <1>3, <2>1
<1>5. IsFiniteSet(OfClock) /\ IsFiniteSet(OfCache)
  BY FS_EmptySet, FS_Singleton
<1>6. IsFiniteSet(Queue \cup OfClock)
  <2> HIDE DEF Queue, OfClock
  <2> QED BY <1>4, <1>5, FS_Union
<1>7. IsFiniteSet((Queue \cup OfClock) \cup OfCache)
  <2> HIDE DEF Queue, OfClock, OfCache
  <2> QED BY <1>5, <1>6, FS_Union
<1> QED BY <1>7 DEF Audiences

\* The registry as an audience.
LEMMA RecipientsOK ==
    ASSUME RegistryInv, NEW t \in Nat
    PROVE  AudienceOK(sessions, next_session_generation, [tag |-> t, members |-> Recipients])
<1>1. \A p \in Registered : p \in Peer /\ sessions[p] \in Session
  BY DEF Registered, RegistryInv, RegistryTypeOK
<1>2. \A r \in Recipients :
        /\ r \in Recipient
        /\ r.peer \in Registered
        /\ r.generation = sessions[r.peer].generation
        /\ r.born = sessions[r.peer].born
  BY <1>1 DEF Recipients, Recipient, Session
<1>3. [tag |-> t, members |-> Recipients] \in Audience
  BY <1>2 DEF Audience
<1>4. \A r, q \in Recipients : r.peer = q.peer => r = q
  BY DEF Recipients
<1>5. \A r, q \in Recipients : r.born = q.born => r = q
  BY <1>2, <1>4 DEF RegistryInv
<1>6. \A r \in Recipients : r.generation <= next_session_generation
  BY <1>2 DEF RegistryInv
<1> QED BY <1>2, <1>3, <1>4, <1>5, <1>6 DEF AudienceOK

\* What capture_fanout_recipients returns.
LEMMA CapturedOK ==
    ASSUME RegistryInv, ChatInv, CacheInv, NEW clock, CanCapture(clock)
    PROVE  /\ AudienceOK(sessions, next_session_generation, Captured(clock))
           /\ Captured(clock).members = Recipients
           /\ Captured(clock).members # {}
<1>1. CASE fanout_audience_cache # None
  BY <1>1 DEF Captured, CacheInv
<1>2. CASE fanout_audience_cache = None
  <2> DEFINE t == FreshTag(Audiences(chat_fanout, clock, None))
  <2>1. t \in Nat
    BY AudiencesFinite, FreshTagIsNat
  <2>2. Captured(clock) = [tag |-> t, members |-> Recipients]
    BY <1>2 DEF Captured
  <2>3. Recipients # {}
    BY <1>2 DEF CanCapture, Fits, Recipients
  <2> HIDE DEF t
  <2> QED BY <2>1, <2>2, <2>3, RecipientsOK
<1> QED BY <1>1, <1>2

\* A new job starts before its first recipient.
LEMMA NewJobOK ==
    ASSUME NEW a, AudienceOK(sessions, next_session_generation, a), a.members # {},
           NEW msg \in 0..ChatItems, NEW size \in 1..MaxPayload, NEW c \in Cell \cup {None}
    PROVE  /\ JobOK(sessions, next_session_generation, NewJob(msg, size, c, a))
           /\ NewJob(msg, size, c, a).msg = msg
           /\ NewJob(msg, size, c, a).recipients = a
           /\ Pending(NewJob(msg, size, c, a)) = a.members
<1> DEFINE job == NewJob(msg, size, c, a)
<1>1. a \in Audience
  BY DEF AudienceOK
<1>2. job \in Job
  BY <1>1, FanoutAssumption DEF NewJob, Job
<1>3. job.msg = msg /\ job.recipients = a /\ job.next = 0
  BY DEF NewJob
<1>4. \A r \in a.members : r.peer > 0
  BY <1>1 DEF Audience, Recipient, Peer
<1>5. Pending(job) = a.members
  BY <1>3, <1>4 DEF Pending
<1> QED BY <1>2, <1>3, <1>5 DEF JobOK

-----------------------------------------------------------------------------
(* Changes of the registry.                                                *)

\* The ranks a re-key gives are small.
LEMMA RankBound ==
    ASSUME NEW q \in Registered
    PROVE  Rank(q) \in 1..Cardinality(Registered)
<1> DEFINE S == {p \in Registered : p <= q}
<1>1. IsFiniteSet(Registered) /\ Cardinality(Registered) \in Nat
  BY RegisteredFinite
<1>2. IsFiniteSet(S) /\ Cardinality(S) <= Cardinality(Registered)
  BY <1>1, FS_Subset
<1>3. Cardinality(S) \in Nat
  BY <1>2, FS_CardinalityType
<1>4. q \in S
  BY DEF Registered, Peer
<1>5. Cardinality(S) # 0
  BY <1>2, <1>4, FS_EmptySet
<1>6. Rank(q) = Cardinality(S)
  BY DEF Rank
<1> QED BY <1>1, <1>2, <1>3, <1>5, <1>6

\* The sessions a registration keeps, their births and their new generations.
LEMMA KeptSessions ==
    ASSUME RegistryInv, NEW p \in Peer, sessions[p] = None
    PROVE  /\ Kept \in [Peer -> Session \cup {None}]
           /\ NewGeneration \in 1..MaxGeneration
           /\ \A q \in Peer : (Kept[q] = None) <=> (sessions[q] = None)
           /\ \A q \in Registered : /\ Kept[q].generation < NewGeneration
                                     /\ Kept[q].born = sessions[q].born
<1>0. \A q \in Registered : q \in Peer /\ sessions[q] \in Session /\ sessions[q] # None
  BY DEF Registered, RegistryInv, RegistryTypeOK
<1>1. CASE ~Rekeying
  <2>1. Kept = sessions /\ NewGeneration = next_session_generation + 1
    BY <1>1 DEF Kept, NewGeneration
  <2>2. NewGeneration \in 1..MaxGeneration
    BY <1>1, <2>1, FanoutAssumption DEF Rekeying, RegistryInv, RegistryTypeOK
  <2>3. \A q \in Registered : sessions[q].generation < next_session_generation + 1
    BY <1>0, FanoutAssumption DEF RegistryInv, RegistryTypeOK, Session
  <2> QED BY <2>1, <2>2, <2>3 DEF RegistryInv, RegistryTypeOK
<1>2. CASE Rekeying
  <2>1. NewGeneration = Cardinality(Registered) + 1
    BY <1>2 DEF NewGeneration
  <2>2. Cardinality(Registered) \in Nat /\ Cardinality(Registered) < MaxPeers
    BY RegisteredFinite DEF Registered
  <2>3. NewGeneration \in 1..MaxGeneration
    BY <2>1, <2>2, FanoutAssumption
  <2>4. Kept = [q \in Peer |-> IF sessions[q] = None THEN None
                               ELSE [sessions[q] EXCEPT !.generation = Rank(q)]]
    BY <1>2 DEF Kept
  <2>5. \A q \in Registered :
          /\ Kept[q] = [sessions[q] EXCEPT !.generation = Rank(q)]
          /\ Rank(q) \in 1..MaxGeneration
          /\ Rank(q) < NewGeneration
    BY <1>0, <2>1, <2>2, <2>4, RankBound, FanoutAssumption
  <2>6. \A q \in Registered : /\ Kept[q] \in Session
                               /\ Kept[q].generation = Rank(q)
                               /\ Kept[q].born = sessions[q].born
    BY <1>0, <2>5 DEF Session
  <2>7. \A q \in Peer : q \notin Registered => sessions[q] = None /\ Kept[q] = None
    BY <2>4 DEF Registered
  <2>8. Kept \in [Peer -> Session \cup {None}]
    BY <2>4, <2>6, <2>7
  <2>9. \A q \in Peer : (Kept[q] = None) <=> (sessions[q] = None)
    BY <1>0, <2>6, <2>7, NoneAssumption
  <2> QED BY <2>3, <2>5, <2>6, <2>8, <2>9
<1> QED BY <1>1, <1>2

LEMMA RegisterKeepsRegistry ==
    ASSUME RegistryInv, NEW p \in Peer, RegisterSession(p)
    PROVE  RegistryInv'
<1> DEFINE new == [generation |-> NewGeneration, cell |-> 0, born |-> births + 1]
<1>1. sessions[p] = None /\ births \in 0..MaxSessions /\ births < MaxSessions
  BY DEF RegisterSession, RegistryInv, RegistryTypeOK
<1>2. births' = births + 1 /\ next_session_generation' = NewGeneration
      /\ sessions' = [Kept EXCEPT ![p] = new]
  BY DEF RegisterSession
<1>3. /\ Kept \in [Peer -> Session \cup {None}]
      /\ NewGeneration \in 1..MaxGeneration
      /\ \A q \in Peer : (Kept[q] = None) <=> (sessions[q] = None)
      /\ \A q \in Registered : /\ Kept[q].generation < NewGeneration
                                /\ Kept[q].born = sessions[q].born
  BY <1>1, KeptSessions
<1>4. new \in Session
  BY <1>1, <1>3, FanoutAssumption DEF Session
<1>5. sessions'[p] = new /\ \A q \in Peer : q # p => sessions'[q] = Kept[q]
  BY <1>2, <1>3
<1>6. RegistryTypeOK'
  BY <1>1, <1>2, <1>3, <1>4, FanoutAssumption DEF RegistryTypeOK
<1>7. Registered' = Registered \cup {p} /\ p \notin Registered
  BY <1>1, <1>3, <1>4, <1>5, NoneAssumption DEF Registered
<1>8. \A q \in Registered : /\ q \in Peer /\ q # p
                             /\ sessions'[q] = Kept[q]
                             /\ Kept[q] \in Session
                             /\ sessions'[q].born = sessions[q].born
                             /\ sessions[q].born \in Int
                             /\ sessions[q].born <= births
  BY <1>3, <1>5, <1>7 DEF Registered, RegistryInv, RegistryTypeOK, Session
<1>9. \A q \in Registered' : /\ sessions'[q].generation <= next_session_generation'
                              /\ sessions'[q].born <= births'
  <2> SUFFICES ASSUME NEW q \in Registered'
               PROVE  /\ sessions'[q].generation <= next_session_generation'
                      /\ sessions'[q].born <= births'
    OBVIOUS
  <2>1. CASE q = p
    BY <1>1, <1>2, <1>3, <1>5, <2>1, FanoutAssumption
  <2>2. CASE q \in Registered
    <3>1. Kept[q].generation \in Int
      BY <1>8, <2>2 DEF Session
    <3> QED BY <1>1, <1>2, <1>3, <1>8, <2>2, <3>1, FanoutAssumption
  <2> QED BY <1>7, <2>1, <2>2
<1>10. \A q, o \in Registered' : sessions'[q].born = sessions'[o].born => q = o
  <2>1. \A q \in Registered : sessions'[q].born # sessions'[p].born
    BY <1>1, <1>5, <1>8, FanoutAssumption
  <2>2. \A q, o \in Registered : sessions'[q].born = sessions'[o].born => q = o
    BY <1>8 DEF RegistryInv
  <2> QED BY <1>7, <2>1, <2>2
<1> QED BY <1>6, <1>9, <1>10 DEF RegistryInv

\* No member of an audience of the past matches a new session.
LEMMA RegisterKeepsAudiences ==
    ASSUME RegistryInv, NEW p \in Peer, RegisterSession(p), ~Rekeying,
           NEW a, AudienceOK(sessions, next_session_generation, a)
    PROVE  AudienceOK(sessions', next_session_generation', a)
<1>1. sessions[p] = None /\ next_session_generation \in Nat
      /\ sessions \in [Peer -> Session \cup {None}]
  BY FanoutAssumption DEF RegisterSession, RegistryInv, RegistryTypeOK
<1>2. next_session_generation' = next_session_generation + 1
      /\ sessions' = [sessions EXCEPT ![p] =
           [generation |-> next_session_generation + 1, cell |-> 0, born |-> births + 1]]
  BY DEF RegisterSession, Kept, NewGeneration
<1>3. \A r \in a.members : r.peer \in Peer /\ r.generation \in Int
                            /\ r.generation <= next_session_generation
  BY FanoutAssumption DEF AudienceOK, Audience, Recipient
<1>4. \A r \in a.members : r.peer # p => sessions'[r.peer] = sessions[r.peer]
  BY <1>1, <1>2, <1>3
<1>5. \A r \in a.members : r.peer = p => sessions'[r.peer].generation # r.generation
  BY <1>1, <1>2, <1>3
<1>6. \A r \in a.members : r.generation <= next_session_generation'
  BY <1>1, <1>2, <1>3
<1> QED BY <1>4, <1>5, <1>6 DEF AudienceOK

\* A session that leaves takes no one's place.
LEMMA UnregisterKeeps ==
    ASSUME RegistryInv, NEW p \in Peer, UnregisterSession(p)
    PROVE  /\ RegistryInv'
           /\ \A a : AudienceOK(sessions, next_session_generation, a) =>
                    AudienceOK(sessions', next_session_generation', a)
<1>1. /\ sessions' = [sessions EXCEPT ![p] = None]
      /\ next_session_generation' = next_session_generation
      /\ births' = births
      /\ sessions \in [Peer -> Session \cup {None}]
  BY DEF UnregisterSession, RegistryInv, RegistryTypeOK
<1>2. \A q \in Peer : sessions'[q] = IF q = p THEN None ELSE sessions[q]
  BY <1>1
<1>3. Registered' = Registered \ {p}
  BY <1>2 DEF Registered
<1>4. \A q \in Registered' : q \in Registered /\ sessions'[q] = sessions[q]
  BY <1>2, <1>3 DEF Registered
<1>5. RegistryTypeOK'
  BY <1>1 DEF RegistryInv, RegistryTypeOK
<1>6. RegistryInv'
  BY <1>1, <1>4, <1>5 DEF RegistryInv
<1>7. ASSUME NEW a, AudienceOK(sessions, next_session_generation, a)
      PROVE  AudienceOK(sessions', next_session_generation', a)
  <2>1. \A r \in a.members : r.peer \in Peer
    BY <1>7 DEF AudienceOK, Audience, Recipient
  <2> QED BY <1>1, <1>2, <1>7, <2>1 DEF AudienceOK
<1> QED BY <1>6, <1>7

\* A session that moves is the same session.
LEMMA ClientStateKeeps ==
    ASSUME RegistryInv, NEW p \in Peer, NEW c \in Cell, OnClientState(p, c)
    PROVE  /\ RegistryInv'
           /\ Recipients' = Recipients
           /\ \A a : AudienceOK(sessions, next_session_generation, a) =>
                    AudienceOK(sessions', next_session_generation', a)
<1>1. /\ sessions' = [sessions EXCEPT ![p].cell = c]
      /\ next_session_generation' = next_session_generation
      /\ births' = births
      /\ sessions \in [Peer -> Session \cup {None}]
      /\ sessions[p] # None
  BY DEF OnClientState, RegistryInv, RegistryTypeOK
<1>2. sessions[p] \in Session /\ sessions'[p] = [sessions[p] EXCEPT !.cell = c]
  BY <1>1
<1>3. /\ sessions'[p] \in Session
      /\ sessions'[p].generation = sessions[p].generation
      /\ sessions'[p].born = sessions[p].born
  BY <1>2 DEF Session
<1>4. \A q \in Peer : q # p => sessions'[q] = sessions[q]
  BY <1>1
<1>5. Registered' = Registered
  BY <1>1, <1>3, <1>4, NoneAssumption DEF Registered
<1>6. \A q \in Registered : /\ sessions'[q].generation = sessions[q].generation
                             /\ sessions'[q].born = sessions[q].born
  BY <1>3, <1>4 DEF Registered
<1>7. sessions' \in [Peer -> Session \cup {None}]
  BY <1>1, <1>3
<1>8. RegistryTypeOK'
  BY <1>1, <1>7 DEF RegistryInv, RegistryTypeOK
<1>9. RegistryInv'
  BY <1>1, <1>5, <1>6, <1>8 DEF RegistryInv
<1>10. Recipients' = Recipients
  <2>1. \A q \in Registered :
          [peer |-> q, generation |-> sessions'[q].generation, born |-> sessions'[q].born] =
          [peer |-> q, generation |-> sessions[q].generation, born |-> sessions[q].born]
    BY <1>6
  <2> QED BY <1>5, <2>1 DEF Recipients
<1>11. ASSUME NEW a, AudienceOK(sessions, next_session_generation, a)
       PROVE  AudienceOK(sessions', next_session_generation', a)
  <2>1. \A r \in a.members : r.peer \in Peer
    BY <1>11 DEF AudienceOK, Audience, Recipient
  <2>2. \A r \in a.members : sessions'[r.peer] # None =>
          /\ sessions[r.peer] # None
          /\ sessions'[r.peer].generation = sessions[r.peer].generation
          /\ sessions'[r.peer].born = sessions[r.peer].born
    BY <1>1, <1>3, <1>4, <2>1
  <2> QED BY <1>1, <1>11, <2>2 DEF AudienceOK
<1> QED BY <1>9, <1>10, <1>11

-----------------------------------------------------------------------------
(* The steps.                                                              *)

LEMMA InitInv == Init => Inv
<1> SUFFICES ASSUME Init PROVE Inv
  OBVIOUS
<1>1. Registered = {}
  BY DEF Init, Registered
<1>2. RegistryInv
  BY <1>1, FanoutAssumption DEF Init, RegistryInv, RegistryTypeOK
<1>3. ChatInv /\ PendingNotDelivered
  BY FanoutAssumption DEF Init, ChatInv, PendingNotDelivered
<1>4. TickTypeOK
  BY FanoutAssumption DEF Init, TickTypeOK, NoWork, ScansPerTick, SendsPerTick
<1> QED BY <1>2, <1>3, <1>4 DEF Init, Inv, ClockInv, CacheInv

\* The jobs stay as they are while the registry changes around them.
LEMMA JobsStay ==
    ASSUME ChatInv, ClockInv, UNCHANGED <<chat_fanout, clock_fanout>>,
           \A a : AudienceOK(sessions, next_session_generation, a) =>
                 AudienceOK(sessions', next_session_generation', a)
    PROVE  ChatInv' /\ ClockInv'
<1>1. \A job : JobOK(sessions, next_session_generation, job) =>
              JobOK(sessions', next_session_generation', job)
  BY DEF JobOK
<1> QED BY <1>1 DEF ChatInv, ClockInv

LEMMA StepRegister ==
    ASSUME Inv, NEW p \in Peer, RegisterSession(p)
    PROVE  Inv'
<1>1. RegistryInv'
  BY RegisterKeepsRegistry DEF Inv
<1>2. fanout_audience_cache' = None /\ CacheInv'
  BY DEF RegisterSession, InvalidateFanoutJobs, CacheInv
<1>3. UNCHANGED <<fanout_prefer_clock, tickVars, delivered>>
  BY DEF RegisterSession
<1>4. TickTypeOK' /\ fanout_prefer_clock' \in BOOLEAN
  BY <1>3 DEF Inv, TickTypeOK, tickVars
<1>5. CASE ~Rekeying
  <2>1. UNCHANGED <<chat_fanout, chat_fanout_bytes, clock_fanout>>
    BY <1>5 DEF RegisterSession
  <2>2. \A a : AudienceOK(sessions, next_session_generation, a) =>
              AudienceOK(sessions', next_session_generation', a)
    BY <1>5, RegisterKeepsAudiences DEF Inv
  <2>3. ChatInv' /\ ClockInv'
    BY <2>1, <2>2, JobsStay DEF Inv
  <2>4. PendingNotDelivered'
    BY <1>3, <2>1 DEF Inv, PendingNotDelivered
  <2> QED BY <1>1, <1>2, <1>4, <2>1, <2>3, <2>4 DEF Inv
<1>6. CASE Rekeying
  <2>1. chat_fanout' = <<>> /\ chat_fanout_bytes' = 0 /\ clock_fanout' = None
    BY <1>6 DEF RegisterSession, InvalidateFanoutJobs
  <2>2. ChatInv' /\ ClockInv' /\ PendingNotDelivered'
    BY <2>1, FanoutAssumption DEF ChatInv, ClockInv, PendingNotDelivered
  <2> QED BY <1>1, <1>2, <1>4, <2>1, <2>2 DEF Inv
<1> QED BY <1>5, <1>6

LEMMA StepUnregister ==
    ASSUME Inv, NEW p \in Peer, UnregisterSession(p)
    PROVE  Inv'
<1>1. UNCHANGED <<chat_fanout, chat_fanout_bytes, clock_fanout, fanout_prefer_clock,
                  tickVars, delivered>> /\ fanout_audience_cache' = None
  BY DEF UnregisterSession
<1>2. RegistryInv' /\ ChatInv' /\ ClockInv'
  BY <1>1, UnregisterKeeps, JobsStay DEF Inv
<1>3. CacheInv' /\ PendingNotDelivered' /\ TickTypeOK'
  BY <1>1 DEF Inv, CacheInv, PendingNotDelivered, TickTypeOK, tickVars
<1> QED BY <1>1, <1>2, <1>3 DEF Inv

LEMMA StepClientState ==
    ASSUME Inv, NEW p \in Peer, NEW c \in Cell, OnClientState(p, c)
    PROVE  Inv'
<1>1. UNCHANGED <<jobVars, tickVars, delivered>>
  BY DEF OnClientState
<1>2. RegistryInv' /\ Recipients' = Recipients
      /\ \A a : AudienceOK(sessions, next_session_generation, a) =>
               AudienceOK(sessions', next_session_generation', a)
  BY ClientStateKeeps DEF Inv
<1>3. ChatInv' /\ ClockInv'
  BY <1>1, <1>2, JobsStay DEF Inv, jobVars
<1>4. CacheInv'
  BY <1>1, <1>2 DEF Inv, CacheInv, jobVars
<1>5. PendingNotDelivered' /\ TickTypeOK'
  BY <1>1 DEF Inv, PendingNotDelivered, TickTypeOK, jobVars, tickVars
<1> QED BY <1>1, <1>2, <1>3, <1>4, <1>5 DEF Inv, jobVars

LEMMA RegistrySame ==
    ASSUME Inv, UNCHANGED registryVars
    PROVE  /\ RegistryInv'
           /\ Recipients' = Recipients
           /\ UNCHANGED <<sessions, next_session_generation>>
<1>1. UNCHANGED <<sessions, next_session_generation, births>>
  BY DEF registryVars
<1>2. Registered' = Registered
  BY <1>1 DEF Registered
<1>3. RegistryInv'
  BY <1>1, <1>2 DEF Inv, RegistryInv, RegistryTypeOK
<1>4. Recipients' = Recipients
  BY <1>1, <1>2 DEF Recipients
<1> QED BY <1>1, <1>3, <1>4

LEMMA StepChat ==
    ASSUME Inv, NEW p \in Peer, NEW size \in {1, MaxPayload}, OnChat(p, size)
    PROVE  Inv'
<1> DEFINE a == Captured(clock_fanout)
           new == NewJob(FreeMsg, size, sessions[p].cell, a)
           n == Len(chat_fanout)
<1>1. /\ chat_fanout' = Append(chat_fanout, new)
      /\ delivered' = {d \in delivered : d.msg # FreeMsg}
      /\ fanout_audience_cache' = a
      /\ chat_fanout_bytes' = chat_fanout_bytes + size
      /\ UNCHANGED <<registryVars, clock_fanout, fanout_prefer_clock, tickVars>>
  BY DEF OnChat
<1>2. size \in 1..MaxPayload /\ size \in Nat
  BY FanoutAssumption
<1>3. FreeMsg \in 1..ChatItems /\ ~Queued(FreeMsg)
  BY FreeMsgIsFree DEF Inv, OnChat
<1>4. sessions[p].cell \in Cell
  BY DEF OnChat, Inv, RegistryInv, RegistryTypeOK, Session
<1>5. AudienceOK(sessions, next_session_generation, a) /\ a.members = Recipients
      /\ a.members # {}
  BY CapturedOK DEF Inv, OnChat
<1>6. JobOK(sessions, next_session_generation, new) /\ new.msg = FreeMsg
  <2> HIDE DEF a
  <2>1. FreeMsg \in 0..ChatItems
    BY <1>3, FanoutAssumption
  <2> QED BY <1>2, <1>4, <1>5, <2>1, NewJobOK
<1> HIDE DEF a, new
<1>7. RegistryInv' /\ Recipients' = Recipients
      /\ UNCHANGED <<sessions, next_session_generation>>
  BY <1>1, RegistrySame
<1>8. chat_fanout \in Seq(Job) /\ n \in Nat /\ n < ChatItems /\ new \in Job
  BY <1>6 DEF Inv, ChatInv, OnChat, ChatHasRoom, JobOK
<1>9. /\ chat_fanout' \in Seq(Job)
      /\ Len(chat_fanout') = n + 1
      /\ chat_fanout'[n + 1] = new
      /\ \A i \in 1..n : chat_fanout'[i] = chat_fanout[i]
  BY <1>1, <1>8
<1>10. \A i \in 1..n : /\ JobOK(sessions, next_session_generation, chat_fanout[i])
                       /\ chat_fanout[i].msg # 0
                       /\ chat_fanout[i].msg # FreeMsg
  BY <1>3, <1>8 DEF Inv, ChatInv, Queued
<1>11. \A i \in 1..(n + 1) : i = n + 1 \/ i \in 1..n
  BY <1>8
<1>12. \A i \in 1..Len(chat_fanout') :
         /\ JobOK(sessions', next_session_generation', chat_fanout'[i])
         /\ chat_fanout'[i].msg # 0
  BY <1>3, <1>6, <1>7, <1>9, <1>10, <1>11
<1>13. \A i, j \in 1..Len(chat_fanout') : chat_fanout'[i].msg = chat_fanout'[j].msg => i = j
  BY <1>6, <1>9, <1>10, <1>11 DEF Inv, ChatInv
<1>14. ChatInv'
  BY <1>8, <1>9, <1>12, <1>13, FanoutAssumption DEF ChatInv
<1>15. ClockInv' /\ CacheInv'
  BY <1>1, <1>5, <1>7 DEF Inv, ClockInv, CacheInv
<1>16. PendingNotDelivered'
  <2>1. DOMAIN chat_fanout' = 1..(n + 1) /\ DOMAIN chat_fanout = 1..n
    BY <1>8, <1>9
  <2>2. \A i \in 1..n : \A r \in Pending(chat_fanout'[i]) :
          [msg |-> chat_fanout'[i].msg, to |-> r.born] \notin delivered'
    BY <1>1, <1>9, <2>1 DEF Inv, PendingNotDelivered
  <2>3. \A r \in Pending(new) : [msg |-> new.msg, to |-> r.born] \notin delivered'
    BY <1>1, <1>6
  <2> QED BY <1>9, <1>11, <2>1, <2>2, <2>3 DEF PendingNotDelivered
<1>17. TickTypeOK'
  BY <1>1 DEF Inv, TickTypeOK, tickVars
<1>18. chat_fanout_bytes' \in Nat /\ fanout_prefer_clock' \in BOOLEAN
  BY <1>1, <1>2 DEF Inv
<1> QED BY <1>7, <1>14, <1>15, <1>16, <1>17, <1>18 DEF Inv

LEMMA StepClock ==
    ASSUME Inv, BroadcastClock
    PROVE  Inv'
<1>1. /\ phase' = "events"
      /\ UNCHANGED <<registryVars, chat_fanout, chat_fanout_bytes, fanout_prefer_clock,
                     work, delivered>>
  BY DEF BroadcastClock
<1>2. RegistryInv' /\ Recipients' = Recipients
      /\ UNCHANGED <<sessions, next_session_generation>>
  BY <1>1, RegistrySame
<1>3. ChatInv' /\ PendingNotDelivered' /\ TickTypeOK'
  BY <1>1, <1>2 DEF Inv, ChatInv, PendingNotDelivered, TickTypeOK
<1>4. ClockInv' /\ CacheInv'
  <2>1. CASE CanCapture(None)
    <3> DEFINE a == Captured(None)
    <3>1. fanout_audience_cache' = a /\ clock_fanout' = NewJob(0, 1, None, a)
      BY <2>1 DEF BroadcastClock
    <3>2. AudienceOK(sessions, next_session_generation, a) /\ a.members = Recipients
          /\ a.members # {}
      BY <2>1, CapturedOK DEF Inv
    <3> HIDE DEF a
    <3>3. JobOK(sessions, next_session_generation, NewJob(0, 1, None, a))
      <4>1. 0 \in 0..ChatItems /\ 1 \in 1..MaxPayload /\ None \in Cell \cup {None}
        BY FanoutAssumption
      <4> QED BY <3>2, <4>1, NewJobOK
    <3> QED BY <1>2, <3>1, <3>2, <3>3 DEF ClockInv, CacheInv
  <2>2. CASE ~CanCapture(None)
    BY <1>2, <2>2 DEF BroadcastClock, Inv, ClockInv, CacheInv
  <2> QED BY <2>1, <2>2
<1> QED BY <1>1, <1>2, <1>3, <1>4 DEF Inv

\* The steps that only move the tick on.
LEMMA StepTick ==
    ASSUME Inv, FanoutBegin \/ FanoutEnd \/ NoClockDue
    PROVE  Inv'
<1>1. UNCHANGED <<registryVars, jobVars>>
  BY DEF FanoutBegin, FanoutEnd, NoClockDue
<1>2. delivered' \subseteq delivered
  BY DEF FanoutBegin, FanoutEnd, NoClockDue
<1>3. TickTypeOK'
  BY <1>2, FanoutAssumption
     DEF Inv, TickTypeOK, FanoutBegin, FanoutEnd, NoClockDue, NoWork, ScansPerTick, SendsPerTick
<1>4. RegistryInv' /\ Recipients' = Recipients
      /\ UNCHANGED <<sessions, next_session_generation>>
  BY <1>1, RegistrySame
<1>5. ChatInv' /\ ClockInv' /\ CacheInv'
  BY <1>1, <1>4 DEF Inv, ChatInv, ClockInv, CacheInv, jobVars
<1>6. PendingNotDelivered'
  BY <1>1, <1>2 DEF Inv, PendingNotDelivered, jobVars
<1> QED BY <1>1, <1>3, <1>4, <1>5, <1>6 DEF Inv, jobVars

\* A visited recipient, and only it, is no longer pending.
LEMMA AdvanceOK ==
    ASSUME NEW ss, NEW g, NEW job, JobOK(ss, g, job), NEW r \in Pending(job),
           \A q \in Pending(job) : r.peer <= q.peer
    PROVE  /\ Advance(job, r).msg = job.msg
           /\ Advance(job, r).recipients = job.recipients
           /\ Pending(Advance(job, r)) = Pending(job) \ {r}
           /\ Pending(job) # {r} => JobOK(ss, g, Advance(job, r))
<1>1. job \in Job /\ AudienceOK(ss, g, job.recipients)
  BY DEF JobOK
<1>2. \A q \in job.recipients.members : q.peer \in Int /\ q.peer \in 1..MaxPeers
  BY <1>1, FanoutAssumption DEF AudienceOK, Audience, Recipient, Peer
<1>3. r \in job.recipients.members /\ r.peer > job.next /\ job.next \in Int
  BY <1>1, FanoutAssumption DEF Pending, Job
<1>4. /\ Advance(job, r) \in Job
      /\ Advance(job, r).msg = job.msg
      /\ Advance(job, r).recipients = job.recipients
      /\ Advance(job, r).next = r.peer
  BY <1>1, <1>2, <1>3, FanoutAssumption DEF Advance, Job
<1>5. \A q \in job.recipients.members : q.peer = r.peer => q = r
  BY <1>1, <1>3 DEF AudienceOK
<1>6. Pending(Advance(job, r)) = Pending(job) \ {r}
  BY <1>2, <1>3, <1>4, <1>5 DEF Pending
<1> QED BY <1>1, <1>4, <1>6 DEF JobOK

\* A visit to a recipient of the clock.
LEMMA VisitClockKeeps ==
    ASSUME Inv, clock_fanout # None, NEW r \in Pending(clock_fanout),
           \A q \in Pending(clock_fanout) : r.peer <= q.peer,
           VisitClock(clock_fanout, r), UNCHANGED <<registryVars, fanout_audience_cache>>
    PROVE  /\ RegistryInv' /\ ChatInv' /\ ClockInv' /\ CacheInv' /\ PendingNotDelivered'
           /\ chat_fanout_bytes' \in Nat /\ fanout_prefer_clock' \in BOOLEAN
           /\ delivered' = delivered
<1>1. RegistryInv' /\ Recipients' = Recipients
      /\ UNCHANGED <<sessions, next_session_generation>>
  BY RegistrySame
<1>2. UNCHANGED <<chat_fanout, chat_fanout_bytes, delivered, fanout_audience_cache>>
  BY DEF VisitClock
<1>3. ChatInv' /\ CacheInv' /\ PendingNotDelivered'
  BY <1>1, <1>2 DEF Inv, ChatInv, CacheInv, PendingNotDelivered
<1>4. JobOK(sessions, next_session_generation, clock_fanout)
  BY DEF Inv, ClockInv
<1>5. ClockInv'
  <2>1. CASE Pending(clock_fanout) = {r}
    BY <2>1 DEF VisitClock, ClockInv
  <2>2. CASE Pending(clock_fanout) # {r}
    <3>1. clock_fanout' = Advance(clock_fanout, r)
      BY <2>2 DEF VisitClock
    <3>2. JobOK(sessions, next_session_generation, Advance(clock_fanout, r))
      BY <1>4, <2>2, AdvanceOK
    <3> QED BY <1>1, <3>1, <3>2 DEF ClockInv
  <2> QED BY <2>1, <2>2
<1>6. fanout_prefer_clock' \in BOOLEAN
  BY DEF VisitClock, Inv
<1> QED BY <1>1, <1>2, <1>3, <1>5, <1>6 DEF Inv

\* What a visit sends goes to the session that was captured.
LEMMA SentAsMeant ==
    ASSUME NEW job, JobOK(sessions, next_session_generation, job), NEW r \in Pending(job),
           ShouldSend(r, job.sender_cell)
    PROVE  sessions[r.peer].born = r.born
<1>1. r \in job.recipients.members
  BY DEF Pending
<1> QED BY <1>1 DEF JobOK, AudienceOK, ShouldSend

\* A visit to a recipient of the first chat line.
LEMMA VisitChatKeeps ==
    ASSUME Inv, chat_fanout # <<>>, NEW job, job = Head(chat_fanout), NEW r \in Pending(job),
           \A q \in Pending(job) : r.peer <= q.peer,
           VisitChat(job, r, ShouldSend(r, job.sender_cell)),
           UNCHANGED <<registryVars, fanout_audience_cache>>
    PROVE  /\ RegistryInv' /\ ChatInv' /\ ClockInv' /\ CacheInv' /\ PendingNotDelivered'
           /\ chat_fanout_bytes' \in Nat /\ fanout_prefer_clock' \in BOOLEAN
           /\ delivered' \subseteq delivered \cup {[msg |-> job.msg, to |-> r.born]}
           /\ job.msg \in 1..ChatItems /\ r.born \in 1..MaxSessions
<1> DEFINE n == Len(chat_fanout)
           sent == [msg |-> job.msg, to |-> r.born]
<1>1. RegistryInv' /\ Recipients' = Recipients
      /\ UNCHANGED <<sessions, next_session_generation>>
  BY RegistrySame
<1>2. UNCHANGED <<clock_fanout, fanout_audience_cache>>
  BY DEF VisitChat
<1>3. ClockInv' /\ CacheInv'
  BY <1>1, <1>2 DEF Inv, ClockInv, CacheInv
<1>4. chat_fanout \in Seq(Job) /\ n \in Nat \ {0} /\ job = chat_fanout[1] /\ n <= ChatItems
      /\ DOMAIN chat_fanout = 1..n
  BY DEF Inv, ChatInv
<1>5. \A i \in 1..n : /\ JobOK(sessions, next_session_generation, chat_fanout[i])
                      /\ chat_fanout[i].msg # 0
  BY DEF Inv, ChatInv
<1>6. \A i, j \in 1..n : chat_fanout[i].msg = chat_fanout[j].msg => i = j
  BY DEF Inv, ChatInv
<1>7. JobOK(sessions, next_session_generation, job) /\ job.msg # 0 /\ job \in Job
  BY <1>4, <1>5 DEF JobOK
<1>8. job.msg \in 1..ChatItems
  BY <1>7, FanoutAssumption DEF Job
<1>9. r \in Recipient
  BY <1>7 DEF JobOK, AudienceOK, Audience, Pending
<1>10. delivered' \subseteq delivered \cup {sent}
  BY <1>7, SentAsMeant DEF VisitChat
<1>11. \A i \in 1..n : \A q \in Pending(chat_fanout[i]) :
         i # 1 \/ q # r => [msg |-> chat_fanout[i].msg, to |-> q.born] \notin delivered'
  <2> SUFFICES ASSUME NEW i \in 1..n, NEW q \in Pending(chat_fanout[i]), i # 1 \/ q # r
               PROVE  [msg |-> chat_fanout[i].msg, to |-> q.born] \notin delivered'
    OBVIOUS
  <2>1. [msg |-> chat_fanout[i].msg, to |-> q.born] \notin delivered
    BY <1>4 DEF Inv, PendingNotDelivered
  <2>2. CASE i # 1
    <3>1. chat_fanout[i].msg # job.msg
      BY <1>4, <1>6, <2>2
    <3> QED BY <1>10, <2>1, <3>1
  <2>3. CASE i = 1 /\ q # r
    <3>1. q.born # r.born
      BY <1>4, <1>7, <2>3 DEF JobOK, AudienceOK, Pending
    <3> QED BY <1>10, <2>1, <3>1
  <2> QED BY <2>2, <2>3
<1>12. chat_fanout_bytes' \in Nat
  BY <1>7 DEF VisitChat, Minus, Inv, Job
<1>13. fanout_prefer_clock' \in BOOLEAN
  BY DEF VisitChat, Inv
<1>14. ChatInv' /\ PendingNotDelivered'
  <2>1. CASE Pending(job) = {r}
    <3>1. chat_fanout' = Tail(chat_fanout)
      BY <2>1 DEF VisitChat
    <3>2. /\ chat_fanout' \in Seq(Job)
          /\ Len(chat_fanout') = n - 1
          /\ DOMAIN chat_fanout' = 1..(n - 1)
          /\ \A i \in 1..(n - 1) : chat_fanout'[i] = chat_fanout[i + 1] /\ i + 1 \in 1..n /\ i + 1 # 1
      BY <1>4, <3>1
    <3>3. ChatInv'
      BY <1>1, <1>4, <1>5, <1>6, <3>2, FanoutAssumption DEF ChatInv
    <3>4. PendingNotDelivered'
      BY <1>4, <1>11, <3>2 DEF PendingNotDelivered
    <3> QED BY <3>3, <3>4
  <2>2. CASE Pending(job) # {r}
    <3> DEFINE adv == Advance(job, r)
    <3>1. chat_fanout' = [chat_fanout EXCEPT ![1] = adv]
      BY <2>2 DEF VisitChat
    <3>2. /\ JobOK(sessions, next_session_generation, adv)
          /\ adv.msg = job.msg
          /\ Pending(adv) = Pending(job) \ {r}
      BY <1>7, <2>2, AdvanceOK
    <3> HIDE DEF adv
    <3>3. adv \in Job
      BY <3>2 DEF JobOK
    <3>4. /\ chat_fanout' \in Seq(Job)
          /\ Len(chat_fanout') = n
          /\ DOMAIN chat_fanout' = 1..n
          /\ chat_fanout'[1] = adv
          /\ \A i \in 1..n : i # 1 => chat_fanout'[i] = chat_fanout[i]
      BY <1>4, <3>1, <3>3
    <3>5. \A i \in 1..n : chat_fanout'[i].msg = chat_fanout[i].msg
      BY <1>4, <3>2, <3>4
    <3>6. ChatInv'
      BY <1>1, <1>4, <1>5, <1>6, <3>2, <3>4, <3>5 DEF ChatInv
    <3>7. PendingNotDelivered'
      BY <1>4, <1>11, <3>2, <3>4, <3>5 DEF PendingNotDelivered
    <3> QED BY <3>6, <3>7
  <2> QED BY <2>1, <2>2
<1> QED BY <1>1, <1>3, <1>8, <1>9, <1>10, <1>12, <1>13, <1>14 DEF Recipient

LEMMA StepScan ==
    ASSUME Inv, ScanRecipient
    PROVE  Inv'
<1>1. PICK r \in Pending(CurrentJob) :
        /\ \A q \in Pending(CurrentJob) : r.peer <= q.peer
        /\ work' = [scans |-> work.scans + 1,
                    sends |-> IF ShouldSend(r, CurrentJob.sender_cell)
                              THEN work.sends + 1 ELSE work.sends]
        /\ IF FromClock THEN VisitClock(CurrentJob, r)
           ELSE VisitChat(CurrentJob, r, ShouldSend(r, CurrentJob.sender_cell))
  BY DEF ScanRecipient
<1>2. UNCHANGED <<registryVars, fanout_audience_cache, phase>> /\ FanoutContinues
  BY DEF ScanRecipient
<1>3. work' \in [scans : 0..ScansPerTick, sends : 0..SendsPerTick]
  BY <1>1, <1>2, FanoutAssumption
     DEF Inv, TickTypeOK, FanoutContinues, ScansPerTick, SendsPerTick
<1>4. CASE FromClock
  <2>1. CurrentJob = clock_fanout /\ clock_fanout # None
    BY <1>4 DEF CurrentJob, FromClock
  <2>2. /\ RegistryInv' /\ ChatInv' /\ ClockInv' /\ CacheInv' /\ PendingNotDelivered'
        /\ chat_fanout_bytes' \in Nat /\ fanout_prefer_clock' \in BOOLEAN
        /\ delivered' = delivered
    BY <1>1, <1>2, <1>4, <2>1, VisitClockKeeps
  <2>3. TickTypeOK'
    BY <1>2, <1>3, <2>2 DEF Inv, TickTypeOK
  <2> QED BY <2>2, <2>3 DEF Inv
<1>5. CASE ~FromClock
  <2>1. CurrentJob = Head(chat_fanout) /\ chat_fanout # <<>>
    BY <1>2, <1>5 DEF CurrentJob, FromClock, FanoutContinues
  <2>2. /\ RegistryInv' /\ ChatInv' /\ ClockInv' /\ CacheInv' /\ PendingNotDelivered'
        /\ chat_fanout_bytes' \in Nat /\ fanout_prefer_clock' \in BOOLEAN
        /\ delivered' \subseteq delivered \cup {[msg |-> CurrentJob.msg, to |-> r.born]}
        /\ CurrentJob.msg \in 1..ChatItems /\ r.born \in 1..MaxSessions
    BY <1>1, <1>2, <1>5, <2>1, VisitChatKeeps
  <2>3. TickTypeOK'
    BY <1>2, <1>3, <2>2 DEF Inv, TickTypeOK
  <2> QED BY <2>2, <2>3 DEF Inv
<1> QED BY <1>4, <1>5

LEMMA NextInv == Inv /\ [Next]_vars => Inv'
<1> SUFFICES ASSUME Inv, [Next]_vars PROVE Inv'
  OBVIOUS
<1>1. CASE \E p \in Peer : RegisterSession(p) \/ UnregisterSession(p)
  BY <1>1, StepRegister, StepUnregister
<1>2. CASE \E p \in Peer, c \in Cell : OnClientState(p, c)
  BY <1>2, StepClientState
<1>3. CASE \E p \in Peer, size \in {1, MaxPayload} : OnChat(p, size)
  BY <1>3, StepChat
<1>4. CASE Tick
  BY <1>4, StepTick, StepScan, StepClock DEF Tick
<1>5. CASE UNCHANGED vars
  <2>1. UNCHANGED <<registryVars, jobVars, tickVars, delivered>>
    BY <1>5 DEF vars
  <2>2. RegistryInv' /\ Recipients' = Recipients
        /\ UNCHANGED <<sessions, next_session_generation>>
    BY <2>1, RegistrySame
  <2>3. ChatInv' /\ ClockInv' /\ CacheInv'
    BY <2>1, <2>2 DEF Inv, ChatInv, ClockInv, CacheInv, jobVars
  <2>4. PendingNotDelivered' /\ TickTypeOK'
    BY <2>1 DEF Inv, PendingNotDelivered, TickTypeOK, jobVars, tickVars
  <2> QED BY <2>1, <2>2, <2>3, <2>4 DEF Inv, jobVars
<1> QED BY <1>1, <1>2, <1>3, <1>4, <1>5 DEF Next

-----------------------------------------------------------------------------
(* The theorems.                                                           *)

\* The inductive invariant holds.
THEOREM Invariant == Spec => []Inv
<1> QED BY InitInv, NextInv, PTL DEF Spec

\* The queue limit of on_chat and the budgets of a tick hold, and a job in the
\* queue always has a recipient left.
THEOREM TypeCorrect == Spec => []TypeOK
<1>1. Inv => TypeOK
  <2> SUFFICES ASSUME Inv PROVE TypeOK
    OBVIOUS
  <2>1. DOMAIN chat_fanout = 1..Len(chat_fanout)
    BY DEF Inv, ChatInv
  <2>2. clock_fanout \in Job \cup {None} /\ (clock_fanout # None => Pending(clock_fanout) # {})
    BY DEF Inv, ClockInv, JobOK
  <2>3. fanout_audience_cache \in Audience \cup {None}
    BY DEF Inv, CacheInv, AudienceOK
  <2>4. \A i \in DOMAIN chat_fanout : Pending(chat_fanout[i]) # {}
    BY <2>1 DEF Inv, ChatInv, JobOK
  <2>5. JobsTypeOK
    BY <2>2, <2>3, <2>4 DEF Inv, ChatInv, JobsTypeOK
  <2> QED BY <2>5 DEF Inv, RegistryInv, TypeOK
<1> QED BY <1>1, Invariant, PTL

LEMMA InUseOK ==
    ASSUME Inv, NEW a \in InUse
    PROVE  AudienceOK(sessions, next_session_generation, a)
<1>1. \A i \in DOMAIN chat_fanout :
        AudienceOK(sessions, next_session_generation, chat_fanout[i].recipients)
  BY DEF Inv, ChatInv, JobOK
<1>2. clock_fanout # None =>
        AudienceOK(sessions, next_session_generation, clock_fanout.recipients)
  BY DEF Inv, ClockInv, JobOK
<1>3. fanout_audience_cache # None =>
        AudienceOK(sessions, next_session_generation, fanout_audience_cache)
  BY DEF Inv, CacheInv
<1> QED BY <1>1, <1>2, <1>3 DEF InUse, Audiences

\* The pair (peer, generation) that process_fanout_work compares names the
\* captured session or none, for any number of reconnections and re-keys.
THEOREM RecipientsKeepMeaning == Spec => []RecipientMeansItsSession
<1>1. Inv => RecipientMeansItsSession
  BY InUseOK DEF RecipientMeansItsSession, AudienceOK
<1> QED BY <1>1, Invariant, PTL

\* process_fanout_work never visits a recipient of a chat line twice.
THEOREM SentOnce == Spec => []PendingNotDelivered
<1>1. Inv => PendingNotDelivered
  BY DEF Inv
<1> QED BY <1>1, Invariant, PTL

\* The audience that capture_fanout_recipients reuses is the registry's.
THEOREM CacheCurrent == Spec => []CacheIsCurrent
<1>1. Inv => CacheIsCurrent
  BY DEF Inv, CacheInv, CacheIsCurrent
<1> QED BY <1>1, Invariant, PTL

\* process_fanout_work sends a chat line to sessions its job captured and has
\* not visited, and to no one else.
THEOREM ChatDeliveredAsMeant == Spec => DeliveredAsMeant
<1> DEFINE Meant ==
      \A d \in delivered' \ delivered : \E i \in DOMAIN chat_fanout :
        /\ chat_fanout[i].msg = d.msg
        /\ \E r \in Pending(chat_fanout[i]) : r.born = d.to
<1>1. Inv /\ [Next]_vars => [Meant]_vars
  <2> SUFFICES ASSUME Inv, Next PROVE Meant
    OBVIOUS
  <2>1. CASE delivered' \subseteq delivered
    BY <2>1
  <2>2. CASE ScanRecipient /\ ~(delivered' \subseteq delivered)
    <3>1. PICK r \in Pending(CurrentJob) :
            IF FromClock THEN VisitClock(CurrentJob, r)
            ELSE VisitChat(CurrentJob, r, ShouldSend(r, CurrentJob.sender_cell))
      BY <2>2 DEF ScanRecipient
    <3>2. ~FromClock
      BY <2>2, <3>1 DEF VisitClock
    <3>3. CurrentJob = Head(chat_fanout) /\ chat_fanout # <<>>
      BY <2>2, <3>2 DEF ScanRecipient, CurrentJob, FromClock, FanoutContinues
    <3>4. 1 \in DOMAIN chat_fanout /\ CurrentJob = chat_fanout[1]
      BY <3>3 DEF Inv, ChatInv
    <3>5. JobOK(sessions, next_session_generation, CurrentJob)
      BY <3>4 DEF Inv, ChatInv
    <3>6. delivered' \subseteq delivered \cup {[msg |-> CurrentJob.msg, to |-> r.born]}
      BY <3>1, <3>2, <3>5, SentAsMeant DEF VisitChat
    <3> QED BY <3>4, <3>6
  <2>3. delivered' \subseteq delivered \/ ScanRecipient
    BY DEF Next, Tick, RegisterSession, UnregisterSession, OnClientState, OnChat,
           FanoutBegin, FanoutEnd, BroadcastClock, NoClockDue
  <2> QED BY <2>1, <2>2, <2>3
<1> QED BY <1>1, Invariant, PTL DEF Spec, DeliveredAsMeant

-----------------------------------------------------------------------------
(* What the queue holds, in bytes and in audiences.                        *)

\* The bytes of the queued lines.
Sizes == [i \in DOMAIN chat_fanout |-> chat_fanout[i].size]

\* A shared audience that neither the clock nor a queued line holds is the
\* only one beyond theirs: a line queued after it was captured holds it, and
\* so does a clock.
CacheShared ==
    (/\ fanout_audience_cache # None
     /\ clock_fanout # None
     /\ chat_fanout # <<>>
     /\ clock_fanout.recipients # fanout_audience_cache) =>
       chat_fanout[Len(chat_fanout)].recipients = fanout_audience_cache

QueueInv == BytesAccounted /\ CacheShared

\* invalidate_fanout_jobs, or nothing, but that the clock's job may move on or
\* end and the shared audience may be dropped.
QueueKept ==
    \/ InvalidateFanoutJobs
    \/ /\ UNCHANGED <<chat_fanout, chat_fanout_bytes>>
       /\ \/ clock_fanout' = None
          \/ /\ clock_fanout # None
             /\ clock_fanout' # None
             /\ clock_fanout'.recipients = clock_fanout.recipients
       /\ fanout_audience_cache' \in {fanout_audience_cache, None}

\* The size and the audience of a new job.
LEMMA NewJobFields ==
    ASSUME NEW msg, NEW size, NEW c, NEW a
    PROVE  NewJob(msg, size, c, a).size = size /\ NewJob(msg, size, c, a).recipients = a
BY DEF NewJob

\* The sizes in the queue.
LEMMA SizesType ==
    ASSUME Inv
    PROVE  /\ DOMAIN Sizes = 1..Len(chat_fanout)
           /\ Len(chat_fanout) \in Nat
           /\ \A i \in 1..Len(chat_fanout) : Sizes[i] \in 0..MaxPayload
           /\ IsFiniteSet(DOMAIN Sizes)
<1>1. chat_fanout \in Seq(Job) /\ Len(chat_fanout) \in Nat
      /\ DOMAIN chat_fanout = 1..Len(chat_fanout)
  BY DEF Inv, ChatInv
<1>2. \A i \in 1..Len(chat_fanout) : chat_fanout[i] \in Job
  BY <1>1
<1>3. \A i \in 1..Len(chat_fanout) : chat_fanout[i].size \in 0..MaxPayload
  BY <1>2, FanoutAssumption DEF Job
<1>4. IsFiniteSet(1..Len(chat_fanout))
  BY <1>1, FS_Interval
<1> QED BY <1>1, <1>3, <1>4 DEF Sizes

\* invalidate_fanout_jobs drops the lines and the counter together.
LEMMA InvalidateKeepsQueueInv ==
    ASSUME InvalidateFanoutJobs
    PROVE  QueueInv'
<1>1. chat_fanout' = <<>> /\ chat_fanout_bytes' = 0 /\ fanout_audience_cache' = None
  BY DEF InvalidateFanoutJobs
<1>2. DOMAIN Sizes' = {}
  BY <1>1 DEF Sizes
<1>3. SumFunction(Sizes') = 0
  BY <1>2, SumOfEmpty
<1> QED BY <1>1, <1>3 DEF QueueInv, BytesAccounted, CacheShared, Sizes

\* What leaves the queue and its bytes alone keeps the accounts.
LEMMA QueueKeptInv ==
    ASSUME QueueInv, QueueKept
    PROVE  QueueInv'
<1>1. CASE InvalidateFanoutJobs
  BY <1>1, InvalidateKeepsQueueInv
<1>2. CASE ~InvalidateFanoutJobs
  <2>1. BytesAccounted'
    BY <1>2 DEF QueueKept, QueueInv, BytesAccounted
  <2>2. CacheShared'
    BY <1>2 DEF QueueKept, QueueInv, CacheShared
  <2> QED BY <2>1, <2>2 DEF QueueInv
<1> QED BY <1>1, <1>2

\* on_chat: the line's bytes are counted, and its audience is the shared one.
LEMMA ChatKeepsQueueInv ==
    ASSUME Inv, QueueInv, NEW p \in Peer, NEW size \in {1, MaxPayload}, OnChat(p, size)
    PROVE  QueueInv'
<1> DEFINE n == Len(chat_fanout)
           a == Captured(clock_fanout)
           new == NewJob(FreeMsg, size, sessions[p].cell, a)
           f == Sizes
           g == Sizes'
<1>1. chat_fanout' = Append(chat_fanout, new) /\ fanout_audience_cache' = a
      /\ chat_fanout_bytes' = chat_fanout_bytes + size
  BY DEF OnChat
<1>2. new.size = size /\ new.recipients = a
  BY NewJobFields
<1>3. size \in Int
  BY FanoutAssumption
<1> HIDE DEF new, a
<1>4. chat_fanout \in Seq(Job) /\ n \in Nat
  BY DEF Inv, ChatInv
<1>5. /\ DOMAIN chat_fanout = 1..n
      /\ DOMAIN chat_fanout' = 1..(n + 1)
      /\ Len(chat_fanout') = n + 1
      /\ chat_fanout'[n + 1] = new
      /\ \A i \in 1..n : chat_fanout'[i] = chat_fanout[i]
  BY <1>1, <1>4
<1>6. BytesAccounted'
  <2> DEFINE y == n + 1
  <2>1. /\ DOMAIN f = 1..n /\ DOMAIN g = 1..y
        /\ g[y] = size
        /\ \A i \in 1..n : g[i] = f[i]
    BY <1>2, <1>4, <1>5 DEF Sizes
  <2>2. DOMAIN g = DOMAIN f \cup {y} /\ y \notin DOMAIN f
    BY <1>4, <2>1
  <2>3. IsFiniteSet(DOMAIN f) /\ \A i \in DOMAIN f : f[i] \in Int /\ g[i] = f[i]
    BY <2>1, SizesType
  <2>4. SumFunction(g) = SumFunction(f) + g[y]
    <3>1. g[y] \in Int
      BY <1>3, <2>1
    <3> HIDE DEF f, g, y
    <3> QED BY <2>2, <2>3, <3>1, SumExtended
  <2> QED BY <1>1, <2>1, <2>4 DEF QueueInv, BytesAccounted, Sizes
<1>7. CacheShared'
  BY <1>1, <1>2, <1>5 DEF CacheShared
<1> QED BY <1>6, <1>7 DEF QueueInv

\* broadcast_clock: the clock has the shared audience, or there is none.
LEMMA ClockKeepsQueueInv ==
    ASSUME QueueInv, BroadcastClock
    PROVE  QueueInv'
<1>1. UNCHANGED <<chat_fanout, chat_fanout_bytes>>
  BY DEF BroadcastClock
<1>2. BytesAccounted'
  BY <1>1 DEF QueueInv, BytesAccounted
<1>3. CacheShared'
  <2>1. clock_fanout' = None \/ clock_fanout'.recipients = fanout_audience_cache'
    BY NewJobFields DEF BroadcastClock
  <2> QED BY <2>1 DEF CacheShared
<1> QED BY <1>2, <1>3 DEF QueueInv

\* The first line moves on: its size and its audience stay.
LEMMA AdvanceKeepsQueueInv ==
    ASSUME Inv, QueueInv, chat_fanout # <<>>, NEW job, job = Head(chat_fanout), NEW r,
           r.peer \in Peer, chat_fanout' = [chat_fanout EXCEPT ![1] = Advance(job, r)],
           UNCHANGED <<chat_fanout_bytes, clock_fanout, fanout_audience_cache>>
    PROVE  QueueInv'
<1> DEFINE n == Len(chat_fanout)
           adv == Advance(job, r)
<1>1. chat_fanout \in Seq(Job) /\ n \in Nat \ {0} /\ job = chat_fanout[1] /\ job \in Job
      /\ DOMAIN chat_fanout = 1..n
  BY DEF Inv, ChatInv
<1>2. adv \in Job /\ adv.size = job.size /\ adv.recipients = job.recipients
  <2>1. Peer \subseteq 0..MaxPeers
    BY FanoutAssumption DEF Peer
  <2> QED BY <1>1, <2>1 DEF Advance, Job
<1> HIDE DEF adv
<1>3. /\ Len(chat_fanout') = n
      /\ DOMAIN chat_fanout' = 1..n
      /\ chat_fanout'[1] = adv
      /\ \A i \in 1..n : i # 1 => chat_fanout'[i] = chat_fanout[i]
  BY <1>1, <1>2 DEF adv
<1>4. \A i \in 1..n : /\ chat_fanout'[i].size = chat_fanout[i].size
                      /\ chat_fanout'[i].recipients = chat_fanout[i].recipients
  BY <1>1, <1>2, <1>3
<1>5. Sizes' = Sizes
  BY <1>1, <1>3, <1>4 DEF Sizes
<1>6. BytesAccounted'
  BY <1>5 DEF QueueInv, BytesAccounted, Sizes
<1>7. CacheShared'
  BY <1>1, <1>3, <1>4 DEF QueueInv, CacheShared
<1> QED BY <1>6, <1>7 DEF QueueInv

\* The first line is worked off: its bytes are given back, and the subtraction
\* does not saturate.
LEMMA FinishKeepsQueueInv ==
    ASSUME Inv, QueueInv, chat_fanout # <<>>, NEW job, job = Head(chat_fanout),
           chat_fanout' = Tail(chat_fanout),
           chat_fanout_bytes' = Minus(chat_fanout_bytes, job.size),
           UNCHANGED <<clock_fanout, fanout_audience_cache>>
    PROVE  QueueInv'
<1> DEFINE n == Len(chat_fanout) - 1
           f == Sizes
           g == Sizes'
<1>1. chat_fanout \in Seq(Job) /\ n \in Nat /\ job = chat_fanout[1]
      /\ Len(chat_fanout) = n + 1 /\ DOMAIN chat_fanout = 1..(n + 1)
  BY DEF Inv, ChatInv
<1>2. /\ Len(chat_fanout') = n
      /\ DOMAIN chat_fanout' = 1..n
      /\ \A i \in 1..n : chat_fanout'[i] = chat_fanout[i + 1]
  BY <1>1
<1> HIDE DEF n
<1>3. /\ DOMAIN f = 1..(n + 1) /\ DOMAIN g = 1..n
      /\ f[1] = job.size
      /\ \A i \in 1..n : g[i] = f[i + 1]
  BY <1>1, <1>2 DEF Sizes
<1>4. \A i \in 1..(n + 1) : f[i] \in 0..MaxPayload
  BY <1>1, SizesType
<1>5. SumFunction(f) = f[1] + SumFunction(g)
  <2>1. \A i \in 1..(n + 1) : f[i] \in Int
    BY <1>4
  <2> HIDE DEF f, g
  <2> QED BY <1>1, <1>3, <2>1, SumWithoutFirst
<1>6. SumFunction(g) \in Nat
  <2>1. MaxPayload \in Nat
    BY FanoutAssumption
  <2>2. \A i \in 1..n : i + 1 \in 1..(n + 1)
    BY <1>1
  <2>3. \A i \in DOMAIN g : g[i] \in 0..MaxPayload
    BY <1>3, <1>4, <2>2
  <2> HIDE DEF g
  <2>4. IsFiniteSet(DOMAIN g)
    <3>1. IsFiniteSet(1..n)
      BY <1>1, FS_Interval
    <3> QED BY <1>3, <3>1
  <2>5. PICK c \in Nat : Cardinality(DOMAIN g) <= c
    BY <2>4, FS_CardinalityType
  <2>6. SumFunction(g) \in 0..(c * MaxPayload)
    BY <2>1, <2>3, <2>4, <2>5, SumAtMost
  <2> QED BY <2>6
<1>7. f[1] \in Nat
  BY <1>1, <1>4
<1>8. BytesAccounted'
  <2>1. chat_fanout_bytes = f[1] + SumFunction(g)
    BY <1>5 DEF QueueInv, BytesAccounted, Sizes
  <2>2. chat_fanout_bytes' = SumFunction(g)
    <3> HIDE DEF f, g
    <3> QED BY <1>3, <1>6, <1>7, <2>1 DEF Minus
  <2> QED BY <2>2 DEF BytesAccounted, Sizes
<1>9. CacheShared'
  <2>1. chat_fanout' # <<>> => n \in 1..n /\ chat_fanout'[n] = chat_fanout[n + 1]
    <3>1. chat_fanout' \in Seq(Job)
      BY <1>1
    <3>2. chat_fanout' # <<>> => n # 0
      BY <1>2, <3>1
    <3> QED BY <1>1, <1>2, <3>2
  <2> QED BY <1>1, <1>2, <2>1 DEF QueueInv, CacheShared
<1> QED BY <1>8, <1>9 DEF QueueInv

\* An item of work that ends the first line takes its size off the counter.
LEMMA ScanKeepsQueueInv ==
    ASSUME Inv, QueueInv, ScanRecipient
    PROVE  QueueInv'
<1>1. PICK r \in Pending(CurrentJob) :
        IF FromClock THEN VisitClock(CurrentJob, r)
        ELSE VisitChat(CurrentJob, r, ShouldSend(r, CurrentJob.sender_cell))
  BY DEF ScanRecipient
<1>2. UNCHANGED fanout_audience_cache /\ FanoutContinues
  BY DEF ScanRecipient
<1>3. CASE FromClock
  <2>1. CurrentJob = clock_fanout /\ clock_fanout # None /\ clock_fanout \in Job
    BY <1>3 DEF CurrentJob, FromClock, Inv, ClockInv, JobOK
  <2>2. VisitClock(clock_fanout, r) /\ r.peer \in Peer
    BY <1>1, <1>3, <2>1 DEF Pending, Job, Audience, Recipient
  <2>3. LET adv == Advance(clock_fanout, r)
        IN  adv # None /\ adv.recipients = clock_fanout.recipients
    <3>1. Peer \subseteq 0..MaxPeers
      BY FanoutAssumption DEF Peer
    <3>2. Advance(clock_fanout, r) \in Job
      BY <2>1, <2>2, <3>1 DEF Advance, Job
    <3> QED BY <2>1, <3>2, NoneAssumption DEF Advance, Job
  <2>4. QueueKept
    BY <1>2, <2>1, <2>2, <2>3 DEF QueueKept, VisitClock
  <2> QED BY <2>4, QueueKeptInv
<1>4. CASE ~FromClock
  <2> DEFINE job == CurrentJob
  <2>1. job = Head(chat_fanout) /\ chat_fanout # <<>>
    BY <1>2, <1>4 DEF CurrentJob, FromClock, FanoutContinues
  <2>2. job \in Job
    BY <2>1 DEF Inv, ChatInv
  <2>3. VisitChat(job, r, ShouldSend(r, job.sender_cell))
    BY <1>1, <1>4
  <2>4. r.peer \in Peer
    BY <2>2 DEF Pending, Job, Audience, Recipient
  <2> HIDE DEF job
  <2>5. CASE Pending(job) = {r}
    BY <1>2, <2>1, <2>3, <2>5, FinishKeepsQueueInv DEF VisitChat
  <2>6. CASE Pending(job) # {r}
    BY <1>2, <2>1, <2>3, <2>4, <2>6, AdvanceKeepsQueueInv DEF VisitChat
  <2> QED BY <2>5, <2>6
<1> QED BY <1>3, <1>4

\* Every step keeps the accounts.
LEMMA QueueInvNext == Inv /\ QueueInv /\ [Next]_vars => QueueInv'
<1> SUFFICES ASSUME Inv, QueueInv, [Next]_vars PROVE QueueInv'
  OBVIOUS
<1>1. CASE \E p \in Peer : RegisterSession(p) \/ UnregisterSession(p)
  BY <1>1, QueueKeptInv DEF QueueKept, RegisterSession, UnregisterSession
<1>2. CASE UNCHANGED jobVars
  BY <1>2, QueueKeptInv DEF QueueKept, jobVars
<1>3. CASE \E p \in Peer, size \in {1, MaxPayload} : OnChat(p, size)
  BY <1>3, ChatKeepsQueueInv
<1>4. CASE Tick
  BY <1>2, <1>4, ScanKeepsQueueInv, ClockKeepsQueueInv DEF Tick, FanoutBegin, FanoutEnd, NoClockDue
<1> QED BY <1>1, <1>2, <1>3, <1>4 DEF Next, OnClientState, vars

\* What the queue holds, as an invariant.
THEOREM QueueInvariant == Spec => []QueueInv
<1>1. Init => QueueInv
  <2> SUFFICES ASSUME Init PROVE QueueInv
    OBVIOUS
  <2>1. DOMAIN Sizes = {}
    BY DEF Sizes, Init
  <2>2. SumFunction(Sizes) = 0
    BY <2>1, SumOfEmpty
  <2> QED BY <2>2 DEF Init, QueueInv, BytesAccounted, CacheShared, Sizes
<1> QED BY <1>1, Invariant, QueueInvNext, PTL DEF Spec

\* chat_fanout_bytes is the bytes of the queued lines: the counter that admits
\* chat does not drift, and its subtraction never saturates.
THEOREM BytesCounted == Spec => []BytesAccounted
<1>1. QueueInv => BytesAccounted
  BY DEF QueueInv
<1> QED BY <1>1, QueueInvariant, PTL

\* An audience has at most one member per peer.
LEMMA MembersFew ==
    ASSUME NEW ss, NEW g, NEW a, AudienceOK(ss, g, a)
    PROVE  Cardinality(a.members) \in 0..MaxPeers
<1> DEFINE S == a.members
           f == [r \in S |-> r.peer]
<1>1. IsFiniteSet(Peer) /\ Cardinality(Peer) = MaxPeers
  BY FanoutAssumption, FS_Interval DEF Peer
<1>2. \A r \in S : r.peer \in Peer
  BY DEF AudienceOK, Audience, Recipient
<1>3. \A r, q \in S : r.peer = q.peer => r = q
  BY DEF AudienceOK
<1>4. f \in Injection(S, Peer)
  BY <1>2, <1>3 DEF Injection, IsInjective
<1> HIDE DEF f, S
<1>5. IsFiniteSet(S) /\ Cardinality(S) <= MaxPeers
  BY <1>1, <1>4, FS_Injection
<1>6. Cardinality(S) \in Nat
  BY <1>5, FS_CardinalityType
<1>7. Cardinality(S) \in 0..MaxPeers
  BY <1>5, <1>6, FanoutAssumption
<1> QED BY <1>7 DEF S

\* retained_fanout_audience_entries, of at most n audiences.
LEMMA RetainedAtMost ==
    ASSUME NEW clock, NEW cache, NEW n \in Nat,
           IsFiniteSet(Audiences(chat_fanout, clock, cache)),
           Cardinality(Audiences(chat_fanout, clock, cache)) <= n,
           \A a \in Audiences(chat_fanout, clock, cache) :
             AudienceOK(sessions, next_session_generation, a)
    PROVE  Retained(chat_fanout, clock, cache) \in 0..(n * MaxPeers)
<1> DEFINE A == Audiences(chat_fanout, clock, cache)
           f == [a \in A |-> Cardinality(a.members)]
<1>1. \A a \in A : Cardinality(a.members) \in 0..MaxPeers
  BY MembersFew
<1>2. DOMAIN f = A /\ \A a \in DOMAIN f : f[a] \in 0..MaxPeers
  BY <1>1
<1>3. MaxPeers \in Nat
  BY FanoutAssumption
<1>4. SumFunction(f) \in 0..(n * MaxPeers)
  <2> HIDE DEF f, A
  <2>1. IsFiniteSet(DOMAIN f) /\ Cardinality(DOMAIN f) <= n
    BY <1>2 DEF A
  <2> QED BY <1>2, <1>3, <2>1, SumAtMost
<1> QED BY <1>4 DEF Retained

\* The audiences of the queue, at most one per line.
QueueAudiences == {chat_fanout[i].recipients : i \in DOMAIN chat_fanout}

\* A queue of so many lines has no more audiences.
LEMMA QueueAudiencesFew ==
    ASSUME Inv
    PROVE  /\ IsFiniteSet(QueueAudiences)
           /\ Cardinality(QueueAudiences) \in 0..Len(chat_fanout)
           /\ Len(chat_fanout) \in 0..ChatItems
           /\ chat_fanout = <<>> => QueueAudiences = {}
           /\ \A a : IsFiniteSet(QueueAudiences \cup {a})
                     /\ Cardinality(QueueAudiences \cup {a}) <= Len(chat_fanout) + 1
<1> DEFINE n == Len(chat_fanout)
           D == 1..n
           f == [i \in D |-> chat_fanout[i].recipients]
<1>1. n \in Nat /\ DOMAIN chat_fanout = D /\ n \in 0..ChatItems
  BY FanoutAssumption DEF Inv, ChatInv
<1>2. IsFiniteSet(D) /\ Cardinality(D) = n
  <2> HIDE DEF n
  <2> QED BY <1>1, FS_Interval
<1>3. IsFiniteSet({f[i] : i \in D}) /\ Cardinality({f[i] : i \in D}) <= n
  <2>1. DOMAIN f = D /\ f = [i \in D |-> f[i]]
    OBVIOUS
  <2> HIDE DEF f, D
  <2> QED BY <1>2, <2>1, FiniteRange
<1>4. QueueAudiences = {f[i] : i \in D}
  BY <1>1 DEF QueueAudiences
<1>5. IsFiniteSet(QueueAudiences) /\ Cardinality(QueueAudiences) <= n
  BY <1>3, <1>4
<1>6. Cardinality(QueueAudiences) \in Nat
  BY <1>5, FS_CardinalityType
<1>7. ASSUME NEW a PROVE IsFiniteSet(QueueAudiences \cup {a})
                         /\ Cardinality(QueueAudiences \cup {a}) <= n + 1
  <2>1. /\ IsFiniteSet(QueueAudiences \cup {a})
        /\ Cardinality(QueueAudiences \cup {a}) =
             IF a \in QueueAudiences THEN Cardinality(QueueAudiences)
             ELSE Cardinality(QueueAudiences) + 1
    BY <1>5, FS_AddElement
  <2> HIDE DEF n
  <2> QED BY <1>1, <1>5, <1>6, <2>1
<1>8. chat_fanout = <<>> => QueueAudiences = {}
  BY DEF QueueAudiences
<1> HIDE DEF n
<1>9. Cardinality(QueueAudiences) \in 0..n
  BY <1>1, <1>5, <1>6
<1> QED BY <1>1, <1>5, <1>7, <1>8, <1>9 DEF n

\* All audiences in use are those of the queue and at most one more.
LEMMA InUseFew ==
    ASSUME Inv, CacheShared
    PROVE  /\ IsFiniteSet(InUse)
           /\ Cardinality(InUse) <= ChatItems + 1
<1>1. CASE \E a : InUse \subseteq QueueAudiences \cup {a}
  <2>1. PICK a : InUse \subseteq QueueAudiences \cup {a}
    BY <1>1
  <2> DEFINE T == QueueAudiences \cup {a}
  <2>2. IsFiniteSet(T) /\ Cardinality(T) <= Len(chat_fanout) + 1
    BY QueueAudiencesFew
  <2>3. IsFiniteSet(InUse) /\ Cardinality(InUse) <= Cardinality(T)
    <3> HIDE DEF T
    <3>1. InUse \in SUBSET T
      BY <2>1 DEF T
    <3> QED BY <2>2, <3>1, FS_Subset
  <2>4. Cardinality(InUse) \in Nat /\ Cardinality(T) \in Nat
    BY <2>2, <2>3, FS_CardinalityType
  <2>5. Len(chat_fanout) \in 0..ChatItems
    BY QueueAudiencesFew
  <2> HIDE DEF T
  <2> QED BY <2>2, <2>3, <2>4, <2>5, FanoutAssumption
<1>2. CASE clock_fanout = None \/ fanout_audience_cache = None
           \/ clock_fanout.recipients = fanout_audience_cache
  <2>1. \E a : InUse \subseteq QueueAudiences \cup {a}
    BY <1>2, Zenon DEF InUse, Audiences, QueueAudiences
  <2> QED BY <1>1, <2>1
<1>3. CASE /\ clock_fanout # None
           /\ fanout_audience_cache # None
           /\ clock_fanout.recipients # fanout_audience_cache
  <2>0. InUse = QueueAudiences \cup {clock_fanout.recipients, fanout_audience_cache}
    BY <1>3 DEF InUse, Audiences, QueueAudiences
  <2>1. CASE chat_fanout # <<>>
    <3>1. Len(chat_fanout) \in DOMAIN chat_fanout
      BY <2>1 DEF Inv, ChatInv
    <3>2. fanout_audience_cache \in QueueAudiences
      BY <1>3, <2>1, <3>1 DEF CacheShared, QueueAudiences
    <3>3. InUse \subseteq QueueAudiences \cup {clock_fanout.recipients}
      BY <2>0, <3>2
    <3> QED BY <1>1, <3>3
  <2>2. CASE chat_fanout = <<>>
    <3> DEFINE b == clock_fanout.recipients
               c == fanout_audience_cache
    <3>1. InUse = {b} \cup {c}
      BY <2>0, <2>2, QueueAudiencesFew
    <3>2. IsFiniteSet({b}) /\ Cardinality({b}) = 1
      BY FS_Singleton
    <3>3. IsFiniteSet({b} \cup {c}) /\ Cardinality({b} \cup {c}) <= 2
      <4> HIDE DEF b, c
      <4>1. /\ IsFiniteSet({b} \cup {c})
            /\ Cardinality({b} \cup {c}) =
                 IF c \in {b} THEN Cardinality({b}) ELSE Cardinality({b}) + 1
        BY <3>2, FS_AddElement
      <4> QED BY <3>2, <4>1
    <3>4. Cardinality(InUse) \in Nat
      BY <3>1, <3>3, FS_CardinalityType
    <3> HIDE DEF b, c
    <3> QED BY <3>1, <3>3, <3>4, FanoutAssumption
  <2> QED BY <2>1, <2>2
<1> QED BY <1>2, <1>3

\* Room for one audience more, next to at most ChatItems.
LEMMA RoomForOneMore ==
    ASSUME NEW clock, Registered # {}, NEW n \in 0..ChatItems,
           Retained(chat_fanout, clock, None) \in 0..(n * MaxPeers)
    PROVE  Fits(clock)
<1> DEFINE have == Retained(chat_fanout, clock, None)
           regs == Cardinality(Registered)
           limit == ChatItems * MaxPeers
<1>1. ChatItems \in Nat /\ MaxPeers \in Nat /\ n \in Nat /\ n <= ChatItems
  BY FanoutAssumption
<1>2. n * MaxPeers \in Nat /\ limit \in Nat /\ n * MaxPeers <= limit
  BY <1>1
<1>3. regs \in 0..MaxPeers
  BY RegisteredFinite
<1>4. (ChatItems + 1) * MaxPeers = limit + MaxPeers
  BY <1>1
<1> HIDE DEF have, regs, limit
<1>5. have + regs <= limit + MaxPeers
  BY <1>1, <1>2, <1>3 DEF have
<1>6. have + regs <= QueueRecipients
  BY <1>4, <1>5 DEF QueueRecipients
<1> QED BY <1>6 DEF Fits, have, regs

\* capture_fanout_recipients' limit on retained audiences holds, and never
\* refuses what the queue limits admit.
THEOREM AudiencesAlwaysFit == Spec => []AudiencesFit
<1>1. ASSUME Inv, QueueInv PROVE AudiencesFit
  <2>0. ChatItems + 1 \in Nat
    BY FanoutAssumption
  <2>1. Retained(chat_fanout, clock_fanout, fanout_audience_cache) <= QueueRecipients
    <3>1. IsFiniteSet(InUse) /\ Cardinality(InUse) <= ChatItems + 1
      BY <1>1, InUseFew DEF QueueInv
    <3>2. \A a \in InUse : AudienceOK(sessions, next_session_generation, a)
      BY <1>1, InUseOK
    <3>3. Retained(chat_fanout, clock_fanout, fanout_audience_cache)
             \in 0..((ChatItems + 1) * MaxPeers)
      BY <2>0, <3>1, <3>2, RetainedAtMost DEF InUse
    <3> QED BY <3>3 DEF QueueRecipients
  <2>2. Len(chat_fanout) \in 0..ChatItems
    BY <1>1, QueueAudiencesFew
  <2>3. ASSUME Registered # {} PROVE CanCapture(None)
    <3>1. Audiences(chat_fanout, None, None) = QueueAudiences
      BY DEF Audiences, QueueAudiences
    <3>2. \A a \in QueueAudiences : AudienceOK(sessions, next_session_generation, a)
      BY <1>1, InUseOK DEF InUse, Audiences, QueueAudiences
    <3>3. IsFiniteSet(QueueAudiences) /\ Cardinality(QueueAudiences) <= Len(chat_fanout)
      BY <1>1, QueueAudiencesFew
    <3>4. Retained(chat_fanout, None, None) \in 0..(Len(chat_fanout) * MaxPeers)
      BY <2>2, <3>1, <3>2, <3>3, RetainedAtMost
    <3> QED BY <2>2, <2>3, <3>4, RoomForOneMore DEF CanCapture
  <2>4. ASSUME Registered # {}, ChatHasRoom PROVE CanCapture(clock_fanout)
    <3> DEFINE A == Audiences(chat_fanout, clock_fanout, None)
               n == Len(chat_fanout) + 1
    <3>1. n \in 0..ChatItems /\ n \in Nat
      BY <2>2, <2>4, FanoutAssumption DEF ChatHasRoom
    <3>2. \A a \in A : AudienceOK(sessions, next_session_generation, a)
      BY <1>1, InUseOK DEF InUse, Audiences
    <3>3. IsFiniteSet(A) /\ Cardinality(A) <= n
      <4>1. CASE clock_fanout = None
        <5>1. A = QueueAudiences
          BY <4>1 DEF Audiences, QueueAudiences
        <5> QED BY <1>1, <2>2, <5>1, QueueAudiencesFew
      <4>2. CASE clock_fanout # None
        <5>1. A = QueueAudiences \cup {clock_fanout.recipients}
          BY <4>2 DEF Audiences, QueueAudiences
        <5> QED BY <1>1, <5>1, QueueAudiencesFew
      <4> QED BY <4>1, <4>2
    <3> HIDE DEF n
    <3>4. Retained(chat_fanout, clock_fanout, None) \in 0..(n * MaxPeers)
      BY <3>1, <3>2, <3>3, RetainedAtMost
    <3> QED BY <2>4, <3>1, <3>4, RoomForOneMore DEF CanCapture
  <2> QED BY <2>1, <2>3, <2>4 DEF AudiencesFit
<1>2. Inv /\ QueueInv => AudiencesFit
  BY <1>1
<1> QED BY <1>2, Invariant, QueueInvariant, PTL
=============================================================================
