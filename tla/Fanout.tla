-------------------------------- MODULE Fanout --------------------------------
(***************************************************************************)
(* Chat and clock broadcasts of the server: on_chat, broadcast_clock and   *)
(* process_fanout_work.                                                    *)
(*                                                                         *)
(* A broadcast is a job: it captures who is registered, as pairs (peer,    *)
(* session generation), and is worked off under budgets over later ticks,  *)
(* while sessions come, go, move and are re-keyed.  Chat jobs queue; the   *)
(* clock has one slot, which a newer clock overwrites.  Jobs captured      *)
(* between two changes of the registry share one audience, an Arc, which   *)
(* the limit on retained audiences counts once; its tag is its identity.   *)
(*                                                                         *)
(* A tick handles events, works on jobs, and may broadcast the clock.  A   *)
(* chat line that is throttled, too long or finds a full queue changes     *)
(* nothing here.  An eviction, which unregisters one session and registers *)
(* another in one handler, is the two steps in a row.                      *)
(***************************************************************************)
EXTENDS Integers, Sequences, FiniteSets, SequencesExt

CONSTANTS
    MaxPeers,        \* DEFAULT_MAX_PEERS, which bounds max_transport_peers
    Cell,            \* grid cells, on a line; 0 is the cell of the world's origin
    AoiRadius,       \* aoi_radius_cells
    None,            \* Option::None
    ChatItems,       \* CHAT_QUEUE_ITEMS
    MaxPayload,      \* bytes of a datagram after its header
    MaxGeneration,   \* u64::MAX of the session generation
    MaxSessions      \* bound: sessions ever registered

ASSUME FanoutAssumption ==
    /\ MaxPeers \in Nat \ {0}
    /\ 0 \in Cell /\ Cell \subseteq Int
    /\ AoiRadius \in Nat
    /\ ChatItems \in Nat \ {0}
    /\ MaxPayload \in Nat \ {0}
    /\ MaxGeneration \in Nat
    /\ MaxGeneration >= MaxPeers
    /\ MaxSessions \in Nat

Peer == 1..MaxPeers

\* struct Session: `born` is history, the how-manieth session it is.
Session == [generation : 1..MaxGeneration, cell : Cell, born : 1..MaxSessions]

\* struct FanoutRecipient, with the session that was meant.
Recipient == [peer : Peer, generation : 1..MaxGeneration, born : 1..MaxSessions]

\* Arc<[FanoutRecipient]>: the slice is in the order of the peers, so that its
\* members say all; the tag is its address.
Audience == [tag : Nat, members : SUBSET Recipient]

\* struct FanoutJob: `msg` is history, which of the queued lines it is (0 for a
\* clock).  next_recipient is the position after the last peer visited, `next`.
Job == [msg : 0..ChatItems, size : 1..MaxPayload, sender_cell : Cell \cup {None},
        recipients : Audience, next : 0..MaxPeers]

ASSUME NoneAssumption ==
    None \notin Session /\ None \notin Audience /\ None \notin Job /\ None \notin Int

VARIABLES
    sessions,               \* HashMap<PeerId, Session>; snapshot_recipients is its key set
    next_session_generation,
    chat_fanout,            \* VecDeque<FanoutJob>
    chat_fanout_bytes,
    clock_fanout,           \* Option<FanoutJob>
    fanout_audience_cache,  \* Option<Arc<[FanoutRecipient]>>
    fanout_prefer_clock,
    phase,                  \* where the tick is: events, fanout or clock
    work,                   \* FanoutTickWork: scans and sends of this tick
    births,                 \* history: sessions ever registered
    delivered               \* history: which session was sent which queued line

registryVars == <<sessions, next_session_generation, births>>
jobVars == <<chat_fanout, chat_fanout_bytes, clock_fanout, fanout_audience_cache,
             fanout_prefer_clock>>
tickVars == <<phase, work>>
vars == <<registryVars, jobVars, tickVars, delivered>>

\* Mutant of QueueRecipients: no room for the clock's audience.
QueueRecipientsOfChat == ChatItems * MaxPeers

\* FANOUT_QUEUE_RECIPIENTS, and the budgets of a tick.
QueueRecipients == (ChatItems + 1) * MaxPeers

ScansPerTick == MaxPeers

SendsPerTick == MaxPeers

NoWork == [scans |-> 0, sends |-> 0]

Init ==
    /\ sessions = [p \in Peer |-> None]
    /\ next_session_generation = 0
    /\ chat_fanout = <<>>
    /\ chat_fanout_bytes = 0
    /\ clock_fanout = None
    /\ fanout_audience_cache = None
    /\ fanout_prefer_clock = TRUE
    /\ phase = "events"
    /\ work = NoWork
    /\ births = 0
    /\ delivered = {}

Registered == {p \in Peer : sessions[p] # None}

\* The audiences in use, each Arc once.
Audiences(chat, clock, cache) ==
    {chat[i].recipients : i \in DOMAIN chat}
      \cup (IF clock = None THEN {} ELSE {clock.recipients})
      \cup (IF cache = None THEN {} ELSE {cache})

-----------------------------------------------------------------------------
(* The registry, as far as broadcasts depend on it.                        *)

\* Mutant of InvalidateFanoutJobs: the queued jobs survive.
InvalidateNothing ==
    /\ fanout_audience_cache' = None
    /\ UNCHANGED <<chat_fanout, chat_fanout_bytes, clock_fanout>>

\* Mutant of InvalidateFanoutJobs: the byte counter is forgotten.
InvalidateKeepsBytes ==
    /\ chat_fanout' = <<>>
    /\ clock_fanout' = None
    /\ fanout_audience_cache' = None
    /\ UNCHANGED chat_fanout_bytes

\* invalidate_fanout_jobs.
InvalidateFanoutJobs ==
    /\ chat_fanout' = <<>>
    /\ chat_fanout_bytes' = 0
    /\ clock_fanout' = None
    /\ fanout_audience_cache' = None

\* The number of a peer in the order of a re-key.
Rank(p) == Cardinality({q \in Registered : q <= p})

\* allocate_session_generation: when the generations are used up, the live
\* sessions are re-keyed first.
Rekeying == next_session_generation = MaxGeneration

Kept ==
    IF ~Rekeying THEN sessions
    ELSE [q \in Peer |-> IF sessions[q] = None THEN None
                         ELSE [sessions[q] EXCEPT !.generation = Rank(q)]]

NewGeneration ==
    IF Rekeying THEN Cardinality(Registered) + 1 ELSE next_session_generation + 1

\* register_session, for a peer without one, at the origin.
RegisterSession(p) ==
    /\ phase = "events"
    /\ sessions[p] = None
    /\ births < MaxSessions
    /\ births' = births + 1
    /\ next_session_generation' = NewGeneration
    /\ sessions' = [Kept EXCEPT ![p] =
                      [generation |-> NewGeneration, cell |-> 0, born |-> births + 1]]
    /\ IF Rekeying THEN InvalidateFanoutJobs
       ELSE /\ fanout_audience_cache' = None
            /\ UNCHANGED <<chat_fanout, chat_fanout_bytes, clock_fanout>>
    /\ UNCHANGED <<fanout_prefer_clock, tickVars, delivered>>

\* Mutant of UnregisterSession: the shared audience is kept.
UnregisterSessionKeepsCache(p) ==
    /\ phase = "events"
    /\ sessions[p] # None
    /\ sessions' = [sessions EXCEPT ![p] = None]
    /\ UNCHANGED <<next_session_generation, births, jobVars, tickVars, delivered>>

\* unregister_session: a disconnect, or an eviction.
UnregisterSession(p) ==
    /\ phase = "events"
    /\ sessions[p] # None
    /\ sessions' = [sessions EXCEPT ![p] = None]
    /\ fanout_audience_cache' = None
    /\ UNCHANGED <<next_session_generation, births, chat_fanout, chat_fanout_bytes,
                   clock_fanout, fanout_prefer_clock, tickVars, delivered>>

\* on_client_state: the session's cell and the centre of its subscription.
OnClientState(p, c) ==
    /\ phase = "events"
    /\ sessions[p] # None
    /\ sessions' = [sessions EXCEPT ![p].cell = c]
    /\ UNCHANGED <<next_session_generation, births, jobVars, tickVars, delivered>>

-----------------------------------------------------------------------------
(* Jobs.                                                                   *)

\* retained_fanout_audience_entries.
Retained(chat, clock, cache) ==
    SumFunction([a \in Audiences(chat, clock, cache) |-> Cardinality(a.members)])

\* An Arc that is not one of those in use.
FreshTag(used) == CHOOSE n \in 0..Cardinality(used) : \A a \in used : a.tag # n

\* The registered peers with their generations.
Recipients ==
    {[peer |-> p, generation |-> sessions[p].generation, born |-> sessions[p].born] :
       p \in Registered}

\* capture_fanout_recipients: the shared audience, or a new one if it fits.
\* `clock` is the clock job at that time.
Fits(clock) ==
    /\ Registered # {}
    /\ Retained(chat_fanout, clock, None) + Cardinality(Registered) <= QueueRecipients

CanCapture(clock) == fanout_audience_cache # None \/ Fits(clock)

Captured(clock) ==
    IF fanout_audience_cache # None THEN fanout_audience_cache
    ELSE [tag |-> FreshTag(Audiences(chat_fanout, clock, None)), members |-> Recipients]

NewJob(msg, size, cell, audience) ==
    [msg |-> msg, size |-> size, sender_cell |-> cell, recipients |-> audience, next |-> 0]

Queued(msg) == \E i \in DOMAIN chat_fanout : chat_fanout[i].msg = msg

FreeMsg == CHOOSE m \in 1..ChatItems : ~Queued(m)

\* The queue limits of on_chat, in lines and in bytes.
ChatHasRoom ==
    /\ Len(chat_fanout) < ChatItems
    /\ chat_fanout_bytes <= ChatItems * MaxPayload - MaxPayload

\* on_chat, the line is queued.
OnChat(p, size) ==
    /\ phase = "events"
    /\ sessions[p] # None
    /\ ChatHasRoom
    /\ CanCapture(clock_fanout)
    /\ fanout_audience_cache' = Captured(clock_fanout)
    /\ chat_fanout' = Append(chat_fanout,
         NewJob(FreeMsg, size, sessions[p].cell, Captured(clock_fanout)))
    /\ delivered' = {d \in delivered : d.msg # FreeMsg}
    /\ chat_fanout_bytes' = chat_fanout_bytes + size
    /\ UNCHANGED <<registryVars, clock_fanout, fanout_prefer_clock, tickVars>>

\* broadcast_clock: the new job replaces the old one, whose audience is
\* released before the new one is captured.
BroadcastClock ==
    /\ phase = "clock"
    /\ phase' = "events"
    /\ IF CanCapture(None)
       THEN /\ fanout_audience_cache' = Captured(None)
            /\ clock_fanout' = NewJob(0, 1, None, Captured(None))
       ELSE /\ clock_fanout' = None
            /\ UNCHANGED fanout_audience_cache
    /\ UNCHANGED <<registryVars, chat_fanout, chat_fanout_bytes, fanout_prefer_clock,
                   work, delivered>>

\* A tick at which no clock broadcast is due.
NoClockDue ==
    /\ phase = "clock"
    /\ phase' = "events"
    /\ UNCHANGED <<registryVars, jobVars, work, delivered>>

-----------------------------------------------------------------------------
(* process_fanout_work: one recipient per step.  The job the code takes    *)
(* out of its queue and puts back is left in place.                        *)

\* The tick has handled its events.
FanoutBegin ==
    /\ phase = "events"
    /\ phase' = "fanout"
    /\ UNCHANGED <<registryVars, jobVars, work, delivered>>

\* Mutant of FromClock: the clock always goes first.
FromClockAlways == clock_fanout # None

\* from_clock: the two kinds of job take turns.
FromClock == clock_fanout # None /\ (fanout_prefer_clock \/ chat_fanout = <<>>)

\* Mutant of FanoutContinues: off by one at the budget of scans.
FanoutContinuesAtLimit ==
    /\ work.scans <= ScansPerTick
    /\ work.sends < SendsPerTick
    /\ clock_fanout # None \/ chat_fanout # <<>>

\* The loop conditions.
FanoutContinues ==
    /\ work.scans < ScansPerTick
    /\ work.sends < SendsPerTick
    /\ clock_fanout # None \/ chat_fanout # <<>>

CurrentJob == IF FromClock THEN clock_fanout ELSE Head(chat_fanout)

\* Subscription::contains: the cells around the session's own.
Sees(session, cell) ==
    cell = None \/ (session.cell - cell <= AoiRadius /\ cell - session.cell <= AoiRadius)

\* Mutant of ShouldSend: whoever has the peer's id now.
ShouldSendToPeer(r, cell) == sessions[r.peer] # None /\ Sees(sessions[r.peer], cell)

\* should_send.
ShouldSend(r, cell) ==
    /\ sessions[r.peer] # None
    /\ sessions[r.peer].generation = r.generation
    /\ Sees(sessions[r.peer], cell)

\* The recipients a job has not visited.
Pending(job) == {r \in job.recipients.members : r.peer > job.next}

\* Mutant of Advance: the recipient that used up the budget is visited again.
AdvanceUnlessSpent(job, r) ==
    IF work.scans + 1 = ScansPerTick /\ Pending(job) # {r} THEN job
    ELSE [job EXCEPT !.next = r.peer]

Advance(job, r) == [job EXCEPT !.next = r.peer]

\* saturating_sub.
Minus(m, n) == IF m >= n THEN m - n ELSE 0

\* The inner loop visits the job's next recipient; the job ends with its last.
VisitClock(job, r) ==
    /\ IF Pending(job) = {r}
       THEN clock_fanout' = None /\ fanout_prefer_clock' = FALSE
       ELSE clock_fanout' = Advance(job, r) /\ UNCHANGED fanout_prefer_clock
    /\ UNCHANGED <<chat_fanout, chat_fanout_bytes, delivered>>

VisitChat(job, r, send) ==
    /\ IF Pending(job) = {r}
       THEN /\ chat_fanout' = Tail(chat_fanout)
            /\ chat_fanout_bytes' = Minus(chat_fanout_bytes, job.size)
            /\ fanout_prefer_clock' = TRUE
       ELSE /\ chat_fanout' = [chat_fanout EXCEPT ![1] = Advance(job, r)]
            /\ UNCHANGED <<chat_fanout_bytes, fanout_prefer_clock>>
    /\ delivered' = IF send THEN delivered \cup {[msg |-> job.msg, to |-> sessions[r.peer].born]}
                    ELSE delivered
    /\ UNCHANGED clock_fanout

ScanRecipient ==
    /\ phase = "fanout"
    /\ FanoutContinues
    /\ \E r \in Pending(CurrentJob) :
         /\ \A q \in Pending(CurrentJob) : r.peer <= q.peer
         /\ LET send == ShouldSend(r, CurrentJob.sender_cell)
            IN  /\ work' = [scans |-> work.scans + 1,
                            sends |-> IF send THEN work.sends + 1 ELSE work.sends]
                /\ IF FromClock THEN VisitClock(CurrentJob, r)
                   ELSE VisitChat(CurrentJob, r, send)
    /\ UNCHANGED <<registryVars, fanout_audience_cache, phase>>

\* A budget is spent, or no job is left.  What finished lines delivered is
\* forgotten.
FanoutEnd ==
    /\ phase = "fanout"
    /\ ~FanoutContinues
    /\ phase' = "clock"
    /\ work' = NoWork
    /\ delivered' = {d \in delivered : Queued(d.msg)}
    /\ UNCHANGED <<registryVars, jobVars>>

-----------------------------------------------------------------------------
\* What every tick does.
Tick == FanoutBegin \/ ScanRecipient \/ FanoutEnd \/ BroadcastClock \/ NoClockDue

Next ==
    \/ \E p \in Peer : RegisterSession(p) \/ UnregisterSession(p)
    \/ \E p \in Peer, c \in Cell : OnClientState(p, c)
    \/ \E p \in Peer, size \in {1, MaxPayload} : OnChat(p, size)
    \/ Tick

Spec == Init /\ [][Next]_vars

\* The loop ticks until the process stops.
FairSpec == Spec /\ WF_vars(Tick)

-----------------------------------------------------------------------------
(* Properties.                                                             *)

RegistryTypeOK ==
    /\ sessions \in [Peer -> Session \cup {None}]
    /\ next_session_generation \in 0..MaxGeneration
    /\ births \in 0..MaxSessions

JobsTypeOK ==
    /\ chat_fanout \in Seq(Job)
    /\ Len(chat_fanout) <= ChatItems
    /\ chat_fanout_bytes \in Nat
    /\ clock_fanout \in Job \cup {None}
    /\ fanout_audience_cache \in Audience \cup {None}
    /\ fanout_prefer_clock \in BOOLEAN
    /\ \A i \in DOMAIN chat_fanout : Pending(chat_fanout[i]) # {}
    /\ clock_fanout # None => Pending(clock_fanout) # {}

TickTypeOK ==
    /\ phase \in {"events", "fanout", "clock"}
    /\ work \in [scans : 0..ScansPerTick, sends : 0..SendsPerTick]
    /\ delivered \subseteq [msg : 1..ChatItems, to : 1..MaxSessions]

\* Type invariant; the limits hold, and a queued job has recipients left.
TypeOK == RegistryTypeOK /\ JobsTypeOK /\ TickTypeOK

InUse == Audiences(chat_fanout, clock_fanout, fanout_audience_cache)

\* A captured pair (peer, generation) matches the session it was captured
\* from or no session at all: not the next session of a reused peer id, and
\* not a session that was given the same number by a re-key.
RecipientMeansItsSession ==
    \A a \in InUse : \A r \in a.members :
        (sessions[r.peer] # None /\ sessions[r.peer].generation = r.generation) =>
          sessions[r.peer].born = r.born

\* A queued chat line goes at most to the sessions it captured, and to none
\* of them twice: those it has not reached yet have not received it.
PendingNotDelivered ==
    \A i \in DOMAIN chat_fanout : \A r \in Pending(chat_fanout[i]) :
        [msg |-> chat_fanout[i].msg, to |-> r.born] \notin delivered

\* A chat line is sent to a session that was registered when it was queued and
\* that the queued job has not been past yet: not to whoever holds the peer's
\* id by now.
DeliveredAsMeant ==
    [][\A d \in delivered' \ delivered : \E i \in DOMAIN chat_fanout :
         /\ chat_fanout[i].msg = d.msg
         /\ \E r \in Pending(chat_fanout[i]) : r.born = d.to]_vars

\* A broadcast that reuses the shared audience reaches who is registered now.
CacheIsCurrent ==
    fanout_audience_cache # None => fanout_audience_cache.members = Recipients

\* The byte counter that admits chat is what the queue holds: it does not
\* drift until chat is refused for good.
BytesAccounted ==
    chat_fanout_bytes = SumFunction([i \in DOMAIN chat_fanout |-> chat_fanout[i].size])

\* The limit on retained audiences holds, and is large enough that neither a
\* chat line the queue has room for nor a clock is ever refused by it.
AudiencesFit ==
    /\ Retained(chat_fanout, clock_fanout, fanout_audience_cache) <= QueueRecipients
    /\ Registered # {} => CanCapture(None) /\ (ChatHasRoom => CanCapture(clock_fanout))

\* Every queued chat line is worked off, however often the clock is broadcast
\* and however sessions come and go.
ChatWorkedOff == \A msg \in 1..ChatItems : Queued(msg) ~> ~Queued(msg)
=============================================================================
