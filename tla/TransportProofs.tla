---------------------------- MODULE TransportProofs ----------------------------
(***************************************************************************)
(* What TLAPS proves of Transport, for every number of addresses, every    *)
(* limit and every budget.                                                 *)
(***************************************************************************)
EXTENDS Transport, SequenceTheorems, FiniteSetTheorems, TLAPS

-----------------------------------------------------------------------------
(* Queues without repetitions.                                             *)

\* push_back of a new element.
LEMMA ListsAppend ==
    ASSUME NEW S, NEW queue \in Seq(S), NEW V, Lists(queue, V), NEW e \in S, e \notin V
    PROVE  Lists(Append(queue, e), V \cup {e})
<1> DEFINE n == Len(queue)
<1> DEFINE q == Append(queue, e)
<1>1. n \in Nat /\ DOMAIN queue = 1..n
  OBVIOUS
<1>2. /\ DOMAIN q = 1..(n + 1) /\ q[n + 1] = e
      /\ \A i \in 1..n : q[i] = queue[i]
  BY <1>1, AppendProperties
<1>3. \A i \in 1..n : queue[i] # e
  BY <1>1 DEF Lists
<1> HIDE DEF q, n
<1>4. \A i, j \in DOMAIN q : q[i] = q[j] => i = j
  BY <1>1, <1>2, <1>3 DEF Lists
<1>5. {q[i] : i \in DOMAIN q} = V \cup {e}
  BY <1>1, <1>2 DEF Lists
<1> QED BY <1>4, <1>5 DEF Lists, q

\* pop_front.
LEMMA ListsTail ==
    ASSUME NEW S, NEW queue \in Seq(S), NEW V, Lists(queue, V), queue # <<>>
    PROVE  Head(queue) \in V /\ Lists(Tail(queue), V \ {Head(queue)})
<1> DEFINE n == Len(queue)
<1> DEFINE q == Tail(queue)
<1>1. n \in Nat /\ n > 0 /\ DOMAIN queue = 1..n /\ Head(queue) = queue[1]
  BY EmptySeq
<1>2. /\ DOMAIN q = 1..(n - 1)
      /\ \A i \in 1..(n - 1) : q[i] = queue[i + 1]
  BY <1>1, HeadTailProperties
<1> HIDE DEF q, n
<1>3. ASSUME NEW i \in DOMAIN q, NEW j \in DOMAIN q, q[i] = q[j] PROVE i = j
  <2>1. i + 1 \in 1..n /\ j + 1 \in 1..n
    BY <1>1, <1>2
  <2> QED BY <1>1, <1>2, <1>3, <2>1 DEF Lists
<1>4. {q[i] : i \in DOMAIN q} \subseteq V \ {Head(queue)}
  <2> SUFFICES ASSUME NEW i \in DOMAIN q PROVE q[i] \in V /\ q[i] # Head(queue)
    OBVIOUS
  <2>1. i + 1 \in 1..n /\ i + 1 # 1
    BY <1>1, <1>2
  <2> QED BY <1>1, <1>2, <2>1 DEF Lists
<1>5. V \ {Head(queue)} \subseteq {q[i] : i \in DOMAIN q}
  <2> SUFFICES ASSUME NEW v \in V, v # Head(queue) PROVE \E i \in DOMAIN q : v = q[i]
    OBVIOUS
  <2>1. PICK k \in 1..n : queue[k] = v
    BY <1>1 DEF Lists
  <2>2. k - 1 \in 1..(n - 1)
    BY <1>1, <2>1
  <2>3. q[k - 1] = queue[(k - 1) + 1]
    BY <1>2, <2>2
  <2> QED BY <1>2, <2>1, <2>2, <2>3
<1>6. Head(queue) \in V
  BY <1>1 DEF Lists
<1> QED BY <1>3, <1>4, <1>5, <1>6 DEF Lists, q

-----------------------------------------------------------------------------
(* The slot table.                                                         *)

\* The part of the invariant that concerns the slot table alone.
SlotInv == SlotTypeOK /\ SlotsMatchPeers /\ FreeQueueExact

\* Live addresses have a peer record, in a slot of the grown table.
LEMMA LivePeer ==
    ASSUME SlotInv, NEW a \in Live
    PROVE  /\ a \in Addr /\ a # None
           /\ peers[a] \in Peer
           /\ peers[a].slot \in Slots
           /\ peer_slots[peers[a].slot] = a
           /\ peers[a].slot <= slot_count
BY NoneAssumption, HostAssumption DEF SlotInv, SlotTypeOK, SlotsMatchPeers, Live, Peer

\* remove_peer_at keeps the slot table consistent.
LEMMA RemoveKeepsSlots ==
    ASSUME SlotInv, NEW a \in Live, RemovePeerAt(a)
    PROVE  SlotInv'
<1> DEFINE s == peers[a].slot
<1>1. a \in Addr /\ a # None /\ s \in Slots /\ peer_slots[s] = a /\ s <= slot_count
  BY LivePeer
<1>2. /\ free_peer_slots' = Append(free_peer_slots, s)
      /\ Len(free_peer_slots') = Len(free_peer_slots) + 1
  BY <1>1, AppendProperties DEF SlotInv, SlotTypeOK, RemovePeerAt
<1>3. SlotTypeOK'
  BY <1>1, <1>2 DEF SlotInv, SlotTypeOK, RemovePeerAt
<1>4. SlotsMatchPeers'
  BY <1>1, LivePeer DEF SlotInv, SlotTypeOK, SlotsMatchPeers, RemovePeerAt, Live
<1>5. Vacant' = Vacant \cup {s} /\ s \notin Vacant
  BY <1>1, LimitsAssumption DEF SlotInv, SlotTypeOK, RemovePeerAt, Vacant, Slots
<1> HIDE DEF s
<1>6. FreeQueueExact'
  BY <1>1, <1>2, <1>5, ListsAppend DEF SlotInv, SlotTypeOK, FreeQueueExact
<1> QED BY <1>3, <1>4, <1>6 DEF SlotInv

\* What allocate_peer_slot hands out is a vacant slot, one that was free when
\* the poll began or one the table has just grown.
LEMMA AllocatedIsVacant ==
    ASSUME SlotInv, CanAllocate
    PROVE  /\ AllocatedSlot \in Slots
           /\ peer_slots[AllocatedSlot] = None
           /\ slot_count < MaxPeers => AllocatedSlot = slot_count + 1
           /\ ~(slot_count < MaxPeers) =>
                /\ free_peer_slots # <<>>
                /\ AllocatedSlot = Head(free_peer_slots)
                /\ AllocatedSlot \in Vacant
                /\ available_free_peer_slots > 0
<1>1. CASE slot_count < MaxPeers
  BY <1>1, LimitsAssumption DEF SlotInv, SlotTypeOK, SlotsMatchPeers, AllocatedSlot, Slots
<1>2. CASE ~(slot_count < MaxPeers)
  <2>1. /\ free_peer_slots \in Seq(Slots) /\ free_peer_slots # <<>>
        /\ available_free_peer_slots > 0
    BY <1>2, EmptySeq DEF SlotInv, SlotTypeOK, CanAllocate
  <2>2. AllocatedSlot = Head(free_peer_slots)
    BY <1>2 DEF AllocatedSlot
  <2>3. AllocatedSlot \in Vacant
    BY <2>1, <2>2, ListsTail DEF SlotInv, FreeQueueExact
  <2> QED BY <1>2, <2>1, <2>2, <2>3, LimitsAssumption DEF Vacant, Slots, SlotInv, SlotTypeOK
<1> QED BY <1>1, <1>2

\* allocate_peer_slot and insert_peer keep the slot table consistent.
LEMMA InsertKeepsSlots ==
    ASSUME SlotInv, CanAllocate, NEW a \in Addr, a \notin Live,
           NEW ct \in ConnectTimes, NEW num \in ConnectionNumbers, InsertPeer(a, ct, num)
    PROVE  SlotInv'
<1> DEFINE s == AllocatedSlot
<1>1. s \in Slots /\ peer_slots[s] = None /\ a # None
  BY AllocatedIsVacant, HostAssumption
<1>2. NewPeer(s, ct, num) \in Peer /\ NewPeer(s, ct, num).slot = s /\ NewPeer(s, ct, num) # None
  BY <1>1, HostAssumption, NoneAssumption DEF NewPeer, Peer
<1>3. /\ peers' = [peers EXCEPT ![a] = NewPeer(s, ct, num)]
      /\ peer_slots' = [peer_slots EXCEPT ![s] = a]
      /\ AllocateFrom(free_peer_slots)
  BY DEF InsertPeer
<1>4. \A b \in Addr : peers'[b] = IF b = a THEN NewPeer(s, ct, num) ELSE peers[b]
  BY <1>3 DEF SlotInv, SlotTypeOK
<1>5. \A t \in Slots : peer_slots'[t] = IF t = s THEN a ELSE peer_slots[t]
  BY <1>1, <1>3 DEF SlotInv, SlotTypeOK
<1>6. /\ free_peer_slots \in Seq(Slots) /\ slot_count \in 0..MaxPeers
      /\ available_free_peer_slots \in 0..Len(free_peer_slots)
  BY DEF SlotInv, SlotTypeOK
<1>7. /\ free_peer_slots' \in Seq(Slots) /\ slot_count' \in slot_count..MaxPeers
      /\ available_free_peer_slots' \in 0..Len(free_peer_slots')
      /\ s <= slot_count'
      /\ FreeQueueExact'
  <2>1. CASE slot_count < MaxPeers
    <3>1. /\ s = slot_count + 1 /\ slot_count' = slot_count + 1
          /\ free_peer_slots' = free_peer_slots
          /\ available_free_peer_slots' = available_free_peer_slots
      BY <1>3, <2>1 DEF AllocateFrom, AllocatedSlot
    <3>2. Vacant' = Vacant
      BY <1>1, <1>5, <1>6, <2>1, <3>1, LimitsAssumption DEF Vacant, Slots
    <3> QED BY <1>6, <2>1, <3>1, <3>2, LimitsAssumption DEF SlotInv, FreeQueueExact
  <2>2. CASE ~(slot_count < MaxPeers)
    <3>1. /\ s = Head(free_peer_slots) /\ slot_count' = slot_count /\ slot_count = MaxPeers
          /\ free_peer_slots' = Tail(free_peer_slots) /\ free_peer_slots # <<>>
          /\ available_free_peer_slots' = available_free_peer_slots - 1
          /\ available_free_peer_slots > 0
      BY <1>3, <1>6, <2>2, AllocatedIsVacant, LimitsAssumption DEF AllocateFrom
    <3>2. Vacant' = Vacant \ {s}
      BY <1>1, <1>5, <1>6, <3>1, LimitsAssumption DEF Vacant, Slots
    <3>3. Lists(free_peer_slots', Vacant')
      BY <1>6, <3>1, <3>2, ListsTail DEF SlotInv, FreeQueueExact
    <3>4. free_peer_slots' \in Seq(Slots) /\ Len(free_peer_slots') = Len(free_peer_slots) - 1
      BY <1>6, <3>1, HeadTailProperties
    <3> QED BY <1>1, <1>6, <3>1, <3>3, <3>4, LimitsAssumption DEF FreeQueueExact, Slots
  <2> QED BY <2>1, <2>2
<1> HIDE DEF s
<1>8. SlotTypeOK'
  BY <1>1, <1>2, <1>3, <1>6, <1>7, LimitsAssumption DEF SlotInv, SlotTypeOK
<1>9. SlotsMatchPeers'
  <2>1. Live' = Live \cup {a}
    BY <1>2, <1>4 DEF Live
  <2>2. \A b \in Live : /\ b # a /\ b # None /\ b \in Addr
                        /\ peers[b].slot \in Slots /\ peers[b].slot # s
    BY <1>1, LivePeer
  <2>3. \A b \in Live' : peer_slots'[peers'[b].slot] = b
    BY <1>1, <1>2, <1>4, <1>5, <2>1, <2>2 DEF SlotInv, SlotsMatchPeers
  <2>4. ASSUME NEW t \in Slots, peer_slots'[t] # None
        PROVE  t <= slot_count' /\ peer_slots'[t] \in Live' /\ peers'[peer_slots'[t]].slot = t
    BY <1>1, <1>2, <1>4, <1>5, <1>6, <1>7, <2>1, <2>2, <2>4
    DEF SlotInv, SlotsMatchPeers, Slots
  <2> QED BY <2>3, <2>4 DEF SlotsMatchPeers
<1> QED BY <1>7, <1>8, <1>9 DEF SlotInv

\* remove_peer_at, allocate_peer_slot and insert_peer at one address keep the
\* slot table consistent.
LEMMA ReplaceKeepsSlots ==
    ASSUME SlotInv, CanAllocate, NEW a \in Live, NEW ct \in ConnectTimes,
           NEW num \in ConnectionNumbers, ReplacePeer(a, ct, num)
    PROVE  SlotInv'
<1> DEFINE s == AllocatedSlot
<1> DEFINE o == peers[a].slot
<1> DEFINE q == Append(free_peer_slots, o)
<1>1. /\ s \in Slots /\ peer_slots[s] = None /\ a # None /\ a \in Addr
      /\ o \in Slots /\ peer_slots[o] = a /\ o <= slot_count /\ o # s
  BY AllocatedIsVacant, LivePeer
<1>2. NewPeer(s, ct, num) \in Peer /\ NewPeer(s, ct, num).slot = s /\ NewPeer(s, ct, num) # None
  BY <1>1, HostAssumption, NoneAssumption DEF NewPeer, Peer
<1>3. /\ peers' = [peers EXCEPT ![a] = NewPeer(s, ct, num)]
      /\ peer_slots' = [peer_slots EXCEPT ![o] = None, ![s] = a]
      /\ AllocateFrom(q)
  BY DEF ReplacePeer
<1>4. \A b \in Addr : peers'[b] = IF b = a THEN NewPeer(s, ct, num) ELSE peers[b]
  BY <1>1, <1>3 DEF SlotInv, SlotTypeOK
<1>5. \A t \in Slots : peer_slots'[t] =
         IF t = s THEN a ELSE IF t = o THEN None ELSE peer_slots[t]
  BY <1>1, <1>3 DEF SlotInv, SlotTypeOK
<1>6. /\ free_peer_slots \in Seq(Slots) /\ slot_count \in 0..MaxPeers
      /\ available_free_peer_slots \in 0..Len(free_peer_slots)
  BY DEF SlotInv, SlotTypeOK
<1>7. o \notin Vacant /\ q \in Seq(Slots) /\ Len(q) = Len(free_peer_slots) + 1
        /\ Lists(q, Vacant \cup {o})
  BY <1>1, <1>6, ListsAppend, AppendProperties DEF SlotInv, FreeQueueExact, Vacant
<1>8. /\ free_peer_slots' \in Seq(Slots) /\ slot_count' \in slot_count..MaxPeers
      /\ available_free_peer_slots' \in 0..Len(free_peer_slots')
      /\ s <= slot_count'
      /\ FreeQueueExact'
  <2>1. CASE slot_count < MaxPeers
    <3>1. /\ s = slot_count + 1 /\ slot_count' = slot_count + 1
          /\ free_peer_slots' = q
          /\ available_free_peer_slots' = available_free_peer_slots
      BY <1>3, <2>1 DEF AllocateFrom, AllocatedSlot
    <3> HIDE DEF o, s, q
    <3>2. Vacant' = Vacant \cup {o}
      <4>1. 1..slot_count' = (1..slot_count) \cup {s} /\ 1..slot_count' \subseteq Slots
              /\ s \notin 1..slot_count /\ o \in 1..slot_count
        BY <1>1, <1>6, <2>1, <3>1, LimitsAssumption DEF Slots
      <4> QED BY <1>1, <1>5, <4>1 DEF Vacant
    <3> QED BY <1>6, <1>7, <2>1, <3>1, <3>2, LimitsAssumption DEF FreeQueueExact
  <2>2. CASE ~(slot_count < MaxPeers)
    <3>1. /\ slot_count' = slot_count /\ slot_count = MaxPeers
          /\ free_peer_slots' = Tail(q) /\ free_peer_slots # <<>>
          /\ available_free_peer_slots' = available_free_peer_slots - 1
          /\ available_free_peer_slots > 0
          /\ s = Head(free_peer_slots)
      <4>1. slot_count = MaxPeers /\ available_free_peer_slots > 0
        BY <1>6, <2>2, LimitsAssumption DEF CanAllocate
      <4>2. /\ slot_count' = slot_count /\ free_peer_slots' = Tail(q)
            /\ available_free_peer_slots' = available_free_peer_slots - 1
        BY <1>3, <2>2 DEF AllocateFrom
      <4>3. s = Head(free_peer_slots)
        BY <2>2 DEF AllocatedSlot
      <4>4. free_peer_slots # <<>>
        BY <1>6, <4>1
      <4> QED BY <4>1, <4>2, <4>3, <4>4
    <3>2. q # <<>> /\ Head(q) = s
      BY <1>1, <1>6, <1>7, <3>1, EmptySeq, AppendProperties
    <3> HIDE DEF o, s, q
    <3>3. Vacant' = (Vacant \cup {o}) \ {s}
      BY <1>1, <1>5, <1>6, <3>1, LimitsAssumption DEF Vacant, Slots
    <3>4. Lists(free_peer_slots', Vacant')
      BY <1>7, <3>1, <3>2, <3>3, ListsTail
    <3>5. free_peer_slots' \in Seq(Slots) /\ Len(free_peer_slots') = Len(free_peer_slots)
      BY <1>6, <1>7, <3>1, <3>2, HeadTailProperties
    <3> QED BY <1>1, <1>6, <3>1, <3>4, <3>5, LimitsAssumption DEF FreeQueueExact, Slots
  <2> QED BY <2>1, <2>2
<1> HIDE DEF s, o, q
<1>9. SlotTypeOK'
  BY <1>1, <1>2, <1>3, <1>6, <1>8, LimitsAssumption DEF SlotInv, SlotTypeOK
<1>10. SlotsMatchPeers'
  <2>1. Live' = Live
    BY <1>2, <1>4 DEF Live
  <2>2. \A b \in Live : /\ b # None /\ b \in Addr /\ peers[b].slot \in Slots
                        /\ peers[b].slot # s /\ (b # a => peers[b].slot # o)
    BY <1>1, LivePeer
  <2>3. \A b \in Live' : peer_slots'[peers'[b].slot] = b
    BY <1>1, <1>2, <1>4, <1>5, <2>1, <2>2 DEF SlotInv, SlotsMatchPeers
  <2>4. ASSUME NEW t \in Slots, peer_slots'[t] # None
        PROVE  t <= slot_count' /\ peer_slots'[t] \in Live' /\ peers'[peer_slots'[t]].slot = t
    BY <1>1, <1>2, <1>4, <1>5, <1>6, <1>8, <2>1, <2>2, <2>4
    DEF SlotInv, SlotsMatchPeers, Slots, o
  <2> QED BY <2>3, <2>4 DEF SlotsMatchPeers
<1> QED BY <1>8, <1>9, <1>10 DEF SlotInv

\* Steps that only touch a peer's idle time leave the slot table as it is.
LEMMA SameSlots ==
    ASSUME SlotInv, peers' \in [Addr -> Peer \cup {None}],
           \A a \in Addr : peers[a] = None <=> peers'[a] = None,
           \A a \in Live : peers'[a].slot = peers[a].slot,
           UNCHANGED <<peer_slots, slot_count, free_peer_slots>>,
           available_free_peer_slots' \in 0..Len(free_peer_slots)
    PROVE  SlotInv'
<1>1. Live' = Live
  BY DEF Live
<1>2. SlotTypeOK'
  BY DEF SlotInv, SlotTypeOK
<1>3. SlotsMatchPeers'
  BY <1>1 DEF SlotInv, SlotsMatchPeers
<1>4. FreeQueueExact'
  BY DEF SlotInv, FreeQueueExact, Lists, Vacant
<1> QED BY <1>2, <1>3, <1>4 DEF SlotInv

-----------------------------------------------------------------------------
(* Retired slots.                                                          *)

\* A slot handed out was not retired since the poll began.
LEMMA AllocatedNotRetired ==
    ASSUME SlotInv, CanAllocate
    PROVE  AllocatedSlot \notin Retired
<1>1. CASE slot_count < MaxPeers
  <2>1. AllocatedSlot \notin Vacant
    BY <1>1, AllocatedIsVacant, LimitsAssumption DEF Vacant, SlotInv, SlotTypeOK
  <2>2. Retired \subseteq Vacant
    BY DEF Retired, SlotInv, SlotTypeOK, FreeQueueExact, Lists
  <2> QED BY <2>1, <2>2
<1>2. CASE ~(slot_count < MaxPeers)
  <2>1. /\ free_peer_slots \in Seq(Slots) /\ free_peer_slots # <<>>
        /\ AllocatedSlot = Head(free_peer_slots)
        /\ available_free_peer_slots > 0 /\ available_free_peer_slots \in Nat
    BY <1>2, AllocatedIsVacant DEF SlotInv, SlotTypeOK
  <2>2. AllocatedSlot = free_peer_slots[1] /\ 1 \in DOMAIN free_peer_slots
    BY <2>1, EmptySeq
  <2>3. \A i \in (available_free_peer_slots + 1)..Len(free_peer_slots) :
           i \in DOMAIN free_peer_slots /\ i # 1
    BY <2>1
  <2> QED BY <2>2, <2>3 DEF Retired, SlotInv, FreeQueueExact, Lists
<1> QED BY <1>1, <1>2

\* What the slot operations do to the set of retired slots.
LEMMA RetiredByRemove ==
    ASSUME SlotInv, NEW a \in Live, RemovePeerAt(a)
    PROVE  Retired' = Retired \cup {peers[a].slot}
<1> DEFINE o == peers[a].slot
<1> DEFINE n == Len(free_peer_slots)
<1>1. /\ free_peer_slots \in Seq(Slots) /\ o \in Slots /\ n \in Nat
      /\ available_free_peer_slots \in 0..n
      /\ available_free_peer_slots' = available_free_peer_slots
      /\ free_peer_slots' = Append(free_peer_slots, o)
  BY LivePeer DEF SlotInv, SlotTypeOK, RemovePeerAt
<1>2. /\ Len(free_peer_slots') = n + 1
      /\ free_peer_slots'[n + 1] = o
      /\ \A i \in 1..n : free_peer_slots'[i] = free_peer_slots[i]
  BY <1>1, AppendProperties
<1> HIDE DEF o, n
<1>3. Retired = {free_peer_slots[i] : i \in (available_free_peer_slots + 1)..n}
  BY DEF Retired, n
<1>4. Retired' = {free_peer_slots'[i] : i \in (available_free_peer_slots + 1)..(n + 1)}
  BY <1>1, <1>2 DEF Retired
<1>5. \A i \in (available_free_peer_slots + 1)..(n + 1) : i \in 1..n \/ i = n + 1
  BY <1>1
<1>6. Retired \subseteq Retired' /\ o \in Retired'
  BY <1>1, <1>2, <1>3, <1>4
<1>7. Retired' \subseteq Retired \cup {o}
  BY <1>1, <1>2, <1>3, <1>4, <1>5
<1> QED BY <1>6, <1>7 DEF o

LEMMA RetiredByInsert ==
    ASSUME SlotInv, CanAllocate, AllocateFrom(free_peer_slots)
    PROVE  Retired' = Retired
<1> DEFINE n == Len(free_peer_slots)
<1>1. /\ free_peer_slots \in Seq(Slots) /\ n \in Nat /\ available_free_peer_slots \in 0..n
  BY DEF SlotInv, SlotTypeOK
<1>2. CASE slot_count < MaxPeers
  BY <1>2 DEF Retired, AllocateFrom
<1>3. CASE ~(slot_count < MaxPeers)
  <2>1. /\ free_peer_slots' = Tail(free_peer_slots) /\ free_peer_slots # <<>>
        /\ available_free_peer_slots' = available_free_peer_slots - 1
        /\ available_free_peer_slots > 0
    BY <1>3, AllocatedIsVacant DEF AllocateFrom
  <2>2. /\ n > 0 /\ Len(free_peer_slots') = n - 1
        /\ \A i \in 1..(n - 1) : free_peer_slots'[i] = free_peer_slots[i + 1]
    BY <1>1, <2>1, HeadTailProperties, EmptySeq
  <2> HIDE DEF n
  <2>3. Retired = {free_peer_slots[i] : i \in (available_free_peer_slots + 1)..n}
    BY DEF Retired, n
  <2>4. Retired' = {free_peer_slots'[i] : i \in available_free_peer_slots..(n - 1)}
    BY <1>1, <2>1, <2>2 DEF Retired
  <2>5. Retired' \subseteq Retired
    <3> SUFFICES ASSUME NEW i \in available_free_peer_slots..(n - 1)
                 PROVE  free_peer_slots'[i] \in Retired
      BY <2>4
    <3>1. i + 1 \in (available_free_peer_slots + 1)..n /\ i \in 1..(n - 1)
      BY <1>1, <2>1
    <3> QED BY <2>2, <2>3, <3>1
  <2>6. Retired \subseteq Retired'
    <3> SUFFICES ASSUME NEW i \in (available_free_peer_slots + 1)..n
                 PROVE  free_peer_slots[i] \in Retired'
      BY <2>3
    <3>1. i - 1 \in available_free_peer_slots..(n - 1) /\ i - 1 \in 1..(n - 1)
      BY <1>1, <2>1
    <3>2. free_peer_slots'[i - 1] = free_peer_slots[(i - 1) + 1]
      BY <2>2, <3>1
    <3> QED BY <1>1, <2>4, <3>1, <3>2
  <2> QED BY <2>5, <2>6
<1> QED BY <1>2, <1>3

LEMMA RetiredByReplace ==
    ASSUME SlotInv, CanAllocate, NEW a \in Live, NEW ct,
           NEW num \in ConnectionNumbers, ReplacePeer(a, ct, num)
    PROVE  Retired' = Retired \cup {peers[a].slot}
<1> DEFINE o == peers[a].slot
<1> DEFINE n == Len(free_peer_slots)
<1> DEFINE q == Append(free_peer_slots, o)
<1>1. /\ free_peer_slots \in Seq(Slots) /\ n \in Nat /\ available_free_peer_slots \in 0..n
      /\ o \in Slots /\ AllocateFrom(q)
  BY LivePeer DEF SlotInv, SlotTypeOK, ReplacePeer
<1>2. /\ Len(q) = n + 1 /\ q[n + 1] = o /\ q \in Seq(Slots)
      /\ \A i \in 1..n : q[i] = free_peer_slots[i]
  BY <1>1, AppendProperties
<1> HIDE DEF o, n, q
<1>3. Retired = {free_peer_slots[i] : i \in (available_free_peer_slots + 1)..n}
  BY DEF Retired, n
<1>4. Retired \cup {o} = {q[i] : i \in (available_free_peer_slots + 1)..(n + 1)}
  <2>1. \A i \in (available_free_peer_slots + 1)..(n + 1) : i \in 1..n \/ i = n + 1
    BY <1>1
  <2>2. {q[i] : i \in (available_free_peer_slots + 1)..(n + 1)} \subseteq Retired \cup {o}
    BY <1>1, <1>2, <1>3, <2>1
  <2>3. Retired \cup {o} \subseteq {q[i] : i \in (available_free_peer_slots + 1)..(n + 1)}
    BY <1>1, <1>2, <1>3
  <2> QED BY <2>2, <2>3
<1>5. CASE slot_count < MaxPeers
  <2>1. free_peer_slots' = q /\ available_free_peer_slots' = available_free_peer_slots
    BY <1>1, <1>5 DEF AllocateFrom
  <2>2. Retired' = {q[i] : i \in (available_free_peer_slots + 1)..(n + 1)}
    BY <1>2, <2>1 DEF Retired
  <2> QED BY <1>4, <2>2 DEF o
<1>6. CASE ~(slot_count < MaxPeers)
  <2>1. /\ free_peer_slots' = Tail(q) /\ q # <<>>
        /\ available_free_peer_slots' = available_free_peer_slots - 1
        /\ available_free_peer_slots > 0
    BY <1>1, <1>2, <1>6, AllocatedIsVacant, EmptySeq DEF AllocateFrom
  <2>2. /\ Len(free_peer_slots') = n
        /\ \A i \in 1..n : free_peer_slots'[i] = q[i + 1]
    BY <1>1, <1>2, <2>1, HeadTailProperties
  <2>3. Retired' = {free_peer_slots'[i] : i \in available_free_peer_slots..n}
    BY <1>1, <2>1, <2>2 DEF Retired
  <2>4. ASSUME NEW i \in (available_free_peer_slots + 1)..(n + 1)
        PROVE  q[i] \in Retired'
    <3>1. i - 1 \in available_free_peer_slots..n /\ i - 1 \in 1..n
      BY <1>1, <2>1
    <3>2. free_peer_slots'[i - 1] = q[(i - 1) + 1]
      BY <2>2, <3>1
    <3> QED BY <1>1, <2>3, <3>1, <3>2
  <2>5. ASSUME NEW i \in available_free_peer_slots..n
        PROVE  free_peer_slots'[i] \in Retired \cup {o}
    <3>1. i + 1 \in (available_free_peer_slots + 1)..(n + 1) /\ i \in 1..n
      BY <1>1, <2>1
    <3> QED BY <1>4, <2>2, <3>1
  <2>6. Retired' \subseteq Retired \cup {o}
    BY <2>3, <2>5
  <2>7. Retired \cup {o} \subseteq Retired'
    BY <1>4, <2>4
  <2> QED BY <2>6, <2>7 DEF o
<1> QED BY <1>5, <1>6

-----------------------------------------------------------------------------
(* Counters.                                                               *)

LimitInv == peers_per_ip \in [IP -> Nat] /\ PeerLimits

LEMMA LiveFinite ==
    /\ IsFiniteSet(Live) /\ Cardinality(Live) \in Nat
    /\ \A i : IsFiniteSet(PeersAt(i)) /\ Cardinality(PeersAt(i)) \in Nat
<1>1. Live \subseteq Addr /\ \A i : PeersAt(i) \subseteq Addr
  BY DEF Live, PeersAt
<1> QED BY <1>1, HostAssumption, FS_Subset, FS_CardinalityType

\* remove_peer_at keeps the counters exact.
LEMMA RemoveKeepsLimits ==
    ASSUME SlotInv, LimitInv, NEW a \in Live, RemovePeerAt(a)
    PROVE  LimitInv'
<1> DEFINE ip == IpOf[a]
<1>1. a \in Addr /\ ip \in IP
  BY HostAssumption DEF Live
<1>2. Live' = Live \ {a}
  BY <1>1 DEF Live, RemovePeerAt, SlotInv, SlotTypeOK
<1>3. PeersAt(ip)' = PeersAt(ip) \ {a} /\ a \in PeersAt(ip)
  BY <1>2 DEF PeersAt
<1>4. \A i \in IP : i # ip => PeersAt(i)' = PeersAt(i)
  BY <1>2 DEF PeersAt
<1>5. /\ Cardinality(Live') = Cardinality(Live) - 1
      /\ Cardinality(PeersAt(ip)') = Cardinality(PeersAt(ip)) - 1
      /\ Cardinality(PeersAt(ip)') \in Nat
  <2>1. IsFiniteSet(PeersAt(ip) \ {a})
    BY LiveFinite, FS_RemoveElement
  <2> QED BY <1>2, <1>3, <2>1, LiveFinite, FS_RemoveElement, FS_CardinalityType
<1>6. peers_per_ip' = [peers_per_ip EXCEPT ![ip] = @ - 1]
  BY DEF RemovePeerAt
<1> HIDE DEF ip
<1>7. \A i \in IP : peers_per_ip'[i] = Cardinality(PeersAt(i)')
                     /\ peers_per_ip'[i] <= MaxPeersPerIp /\ peers_per_ip'[i] \in Nat
  BY <1>1, <1>4, <1>5, <1>6, LiveFinite, LimitsAssumption DEF LimitInv, PeerLimits
<1>8. peers_per_ip' \in [IP -> Nat]
  BY <1>1, <1>6, <1>7 DEF LimitInv
<1> QED BY <1>5, <1>7, <1>8, LiveFinite, LimitsAssumption DEF LimitInv, PeerLimits

\* insert_peer keeps the counters exact, and within the limits its guard checks.
LEMMA InsertKeepsLimits ==
    ASSUME SlotInv, LimitInv, CanAllocate, NEW a \in Addr, a \notin Live, HasRoom(a),
           NEW ct \in ConnectTimes, NEW num \in ConnectionNumbers, InsertPeer(a, ct, num)
    PROVE  LimitInv'
<1> DEFINE ip == IpOf[a]
<1>1. ip \in IP
  BY HostAssumption
<1>2. Live' = Live \cup {a}
  <2>1. NewPeer(AllocatedSlot, ct, num) # None
    BY AllocatedIsVacant, HostAssumption, NoneAssumption DEF NewPeer, Peer
  <2> QED BY <2>1 DEF Live, InsertPeer, SlotInv, SlotTypeOK
<1>3. PeersAt(ip)' = PeersAt(ip) \cup {a} /\ a \notin PeersAt(ip)
  BY <1>2 DEF PeersAt
<1>4. \A i \in IP : i # ip => PeersAt(i)' = PeersAt(i)
  BY <1>2 DEF PeersAt
<1>5. /\ Cardinality(Live') = Cardinality(Live) + 1
      /\ Cardinality(PeersAt(ip)') = Cardinality(PeersAt(ip)) + 1
  BY <1>2, <1>3, LiveFinite, FS_AddElement
<1>6. peers_per_ip' = [peers_per_ip EXCEPT ![ip] = @ + 1]
  BY DEF InsertPeer
<1>7. Cardinality(Live) < MaxPeers /\ peers_per_ip[ip] < MaxPeersPerIp
  BY DEF HasRoom
<1> HIDE DEF ip
<1>8. \A i \in IP : peers_per_ip'[i] = Cardinality(PeersAt(i)')
                     /\ peers_per_ip'[i] <= MaxPeersPerIp /\ peers_per_ip'[i] \in Nat
  BY <1>1, <1>4, <1>5, <1>6, <1>7, LiveFinite, LimitsAssumption DEF LimitInv, PeerLimits
<1>9. peers_per_ip' \in [IP -> Nat]
  BY <1>1, <1>6, <1>8 DEF LimitInv
<1> QED BY <1>5, <1>7, <1>8, <1>9, LiveFinite, LimitsAssumption DEF LimitInv, PeerLimits

\* A step that changes neither who is live nor the counters.
LEMMA SameLimits ==
    ASSUME LimitInv, Live' = Live, UNCHANGED peers_per_ip
    PROVE  LimitInv'
BY DEF LimitInv, PeerLimits, PeersAt

LEMMA ReplaceKeepsLimits ==
    ASSUME SlotInv, LimitInv, CanAllocate, NEW a \in Live,
           NEW ct \in ConnectTimes, NEW num \in ConnectionNumbers, ReplacePeer(a, ct, num)
    PROVE  LimitInv' /\ Live' = Live
<1>1. NewPeer(AllocatedSlot, ct, num) # None
  BY AllocatedIsVacant, HostAssumption, NoneAssumption DEF NewPeer, Peer
<1>2. Live' = Live
  BY <1>1 DEF Live, ReplacePeer, SlotInv, SlotTypeOK
<1> QED BY <1>2, SameLimits DEF ReplacePeer

-----------------------------------------------------------------------------
(* The batch.                                                              *)

\* The slot operations leave every PeerId its meaning.
LEMMA RemoveKeepsIds ==
    ASSUME SlotInv, NEW a \in Live, RemovePeerAt(a), phase' = phase,
           NEW conn \in Connection, KeepsId(conn)
    PROVE  KeepsId(conn)'
<1>1. Retired' = Retired \cup {peers[a].slot}
  BY RetiredByRemove
<1>2. /\ \A b \in Addr : peers'[b] = IF b = a THEN None ELSE peers[b]
      /\ \A t \in Slots : peer_slots'[t] = IF t = peers[a].slot THEN None ELSE peer_slots[t]
  BY LivePeer DEF RemovePeerAt, SlotInv, SlotTypeOK
<1>3. conn.id \in Slots /\ conn.addr \in Addr
  BY DEF Connection
<1> QED BY <1>1, <1>2, <1>3 DEF KeepsId, Live

LEMMA InsertKeepsIds ==
    ASSUME SlotInv, CanAllocate, NEW a \in Addr, a \notin Live,
           NEW ct \in ConnectTimes, NEW num \in ConnectionNumbers, InsertPeer(a, ct, num),
           phase' = phase, phase # "dispatch",
           NEW conn \in Connection, KeepsId(conn)
    PROVE  KeepsId(conn)'
<1>1. Retired' = Retired /\ AllocatedSlot \notin Retired
  BY RetiredByInsert, AllocatedNotRetired DEF InsertPeer
<1>2. /\ \A b \in Addr : b # a => peers'[b] = peers[b]
      /\ \A t \in Slots : t # AllocatedSlot => peer_slots'[t] = peer_slots[t]
  BY AllocatedIsVacant DEF InsertPeer, SlotInv, SlotTypeOK
<1>3. conn.id \in Slots /\ conn.addr \in Addr
  BY DEF Connection
<1> QED BY <1>1, <1>2, <1>3 DEF KeepsId, Live

LEMMA ReplaceKeepsIds ==
    ASSUME SlotInv, CanAllocate, NEW a \in Live, NEW ct \in ConnectTimes,
           NEW num \in ConnectionNumbers, ReplacePeer(a, ct, num),
           phase' = phase, phase # "dispatch",
           NEW conn \in Connection, KeepsId(conn)
    PROVE  KeepsId(conn)'
<1> DEFINE o == peers[a].slot
<1>1. Retired \cup {o} \subseteq Retired' /\ AllocatedSlot \notin Retired
  BY RetiredByReplace, AllocatedNotRetired
<1>2. AllocatedSlot \in Slots /\ o \in Slots /\ a \in Addr /\ AllocatedSlot # o
  BY AllocatedIsVacant, LivePeer
<1>3. /\ \A b \in Addr : b # a => peers'[b] = peers[b]
      /\ \A t \in Slots : peer_slots'[t] =
            IF t = AllocatedSlot THEN a ELSE IF t = o THEN None ELSE peer_slots[t]
  BY <1>2 DEF ReplacePeer, SlotInv, SlotTypeOK
<1>4. conn.id \in Slots /\ conn.addr \in Addr
  BY DEF Connection
<1> QED BY <1>1, <1>2, <1>3, <1>4 DEF KeepsId, Live

\* Events about connections whose PeerId is settled may be added to the batch.
LEMMA BatchGrows ==
    ASSUME events \in Seq(Event), NEW new \in Seq(Event), events' = events \o new,
           phase \notin {"idle", "expire"}, phase' = phase,
           \A i \in DOMAIN events : KeepsId(events[i].conn),
           \A conn \in Connection : KeepsId(conn) => KeepsId(conn)',
           \A i \in 1..Len(new) : KeepsId(new[i].conn)'
    PROVE  events' \in Seq(Event) /\ BatchKeepsIds'
<1>1. /\ events' \in Seq(Event)
      /\ Len(events') = Len(events) + Len(new)
      /\ \A i \in 1..(Len(events) + Len(new)) : events'[i] =
            IF i <= Len(events) THEN events[i] ELSE new[i - Len(events)]
  BY ConcatProperties
<1>2. ASSUME NEW i \in DOMAIN events' PROVE (KeepsId(events[i].conn))'
  <2>1. i \in 1..(Len(events) + Len(new)) /\ Len(events) \in Nat /\ Len(new) \in Nat
    BY <1>1
  <2>2. PICK conn \in Connection : conn = events'[i].conn
    <3>1. events'[i] \in Event
      BY <1>1
    <3> QED BY <3>1 DEF Event
  <2>3. KeepsId(conn)'
    <3>1. CASE i <= Len(events)
      <4>1. i \in DOMAIN events /\ conn = events[i].conn
        BY <1>1, <2>1, <2>2, <3>1
      <4> QED BY <4>1
    <3>2. CASE ~(i <= Len(events))
      <4>1. i - Len(events) \in 1..Len(new) /\ conn = new[i - Len(events)].conn
        BY <1>1, <2>1, <2>2, <3>2
      <4> QED BY <4>1
    <3> QED BY <3>1, <3>2
  <2> QED BY <2>2, <2>3 DEF KeepsId
<1> QED BY <1>1, <1>2 DEF BatchKeepsIds

-----------------------------------------------------------------------------
(* Watermarks.                                                             *)

WatermarkInv == WatermarkTypeOK /\ WatermarksQueued

\* Forgetting the watermark of the one address that becomes live.
LEMMA ForgetKeepsWatermarks ==
    ASSUME WatermarkInv, NEW a \in Addr, Live' \subseteq Live \cup {a}, ForgetWatermark(a),
           UNCHANGED <<reconnect_watermark_order, next_generation>>
    PROVE  WatermarkInv'
<1>1. \A b \in Addr : reconnect_watermarks'[b] =
         IF b = a THEN None ELSE reconnect_watermarks[b]
  BY DEF ForgetWatermark, WatermarkInv, WatermarkTypeOK
<1>2. WatermarkTypeOK'
  BY DEF ForgetWatermark, WatermarkInv, WatermarkTypeOK
<1>3. WatermarksQueued'
  BY <1>1 DEF WatermarkInv, WatermarksQueued, Live
<1> QED BY <1>2, <1>3 DEF WatermarkInv

\* A step that keeps the generation of every watermark, and makes no one live.
LEMMA SameWatermarks ==
    ASSUME WatermarkInv, Live' \subseteq Live,
           reconnect_watermarks' \in [Addr -> Watermark \cup {None}],
           \A a \in Addr : reconnect_watermarks[a] = None <=> reconnect_watermarks'[a] = None,
           \A a \in Addr : reconnect_watermarks[a] # None =>
              reconnect_watermarks'[a].generation = reconnect_watermarks[a].generation,
           UNCHANGED <<reconnect_watermark_order, next_generation>>
    PROVE  WatermarkInv'
<1>1. WatermarkTypeOK'
  BY DEF WatermarkInv, WatermarkTypeOK
<1>2. WatermarksQueued'
  BY DEF WatermarkInv, WatermarksQueued, Live
<1> QED BY <1>1, <1>2 DEF WatermarkInv

\* Popping the front of the order queue, with the watermark it stands for.
LEMMA PopFrontKeepsQueued ==
    ASSUME WatermarkInv, reconnect_watermark_order # <<>>,
           NEW marks \in [Addr -> Watermark \cup {None}],
           LET front == Head(reconnect_watermark_order)
           IN  marks = IF Current(front)
                       THEN [reconnect_watermarks EXCEPT ![front.addr] = None]
                       ELSE reconnect_watermarks
    PROVE  LET rest == Tail(reconnect_watermark_order)
           IN  /\ rest \in Seq(OrderEntry)
               /\ Len(rest) = Len(reconnect_watermark_order) - 1
               /\ \A a \in Addr : marks[a] # None =>
                    /\ marks[a] = reconnect_watermarks[a]
                    /\ \E i \in 1..Len(rest) :
                         rest[i] = [addr |-> a, generation |-> marks[a].generation]
<1> DEFINE order == reconnect_watermark_order
<1> DEFINE rest == Tail(order)
<1> DEFINE front == Head(order)
<1>1. /\ order \in Seq(OrderEntry) /\ Len(order) \in Nat /\ Len(order) > 0
      /\ rest \in Seq(OrderEntry) /\ Len(rest) = Len(order) - 1
      /\ \A i \in 1..Len(rest) : rest[i] = order[i + 1]
      /\ front \in OrderEntry /\ front = order[1]
  BY HeadTailProperties, EmptySeq DEF WatermarkInv, WatermarkTypeOK
<1>2. ASSUME NEW a \in Addr, marks[a] # None
      PROVE  /\ marks[a] = reconnect_watermarks[a]
             /\ \E i \in 1..Len(rest) :
                  rest[i] = [addr |-> a, generation |-> marks[a].generation]
  <2>1. front.addr \in Addr
    BY <1>1 DEF OrderEntry
  <2>2. marks[a] = reconnect_watermarks[a] /\ ~(front.addr = a /\ Current(front))
    BY <1>2, <2>1 DEF WatermarkInv, WatermarkTypeOK
  <2>3. PICK i \in DOMAIN order :
           order[i] = [addr |-> a, generation |-> reconnect_watermarks[a].generation]
    BY <1>2, <2>2 DEF WatermarkInv, WatermarksQueued
  <2>4. i # 1
    <3> SUFFICES ASSUME i = 1 PROVE FALSE
      OBVIOUS
    <3>1. front.addr = a /\ front.generation = reconnect_watermarks[a].generation
      BY <1>1, <2>3
    <3> QED BY <1>2, <2>2, <3>1 DEF Current
  <2>5. i - 1 \in 1..Len(rest)
    BY <1>1, <2>3, <2>4
  <2>6. rest[i - 1] = order[(i - 1) + 1]
    BY <1>1, <2>5
  <2>7. i \in Int
    BY <1>1
  <2>8. (i - 1) + 1 = i
    BY <2>7
  <2>9. rest[i - 1] = [addr |-> a, generation |-> marks[a].generation]
    BY <2>2, <2>3, <2>6, <2>8
  <2> QED BY <2>2, <2>5, <2>9
<1> QED BY <1>1, <1>2

\* record_reconnect_watermark, for an address whose peer was just removed.
LEMMA RecordKeepsWatermarks ==
    ASSUME WatermarkInv, NEW a \in Addr, NEW ct \in ConnectTimes,
           Live' = Live \ {a}, RecordWatermark(a, ct)
    PROVE  WatermarkInv'
<1> DEFINE Mark(c, g) == [connect_time |-> c, ttl |-> Timeout, generation |-> g]
<1> DEFINE Entry(g) == [addr |-> a, generation |-> g]
<1>1. CASE next_generation = MaxGeneration
  <2>1. /\ reconnect_watermarks' =
             [[b \in Addr |-> None] EXCEPT ![a] = Mark(ct, 1)]
        /\ reconnect_watermark_order' = Append(<<>>, Entry(1))
        /\ next_generation' = 1
    BY <1>1, LimitsAssumption DEF RecordWatermark, RecordInto
  <2>2. Mark(ct, 1) \in Watermark /\ Entry(1) \in OrderEntry /\ Mark(ct, 1).generation = 1
    BY HostAssumption DEF Watermark, OrderEntry
  <2>3. /\ reconnect_watermark_order' \in Seq(OrderEntry)
        /\ Len(reconnect_watermark_order') = 1 /\ reconnect_watermark_order'[1] = Entry(1)
    BY <2>1, <2>2
  <2>4. WatermarkTypeOK'
    BY <2>1, <2>2, <2>3, HostAssumption DEF WatermarkTypeOK
  <2>5. WatermarksQueued'
    BY <2>1, <2>2, <2>3, LimitsAssumption DEF WatermarksQueued, Live
  <2> QED BY <2>4, <2>5 DEF WatermarkInv
<1>2. CASE next_generation # MaxGeneration
  <2> DEFINE g == next_generation + 1
  <2> DEFINE order == reconnect_watermark_order
  <2> DEFINE full == Len(order) = MaxPeers
  <2> DEFINE old == Head(order)
  <2> DEFINE kept == IF full /\ Current(old)
                     THEN [reconnect_watermarks EXCEPT ![old.addr] = None]
                     ELSE reconnect_watermarks
  <2> DEFINE rest == IF full THEN Tail(order) ELSE order
  <2> DEFINE c == IF kept[a] # None /\ kept[a].connect_time > ct
                  THEN kept[a].connect_time ELSE ct
  <2>1. /\ reconnect_watermarks' = [kept EXCEPT ![a] = Mark(c, g)]
        /\ reconnect_watermark_order' = Append(rest, Entry(g))
        /\ next_generation' = g
    BY <1>2 DEF RecordWatermark, RecordInto
  <2>2. g \in 1..MaxGeneration
    BY <1>2, HostAssumption DEF WatermarkInv, WatermarkTypeOK
  <2>3. kept \in [Addr -> Watermark \cup {None}]
    BY DEF WatermarkInv, WatermarkTypeOK
  <2>4. c \in ConnectTimes
    BY <2>3, NoneAssumption DEF Watermark
  <2>5. Mark(c, g) \in Watermark /\ Mark(c, g).generation = g /\ Entry(g) \in OrderEntry
    BY <2>2, <2>4, HostAssumption DEF Watermark, OrderEntry
  <2>6. /\ rest \in Seq(OrderEntry) /\ Len(rest) < MaxPeers /\ Len(rest) \in Nat
        /\ \A b \in Addr : kept[b] # None =>
             \E i \in 1..Len(rest) : rest[i] = [addr |-> b, generation |-> kept[b].generation]
    <3>1. CASE full
      <4>1. order # <<>>
        BY <3>1, LimitsAssumption, EmptySeq
      <4>2. kept = IF Current(old) THEN [reconnect_watermarks EXCEPT ![old.addr] = None]
                   ELSE reconnect_watermarks
        BY <3>1
      <4> HIDE DEF kept
      <4>3. /\ Tail(order) \in Seq(OrderEntry) /\ Len(Tail(order)) = Len(order) - 1
            /\ \A b \in Addr : kept[b] # None =>
                 \E i \in 1..Len(Tail(order)) :
                    Tail(order)[i] = [addr |-> b, generation |-> kept[b].generation]
        BY <2>3, <4>1, <4>2, PopFrontKeepsQueued
      <4> QED BY <3>1, <4>3, LimitsAssumption
    <3>2. CASE ~full
      <4>1. order \in Seq(OrderEntry) /\ Len(order) \in Nat /\ DOMAIN order = 1..Len(order)
              /\ Len(order) <= MaxPeers
        BY DEF WatermarkInv, WatermarkTypeOK, WatermarksQueued
      <4>2. kept = reconnect_watermarks /\ rest = order
        BY <3>2
      <4>3. \A b \in Addr : reconnect_watermarks[b] # None =>
               \E i \in 1..Len(order) :
                  order[i] = [addr |-> b, generation |-> reconnect_watermarks[b].generation]
        BY <4>1 DEF WatermarkInv, WatermarksQueued
      <4>4. Len(order) < MaxPeers
        <5> DEFINE n == Len(order)
        <5>1. n \in Nat /\ n <= MaxPeers /\ n # MaxPeers
          BY <3>2, <4>1
        <5> HIDE DEF n
        <5> QED BY <5>1, LimitsAssumption DEF n
      <4> HIDE DEF kept, rest
      <4> QED BY <4>1, <4>2, <4>3, <4>4
    <3> QED BY <3>1, <3>2
  <2> HIDE DEF kept, rest, g, c
  <2>7. /\ reconnect_watermark_order' \in Seq(OrderEntry)
        /\ Len(reconnect_watermark_order') = Len(rest) + 1
        /\ DOMAIN reconnect_watermark_order' = 1..(Len(rest) + 1)
        /\ \A i \in 1..Len(rest) : reconnect_watermark_order'[i] = rest[i]
        /\ reconnect_watermark_order'[Len(rest) + 1] = Entry(g)
    BY <2>1, <2>5, <2>6, AppendProperties
  <2>8. WatermarkTypeOK'
    BY <2>1, <2>2, <2>3, <2>5, <2>7, HostAssumption DEF WatermarkTypeOK
  <2>9. \A b \in Addr : reconnect_watermarks'[b] = IF b = a THEN Mark(c, g) ELSE kept[b]
    BY <2>1, <2>3
  <2>10. \A b \in Addr : b # a /\ kept[b] # None => b \notin Live
    <3>1. \A b \in Addr : kept[b] # None => reconnect_watermarks[b] # None
      BY DEF kept, WatermarkInv, WatermarkTypeOK
    <3> QED BY <3>1 DEF WatermarkInv, WatermarksQueued
  <2> HIDE DEF Mark
  <2>11. \A b \in Live' : reconnect_watermarks'[b] = None
    BY <2>9, <2>10 DEF Live
  <2>12. ASSUME NEW b \in Addr, reconnect_watermarks'[b] # None
         PROVE  \E i \in 1..(Len(rest) + 1) : reconnect_watermark_order'[i] =
                   [addr |-> b, generation |-> reconnect_watermarks'[b].generation]
    <3>1. CASE b = a
      BY <2>5, <2>6, <2>7, <2>9, <3>1
    <3>2. CASE b # a
      <4>1. PICK i \in 1..Len(rest) : rest[i] = [addr |-> b, generation |-> kept[b].generation]
        BY <2>6, <2>9, <2>12, <3>2
      <4>2. i \in 1..(Len(rest) + 1)
        BY <2>6
      <4> QED BY <2>7, <2>9, <3>2, <4>1, <4>2
    <3> QED BY <3>1, <3>2
  <2>13. WatermarksQueued'
    BY <2>6, <2>7, <2>11, <2>12, LimitsAssumption DEF WatermarksQueued
  <2> QED BY <2>8, <2>13 DEF WatermarkInv
<1> QED BY <1>1, <1>2

-----------------------------------------------------------------------------
(* The inductive invariant.                                                *)

LoopTypeOK ==
    /\ maintenance_cursor \in 0..slot_count
    /\ phase \in Phases
    /\ work \in [steps : Nat, timeouts : Nat]
    /\ events \in Seq(Event)
    /\ known \subseteq Connection

Inv == SlotInv /\ LimitInv /\ WatermarkInv /\ BatchKeepsIds /\ LoopTypeOK

\* The event about a live peer names its connection, whose PeerId is its own.
LEMMA EventOfLive ==
    ASSUME SlotInv, NEW a \in Live, NEW kind \in {"Connected", "Data", "Disconnected"}
    PROVE  /\ EventOf(kind, a) \in Event
           /\ EventOf(kind, a).conn = ConnectionOf(a)
           /\ ConnectionOf(a) \in Connection
           /\ KeepsId(ConnectionOf(a))
<1>1. a \in Addr /\ peers[a].slot \in Slots /\ peers[a].connect_time \in ConnectTimes
  BY LivePeer DEF Peer
<1>2. ConnectionOf(a) \in Connection
  BY <1>1 DEF ConnectionOf, Connection
<1>3. EventOf(kind, a) \in Event /\ EventOf(kind, a).conn = ConnectionOf(a)
  BY <1>1, <1>2 DEF EventOf, Event
<1>4. KeepsId(ConnectionOf(a))
  BY DEF KeepsId, ConnectionOf
<1> QED BY <1>2, <1>3, <1>4

LEMMA InvInit == Init => Inv
<1> SUFFICES ASSUME Init PROVE Inv
  OBVIOUS
<1>1. Live = {} /\ \A i : PeersAt(i) = {}
  BY DEF Init, Live, PeersAt
<1>2. SlotInv
  <2>1. SlotTypeOK
    BY LimitsAssumption DEF Init, SlotTypeOK
  <2>2. SlotsMatchPeers
    BY <1>1 DEF Init, SlotsMatchPeers
  <2>3. FreeQueueExact
    BY DEF Init, FreeQueueExact, Lists, Vacant
  <2> QED BY <2>1, <2>2, <2>3 DEF SlotInv
<1>3. LimitInv
  <2>1. Cardinality({}) = 0
    BY FS_EmptySet
  <2>2. peers_per_ip \in [IP -> Nat] /\ \A i \in IP : peers_per_ip[i] = 0
    BY DEF Init
  <2> QED BY <1>1, <2>1, <2>2, LimitsAssumption DEF LimitInv, PeerLimits
<1>4. WatermarkInv
  BY <1>1, HostAssumption, LimitsAssumption
  DEF Init, WatermarkInv, WatermarkTypeOK, WatermarksQueued
<1>5. BatchKeepsIds
  BY DEF Init, BatchKeepsIds
<1>6. LoopTypeOK
  BY DEF Init, LoopTypeOK, Phases, NoWork
<1> QED BY <1>2, <1>3, <1>4, <1>5, <1>6 DEF Inv

-----------------------------------------------------------------------------
(* poll begins, and expires watermarks.                                    *)

LEMMA StepPollBegin == Inv /\ PollBegin => Inv'
<1> SUFFICES ASSUME Inv, PollBegin PROVE Inv'
  OBVIOUS
<1>1. \A a \in Addr : peers'[a] = IF peers[a] = None THEN None
                                  ELSE [peers[a] EXCEPT !.idle = Age(@)]
  BY DEF PollBegin
<1>2. ASSUME NEW a \in Addr, peers[a] # None
      PROVE  peers'[a] \in Peer /\ peers'[a].slot = peers[a].slot
               /\ peers'[a].connect_time = peers[a].connect_time
  <2>1. peers[a] \in Peer
    BY <1>2 DEF Inv, SlotInv, SlotTypeOK
  <2>2. Age(peers[a].idle) \in 0..MaxIdle
    BY <2>1, HostAssumption DEF Peer, Age
  <2> QED BY <1>1, <1>2, <2>1, <2>2 DEF Peer
<1>3. /\ peers' \in [Addr -> Peer \cup {None}]
      /\ \A a \in Addr : peers[a] = None <=> peers'[a] = None
      /\ \A a \in Live : peers'[a].slot = peers[a].slot
  BY <1>1, <1>2, NoneAssumption DEF PollBegin, Live
<1>4. SlotInv'
  BY <1>3, SameSlots DEF Inv, SlotInv, SlotTypeOK, PollBegin
<1>5. Live' = Live
  BY <1>3 DEF Live
<1>6. LimitInv'
  BY <1>5, SameLimits DEF Inv, PollBegin
<1>7. WatermarkInv'
  <2> DEFINE marks == reconnect_watermarks
  <2>1. \A a \in Addr : marks'[a] = IF marks[a] = None THEN None
                 ELSE [marks[a] EXCEPT !.ttl = IF @ = 0 THEN 0 ELSE @ - 1]
    BY DEF PollBegin
  <2>2. ASSUME NEW a \in Addr, marks[a] # None
        PROVE  marks'[a] \in Watermark /\ marks'[a].generation = marks[a].generation
    <3>1. marks[a] \in Watermark
      BY <2>2 DEF Inv, WatermarkInv, WatermarkTypeOK
    <3> DEFINE t == IF marks[a].ttl = 0 THEN 0 ELSE marks[a].ttl - 1
    <3>2. t \in 0..Timeout
      BY <3>1, HostAssumption DEF Watermark
    <3>3. marks'[a] = [marks[a] EXCEPT !.ttl = t]
      BY <2>1, <2>2
    <3> HIDE DEF t
    <3> QED BY <3>1, <3>2, <3>3 DEF Watermark
  <2>3. marks' \in [Addr -> Watermark \cup {None}]
    BY <2>1, <2>2 DEF PollBegin
  <2>4. \A a \in Addr : marks[a] = None <=> marks'[a] = None
    BY <2>1, <2>2, NoneAssumption
  <2> HIDE DEF marks
  <2> QED BY <1>5, <2>2, <2>3, <2>4, SameWatermarks DEF Inv, PollBegin, marks
<1>8. BatchKeepsIds'
  BY DEF Inv, BatchKeepsIds, PollBegin
<1>9. LoopTypeOK'
  BY DEF Inv, LoopTypeOK, PollBegin, Phases, NoWork
<1> QED BY <1>4, <1>6, <1>7, <1>8, <1>9 DEF Inv

\* Steps that leave the slot table, the counters and who is live alone.
LEMMA SlotVarsSame ==
    ASSUME SlotInv, LimitInv, UNCHANGED slotVars
    PROVE  SlotInv' /\ LimitInv' /\ Live' = Live /\ Retired' = Retired
<1>1. Live' = Live
  BY DEF slotVars, Live
<1>2. SlotInv'
  BY <1>1 DEF slotVars, SlotInv, SlotTypeOK, SlotsMatchPeers, FreeQueueExact, Lists, Vacant
<1>3. LimitInv'
  BY <1>1, SameLimits DEF slotVars
<1> QED BY <1>1, <1>2, <1>3 DEF slotVars, Retired

LEMMA MarkVarsSame ==
    ASSUME WatermarkInv, Live' \subseteq Live, UNCHANGED markVars
    PROVE  WatermarkInv'
BY DEF markVars, WatermarkInv, WatermarkTypeOK, WatermarksQueued

LEMMA StepExpireWatermark == Inv /\ ExpireWatermark => Inv'
<1> SUFFICES ASSUME Inv, ExpireWatermark PROVE Inv'
  OBVIOUS
<1>1. SlotInv' /\ LimitInv' /\ Live' = Live
  BY SlotVarsSame DEF Inv, ExpireWatermark
<1>2. BatchKeepsIds'
  BY DEF Inv, BatchKeepsIds, ExpireWatermark
<1>3. LoopTypeOK'
  BY DEF Inv, LoopTypeOK, ExpireWatermark, slotVars
<1>4. WatermarkInv'
  <2> DEFINE order == reconnect_watermark_order
  <2> DEFINE front == Head(order)
  <2> DEFINE marks == IF Current(front)
                      THEN [reconnect_watermarks EXCEPT ![front.addr] = None]
                      ELSE reconnect_watermarks
  <2>1. order # <<>> /\ reconnect_watermarks' = marks /\ order' = Tail(order)
    BY DEF ExpireWatermark, ExpireContinues, ForgetWatermark
  <2>2. marks \in [Addr -> Watermark \cup {None}]
    BY DEF Inv, WatermarkInv, WatermarkTypeOK
  <2>3. \A a \in Addr : marks[a] # None => reconnect_watermarks[a] # None
    BY DEF Inv, WatermarkInv, WatermarkTypeOK
  <2>4. marks = IF Current(front) THEN [reconnect_watermarks EXCEPT ![front.addr] = None]
                ELSE reconnect_watermarks
    OBVIOUS
  <2> HIDE DEF marks
  <2>5. /\ Tail(order) \in Seq(OrderEntry)
        /\ Len(Tail(order)) = Len(order) - 1
        /\ \A a \in Addr : marks[a] # None =>
             \E i \in 1..Len(Tail(order)) :
                Tail(order)[i] = [addr |-> a, generation |-> marks[a].generation]
    BY <2>1, <2>2, <2>4, PopFrontKeepsQueued DEF Inv
  <2>6. WatermarkTypeOK'
    BY <2>1, <2>2, <2>5 DEF Inv, WatermarkInv, WatermarkTypeOK, ExpireWatermark
  <2>7. Len(order') <= MaxPeers
    <3>1. Len(order) \in Nat /\ Len(order) <= MaxPeers
      BY DEF Inv, WatermarkInv, WatermarkTypeOK, WatermarksQueued
    <3> QED BY <2>1, <2>5, <3>1, LimitsAssumption
  <2>8. DOMAIN order' = 1..Len(Tail(order))
    BY <2>1, <2>5
  <2>9. \A a \in Live' : reconnect_watermarks'[a] = None
    BY <1>1, <2>1, <2>3 DEF Inv, WatermarkInv, WatermarksQueued, Live
  <2>10. WatermarksQueued'
    BY <2>1, <2>5, <2>7, <2>8, <2>9 DEF WatermarksQueued
  <2> QED BY <2>6, <2>10 DEF WatermarkInv
<1> QED BY <1>1, <1>2, <1>3, <1>4 DEF Inv

\* Steps of a poll that touch nothing but its own progress.
LEMMA BatchSame ==
    ASSUME BatchKeepsIds, UNCHANGED <<slotVars, events>>,
           \/ phase' = phase
           \/ phase = "expire" /\ phase' = "drain"
           \/ phase = "drain" /\ phase' = "maintain"
           \/ phase = "maintain" /\ phase' = "dispatch"
           \/ events = <<>>
    PROVE  BatchKeepsIds'
<1>1. Live' = Live /\ Retired' = Retired
  BY DEF slotVars, Live, Retired
<1> QED BY <1>1 DEF BatchKeepsIds, KeepsId, slotVars

LEMMA StepEnds ==
    Inv /\ (ExpireEnd \/ DrainEnd \/ MaintainEnd \/ DispatchEnd) => Inv'
<1> SUFFICES ASSUME Inv, ExpireEnd \/ DrainEnd \/ MaintainEnd \/ DispatchEnd PROVE Inv'
  OBVIOUS
<1>1. UNCHANGED <<slotVars, markVars, events, known>>
  BY DEF ExpireEnd, DrainEnd, MaintainEnd, DispatchEnd
<1>2. SlotInv' /\ LimitInv' /\ Live' = Live
  BY <1>1, SlotVarsSame DEF Inv
<1>3. WatermarkInv'
  BY <1>1, <1>2, MarkVarsSame DEF Inv
<1>4. BatchKeepsIds'
  BY <1>1, BatchSame DEF Inv, ExpireEnd, DrainEnd, MaintainEnd, DispatchEnd
<1>5. LoopTypeOK'
  BY DEF Inv, LoopTypeOK, SlotInv, SlotTypeOK, slotVars, NoWork, Phases,
         ExpireEnd, DrainEnd, MaintainEnd, DispatchEnd
<1> QED BY <1>2, <1>3, <1>4, <1>5 DEF Inv

-----------------------------------------------------------------------------
(* Datagrams.                                                              *)

\* Every datagram counts against the packet budget and leaves the rest of
\* the loop's state alone.
LEMMA DrainLoop ==
    ASSUME Inv, Drain, events' \in Seq(Event), slot_count' \in Nat,
           slot_count <= slot_count'
    PROVE  LoopTypeOK'
<1>1. maintenance_cursor' \in 0..slot_count'
  BY DEF Inv, LoopTypeOK, Drain, SlotInv, SlotTypeOK
<1>2. work' \in [steps : Nat, timeouts : Nat]
  BY DEF Inv, LoopTypeOK, Drain
<1> QED BY <1>1, <1>2 DEF Inv, LoopTypeOK, Drain

\* A datagram that changes no peer and produces no event.
LEMMA StepQuiet ==
    ASSUME Inv, Drain, UNCHANGED <<slotVars, events>>, WatermarkInv'
    PROVE  Inv'
<1>1. SlotInv' /\ LimitInv'
  BY SlotVarsSame DEF Inv
<1>2. BatchKeepsIds'
  BY BatchSame DEF Inv, Drain
<1>3. LoopTypeOK'
  BY DEF Inv, LoopTypeOK, Drain, slotVars
<1> QED BY <1>1, <1>2, <1>3 DEF Inv

LEMMA StepDropped ==
    ASSUME Inv,
           \/ DropDatagram
           \/ \E a \in Addr, ct \in ConnectTimes : ConnectRepeats(a, ct)
    PROVE  Inv'
<1>1. Drain /\ UNCHANGED <<slotVars, markVars, events>>
  BY DEF DropDatagram, ConnectRepeats
<1>2. Live' = Live
  BY <1>1 DEF slotVars, Live
<1>3. WatermarkInv'
  BY <1>1, <1>2, MarkVarsSame DEF Inv
<1> QED BY <1>1, <1>3, StepQuiet

LEMMA StepConnectRefused ==
    ASSUME Inv, NEW a \in Addr, NEW ct \in ConnectTimes, ConnectRefused(a, ct)
    PROVE  Inv'
<1> DEFINE marks == reconnect_watermarks
<1>1. /\ Drain
      /\ UNCHANGED <<slotVars, events, reconnect_watermark_order, next_generation>>
  BY DEF ConnectRefused
<1>2. Live' = Live
  BY <1>1 DEF slotVars, Live
<1>3. marks' = marks \/ (marks[a] # None /\ marks' = [marks EXCEPT ![a].connect_time = ct])
  BY DEF ConnectRefused, RaiseWatermark
<1>4. CASE marks' = marks
  BY <1>1, <1>2, <1>4, MarkVarsSame, StepQuiet DEF Inv, markVars
<1>5. CASE marks[a] # None /\ marks' = [marks EXCEPT ![a].connect_time = ct]
  <2>1. marks \in [Addr -> Watermark \cup {None}] /\ marks[a] \in Watermark
    BY <1>5 DEF Inv, WatermarkInv, WatermarkTypeOK
  <2>2. marks' = [marks EXCEPT ![a] = [marks[a] EXCEPT !.connect_time = ct]]
    BY <1>5
  <2>3. /\ [marks[a] EXCEPT !.connect_time = ct] \in Watermark
        /\ [marks[a] EXCEPT !.connect_time = ct].generation = marks[a].generation
    BY <2>1 DEF Watermark
  <2>4. /\ marks' \in [Addr -> Watermark \cup {None}]
        /\ \A b \in Addr : marks[b] = None <=> marks'[b] = None
        /\ \A b \in Addr : marks[b] # None => marks'[b].generation = marks[b].generation
    BY <1>5, <2>1, <2>2, <2>3, NoneAssumption
  <2>5. WatermarkInv'
    BY <1>1, <1>2, <2>4, SameWatermarks DEF Inv
  <2> QED BY <1>1, <2>5, StepQuiet
<1> QED BY <1>3, <1>4, <1>5

\* The batch after one more event.
LEMMA AppendsEvent ==
    ASSUME Inv, Drain \/ (phase = "maintain" /\ phase' = phase),
           NEW e \in Event, events' = Append(events, e),
           \A conn \in Connection : KeepsId(conn) => KeepsId(conn)',
           KeepsId(e.conn)'
    PROVE  events' \in Seq(Event) /\ BatchKeepsIds'
<1>1. /\ <<e>> \in Seq(Event) /\ events' = events \o <<e>> /\ events \in Seq(Event)
      /\ Len(<<e>>) = 1 /\ <<e>>[1] = e
  BY AppendIsConcat DEF Inv, LoopTypeOK
<1>2. phase \notin {"idle", "expire"} /\ phase' = phase
  BY DEF Drain
<1>3. \A i \in 1..Len(<<e>>) : KeepsId(<<e>>[i].conn)'
  BY <1>1
<1>4. \A i \in DOMAIN events : KeepsId(events[i].conn)
  BY DEF Inv, BatchKeepsIds
<1> QED BY <1>1, <1>2, <1>3, <1>4, BatchGrows

\* Hearing from a peer changes its idle time only.
LEMMA RefreshKeeps ==
    ASSUME Inv, NEW a \in Live, Refresh(a), phase' = phase
    PROVE  /\ SlotInv' /\ LimitInv' /\ Live' = Live /\ slot_count' = slot_count
           /\ \A conn \in Connection : KeepsId(conn) => KeepsId(conn)'
           /\ ConnectionOf(a)' = ConnectionOf(a)
<1>1. a \in Addr /\ peers[a] \in Peer /\ peers[a] # None
  BY LivePeer DEF Inv, Live
<1> DEFINE fresh == [peers[a] EXCEPT !.idle = 0]
<1>2. fresh \in Peer /\ fresh.slot = peers[a].slot /\ fresh.connect_time = peers[a].connect_time
  BY <1>1, HostAssumption DEF Peer
<1>3. peers' = [peers EXCEPT ![a] = fresh]
  BY DEF Refresh
<1> HIDE DEF fresh
<1>4. /\ peers' \in [Addr -> Peer \cup {None}]
      /\ \A b \in Addr : peers[b] = None <=> peers'[b] = None
      /\ \A b \in Addr : peers[b] # None =>
            peers'[b].slot = peers[b].slot /\ peers'[b].connect_time = peers[b].connect_time
  BY <1>1, <1>2, <1>3, NoneAssumption DEF Inv, SlotInv, SlotTypeOK
<1>5. Live' = Live
  BY <1>4 DEF Live
<1>6. SlotInv'
  BY <1>4, SameSlots DEF Refresh, Live, Inv, SlotInv, SlotTypeOK
<1>7. LimitInv'
  BY <1>5, SameLimits DEF Inv, Refresh
<1>8. \A conn \in Connection : KeepsId(conn) => KeepsId(conn)'
  BY <1>4, <1>5 DEF KeepsId, Refresh, Live, Retired
<1>9. ConnectionOf(a)' = ConnectionOf(a)
  BY <1>1, <1>4 DEF ConnectionOf
<1> QED BY <1>5, <1>6, <1>7, <1>8, <1>9 DEF Refresh

LEMMA StepHeard ==
    ASSUME Inv, NEW a \in Addr, NEW num \in ConnectionNumbers,
           HandleUnreliable(a, num) \/ HandlePingPong(a, num)
    PROVE  Inv'
<1>1. Drain /\ a \in Live /\ Refresh(a) /\ UNCHANGED markVars /\ phase' = phase
  BY DEF HandleUnreliable, HandlePingPong, Heard, Drain
<1>2. /\ SlotInv' /\ LimitInv' /\ Live' = Live /\ slot_count' = slot_count
      /\ \A conn \in Connection : KeepsId(conn) => KeepsId(conn)'
  BY <1>1, RefreshKeeps
<1>3. WatermarkInv'
  BY <1>1, <1>2, MarkVarsSame DEF Inv
<1>4. events' \in Seq(Event) /\ BatchKeepsIds'
  <2>1. CASE HandleUnreliable(a, num)
    <3> DEFINE e == EventOf("Data", a)
    <3>1. events' = Append(events, e)
      BY <2>1 DEF HandleUnreliable
    <3>2. /\ EventOf("Data", a) \in Event /\ ConnectionOf(a) \in Connection
          /\ EventOf("Data", a).conn = ConnectionOf(a) /\ KeepsId(ConnectionOf(a))
      BY <1>1, EventOfLive DEF Inv
    <3>3. e \in Event /\ e.conn = ConnectionOf(a)
      BY <3>2 DEF Event
    <3>4. PICK c \in Connection : c = ConnectionOf(a)
      BY <3>2
    <3>5. KeepsId(c)' /\ e.conn = c
      BY <1>2, <3>2, <3>3, <3>4
    <3>6. PICK ev \in Event : ev = e
      BY <3>3
    <3> HIDE DEF e
    <3>7. KeepsId(ev.conn)' /\ events' = Append(events, ev)
      BY <3>1, <3>5, <3>6 DEF KeepsId
    <3> QED BY <1>1, <1>2, <3>7, AppendsEvent
  <2>2. CASE HandlePingPong(a, num)
    <3>1. events' = events
      BY <2>2 DEF HandlePingPong
    <3>2. \A i \in DOMAIN events : events[i].conn \in Connection
      <4>1. \A i \in DOMAIN events : events[i] \in Event
        BY DEF Inv, LoopTypeOK
      <4> QED BY <4>1 DEF Event
    <3>3. \A i \in DOMAIN events : KeepsId(events[i].conn)'
      BY <3>1, <3>2, <1>2 DEF Inv, BatchKeepsIds, KeepsId
    <3> QED BY <1>1, <3>1, <3>3 DEF Inv, LoopTypeOK, BatchKeepsIds, Drain
  <2> QED BY <2>1, <2>2
<1>5. LoopTypeOK'
  BY <1>1, <1>2, <1>4, DrainLoop DEF Inv, SlotInv, SlotTypeOK
<1> QED BY <1>2, <1>3, <1>4, <1>5 DEF Inv

\* remove_peer_at followed by the Disconnected event for it.
LEMMA RemoveReports ==
    ASSUME Inv, NEW a \in Live, RemovePeerAt(a),
           events' = Append(events, EventOf("Disconnected", a)),
           Drain \/ (phase = "maintain" /\ phase' = phase)
    PROVE  /\ SlotInv' /\ LimitInv' /\ Live' = Live \ {a} /\ slot_count' = slot_count
           /\ events' \in Seq(Event) /\ BatchKeepsIds'
<1>1. SlotInv' /\ LimitInv' /\ slot_count' = slot_count
  BY RemoveKeepsSlots, RemoveKeepsLimits DEF Inv, RemovePeerAt
<1>2. Live' = Live \ {a}
  BY LivePeer DEF Live, RemovePeerAt, Inv, SlotInv, SlotTypeOK
<1>3. phase' = phase
  BY DEF Drain
<1>4. \A conn \in Connection : KeepsId(conn) => KeepsId(conn)'
  BY <1>3, RemoveKeepsIds DEF Inv
<1>5. PICK e \in Event : e = EventOf("Disconnected", a)
  BY EventOfLive DEF Inv
<1>6. PICK c \in Connection : c = e.conn /\ KeepsId(c)
  BY <1>5, EventOfLive DEF Inv
<1>7. KeepsId(e.conn)'
  BY <1>4, <1>6 DEF KeepsId
<1>8. events' \in Seq(Event) /\ BatchKeepsIds'
  BY <1>4, <1>5, <1>7, AppendsEvent
<1> QED BY <1>1, <1>2, <1>8

LEMMA StepHandleDisconnect ==
    ASSUME Inv, NEW a \in Addr, NEW ct \in ConnectTimes,
           NEW num \in ConnectionNumbers, HandleDisconnect(a, ct, num)
    PROVE  Inv'
<1>1. Drain /\ a \in Live /\ phase = "drain" /\ phase' = phase
  BY DEF HandleDisconnect, Heard, Drain
<1>2. RemovePeerAt(a) /\ events' = Append(events, EventOf("Disconnected", a))
  BY DEF HandleDisconnect
<1>3. /\ SlotInv' /\ LimitInv' /\ Live' = Live \ {a} /\ slot_count' = slot_count
      /\ events' \in Seq(Event) /\ BatchKeepsIds'
  BY <1>1, <1>2, RemoveReports
<1>4. WatermarkInv'
  BY <1>3, MarkVarsSame DEF Inv, HandleDisconnect
<1>5. LoopTypeOK'
  BY <1>1, <1>3, DrainLoop DEF Inv, SlotInv, SlotTypeOK
<1> QED BY <1>3, <1>4, <1>5 DEF Inv

\* The connection that a freshly inserted peer makes.
NewConnection(a, ct) == [id |-> AllocatedSlot, addr |-> a, connect_time |-> ct]

NewEvent(a, ct) == [kind |-> "Connected", conn |-> NewConnection(a, ct)]

LEMMA NewEventSettled ==
    ASSUME SlotInv, CanAllocate, NEW a \in Addr, NEW ct \in ConnectTimes,
           NEW num \in ConnectionNumbers,
           peers' = [peers EXCEPT ![a] = NewPeer(AllocatedSlot, ct, num)]
    PROVE  /\ NewEvent(a, ct) \in Event
           /\ \A conn \in Connection : conn = NewEvent(a, ct).conn => KeepsId(conn)'
<1> DEFINE s == AllocatedSlot
<1>1. s \in Slots
  BY AllocatedIsVacant
<1>2. peers'[a] = NewPeer(s, ct, num) /\ NewPeer(s, ct, num) # None
        /\ NewPeer(s, ct, num).slot = s /\ NewPeer(s, ct, num).connect_time = ct
  BY <1>1, HostAssumption, NoneAssumption DEF SlotInv, SlotTypeOK, NewPeer, Peer
<1>3. a \in Live'
  BY <1>2 DEF Live
<1> HIDE DEF s
<1>4. NewEvent(a, ct).conn = NewConnection(a, ct) /\ NewEvent(a, ct) \in Event
  BY <1>1 DEF NewEvent, NewConnection, Event, Connection, s
<1>5. ASSUME NEW conn \in Connection, conn = NewConnection(a, ct) PROVE KeepsId(conn)'
  <2>1. conn.id = s /\ conn.addr = a /\ conn.connect_time = ct
    BY <1>5 DEF NewConnection, s
  <2> QED BY <1>2, <1>3, <2>1 DEF KeepsId
<1> QED BY <1>4, <1>5

LEMMA StepConnectAccepted ==
    ASSUME Inv, NEW a \in Addr, NEW ct \in ConnectTimes,
           NEW num \in ConnectionNumbers, ConnectAccepted(a, ct, num)
    PROVE  Inv'
<1>1. /\ Drain /\ a \notin Live /\ HasRoom(a) /\ CanAllocate /\ InsertPeer(a, ct, num)
      /\ ForgetWatermark(a) /\ UNCHANGED <<reconnect_watermark_order, next_generation>>
      /\ events' = Append(events, NewEvent(a, ct))
      /\ phase = "drain" /\ phase' = phase
  BY DEF ConnectAccepted, NewEvent, NewConnection, Drain
<1>2. SlotInv' /\ LimitInv'
  BY <1>1, InsertKeepsSlots, InsertKeepsLimits DEF Inv
<1>3. Live' \subseteq Live \cup {a}
  BY <1>1 DEF Live, InsertPeer, Inv, SlotInv, SlotTypeOK
<1>4. WatermarkInv'
  BY <1>1, <1>3, ForgetKeepsWatermarks DEF Inv
<1>5. \A conn \in Connection : KeepsId(conn) => KeepsId(conn)'
  BY <1>1, InsertKeepsIds DEF Inv
<1>6. /\ NewEvent(a, ct) \in Event
      /\ \A conn \in Connection : conn = NewEvent(a, ct).conn => KeepsId(conn)'
  BY <1>1, NewEventSettled DEF InsertPeer, Inv
<1>7. PICK e \in Event : e = NewEvent(a, ct)
  BY <1>6
<1>8. PICK c \in Connection : c = e.conn
  BY <1>7 DEF Event
<1>9. KeepsId(e.conn)'
  BY <1>6, <1>7, <1>8 DEF KeepsId
<1>10. events' \in Seq(Event) /\ BatchKeepsIds'
  BY <1>1, <1>5, <1>7, <1>9, AppendsEvent
<1>11. slot_count' \in Nat /\ slot_count <= slot_count'
  BY <1>1 DEF InsertPeer, AllocateFrom, Inv, SlotInv, SlotTypeOK
<1>12. LoopTypeOK'
  BY <1>1, <1>10, <1>11, DrainLoop
<1> QED BY <1>2, <1>4, <1>10, <1>12 DEF Inv

LEMMA StepConnectReplaces ==
    ASSUME Inv, NEW a \in Addr, NEW ct \in ConnectTimes,
           NEW num \in ConnectionNumbers, ConnectReplaces(a, ct, num)
    PROVE  Inv'
<1>1. Drain /\ a \in Live /\ phase = "drain" /\ phase' = phase
  BY DEF ConnectReplaces, Drain
<1>2. CASE CanAllocate
  <2>1. /\ ReplacePeer(a, ct, num) /\ ForgetWatermark(a)
        /\ UNCHANGED <<reconnect_watermark_order, next_generation>>
        /\ events' = events \o <<EventOf("Disconnected", a), NewEvent(a, ct)>>
    BY <1>2 DEF ConnectReplaces, NewEvent, NewConnection
  <2>2. SlotInv' /\ LimitInv' /\ Live' = Live
    BY <1>1, <1>2, <2>1, ReplaceKeepsSlots, ReplaceKeepsLimits DEF Inv
  <2>3. WatermarkInv'
    BY <2>1, <2>2, ForgetKeepsWatermarks DEF Inv
  <2>4. \A conn \in Connection : KeepsId(conn) => KeepsId(conn)'
    BY <1>1, <1>2, <2>1, ReplaceKeepsIds DEF Inv
  <2>5. PICK e \in Event : e = EventOf("Disconnected", a)
    BY <1>1, EventOfLive DEF Inv
  <2>6. PICK c \in Connection : c = e.conn /\ KeepsId(c)
    BY <1>1, <2>5, EventOfLive DEF Inv
  <2>7. KeepsId(e.conn)'
    BY <2>4, <2>6 DEF KeepsId
  <2>8. /\ NewEvent(a, ct) \in Event
        /\ \A conn \in Connection : conn = NewEvent(a, ct).conn => KeepsId(conn)'
    BY <1>2, <2>1, NewEventSettled DEF ReplacePeer, Inv
  <2>9. PICK f \in Event : f = NewEvent(a, ct)
    BY <2>8
  <2>10. PICK d \in Connection : d = f.conn
    BY <2>9 DEF Event
  <2>11. KeepsId(f.conn)'
    BY <2>8, <2>9, <2>10 DEF KeepsId
  <2>12. /\ <<e, f>> \in Seq(Event) /\ events' = events \o <<e, f>>
         /\ Len(<<e, f>>) = 2 /\ <<e, f>>[1] = e /\ <<e, f>>[2] = f
    BY <2>1, <2>5, <2>9
  <2>13. \A i \in 1..Len(<<e, f>>) : KeepsId(<<e, f>>[i].conn)'
    <3> SUFFICES ASSUME NEW i \in 1..Len(<<e, f>>) PROVE KeepsId(<<e, f>>[i].conn)'
      OBVIOUS
    <3>1. i = 1 \/ i = 2
      BY <2>12
    <3> QED BY <2>7, <2>11, <2>12, <3>1
  <2>14. events' \in Seq(Event) /\ BatchKeepsIds'
    BY <1>1, <2>4, <2>12, <2>13, BatchGrows DEF Inv, LoopTypeOK, BatchKeepsIds
  <2>15. slot_count' \in Nat /\ slot_count <= slot_count'
    BY <2>1 DEF ReplacePeer, AllocateFrom, Inv, SlotInv, SlotTypeOK
  <2>16. LoopTypeOK'
    BY <1>1, <2>14, <2>15, DrainLoop
  <2> QED BY <2>2, <2>3, <2>14, <2>16 DEF Inv
<1>3. CASE ~CanAllocate
  <2>1. /\ RemovePeerAt(a) /\ RecordWatermark(a, ct)
        /\ events' = Append(events, EventOf("Disconnected", a))
    BY <1>3 DEF ConnectReplaces
  <2>2. /\ SlotInv' /\ LimitInv' /\ Live' = Live \ {a} /\ slot_count' = slot_count
        /\ events' \in Seq(Event) /\ BatchKeepsIds'
    BY <1>1, <2>1, RemoveReports
  <2>3. WatermarkInv'
    BY <2>1, <2>2, RecordKeepsWatermarks DEF Inv
  <2>4. LoopTypeOK'
    BY <1>1, <2>2, DrainLoop DEF Inv, SlotInv, SlotTypeOK
  <2> QED BY <2>2, <2>3, <2>4 DEF Inv
<1> QED BY <1>2, <1>3

-----------------------------------------------------------------------------
(* Maintenance and the caller.                                             *)

LEMMA StepMaintainSlot == Inv /\ MaintainSlot => Inv'
<1> SUFFICES ASSUME Inv, MaintainSlot PROVE Inv'
  OBVIOUS
<1> DEFINE a == peer_slots[CursorSlot]
<1>1. /\ phase = "maintain" /\ phase' = phase /\ UNCHANGED <<markVars, known>>
      /\ maintenance_cursor' = CursorSlot /\ work.steps < slot_count
  BY DEF MaintainSlot, MaintainContinues
<1>2. CursorSlot \in 1..slot_count /\ CursorSlot \in Slots
  BY <1>1, LimitsAssumption
  DEF Inv, LoopTypeOK, SlotInv, SlotTypeOK, CursorSlot, Slots
<1>3. CASE Expired(a) /\ work.timeouts < MaxPollTimeouts
  <2>1. /\ RemovePeerAt(a) /\ events' = Append(events, EventOf("Disconnected", a))
        /\ work' = [steps |-> work.steps + 1, timeouts |-> work.timeouts + 1]
    BY <1>3 DEF MaintainSlot
  <2>2. a \in Live
    BY <1>2, <1>3 DEF Expired, Inv, SlotInv, SlotsMatchPeers
  <2>3. /\ SlotInv' /\ LimitInv' /\ Live' = Live \ {a} /\ slot_count' = slot_count
        /\ events' \in Seq(Event) /\ BatchKeepsIds'
    BY <1>1, <2>1, <2>2, RemoveReports
  <2>4. WatermarkInv'
    BY <1>1, <2>3, MarkVarsSame DEF Inv
  <2>5. LoopTypeOK'
    BY <1>1, <1>2, <2>1, <2>3 DEF Inv, LoopTypeOK, SlotInv, SlotTypeOK
  <2> QED BY <2>3, <2>4, <2>5 DEF Inv
<1>4. CASE ~(Expired(a) /\ work.timeouts < MaxPollTimeouts)
  <2>1. UNCHANGED <<slotVars, events>> /\ work' = [work EXCEPT !.steps = @ + 1]
    BY <1>4 DEF MaintainSlot
  <2>2. SlotInv' /\ LimitInv' /\ Live' = Live
    BY <2>1, SlotVarsSame DEF Inv
  <2>3. WatermarkInv'
    BY <1>1, <2>2, MarkVarsSame DEF Inv
  <2>4. BatchKeepsIds'
    BY <1>1, <2>1, BatchSame DEF Inv
  <2>5. LoopTypeOK'
    BY <1>1, <1>2, <2>1 DEF Inv, LoopTypeOK, SlotInv, SlotTypeOK, slotVars
  <2> QED BY <2>2, <2>3, <2>4, <2>5 DEF Inv
<1> QED BY <1>3, <1>4

LEMMA StepDispatch == Inv /\ Dispatch => Inv'
<1> SUFFICES ASSUME Inv, Dispatch PROVE Inv'
  OBVIOUS
<1>1. SlotInv' /\ LimitInv' /\ Live' = Live /\ Retired' = Retired
  BY SlotVarsSame DEF Inv, Dispatch
<1>2. WatermarkInv'
  BY <1>1, MarkVarsSame DEF Inv, Dispatch
<1>3. /\ events' \in Seq(Event) /\ Head(events) \in Event
      /\ Len(events') = Len(events) - 1 /\ Len(events) \in Nat
      /\ \A i \in 1..Len(events') : events'[i] = events[i + 1]
  BY HeadTailProperties DEF Inv, LoopTypeOK, Dispatch
<1>4. BatchKeepsIds'
  <2>1. ASSUME NEW i \in DOMAIN events' PROVE (KeepsId(events[i].conn))'
    <3>1. i + 1 \in DOMAIN events /\ events'[i] = events[i + 1]
      BY <1>3 DEF Inv, LoopTypeOK
    <3>2. KeepsId(events[i + 1].conn)
      BY <3>1 DEF Inv, BatchKeepsIds
    <3> QED BY <1>1, <3>1, <3>2 DEF KeepsId, Dispatch, slotVars
  <2> QED BY <2>1 DEF BatchKeepsIds, Dispatch
<1>5. LoopTypeOK'
  <2>1. known' \subseteq Connection
    BY <1>3 DEF Dispatch, Inv, LoopTypeOK, Event
  <2> QED BY <1>3, <2>1 DEF Dispatch, Inv, LoopTypeOK, slotVars
<1> QED BY <1>1, <1>2, <1>4, <1>5 DEF Inv

LEMMA StepLocalDisconnect ==
    ASSUME Inv, NEW conn \in known, LocalDisconnect(conn)
    PROVE  Inv'
<1> DEFINE a == PeerAddr(conn.id)
<1>1. /\ phase = "dispatch" /\ phase' = phase
      /\ UNCHANGED <<markVars, maintenance_cursor, work, events>>
      /\ known' \subseteq known
  BY DEF LocalDisconnect
<1>2. CASE a = None
  <2>1. UNCHANGED slotVars
    BY <1>2 DEF LocalDisconnect
  <2>2. SlotInv' /\ LimitInv' /\ Live' = Live
    BY <2>1, SlotVarsSame DEF Inv
  <2>3. WatermarkInv' /\ BatchKeepsIds'
    BY <1>1, <2>1, <2>2, MarkVarsSame, BatchSame DEF Inv
  <2>4. LoopTypeOK'
    BY <1>1, <2>1 DEF Inv, LoopTypeOK, slotVars
  <2> QED BY <2>2, <2>3, <2>4 DEF Inv
<1>3. CASE a # None
  <2>1. RemovePeerAt(a)
    BY <1>3 DEF LocalDisconnect
  <2>2. a \in Live
    <3>1. conn.id \in Slots
      BY DEF Inv, LoopTypeOK, Connection
    <3> QED BY <1>3, <3>1 DEF PeerAddr, Live, Inv, SlotInv, SlotTypeOK
  <2>3. SlotInv' /\ LimitInv' /\ Live' \subseteq Live /\ slot_count' = slot_count
    BY <2>1, <2>2, RemoveKeepsSlots, RemoveKeepsLimits
    DEF Inv, RemovePeerAt, Live, SlotInv, SlotTypeOK
  <2>4. WatermarkInv'
    BY <1>1, <2>3, MarkVarsSame DEF Inv
  <2>5. \A c \in Connection : KeepsId(c) => KeepsId(c)'
    BY <1>1, <2>1, <2>2, RemoveKeepsIds DEF Inv
  <2>6. \A i \in DOMAIN events : events[i].conn \in Connection
    <3>1. \A i \in DOMAIN events : events[i] \in Event
      BY DEF Inv, LoopTypeOK
    <3> QED BY <3>1 DEF Event
  <2>7. \A i \in DOMAIN events : KeepsId(events[i].conn)'
    BY <1>1, <2>5, <2>6 DEF Inv, BatchKeepsIds, KeepsId
  <2>8. BatchKeepsIds'
    BY <1>1, <2>7 DEF BatchKeepsIds
  <2>9. LoopTypeOK'
    BY <1>1, <2>3 DEF Inv, LoopTypeOK
  <2> QED BY <2>3, <2>4, <2>8, <2>9 DEF Inv
<1> QED BY <1>2, <1>3

LEMMA StepShutdown == Inv /\ Shutdown => Inv'
<1> SUFFICES ASSUME Inv, Shutdown PROVE Inv'
  OBVIOUS
<1>1. Live' = {} /\ \A i : PeersAt(i)' = {}
  BY DEF Shutdown, Live, PeersAt
<1>2. SlotInv'
  <2>1. SlotTypeOK'
    BY LimitsAssumption DEF Shutdown, SlotTypeOK
  <2>2. SlotsMatchPeers'
    BY <1>1 DEF Shutdown, SlotsMatchPeers
  <2>3. FreeQueueExact'
    BY DEF Shutdown, FreeQueueExact, Lists, Vacant
  <2> QED BY <2>1, <2>2, <2>3 DEF SlotInv
<1>3. LimitInv'
  <2>1. Cardinality({}) = 0
    BY FS_EmptySet
  <2>2. peers_per_ip' \in [IP -> Nat] /\ \A i \in IP : peers_per_ip'[i] = 0
    BY DEF Shutdown
  <2> QED BY <1>1, <2>1, <2>2, LimitsAssumption DEF LimitInv, PeerLimits
<1>4. WatermarkInv'
  BY <1>1, HostAssumption, LimitsAssumption
  DEF Shutdown, WatermarkInv, WatermarkTypeOK, WatermarksQueued
<1>5. PICK order \in [1..Cardinality(Live) -> Live] :
         events' = [i \in DOMAIN order |-> EventOf("Disconnected", order[i])]
  BY DEF Shutdown
<1>6. events' \in Seq(Event)
  <2>1. Cardinality(Live) \in Nat
    BY LiveFinite
  <2>2. \A i \in 1..Cardinality(Live) : EventOf("Disconnected", order[i]) \in Event
    BY EventOfLive DEF Inv
  <2>3. events' \in [1..Cardinality(Live) -> Event]
    BY <1>5, <2>2
  <2> QED BY <2>1, <2>3
<1>7. BatchKeepsIds'
  <2>1. \A i \in DOMAIN events' : events'[i].conn.id \in Slots
    <3>1. \A i \in DOMAIN events' : events'[i] \in Event
      BY <1>6
    <3> QED BY <3>1 DEF Event, Connection
  <2> QED BY <2>1 DEF Shutdown, BatchKeepsIds, KeepsId
<1>8. LoopTypeOK'
  BY <1>6 DEF Shutdown, LoopTypeOK, Inv, Phases
<1> QED BY <1>2, <1>3, <1>4, <1>7, <1>8 DEF Inv

-----------------------------------------------------------------------------
(* Theorems.                                                               *)

\* The invariant is inductive: no step of the host, for any datagram in any
\* order, breaks it.
LEMMA InvNext == Inv /\ [Next]_vars => Inv'
<1> SUFFICES ASSUME Inv, [Next]_vars PROVE Inv'
  OBVIOUS
<1>1. CASE PollLoop
  BY <1>1, StepPollBegin, StepExpireWatermark, StepEnds, StepMaintainSlot, StepDispatch
  DEF PollLoop
<1>2. ASSUME NEW a \in Addr, NEW ct \in ConnectTimes,
             NEW num \in ConnectionNumbers, Datagram(a, ct, num) PROVE Inv'
  BY <1>2, StepConnectReplaces, StepDropped, StepConnectAccepted, StepConnectRefused,
     StepHeard, StepHandleDisconnect DEF Datagram
<1>3. CASE DropDatagram
  BY <1>3, StepDropped
<1>4. ASSUME NEW conn \in known, LocalDisconnect(conn) PROVE Inv'
  BY <1>4, StepLocalDisconnect
<1>5. CASE Shutdown
  BY <1>5, StepShutdown
<1>6. CASE UNCHANGED vars
  <2>1. SlotInv' /\ LimitInv' /\ Live' = Live
    BY <1>6, SlotVarsSame DEF Inv, vars
  <2>2. WatermarkInv'
    BY <1>6, <2>1, MarkVarsSame DEF Inv, vars
  <2>3. BatchKeepsIds'
    BY <1>6, BatchSame DEF Inv, vars
  <2>4. LoopTypeOK'
    BY <1>6 DEF Inv, LoopTypeOK, vars, slotVars
  <2> QED BY <2>1, <2>2, <2>3, <2>4 DEF Inv
<1> QED BY <1>1, <1>2, <1>3, <1>4, <1>5, <1>6 DEF Next

\* The invariant holds in every reachable state of the host.
THEOREM Invariant == Spec => []Inv
BY InvInit, InvNext, PTL DEF Spec

\* Host keeps every field within its type and its capacity.
THEOREM TypeCorrect == Spec => []TypeOK
<1>1. Inv => TypeOK
  BY DEF Inv, TypeOK, SlotInv, LimitInv, WatermarkInv, LoopTypeOK
<1> QED BY <1>1, Invariant, PTL

\* The peer table, the slot table and the free queue agree: what the test
\* helper assert_peer_indices_consistent asserts of the histories it runs.
THEOREM SlotsConsistent == Spec => [](SlotsMatchPeers /\ FreeQueueExact)
<1>1. Inv => SlotsMatchPeers /\ FreeQueueExact
  BY DEF Inv, SlotInv
<1> QED BY <1>1, Invariant, PTL

\* The counters that admit peers are exact and the limits hold.
THEOREM LimitsHold == Spec => []PeerLimits
<1>1. Inv => PeerLimits
  BY DEF Inv, LimitInv
<1> QED BY <1>1, Invariant, PTL

\* Slot reuse never aliases an event of the batch being consumed, as the
\* comment on free_peer_slots says.
THEOREM NoAliasing == Spec => []BatchKeepsIds
<1>1. Inv => BatchKeepsIds
  BY DEF Inv
<1> QED BY <1>1, Invariant, PTL

\* Watermarks are bounded, reachable from their queue, and only kept for
\* addresses with no live peer.
THEOREM WatermarksBounded == Spec => []WatermarksQueued
<1>1. Inv => WatermarksQueued
  BY DEF Inv, WatermarkInv
<1> QED BY <1>1, Invariant, PTL

-----------------------------------------------------------------------------
(* What the caller is told.                                                *)

\* The batch has an event of the kind about the connection.
Reports(batch, kind, conn) ==
    \E i \in DOMAIN batch : batch[i].kind = kind /\ batch[i].conn = conn

\* A caller that believes `believed` and consumes the whole batch ends up
\* believing `conns`: it is told of each connection once, and of its end
\* after its beginning.
Tells(batch, believed, conns) ==
    /\ \A c \in Connection : c \in conns <=>
          /\ c \in believed \/ Reports(batch, "Connected", c)
          /\ ~Reports(batch, "Disconnected", c)
    /\ \A c \in believed : ~Reports(batch, "Connected", c)
    /\ \A i, j \in DOMAIN batch :
          batch[i].kind = "Connected" /\ batch[i].conn = batch[j].conn =>
            /\ batch[j].kind = "Connected" => i = j
            /\ batch[j].kind = "Disconnected" => i < j

\* The caller's beliefs catch up with the peer table.
Told == Tells(events, known, LiveConnections)

LEMMA ReportsAppend ==
    ASSUME NEW batch \in Seq(Event), NEW e \in Event, NEW kind, NEW c
    PROVE  Reports(Append(batch, e), kind, c) <=>
             Reports(batch, kind, c) \/ (e.kind = kind /\ e.conn = c)
<1> DEFINE n == Len(batch)
<1> DEFINE q == Append(batch, e)
<1>1. n \in Nat /\ DOMAIN batch = 1..n
  OBVIOUS
<1>2. /\ DOMAIN q = 1..(n + 1) /\ q[n + 1] = e
      /\ \A i \in 1..n : q[i] = batch[i]
  BY <1>1, AppendProperties
<1> HIDE DEF q, n
<1>3. Reports(batch, kind, c) => Reports(q, kind, c)
  BY <1>1, <1>2 DEF Reports
<1>4. e.kind = kind /\ e.conn = c => Reports(q, kind, c)
  BY <1>1, <1>2 DEF Reports
<1>5. Reports(q, kind, c) => Reports(batch, kind, c) \/ (e.kind = kind /\ e.conn = c)
  BY <1>1, <1>2 DEF Reports
<1> QED BY <1>3, <1>4, <1>5 DEF q

\* One more event: a Connected one is the only one of its connection, and
\* follows no other.
LEMMA TellsAppend ==
    ASSUME NEW batch \in Seq(Event), NEW believed, NEW conns, Tells(batch, believed, conns),
           NEW e \in Event,
           e.kind = "Connected" =>
             /\ e.conn \notin believed
             /\ ~Reports(batch, "Connected", e.conn)
             /\ ~Reports(batch, "Disconnected", e.conn)
    PROVE  Tells(Append(batch, e), believed,
                 CASE e.kind = "Connected"    -> conns \cup {e.conn}
                   [] e.kind = "Disconnected" -> conns \ {e.conn}
                   [] OTHER                   -> conns)
<1> DEFINE n == Len(batch)
<1> DEFINE q == Append(batch, e)
<1> DEFINE left == CASE e.kind = "Connected"    -> conns \cup {e.conn}
                     [] e.kind = "Disconnected" -> conns \ {e.conn}
                     [] OTHER                   -> conns
<1>0. e.kind \in {"Connected", "Data", "Disconnected"} /\ e.conn \in Connection
  BY DEF Event
<1>1. n \in Nat /\ DOMAIN batch = 1..n
  OBVIOUS
<1>2. /\ DOMAIN q = 1..(n + 1) /\ q[n + 1] = e
      /\ \A i \in 1..n : q[i] = batch[i]
  BY <1>1, AppendProperties
<1>3. \A kind, c : Reports(q, kind, c) <=>
                      Reports(batch, kind, c) \/ (e.kind = kind /\ e.conn = c)
  BY ReportsAppend
<1>4. ASSUME NEW c \in Connection
      PROVE  c \in left <=> /\ c \in believed \/ Reports(q, "Connected", c)
                            /\ ~Reports(q, "Disconnected", c)
  <2>1. c \in conns <=> /\ c \in believed \/ Reports(batch, "Connected", c)
                        /\ ~Reports(batch, "Disconnected", c)
    BY DEF Tells
  <2>2. c \in left <=>
          \/ e.kind = "Connected" /\ (c \in conns \/ c = e.conn)
          \/ e.kind = "Disconnected" /\ c \in conns /\ c # e.conn
          \/ e.kind = "Data" /\ c \in conns
    BY <1>0
  <2> HIDE DEF left
  <2> QED BY <1>0, <1>3, <2>1, <2>2
<1>5. ASSUME NEW c \in believed PROVE ~Reports(q, "Connected", c)
  BY <1>3 DEF Tells
<1> HIDE DEF q, n, left
<1>6. ASSUME NEW i \in DOMAIN q, NEW j \in DOMAIN q,
             q[i].kind = "Connected", q[i].conn = q[j].conn
      PROVE  /\ q[j].kind = "Connected" => i = j
             /\ q[j].kind = "Disconnected" => i < j
  <2>1. CASE i \in 1..n /\ j \in 1..n
    BY <1>1, <1>2, <1>6, <2>1 DEF Tells
  <2>2. CASE i \in 1..n /\ j = n + 1
    <3>1. Reports(batch, "Connected", e.conn)
      BY <1>1, <1>2, <1>6, <2>2 DEF Reports
    <3>2. i < j /\ q[j] = e
      BY <1>1, <1>2, <2>2
    <3>3. e.kind # "Connected"
      BY <3>1
    <3> QED BY <3>2, <3>3
  <2>3. CASE i = n + 1 /\ j \in 1..n
    <3>1. e.kind = "Connected" /\ batch[j].conn = e.conn
      BY <1>2, <1>6, <2>3
    <3>2. batch[j].kind # "Connected" /\ batch[j].kind # "Disconnected"
      BY <1>1, <2>3, <3>1 DEF Reports
    <3>3. q[j] = batch[j]
      BY <1>2, <2>3
    <3> QED BY <3>2, <3>3
  <2>4. CASE i = n + 1 /\ j = n + 1
    BY <1>1, <1>2, <1>6, <2>4
  <2> QED BY <1>1, <1>2, <2>1, <2>2, <2>3, <2>4
<1> QED BY <1>4, <1>5, <1>6 DEF Tells, q, left

\* The caller takes the first event.
LEMMA TellsTail ==
    ASSUME NEW batch \in Seq(Event), batch # <<>>, NEW believed, NEW conns,
           Tells(batch, believed, conns)
    PROVE  Tells(Tail(batch),
                 CASE Head(batch).kind = "Connected"    -> believed \cup {Head(batch).conn}
                   [] Head(batch).kind = "Disconnected" -> believed \ {Head(batch).conn}
                   [] OTHER                             -> believed,
                 conns)
<1> DEFINE n == Len(batch)
<1> DEFINE q == Tail(batch)
<1> DEFINE e == Head(batch)
<1> DEFINE left == CASE e.kind = "Connected"    -> believed \cup {e.conn}
                     [] e.kind = "Disconnected" -> believed \ {e.conn}
                     [] OTHER                   -> believed
<1>1. n \in Nat /\ n > 0 /\ DOMAIN batch = 1..n /\ e = batch[1] /\ e \in Event
  BY EmptySeq
<1>2. /\ DOMAIN q = 1..(n - 1)
      /\ \A i \in 1..(n - 1) : q[i] = batch[i + 1]
  BY <1>1, HeadTailProperties
<1>3. e.kind \in {"Connected", "Data", "Disconnected"} /\ e.conn \in Connection
  BY <1>1 DEF Event
<1>4. \A c : c \in left <=>
          \/ e.kind = "Connected" /\ (c \in believed \/ c = e.conn)
          \/ e.kind = "Disconnected" /\ c \in believed /\ c # e.conn
          \/ e.kind = "Data" /\ c \in believed
  BY <1>3
<1> HIDE DEF q, n, e, left
<1>5. ASSUME NEW kind, NEW c
      PROVE  Reports(batch, kind, c) <=> Reports(q, kind, c) \/ (e.kind = kind /\ e.conn = c)
  <2>1. ASSUME Reports(batch, kind, c)
        PROVE  Reports(q, kind, c) \/ (e.kind = kind /\ e.conn = c)
    <3>1. PICK i \in 1..n : batch[i].kind = kind /\ batch[i].conn = c
      BY <1>1, <2>1 DEF Reports
    <3>2. CASE i = 1
      BY <1>1, <3>1, <3>2
    <3>3. CASE i # 1
      <4>1. i - 1 \in 1..(n - 1) /\ (i - 1) + 1 = i
        BY <1>1, <3>3
      <4>2. q[i - 1] = batch[i]
        BY <1>2, <4>1
      <4> QED BY <1>2, <3>1, <4>1, <4>2 DEF Reports
    <3> QED BY <3>2, <3>3
  <2>2. ASSUME Reports(q, kind, c) PROVE Reports(batch, kind, c)
    <3>1. PICK i \in 1..(n - 1) : q[i].kind = kind /\ q[i].conn = c
      BY <1>2, <2>2 DEF Reports
    <3>2. i + 1 \in 1..n
      BY <1>1
    <3> QED BY <1>1, <1>2, <3>1, <3>2 DEF Reports
  <2>3. ASSUME e.kind = kind, e.conn = c PROVE Reports(batch, kind, c)
    BY <1>1, <2>3 DEF Reports
  <2> QED BY <2>1, <2>2, <2>3
<1>6. e.kind = "Connected" \/ e.kind = "Disconnected" => ~Reports(q, "Connected", e.conn)
  <2> SUFFICES ASSUME e.kind = "Connected" \/ e.kind = "Disconnected",
                      NEW i \in 1..(n - 1), q[i].kind = "Connected", q[i].conn = e.conn
               PROVE  FALSE
    BY <1>2 DEF Reports
  <2>1. i + 1 \in 1..n /\ 1 \in 1..n /\ q[i] = batch[i + 1] /\ i + 1 # 1 /\ ~(i + 1 < 1)
    BY <1>1, <1>2
  <2> QED BY <1>1, <2>1 DEF Tells
<1>7. ASSUME NEW c \in Connection
      PROVE  c \in conns <=> /\ c \in left \/ Reports(q, "Connected", c)
                             /\ ~Reports(q, "Disconnected", c)
  <2>1. c \in conns <=> /\ c \in believed \/ Reports(batch, "Connected", c)
                        /\ ~Reports(batch, "Disconnected", c)
    BY DEF Tells
  <2>2. CASE c = e.conn /\ e.kind = "Connected"
    <3>1. ~Reports(batch, "Disconnected", c) <=> ~Reports(q, "Disconnected", c)
      BY <1>5, <2>2
    <3> QED BY <1>4, <1>5, <2>1, <2>2, <3>1
  <2>3. CASE c = e.conn /\ e.kind = "Disconnected"
    BY <1>4, <1>5, <1>6, <2>1, <2>3
  <2>4. CASE c # e.conn \/ e.kind = "Data"
    <3>1. c \in left <=> c \in believed
      BY <1>3, <1>4, <2>4
    <3>2. /\ Reports(q, "Connected", c) <=> Reports(batch, "Connected", c)
          /\ Reports(q, "Disconnected", c) <=> Reports(batch, "Disconnected", c)
      BY <1>5, <2>4
    <3> QED BY <2>1, <3>1, <3>2
  <2> QED BY <1>3, <2>2, <2>3, <2>4
<1>8. ASSUME NEW c \in left PROVE ~Reports(q, "Connected", c)
  <2>1. c \in believed => ~Reports(batch, "Connected", c)
    BY DEF Tells
  <2> QED BY <1>4, <1>5, <1>6, <2>1
<1>9. ASSUME NEW i \in DOMAIN q, NEW j \in DOMAIN q,
             q[i].kind = "Connected", q[i].conn = q[j].conn
      PROVE  /\ q[j].kind = "Connected" => i = j
             /\ q[j].kind = "Disconnected" => i < j
  <2>1. i + 1 \in 1..n /\ j + 1 \in 1..n /\ q[i] = batch[i + 1] /\ q[j] = batch[j + 1]
    BY <1>1, <1>2
  <2>2. /\ q[j].kind = "Connected" => i + 1 = j + 1
        /\ q[j].kind = "Disconnected" => i + 1 < j + 1
    BY <1>1, <1>9, <2>1 DEF Tells
  <2> QED BY <1>1, <1>2, <2>2
<1> QED BY <1>7, <1>8, <1>9 DEF Tells, q, left, e

\* The live connections: how the peer table, seen as a set of them, changes.
LEMMA LiveConnection ==
    ASSUME SlotInv
    PROVE  /\ LiveConnections \subseteq Connection
           /\ \A c \in Connection : c \in LiveConnections <=>
                 /\ c.addr \in Live
                 /\ peers[c.addr].slot = c.id
                 /\ peers[c.addr].connect_time = c.connect_time
<1>1. LiveConnections \subseteq Connection
  BY EventOfLive DEF LiveConnections
<1>2. ASSUME NEW c \in Connection, c \in LiveConnections
      PROVE  /\ c.addr \in Live
             /\ peers[c.addr].slot = c.id
             /\ peers[c.addr].connect_time = c.connect_time
  BY <1>2 DEF LiveConnections, ConnectionOf
<1>3. ASSUME NEW c \in Connection, c.addr \in Live, peers[c.addr].slot = c.id,
             peers[c.addr].connect_time = c.connect_time
      PROVE  c \in LiveConnections
  <2>1. c = ConnectionOf(c.addr)
    BY <1>3 DEF ConnectionOf, Connection
  <2> QED BY <1>3, <2>1 DEF LiveConnections
<1> QED BY <1>1, <1>2, <1>3

\* Two connections with one PeerId are not both live.
LEMMA OneConnectionPerId ==
    ASSUME SlotInv, NEW c \in LiveConnections, NEW d \in LiveConnections, c.id = d.id
    PROVE  c = d
<1>1. PICK a \in Live : c = ConnectionOf(a)
  BY DEF LiveConnections
<1>2. PICK b \in Live : d = ConnectionOf(b)
  BY DEF LiveConnections
<1>3. peers[a].slot = peers[b].slot
  BY <1>1, <1>2 DEF ConnectionOf
<1>4. a = b
  BY <1>3, LivePeer
<1> QED BY <1>1, <1>2, <1>4

\* Steps that change no slot and no connect_time.
LEMMA ConnectionsSame ==
    ASSUME Live' = Live,
           \A a \in Live : /\ peers'[a].slot = peers[a].slot
                           /\ peers'[a].connect_time = peers[a].connect_time
    PROVE  LiveConnections' = LiveConnections /\ \A a \in Live : ConnectionOf(a)' = ConnectionOf(a)
<1>1. \A a \in Live : ConnectionOf(a)' = ConnectionOf(a)
  BY DEF ConnectionOf
<1> QED BY <1>1 DEF LiveConnections

\* Hearing from a peer or passing time leaves its connection.
LEMMA HeardKeepsConnection ==
    ASSUME Inv, NEW a \in Live, Refresh(a)
    PROVE  \A b \in Live : /\ peers'[b].slot = peers[b].slot
                           /\ peers'[b].connect_time = peers[b].connect_time
<1> DEFINE fresh == [peers[a] EXCEPT !.idle = 0]
<1>1. peers[a] \in Peer /\ a \in Addr
  BY LivePeer DEF Inv
<1>2. fresh.slot = peers[a].slot /\ fresh.connect_time = peers[a].connect_time
  BY <1>1 DEF Peer
<1>3. \A b \in Addr : peers'[b] = IF b = a THEN fresh ELSE peers[b]
  BY DEF Refresh, Inv, SlotInv, SlotTypeOK
<1> HIDE DEF fresh
<1> QED BY <1>2, <1>3 DEF Live

LEMMA PollKeepsConnection ==
    ASSUME Inv, PollBegin
    PROVE  \A b \in Live : /\ peers'[b].slot = peers[b].slot
                           /\ peers'[b].connect_time = peers[b].connect_time
<1>1. \A b \in Live : b \in Addr /\ peers[b] # None /\ peers[b] \in Peer
  BY LivePeer DEF Inv, Live
<1>2. \A p \in Peer : LET q == [p EXCEPT !.idle = Age(@)]
                      IN  q.slot = p.slot /\ q.connect_time = p.connect_time
  BY DEF Peer
<1> QED BY <1>1, <1>2 DEF PollBegin

LEMMA ConnectionsByRemove ==
    ASSUME SlotInv, NEW a \in Live, RemovePeerAt(a)
    PROVE  /\ LiveConnections' = LiveConnections \ {ConnectionOf(a)}
           /\ ConnectionOf(a) \in LiveConnections
<1>1. /\ Live' = Live \ {a}
      /\ \A b \in Live' : peers'[b] = peers[b]
  BY LivePeer DEF Live, RemovePeerAt, SlotInv, SlotTypeOK
<1>2. \A b \in Live' : ConnectionOf(b)' = ConnectionOf(b)
  BY <1>1 DEF ConnectionOf
<1>3. \A b \in Live' : ConnectionOf(b) # ConnectionOf(a)
  BY <1>1 DEF ConnectionOf
<1>4. LiveConnections' = {ConnectionOf(b) : b \in Live \ {a}}
  BY <1>1, <1>2 DEF LiveConnections
<1> QED BY <1>1, <1>3, <1>4 DEF LiveConnections

LEMMA ConnectionsByInsert ==
    ASSUME SlotInv, CanAllocate, NEW a \in Addr, a \notin Live,
           NEW ct \in ConnectTimes, NEW num \in ConnectionNumbers, InsertPeer(a, ct, num)
    PROVE  LiveConnections' = LiveConnections \cup {NewConnection(a, ct)}
<1>1. /\ NewPeer(AllocatedSlot, ct, num) # None
      /\ NewPeer(AllocatedSlot, ct, num).slot = AllocatedSlot
      /\ NewPeer(AllocatedSlot, ct, num).connect_time = ct
  BY AllocatedIsVacant, HostAssumption, NoneAssumption DEF NewPeer, Peer
<1>2. /\ Live' = Live \cup {a}
      /\ \A b \in Live : peers'[b] = peers[b]
      /\ peers'[a] = NewPeer(AllocatedSlot, ct, num)
  BY <1>1 DEF Live, InsertPeer, SlotInv, SlotTypeOK
<1>3. \A b \in Live : ConnectionOf(b)' = ConnectionOf(b)
  BY <1>2 DEF ConnectionOf
<1>4. ConnectionOf(a)' = NewConnection(a, ct)
  BY <1>1, <1>2 DEF ConnectionOf, NewConnection
<1> QED BY <1>2, <1>3, <1>4 DEF LiveConnections

LEMMA ConnectionsByReplace ==
    ASSUME SlotInv, CanAllocate, NEW a \in Live,
           NEW ct \in ConnectTimes, NEW num \in ConnectionNumbers, ReplacePeer(a, ct, num)
    PROVE  /\ LiveConnections' =
                (LiveConnections \ {ConnectionOf(a)}) \cup {NewConnection(a, ct)}
           /\ ConnectionOf(a) \in LiveConnections
<1>1. /\ NewPeer(AllocatedSlot, ct, num) # None
      /\ NewPeer(AllocatedSlot, ct, num).slot = AllocatedSlot
      /\ NewPeer(AllocatedSlot, ct, num).connect_time = ct
  BY AllocatedIsVacant, HostAssumption, NoneAssumption DEF NewPeer, Peer
<1>2. /\ Live' = Live
      /\ \A b \in Live \ {a} : peers'[b] = peers[b]
      /\ peers'[a] = NewPeer(AllocatedSlot, ct, num)
  BY <1>1 DEF Live, ReplacePeer, SlotInv, SlotTypeOK
<1>3. \A b \in Live \ {a} : ConnectionOf(b)' = ConnectionOf(b) /\ ConnectionOf(b) # ConnectionOf(a)
  BY <1>2 DEF ConnectionOf
<1>4. ConnectionOf(a)' = NewConnection(a, ct)
  BY <1>1, <1>2 DEF ConnectionOf, NewConnection
<1>5. LiveConnections' = {ConnectionOf(b) : b \in Live \ {a}} \cup {NewConnection(a, ct)}
  BY <1>2, <1>3, <1>4 DEF LiveConnections
<1>6. {ConnectionOf(b) : b \in Live \ {a}} = LiveConnections \ {ConnectionOf(a)}
  BY <1>3 DEF LiveConnections
<1> QED BY <1>5, <1>6 DEF LiveConnections

\* Whatever the caller knows or will be told of has a settled PeerId.
LEMMA ToldKeepsId ==
    ASSUME Inv, Told, NEW c \in Connection,
           \/ c \in known
           \/ Reports(events, "Connected", c)
           \/ Reports(events, "Disconnected", c)
    PROVE  c \in LiveConnections \/ KeepsId(c)
<1>1. CASE Reports(events, "Connected", c) \/ Reports(events, "Disconnected", c)
  BY <1>1 DEF Inv, BatchKeepsIds, Reports
<1>2. CASE c \in known /\ ~Reports(events, "Disconnected", c)
  BY <1>2 DEF Told, Tells
<1> QED BY <1>1, <1>2

\* So a connection made in this poll is news.
LEMMA NewConnectionIsNews ==
    ASSUME Inv, Told, phase = "drain", CanAllocate, NEW a \in Addr, NEW ct \in ConnectTimes
    PROVE  /\ NewConnection(a, ct) \in Connection
           /\ NewConnection(a, ct) \notin known
           /\ ~Reports(events, "Connected", NewConnection(a, ct))
           /\ ~Reports(events, "Disconnected", NewConnection(a, ct))
<1> DEFINE c == NewConnection(a, ct)
<1>1. /\ c \in Connection /\ c.id = AllocatedSlot
      /\ AllocatedSlot \in Slots /\ peer_slots[AllocatedSlot] = None
      /\ AllocatedSlot \notin Retired
  BY AllocatedIsVacant, AllocatedNotRetired DEF Inv, NewConnection, Connection
<1> HIDE DEF c
<1>2. c \notin LiveConnections
  <2> SUFFICES ASSUME c.addr \in Live, peers[c.addr].slot = c.id PROVE FALSE
    BY <1>1, LiveConnection DEF Inv
  <2> QED BY <1>1, LivePeer DEF Inv
<1>3. ~KeepsId(c)
  <2>1. ~(c.addr \in Live /\ peers[c.addr].slot = c.id)
    BY <1>1, LivePeer DEF Inv
  <2> QED BY <1>1, <2>1 DEF KeepsId
<1> QED BY <1>1, <1>2, <1>3, ToldKeepsId DEF c

\* The order in which shutdown visits the peer table visits all of it.
LEMMA OrderVisitsAll ==
    ASSUME NEW S, IsFiniteSet(S), NEW order \in [1..Cardinality(S) -> S],
           \A i, j \in DOMAIN order : order[i] = order[j] => i = j
    PROVE  \A s \in S : \E i \in DOMAIN order : order[i] = s
<1> DEFINE n == Cardinality(S)
<1>1. n \in Nat
  BY FS_CardinalityType
<1>2. order \in Injection(1..n, S)
  BY DEF Injection, IsInjective
<1>3. Cardinality(1..n) = n
  BY <1>1, FS_Interval
<1>4. order \in Surjection(1..n, S)
  BY <1>2, <1>3, FS_Injection
<1> QED BY <1>4 DEF Surjection

\* The slot the scan is at is one of the table, and its expired peer is live.
LEMMA ExpiredIsLive ==
    ASSUME Inv, MaintainSlot
    PROVE  /\ CursorSlot \in Slots
           /\ Expired(peer_slots[CursorSlot]) => peer_slots[CursorSlot] \in Live
<1>1. CursorSlot \in Slots
  BY LimitsAssumption
  DEF MaintainSlot, MaintainContinues, CursorSlot, Slots, Inv, SlotInv, SlotTypeOK, LoopTypeOK
<1> QED BY <1>1 DEF Expired, Inv, SlotInv, SlotsMatchPeers

LEMMA ToldSame ==
    ASSUME Told, UNCHANGED <<events, known>>, LiveConnections' = LiveConnections
    PROVE  Told'
BY DEF Told

LEMMA ToldRemoved ==
    ASSUME Inv, Told, NEW a \in Live, RemovePeerAt(a), known' = known,
           events' = Append(events, EventOf("Disconnected", a))
    PROVE  Told'
<1>1. PICK e \in Event : e = EventOf("Disconnected", a)
  BY EventOfLive DEF Inv
<1>2. e.kind = "Disconnected" /\ e.conn = ConnectionOf(a)
  BY <1>1 DEF EventOf
<1>3. Tells(Append(events, e), known, LiveConnections \ {e.conn})
  BY <1>2, TellsAppend DEF Told, Inv, LoopTypeOK
<1>4. LiveConnections' = LiveConnections \ {ConnectionOf(a)}
  BY ConnectionsByRemove DEF Inv
<1> QED BY <1>1, <1>2, <1>3, <1>4 DEF Told

LEMMA ToldHeard ==
    ASSUME Inv, Told, NEW a \in Addr, NEW num \in ConnectionNumbers,
           HandleUnreliable(a, num) \/ HandlePingPong(a, num)
    PROVE  Told'
<1>1. a \in Live /\ Refresh(a) /\ phase' = phase /\ known' = known
  BY DEF HandleUnreliable, HandlePingPong, Heard, Drain
<1>2. LiveConnections' = LiveConnections
  BY <1>1, RefreshKeeps, HeardKeepsConnection, ConnectionsSame
<1>3. CASE HandleUnreliable(a, num)
  <2> DEFINE d == EventOf("Data", a)
  <2>1. d \in Event /\ d.kind = "Data" /\ events' = Append(events, d)
    BY <1>1, <1>3, EventOfLive DEF Inv, HandleUnreliable, EventOf, Event
  <2>2. PICK e \in Event : e = d
    BY <2>1
  <2>3. Tells(Append(events, e), known, LiveConnections)
    BY <2>1, <2>2, TellsAppend DEF Told, Inv, LoopTypeOK
  <2> QED BY <1>1, <1>2, <2>1, <2>2, <2>3 DEF Told
<1>4. CASE HandlePingPong(a, num)
  BY <1>1, <1>2, <1>4, ToldSame DEF HandlePingPong
<1> QED BY <1>3, <1>4

LEMMA ToldAccepted ==
    ASSUME Inv, Told, NEW a \in Addr, NEW ct \in ConnectTimes,
           NEW num \in ConnectionNumbers, ConnectAccepted(a, ct, num)
    PROVE  Told'
<1>1. /\ a \notin Live /\ CanAllocate /\ InsertPeer(a, ct, num)
      /\ events' = Append(events, NewEvent(a, ct))
      /\ phase = "drain" /\ known' = known
  BY DEF ConnectAccepted, NewEvent, NewConnection, Drain
<1>2. PICK e \in Event : e = NewEvent(a, ct)
  BY <1>1, NewEventSettled DEF InsertPeer, Inv
<1>3. e.kind = "Connected" /\ e.conn = NewConnection(a, ct)
  BY <1>2 DEF NewEvent
<1>4. Tells(Append(events, e), known, LiveConnections \cup {e.conn})
  BY <1>1, <1>3, NewConnectionIsNews, TellsAppend DEF Told, Inv, LoopTypeOK
<1>5. LiveConnections' = LiveConnections \cup {NewConnection(a, ct)}
  BY <1>1, ConnectionsByInsert DEF Inv
<1> QED BY <1>1, <1>2, <1>3, <1>4, <1>5 DEF Told

LEMMA ToldReplaced ==
    ASSUME Inv, Told, NEW a \in Addr, NEW ct \in ConnectTimes,
           NEW num \in ConnectionNumbers, ConnectReplaces(a, ct, num)
    PROVE  Told'
<1>1. a \in Live /\ phase = "drain" /\ known' = known
  BY DEF ConnectReplaces, Drain
<1>2. CASE ~CanAllocate
  BY <1>1, <1>2, ToldRemoved DEF ConnectReplaces
<1>3. CASE CanAllocate
  <2>1. /\ ReplacePeer(a, ct, num)
        /\ events' = events \o <<EventOf("Disconnected", a), NewEvent(a, ct)>>
    BY <1>3 DEF ConnectReplaces, NewEvent, NewConnection
  <2>2. PICK e \in Event : e = EventOf("Disconnected", a)
    BY <1>1, EventOfLive DEF Inv
  <2>3. e.kind = "Disconnected" /\ e.conn = ConnectionOf(a)
    BY <2>2 DEF EventOf
  <2>4. PICK f \in Event : f = NewEvent(a, ct)
    BY <1>3, <2>1, NewEventSettled DEF ReplacePeer, Inv
  <2>5. f.kind = "Connected" /\ f.conn = NewConnection(a, ct)
    BY <2>4 DEF NewEvent
  <2>6. events \in Seq(Event) /\ Append(events, e) \in Seq(Event)
    BY DEF Inv, LoopTypeOK
  <2>7. events' = Append(Append(events, e), f)
    BY <2>1, <2>2, <2>4, <2>6
  <2>8. Tells(Append(events, e), known, LiveConnections \ {e.conn})
    BY <2>3, <2>6, TellsAppend DEF Told
  <2>9. /\ f.conn \notin known
        /\ ~Reports(Append(events, e), "Connected", f.conn)
        /\ ~Reports(Append(events, e), "Disconnected", f.conn)
    <3>1. NewConnection(a, ct) # ConnectionOf(a)
      BY <1>1, <1>3, AllocatedIsVacant, LivePeer DEF Inv, NewConnection, ConnectionOf
    <3> QED BY <1>1, <1>3, <2>3, <2>5, <2>6, <3>1, NewConnectionIsNews, ReportsAppend
  <2>10. Tells(Append(Append(events, e), f), known,
               (LiveConnections \ {e.conn}) \cup {f.conn})
    BY <2>5, <2>6, <2>8, <2>9, TellsAppend
  <2>11. LiveConnections' = (LiveConnections \ {e.conn}) \cup {f.conn}
    BY <1>1, <1>3, <2>1, <2>3, <2>5, ConnectionsByReplace DEF Inv
  <2> QED BY <1>1, <2>7, <2>10, <2>11 DEF Told
<1> QED BY <1>2, <1>3

\* A caller's PeerId is of the connection it means or of no one.
LEMMA KnownNamesItsPeer ==
    ASSUME Inv, Told, NEW conn \in known, PeerAddr(conn.id) # None
    PROVE  /\ conn \in LiveConnections
           /\ PeerAddr(conn.id) \in Live
           /\ conn = ConnectionOf(PeerAddr(conn.id))
<1>1. conn \in Connection /\ conn.id \in Slots
  BY DEF Inv, LoopTypeOK, Connection
<1> DEFINE a == PeerAddr(conn.id)
<1>2. a = peer_slots[conn.id] /\ a \in Live /\ peers[a].slot = conn.id
  BY <1>1 DEF PeerAddr, Live, Inv, SlotInv, SlotTypeOK
<1>3. conn \in LiveConnections
  <2>1. CASE conn \in LiveConnections
    BY <2>1
  <2>2. CASE KeepsId(conn)
    BY <1>1, <1>2, <2>2, LiveConnection DEF KeepsId, Inv
  <2> QED BY <1>1, <2>1, <2>2, ToldKeepsId
<1>4. conn = ConnectionOf(a)
  <2>1. ConnectionOf(a) \in LiveConnections /\ ConnectionOf(a).id = conn.id
    BY <1>2 DEF LiveConnections, ConnectionOf
  <2> QED BY <1>3, <2>1, OneConnectionPerId DEF Inv
<1> QED BY <1>2, <1>3, <1>4

LEMMA ToldLocalDisconnect ==
    ASSUME Inv, Told, NEW conn \in known, LocalDisconnect(conn)
    PROVE  Told'
<1>1. known' = known \ {conn} /\ events' = events /\ conn \in Connection
  BY DEF LocalDisconnect, Inv, LoopTypeOK
<1>2. LiveConnections' = LiveConnections \ {conn}
  <2>1. CASE PeerAddr(conn.id) = None
    <3>1. LiveConnections' = LiveConnections
      BY <2>1 DEF LocalDisconnect, LiveConnections, Live, ConnectionOf, slotVars
    <3>2. conn \notin LiveConnections
      <4> SUFFICES ASSUME conn \in LiveConnections PROVE FALSE
        OBVIOUS
      <4>1. conn.addr \in Live /\ peers[conn.addr].slot = conn.id
        BY <1>1, LiveConnection DEF Inv
      <4>2. PeerAddr(conn.id) = conn.addr /\ conn.addr # None
        BY <4>1, LivePeer DEF PeerAddr, Inv, Live
      <4> QED BY <2>1, <4>2
    <3> QED BY <3>1, <3>2
  <2>2. CASE PeerAddr(conn.id) # None
    BY <2>2, KnownNamesItsPeer, ConnectionsByRemove DEF LocalDisconnect, Inv
  <2> QED BY <2>1, <2>2
<1>3. ~Reports(events, "Connected", conn)
  BY DEF Told, Tells
<1> QED BY <1>1, <1>2, <1>3 DEF Told, Tells

LEMMA ToldShutdown == Inv /\ Told /\ Shutdown => Told'
<1> SUFFICES ASSUME Inv, Told, Shutdown PROVE Told'
  OBVIOUS
<1>1. events = <<>> /\ phase = "idle" /\ known' = known
  BY DEF Inv, BatchKeepsIds, Shutdown
<1>2. \A kind, c : ~Reports(events, kind, c)
  BY <1>1 DEF Reports
<1>3. known = LiveConnections
  BY <1>2, LiveConnection DEF Told, Tells, Inv, LoopTypeOK
<1>4. LiveConnections' = {}
  BY DEF Shutdown, LiveConnections, Live
<1>5. PICK order \in [1..Cardinality(Live) -> Live] :
         /\ \A i, j \in DOMAIN order : order[i] = order[j] => i = j
         /\ events' = [i \in DOMAIN order |-> EventOf("Disconnected", order[i])]
  BY DEF Shutdown
<1>6. \A a \in Live : \E i \in DOMAIN order : order[i] = a
  BY <1>5, LiveFinite, OrderVisitsAll
<1>7. DOMAIN events' = DOMAIN order
        /\ \A i \in DOMAIN order : /\ events'[i].kind = "Disconnected"
                                   /\ events'[i].conn = ConnectionOf(order[i])
  BY <1>5 DEF EventOf
<1>8. \A c \in LiveConnections : Reports(events', "Disconnected", c)
  BY <1>6, <1>7 DEF LiveConnections, Reports
<1>9. \A c : ~Reports(events', "Connected", c)
  BY <1>7 DEF Reports
<1>10. \A i \in DOMAIN events' : events'[i].kind # "Connected"
  BY <1>7
<1> QED BY <1>1, <1>3, <1>4, <1>8, <1>9, <1>10 DEF Told, Tells

LEMMA ToldNext == Inv /\ Told /\ [Next]_vars => Told'
<1> SUFFICES ASSUME Inv, Told, [Next]_vars PROVE Told'
  OBVIOUS
<1>1. ASSUME UNCHANGED <<peers, events, known>> PROVE Told'
  BY <1>1, ToldSame DEF LiveConnections, Live, ConnectionOf
<1>2. CASE PollBegin
  <2>1. Live' = Live
    <3>1. \A a \in Addr : peers[a] # None => peers[a] \in Peer
      BY DEF Inv, SlotInv, SlotTypeOK
    <3>2. \A p \in Peer : [p EXCEPT !.idle = Age(@)] \in Peer
      BY HostAssumption DEF Peer, Age
    <3> QED BY <1>2, <3>1, <3>2, NoneAssumption DEF PollBegin, Live
  <2> QED BY <1>2, <2>1, PollKeepsConnection, ConnectionsSame, ToldSame DEF PollBegin
<1>3. CASE ExpireWatermark \/ ExpireEnd \/ DrainEnd \/ MaintainEnd \/ DispatchEnd
  BY <1>1, <1>3 DEF ExpireWatermark, ExpireEnd, DrainEnd, MaintainEnd, DispatchEnd, slotVars
<1>4. CASE MaintainSlot
  <2> DEFINE a == peer_slots[CursorSlot]
  <2>1. CASE Expired(a) /\ work.timeouts < MaxPollTimeouts
    <3>1. a \in Live
      BY <1>4, <2>1, ExpiredIsLive
    <3> QED BY <1>4, <2>1, <3>1, ToldRemoved DEF MaintainSlot
  <2>2. CASE ~(Expired(a) /\ work.timeouts < MaxPollTimeouts)
    BY <1>1, <1>4, <2>2 DEF MaintainSlot, slotVars
  <2> QED BY <2>1, <2>2
<1>5. CASE Dispatch
  <2>1. LiveConnections' = LiveConnections
    BY <1>5 DEF Dispatch, slotVars, LiveConnections, Live, ConnectionOf
  <2>2. Tells(events', known', LiveConnections)
    BY <1>5, TellsTail DEF Dispatch, Told, Inv, LoopTypeOK
  <2> QED BY <2>1, <2>2 DEF Told
<1>6. ASSUME NEW a \in Addr, NEW ct \in ConnectTimes,
             NEW num \in ConnectionNumbers, Datagram(a, ct, num) PROVE Told'
  <2>1. CASE ConnectRepeats(a, ct) \/ ConnectRefused(a, ct)
    BY <1>1, <2>1 DEF ConnectRepeats, ConnectRefused, Drain, slotVars
  <2>2. CASE HandleDisconnect(a, ct, num)
    BY <2>2, ToldRemoved DEF HandleDisconnect, Heard, Drain
  <2> QED BY <1>6, <2>1, <2>2, ToldReplaced, ToldAccepted, ToldHeard DEF Datagram
<1>7. CASE DropDatagram
  BY <1>1, <1>7 DEF DropDatagram, Drain, slotVars
<1>8. ASSUME NEW conn \in known, LocalDisconnect(conn) PROVE Told'
  BY <1>8, ToldLocalDisconnect
<1>9. CASE Shutdown
  BY <1>9, ToldShutdown
<1>10. CASE UNCHANGED vars
  BY <1>1, <1>10 DEF vars, slotVars
<1> QED BY <1>2, <1>3, <1>4, <1>5, <1>6, <1>7, <1>8, <1>9, <1>10 DEF Next, PollLoop

\* Whatever the network and the caller do, the batch tells the caller exactly
\* what it does not know.
THEOREM CallerIsTold == Spec => []Told
<1>1. Init => Told
  <2> SUFFICES ASSUME Init PROVE Told
    OBVIOUS
  <2>1. \A kind, c : ~Reports(events, kind, c)
    BY DEF Init, Reports
  <2>2. LiveConnections = {}
    BY DEF Init, LiveConnections, Live
  <2> QED BY <2>1, <2>2 DEF Init, Told, Tells
<1> QED BY <1>1, ToldNext, Invariant, PTL DEF Spec

\* Between batches the server believes connected what is connected.
THEOREM CallerAlwaysAgrees == Spec => []CallerAgrees
<1>1. Inv /\ Told => CallerAgrees
  <2> SUFFICES ASSUME Inv, Told, phase = "idle" PROVE known = LiveConnections
    BY DEF CallerAgrees
  <2>1. \A kind, c : ~Reports(events, kind, c)
    BY DEF Inv, BatchKeepsIds, Reports
  <2> QED BY <2>1, LiveConnection DEF Told, Tells, Inv, LoopTypeOK
<1> QED BY <1>1, CallerIsTold, Invariant, PTL

\* disconnect(peer) never drops a connection other than the one its caller
\* was told of.
THEOREM DisconnectNamesItsPeer == Spec => []CallerNamesItsPeer
<1>1. Inv /\ Told => CallerNamesItsPeer
  BY KnownNamesItsPeer DEF CallerNamesItsPeer
<1> QED BY <1>1, CallerIsTold, Invariant, PTL

-----------------------------------------------------------------------------
(* The order of watermarks.                                                *)

\* The entry stands for a watermark of the map `marks`.
Stands(entry, marks) ==
    /\ marks[entry.addr] # None
    /\ marks[entry.addr].generation = entry.generation

\* The queue is sorted by what is left of the watermarks it stands for, and
\* generations above `g` have not been used: a stale entry stays stale.
Aged(order, marks, g) ==
    /\ \A i \in DOMAIN order : order[i].generation <= g
    /\ \A i, j \in DOMAIN order :
          i < j /\ Stands(order[i], marks) /\ Stands(order[j], marks) =>
            marks[order[i].addr].ttl <= marks[order[j].addr].ttl

OldestFirst == Aged(reconnect_watermark_order, reconnect_watermarks, next_generation)

Marks == [Addr -> Watermark \cup {None}]

\* Forgetting watermarks, or ageing all of them, keeps the order.
LEMMA AgedFewer ==
    ASSUME NEW order \in Seq(OrderEntry), NEW marks \in Marks, NEW g,
           Aged(order, marks, g), NEW less \in Marks,
           \A a \in Addr : less[a] # None =>
              marks[a] # None /\ less[a].generation = marks[a].generation,
           \A a, b \in Addr : less[a] # None /\ less[b] # None /\ marks[a].ttl <= marks[b].ttl
              => less[a].ttl <= less[b].ttl
    PROVE  Aged(order, less, g)
<1>1. \A i \in DOMAIN order : order[i].addr \in Addr
  <2>1. \A i \in DOMAIN order : order[i] \in OrderEntry
    OBVIOUS
  <2> QED BY <2>1 DEF OrderEntry
<1>2. \A i \in DOMAIN order : Stands(order[i], less) => Stands(order[i], marks)
  BY <1>1 DEF Stands
<1>3. ASSUME NEW i \in DOMAIN order, NEW j \in DOMAIN order, i < j,
             Stands(order[i], less), Stands(order[j], less)
      PROVE  less[order[i].addr].ttl <= less[order[j].addr].ttl
  <2>1. marks[order[i].addr].ttl <= marks[order[j].addr].ttl
    BY <1>2, <1>3 DEF Aged
  <2> QED BY <1>1, <1>3, <2>1 DEF Stands
<1> QED BY <1>3 DEF Aged

LEMMA AgedTail ==
    ASSUME NEW order \in Seq(OrderEntry), order # <<>>, NEW marks, NEW g, Aged(order, marks, g)
    PROVE  Aged(Tail(order), marks, g)
<1> DEFINE n == Len(order)
<1> DEFINE q == Tail(order)
<1>1. n \in Nat /\ n > 0 /\ DOMAIN order = 1..n
  BY EmptySeq
<1>2. /\ DOMAIN q = 1..(n - 1)
      /\ \A i \in 1..(n - 1) : q[i] = order[i + 1]
  BY <1>1, HeadTailProperties
<1> HIDE DEF q, n
<1>3. \A i \in DOMAIN q : i + 1 \in DOMAIN order /\ q[i] = order[i + 1]
  BY <1>1, <1>2
<1>4. \A i \in DOMAIN q : q[i].generation <= g
  BY <1>3 DEF Aged
<1>5. ASSUME NEW i \in DOMAIN q, NEW j \in DOMAIN q, i < j,
             Stands(q[i], marks), Stands(q[j], marks)
      PROVE  marks[q[i].addr].ttl <= marks[q[j].addr].ttl
  <2>1. i + 1 < j + 1
    BY <1>1, <1>2, <1>5
  <2> QED BY <1>3, <1>5, <2>1 DEF Aged
<1> QED BY <1>4, <1>5 DEF Aged, q

\* record_reconnect_watermark: the youngest, of a generation no entry has.
LEMMA AgedAppend ==
    ASSUME NEW order \in Seq(OrderEntry), NEW marks \in Marks, NEW g \in Nat,
           Aged(order, marks, g), NEW a \in Addr, NEW mark \in Watermark,
           mark.ttl = Timeout, mark.generation = g + 1
    PROVE  Aged(Append(order, [addr |-> a, generation |-> g + 1]),
                [marks EXCEPT ![a] = mark], g + 1)
<1> DEFINE n == Len(order)
<1> DEFINE entry == [addr |-> a, generation |-> g + 1]
<1> DEFINE q == Append(order, entry)
<1> DEFINE m == [marks EXCEPT ![a] = mark]
<1>1. n \in Nat /\ DOMAIN order = 1..n /\ \A i \in 1..n : order[i] \in OrderEntry
  OBVIOUS
<1>2. /\ DOMAIN q = 1..(n + 1) /\ q[n + 1] = entry
      /\ \A i \in 1..n : q[i] = order[i]
  BY <1>1, AppendProperties
<1>3. entry.addr = a /\ entry.generation = g + 1
  OBVIOUS
<1>4. \A b \in Addr : m[b] = IF b = a THEN mark ELSE marks[b]
  BY DEF Marks
<1> HIDE DEF q, n, entry, m
<1>5. \A i \in 1..n : order[i].addr \in Addr /\ order[i].generation \in Nat
                        /\ order[i].generation <= g
  BY <1>1 DEF OrderEntry, Aged
<1>6. \A i \in DOMAIN q : q[i].generation <= g + 1
  BY <1>1, <1>2, <1>3, <1>5
<1>7. \A i \in 1..n : Stands(order[i], m) =>
         order[i].addr # a /\ Stands(order[i], marks) /\ m[order[i].addr] = marks[order[i].addr]
  <2> SUFFICES ASSUME NEW i \in 1..n, Stands(order[i], m)
               PROVE  order[i].addr # a /\ Stands(order[i], marks)
                        /\ m[order[i].addr] = marks[order[i].addr]
    OBVIOUS
  <2>1. order[i].generation # g + 1
    BY <1>5
  <2>2. order[i].addr # a
    BY <1>4, <1>5, <2>1 DEF Stands
  <2> QED BY <1>4, <1>5, <2>2 DEF Stands
<1>8. \A b \in Addr : m[b] # None => m[b].ttl \in Nat /\ m[b].ttl <= Timeout
  BY <1>4, HostAssumption DEF Marks, Watermark
<1>9. ASSUME NEW i \in DOMAIN q, NEW j \in DOMAIN q, i < j,
             Stands(q[i], m), Stands(q[j], m)
      PROVE  m[q[i].addr].ttl <= m[q[j].addr].ttl
  <2>1. i \in 1..n
    BY <1>1, <1>2, <1>9
  <2>2. CASE j \in 1..n
    BY <1>1, <1>2, <1>7, <1>9, <2>1, <2>2 DEF Aged
  <2>3. CASE j = n + 1
    <3>1. m[q[j].addr].ttl = Timeout
      BY <1>2, <1>3, <1>4, <2>3
    <3>2. m[q[i].addr] # None /\ q[i].addr \in Addr
      BY <1>2, <1>5, <1>9, <2>1 DEF Stands
    <3> QED BY <1>8, <3>1, <3>2
  <2> QED BY <1>1, <1>2, <2>2, <2>3
<1> QED BY <1>6, <1>9 DEF Aged, q, m, entry

LEMMA AgedRecord ==
    ASSUME Inv, OldestFirst, NEW a \in Addr, NEW ct \in ConnectTimes, RecordWatermark(a, ct)
    PROVE  OldestFirst'
<1> DEFINE Mark(c, g) == [connect_time |-> c, ttl |-> Timeout, generation |-> g]
<1> DEFINE Entry(g) == [addr |-> a, generation |-> g]
<1>0. /\ reconnect_watermarks \in Marks /\ next_generation \in 0..MaxGeneration
      /\ reconnect_watermark_order \in Seq(OrderEntry)
      /\ Len(reconnect_watermark_order) \in Nat
  BY DEF Inv, WatermarkInv, WatermarkTypeOK, Marks
<1>1. CASE next_generation = MaxGeneration
  <2> DEFINE none == [b \in Addr |-> None]
  <2>1. /\ reconnect_watermarks' = [none EXCEPT ![a] = Mark(ct, 1)]
        /\ reconnect_watermark_order' = Append(<<>>, Entry(1))
        /\ next_generation' = 1
    BY <1>1, LimitsAssumption DEF RecordWatermark, RecordInto
  <2>2. none \in Marks /\ Aged(<<>>, none, 0) /\ <<>> \in Seq(OrderEntry)
    BY DEF Marks, Aged
  <2>m. Mark(ct, 1) \in Watermark /\ Mark(ct, 1).ttl = Timeout /\ Mark(ct, 1).generation = 1
    BY HostAssumption DEF Watermark
  <2> HIDE DEF none, Mark
  <2>3. PICK mark \in Watermark :
           mark = Mark(ct, 1) /\ mark.ttl = Timeout /\ mark.generation = 0 + 1
    BY <2>m
  <2>4. Aged(Append(<<>>, Entry(0 + 1)), [none EXCEPT ![a] = mark], 0 + 1)
    BY <2>2, <2>3, AgedAppend
  <2> QED BY <2>1, <2>3, <2>4 DEF OldestFirst
<1>2. CASE next_generation # MaxGeneration
  <2> DEFINE g == next_generation
  <2> DEFINE order == reconnect_watermark_order
  <2> DEFINE full == Len(order) = MaxPeers
  <2> DEFINE old == Head(order)
  <2> DEFINE kept == IF full /\ Current(old)
                     THEN [reconnect_watermarks EXCEPT ![old.addr] = None]
                     ELSE reconnect_watermarks
  <2> DEFINE rest == IF full THEN Tail(order) ELSE order
  <2> DEFINE c == IF kept[a] # None /\ kept[a].connect_time > ct
                  THEN kept[a].connect_time ELSE ct
  <2>1. /\ reconnect_watermarks' = [kept EXCEPT ![a] = Mark(c, g + 1)]
        /\ reconnect_watermark_order' = Append(rest, Entry(g + 1))
        /\ next_generation' = g + 1
    BY <1>2 DEF RecordWatermark, RecordInto
  <2>2. g \in Nat /\ g + 1 \in 1..MaxGeneration
    BY <1>0, <1>2, HostAssumption
  <2>3. kept \in Marks /\ \A b \in Addr : kept[b] # None => kept[b] = reconnect_watermarks[b]
    BY <1>0 DEF Marks
  <2>4. c \in ConnectTimes
    BY <2>3, NoneAssumption DEF Watermark, Marks
  <2>5. rest \in Seq(OrderEntry) /\ Aged(rest, reconnect_watermarks, g)
    <3>1. CASE full
      <4>1. order # <<>>
        BY <3>1, LimitsAssumption, EmptySeq
      <4> QED BY <1>0, <3>1, <4>1, AgedTail, HeadTailProperties DEF OldestFirst
    <3>2. CASE ~full
      BY <1>0, <3>2 DEF OldestFirst
    <3> QED BY <3>1, <3>2
  <2> HIDE DEF kept, rest, c, g
  <2>m. /\ Mark(c, g + 1) \in Watermark /\ Mark(c, g + 1).ttl = Timeout
        /\ Mark(c, g + 1).generation = g + 1
    BY <2>2, <2>4, HostAssumption DEF Watermark
  <2> HIDE DEF Mark
  <2>6. PICK mark \in Watermark :
           mark = Mark(c, g + 1) /\ mark.ttl = Timeout /\ mark.generation = g + 1
    BY <2>m
  <2>7. Aged(rest, kept, g)
    BY <1>0, <2>3, <2>5, AgedFewer
  <2>8. Aged(Append(rest, Entry(g + 1)), [kept EXCEPT ![a] = mark], g + 1)
    BY <2>2, <2>3, <2>5, <2>6, <2>7, AgedAppend
  <2> QED BY <2>1, <2>6, <2>8 DEF OldestFirst
<1> QED BY <1>1, <1>2

LEMMA AgedForget ==
    ASSUME Inv, OldestFirst, NEW a \in Addr, ForgetWatermark(a),
           UNCHANGED <<reconnect_watermark_order, next_generation>>
    PROVE  OldestFirst'
<1>1. /\ reconnect_watermarks \in Marks /\ reconnect_watermarks' \in Marks
      /\ reconnect_watermark_order \in Seq(OrderEntry)
      /\ \A b \in Addr : reconnect_watermarks'[b] # None =>
            reconnect_watermarks'[b] = reconnect_watermarks[b]
  BY DEF Inv, WatermarkInv, WatermarkTypeOK, Marks, ForgetWatermark
<1> QED BY <1>1, AgedFewer DEF OldestFirst

LEMMA AgedNext == Inv /\ Inv' /\ OldestFirst /\ [Next]_vars => OldestFirst'
<1> SUFFICES ASSUME Inv, Inv', OldestFirst, [Next]_vars PROVE OldestFirst'
  OBVIOUS
<1>1. ASSUME UNCHANGED markVars PROVE OldestFirst'
  BY <1>1 DEF OldestFirst, markVars
<1>2. /\ reconnect_watermarks \in Marks /\ reconnect_watermark_order \in Seq(OrderEntry)
      /\ reconnect_watermarks' \in Marks
  BY DEF Inv, WatermarkInv, WatermarkTypeOK, Marks
<1>3. CASE PollBegin
  <2>1. \A p \in Watermark :
           LET q == [p EXCEPT !.ttl = IF @ = 0 THEN 0 ELSE @ - 1]
           IN  /\ q.generation = p.generation
               /\ q.ttl = IF p.ttl = 0 THEN 0 ELSE p.ttl - 1
               /\ p.ttl \in Nat
    BY HostAssumption DEF Watermark
  <2>2. \A a \in Addr : reconnect_watermarks[a] # None => reconnect_watermarks[a] \in Watermark
    BY <1>2 DEF Marks
  <2>3. \A a \in Addr : reconnect_watermarks'[a] # None =>
           /\ reconnect_watermarks[a] # None
           /\ reconnect_watermarks'[a].generation = reconnect_watermarks[a].generation
           /\ reconnect_watermarks[a].ttl \in Nat
           /\ reconnect_watermarks'[a].ttl =
                IF reconnect_watermarks[a].ttl = 0 THEN 0 ELSE reconnect_watermarks[a].ttl - 1
    BY <1>3, <2>1, <2>2 DEF PollBegin
  <2>4. \A a, b \in Addr :
           /\ reconnect_watermarks'[a] # None /\ reconnect_watermarks'[b] # None
           /\ reconnect_watermarks[a].ttl <= reconnect_watermarks[b].ttl
           => reconnect_watermarks'[a].ttl <= reconnect_watermarks'[b].ttl
    BY <2>3
  <2>5. Aged(reconnect_watermark_order, reconnect_watermarks', next_generation)
    BY <1>2, <2>3, <2>4, AgedFewer DEF OldestFirst
  <2> QED BY <1>3, <2>5 DEF PollBegin, OldestFirst
<1>4. CASE ExpireWatermark
  <2>1. reconnect_watermark_order # <<>>
    BY <1>4 DEF ExpireWatermark, ExpireContinues
  <2>2. \A a \in Addr : reconnect_watermarks'[a] # None =>
           reconnect_watermarks'[a] = reconnect_watermarks[a]
    BY <1>2, <1>4 DEF ExpireWatermark, ForgetWatermark, Marks
  <2>3. /\ Aged(Tail(reconnect_watermark_order), reconnect_watermarks, next_generation)
        /\ Tail(reconnect_watermark_order) \in Seq(OrderEntry)
    BY <1>2, <2>1, AgedTail, HeadTailProperties DEF OldestFirst
  <2>4. Aged(Tail(reconnect_watermark_order), reconnect_watermarks', next_generation)
    BY <1>2, <2>2, <2>3, AgedFewer
  <2> QED BY <1>4, <2>4 DEF ExpireWatermark, OldestFirst
<1>5. ASSUME NEW a \in Addr, NEW ct \in ConnectTimes,
             NEW num \in ConnectionNumbers, Datagram(a, ct, num) PROVE OldestFirst'
  <2>1. CASE ConnectReplaces(a, ct, num)
    BY <2>1, AgedForget, AgedRecord DEF ConnectReplaces
  <2>2. CASE ConnectAccepted(a, ct, num)
    BY <2>2, AgedForget DEF ConnectAccepted
  <2>3. CASE ConnectRefused(a, ct)
    <3>1. UNCHANGED <<reconnect_watermark_order, next_generation>>
      BY <2>3 DEF ConnectRefused
    <3>2. \A b \in Addr : reconnect_watermarks'[b] # None =>
             /\ reconnect_watermarks[b] # None
             /\ reconnect_watermarks'[b].generation = reconnect_watermarks[b].generation
             /\ reconnect_watermarks'[b].ttl = reconnect_watermarks[b].ttl
      <4>1. \A b \in Addr : reconnect_watermarks[b] # None => reconnect_watermarks[b] \in Watermark
        BY <1>2 DEF Marks
      <4>2. \A p \in Watermark : LET q == [p EXCEPT !.connect_time = ct]
                                 IN  q.generation = p.generation /\ q.ttl = p.ttl
        BY DEF Watermark
      <4>3. CASE UNCHANGED reconnect_watermarks
        BY <4>3
      <4>4. CASE /\ reconnect_watermarks[a] # None
                 /\ reconnect_watermarks' = [reconnect_watermarks EXCEPT ![a] =
                                               [@ EXCEPT !.connect_time = ct]]
        <5>1. reconnect_watermarks \in [Addr -> Watermark \cup {None}]
          BY <1>2 DEF Marks
        <5>2. \A b \in Addr : b # a => reconnect_watermarks'[b] = reconnect_watermarks[b]
          BY <4>4, <5>1
        <5>3. reconnect_watermarks'[a] = [reconnect_watermarks[a] EXCEPT !.connect_time = ct]
          BY <4>4, <5>1
        <5> QED BY <4>1, <4>2, <4>4, <5>2, <5>3
      <4> QED BY <2>3, <4>3, <4>4 DEF ConnectRefused, RaiseWatermark
    <3>3. Aged(reconnect_watermark_order, reconnect_watermarks', next_generation)
      BY <1>2, <3>2, AgedFewer DEF OldestFirst
    <3> QED BY <3>1, <3>3 DEF OldestFirst
  <2>4. CASE ConnectRepeats(a, ct) \/ HandleUnreliable(a, num) \/ HandlePingPong(a, num)
             \/ HandleDisconnect(a, ct, num)
    BY <1>1, <2>4 DEF ConnectRepeats, HandleUnreliable, HandlePingPong, HandleDisconnect
  <2> QED BY <1>5, <2>1, <2>2, <2>3, <2>4 DEF Datagram
<1>6. CASE Shutdown
  BY <1>6 DEF Shutdown, OldestFirst, Aged
<1>7. CASE ExpireEnd \/ DrainEnd \/ MaintainSlot \/ MaintainEnd \/ Dispatch \/ DispatchEnd
           \/ DropDatagram
  BY <1>1, <1>7 DEF ExpireEnd, DrainEnd, MaintainSlot, MaintainEnd, Dispatch, DispatchEnd,
                    DropDatagram
<1>8. ASSUME NEW conn \in known, LocalDisconnect(conn) PROVE OldestFirst'
  BY <1>1, <1>8 DEF LocalDisconnect
<1>9. CASE UNCHANGED vars
  BY <1>1, <1>9 DEF vars
<1> QED BY <1>3, <1>4, <1>5, <1>6, <1>7, <1>8, <1>9 DEF Next, PollLoop

\* The queue of watermarks is in the order in which they expire, across
\* evictions, replaced watermarks and a wrap of the generation.
THEOREM WatermarksInOrder == Spec => []OldestFirst
<1>1. Init => OldestFirst
  BY DEF Init, OldestFirst, Aged
<1> QED BY <1>1, AgedNext, Invariant, PTL DEF Spec

\* So expire_reconnect_watermarks may stop at the first entry that is not due.
THEOREM ExpiryComplete == Spec => []NoDueWatermarkLeft
<1>1. Inv /\ OldestFirst => NoDueWatermarkLeft
  <2> SUFFICES ASSUME Inv, OldestFirst, phase = "expire", ~ExpireContinues,
                      work.steps < MaxPollCleanups,
                      NEW a \in Addr, reconnect_watermarks[a] # None
               PROVE  reconnect_watermarks[a].ttl > 0
    BY DEF NoDueWatermarkLeft
  <2> DEFINE order == reconnect_watermark_order
  <2>1. /\ order \in Seq(OrderEntry) /\ Len(order) \in Nat /\ DOMAIN order = 1..Len(order)
        /\ \A b \in Addr : reconnect_watermarks[b] # None => reconnect_watermarks[b].ttl \in Nat
    BY HostAssumption DEF Inv, WatermarkInv, WatermarkTypeOK, Watermark
  <2>2. PICK i \in DOMAIN order :
           order[i] = [addr |-> a, generation |-> reconnect_watermarks[a].generation]
    BY DEF Inv, WatermarkInv, WatermarksQueued
  <2>3. order # <<>> /\ Head(order) = order[1] /\ 1 \in DOMAIN order /\ order[1] \in OrderEntry
    BY <2>1, <2>2, EmptySeq
  <2>4. /\ Stands(order[1], reconnect_watermarks)
        /\ reconnect_watermarks[order[1].addr].ttl # 0
    BY <2>3 DEF ExpireContinues, Current, Stands
  <2>5. reconnect_watermarks[order[1].addr].ttl \in Nat
    BY <2>1, <2>3, <2>4 DEF Stands, OrderEntry
  <2>6. CASE i = 1
    BY <2>2, <2>4, <2>5, <2>6
  <2>7. CASE i # 1
    <3>1. Stands(order[i], reconnect_watermarks) /\ order[i].addr = a
      BY <2>2 DEF Stands
    <3>2. 1 < i
      BY <2>1, <2>7
    <3>3. reconnect_watermarks[order[1].addr].ttl <= reconnect_watermarks[a].ttl
      BY <2>3, <2>4, <3>1, <3>2 DEF OldestFirst, Aged
    <3> QED BY <2>1, <2>4, <2>5, <3>3
  <2> QED BY <2>6, <2>7
<1> QED BY <1>1, WatermarksInOrder, Invariant, PTL

-----------------------------------------------------------------------------
(* What an address is held to.                                             *)

\* A live peer or a watermark, never both: one connect_time.
LEMMA OneFloor ==
    ASSUME Inv, NEW a \in Addr
    PROVE  /\ a \in Live => Floor(a) = {peers[a].connect_time}
           /\ a \notin Live /\ reconnect_watermarks[a] # None =>
                Floor(a) = {reconnect_watermarks[a].connect_time}
           /\ a \notin Live /\ reconnect_watermarks[a] = None => Floor(a) = {}
           /\ Floor(a) \subseteq Int
           /\ \A x, y \in Floor(a) : x = y /\ x <= y
<1>1. a \in Live => reconnect_watermarks[a] = None
  BY DEF Inv, WatermarkInv, WatermarksQueued
<1>2. a \in Live => peers[a].connect_time \in Int
  BY LivePeer, HostAssumption DEF Inv, Peer
<1>3. reconnect_watermarks[a] # None => reconnect_watermarks[a].connect_time \in Int
  BY HostAssumption DEF Inv, WatermarkInv, WatermarkTypeOK, Watermark
<1>4. CASE a \in Live
  <2>1. Floor(a) = {peers[a].connect_time}
    BY <1>1, <1>4 DEF Floor
  <2> QED BY <1>2, <1>4, <2>1
<1>5. CASE a \notin Live /\ reconnect_watermarks[a] # None
  <2>1. Floor(a) = {reconnect_watermarks[a].connect_time}
    BY <1>5 DEF Floor
  <2> QED BY <1>3, <1>5, <2>1
<1>6. CASE a \notin Live /\ reconnect_watermarks[a] = None
  <2>1. Floor(a) = {}
    BY <1>6 DEF Floor
  <2> QED BY <1>6, <2>1
<1> QED BY <1>4, <1>5, <1>6

\* What may be asked of a step: no address is held to less.
FloorsRise == \A a \in Addr : \A x \in Floor(a), y \in Floor(a)' : x <= y

\* A step that changes no connect_time.
LEMMA FloorsFall ==
    ASSUME Inv,
           \A a \in Live' : a \in Live /\ peers'[a].connect_time = peers[a].connect_time,
           \A a \in Addr : reconnect_watermarks'[a] # None =>
              /\ reconnect_watermarks[a] # None
              /\ reconnect_watermarks'[a].connect_time = reconnect_watermarks[a].connect_time
    PROVE  FloorsRise
<1>1. \A a \in Addr : Floor(a)' \subseteq Floor(a)
  BY DEF Floor
<1> QED BY <1>1, OneFloor DEF FloorsRise

\* A step that gives the address `a` the connect_time `ct`, not less than the
\* one it was held to, and changes no other.
LEMMA FloorRises ==
    ASSUME Inv, Inv', NEW a \in Addr, NEW ct \in ConnectTimes,
           \A x \in Floor(a) : x <= ct,
           \A y \in Floor(a)' : y = ct,
           \A b \in Addr \ {a} : Floor(b)' \subseteq Floor(b)
    PROVE  FloorsRise
BY OneFloor DEF FloorsRise

LEMMA FloorsNext == Inv /\ Inv' /\ [Next]_vars => FloorsRise
<1> SUFFICES ASSUME Inv, Inv', [Next]_vars PROVE FloorsRise
  OBVIOUS
<1>1. ASSUME UNCHANGED <<peers, reconnect_watermarks>> PROVE FloorsRise
  BY <1>1, FloorsFall DEF Live
<1>2. ASSUME NEW a \in Live, RemovePeerAt(a), UNCHANGED reconnect_watermarks
      PROVE  FloorsRise
  <2>1. \A b \in Live' : b \in Live /\ peers'[b] = peers[b]
    BY <1>2 DEF Live, RemovePeerAt, Inv, SlotInv, SlotTypeOK
  <2> QED BY <1>2, <2>1, FloorsFall
<1>3. CASE PollBegin
  <2>1. \A a \in Live' : a \in Live /\ peers'[a].connect_time = peers[a].connect_time
    BY <1>3, PollKeepsConnection DEF PollBegin, Live
  <2>2. \A a \in Addr : reconnect_watermarks'[a] # None =>
              /\ reconnect_watermarks[a] # None
              /\ reconnect_watermarks'[a].connect_time = reconnect_watermarks[a].connect_time
    <3>1. \A a \in Addr : reconnect_watermarks[a] # None => reconnect_watermarks[a] \in Watermark
      BY DEF Inv, WatermarkInv, WatermarkTypeOK
    <3>2. \A p \in Watermark :
             [p EXCEPT !.ttl = IF @ = 0 THEN 0 ELSE @ - 1].connect_time = p.connect_time
      BY DEF Watermark
    <3> QED BY <1>3, <3>1, <3>2 DEF PollBegin
  <2> QED BY <2>1, <2>2, FloorsFall
<1>4. CASE ExpireWatermark
  <2>1. \A a \in Addr : reconnect_watermarks'[a] # None =>
           reconnect_watermarks'[a] = reconnect_watermarks[a]
    BY <1>4 DEF ExpireWatermark, ForgetWatermark, Inv, WatermarkInv, WatermarkTypeOK
  <2> QED BY <1>4, <2>1, FloorsFall DEF ExpireWatermark, slotVars, Live
<1>5. ASSUME NEW a \in Addr, NEW ct \in ConnectTimes,
             NEW num \in ConnectionNumbers, Datagram(a, ct, num) PROVE FloorsRise
  <2>0. ct \in Int
    BY HostAssumption
  <2>1. CASE ConnectReplaces(a, ct, num) /\ CanAllocate
    <3>1. /\ a \in Live /\ ct > peers[a].connect_time
          /\ ReplacePeer(a, ct, num) /\ ForgetWatermark(a)
      BY <2>1 DEF ConnectReplaces
    <3>2. Floor(a) = {peers[a].connect_time} /\ Floor(a) \subseteq Int
      BY <3>1, OneFloor
    <3>3. /\ Live' = Live /\ peers'[a].connect_time = ct
          /\ \A b \in Addr \ {a} : peers'[b] = peers[b]
      BY <2>1, <3>1, ReplaceKeepsLimits DEF ReplacePeer, NewPeer, Inv, SlotInv, SlotTypeOK
    <3>4. /\ reconnect_watermarks'[a] = None
          /\ \A b \in Addr \ {a} : reconnect_watermarks'[b] = reconnect_watermarks[b]
      BY <3>1 DEF ForgetWatermark, Inv, WatermarkInv, WatermarkTypeOK
    <3>5. \A y \in Floor(a)' : y = ct
      BY <3>3, <3>4 DEF Floor
    <3>6. \A b \in Addr \ {a} : Floor(b)' \subseteq Floor(b)
      BY <3>3, <3>4 DEF Floor
    <3>7. \A x \in Floor(a) : x <= ct
      BY <2>0, <3>1, <3>2
    <3> QED BY <3>5, <3>6, <3>7, FloorRises
  <2>2. CASE ConnectReplaces(a, ct, num) /\ ~CanAllocate
    <3>1. /\ a \in Live /\ ct > peers[a].connect_time /\ RemovePeerAt(a) /\ RecordWatermark(a, ct)
      BY <2>2 DEF ConnectReplaces
    <3>2. Floor(a) = {peers[a].connect_time} /\ Floor(a) \subseteq Int
      BY <3>1, OneFloor
    <3>3. Live' = Live \ {a} /\ \A b \in Live' : peers'[b] = peers[b]
      BY <3>1 DEF Live, RemovePeerAt, Inv, SlotInv, SlotTypeOK
    <3>4. reconnect_watermarks[a] = None /\ reconnect_watermarks \in [Addr -> Watermark \cup {None}]
      BY <3>1 DEF Inv, WatermarkInv, WatermarksQueued, WatermarkTypeOK
    <3>5. /\ reconnect_watermarks'[a].connect_time = ct
          /\ \A b \in Addr \ {a} : reconnect_watermarks'[b] # None =>
                reconnect_watermarks'[b] = reconnect_watermarks[b]
      <4>1. CASE next_generation = MaxGeneration
        BY <3>1, <4>1, LimitsAssumption DEF RecordWatermark, RecordInto
      <4>2. CASE next_generation # MaxGeneration
        BY <3>1, <3>4, <4>2 DEF RecordWatermark, RecordInto
      <4> QED BY <4>1, <4>2
    <3>6. \A y \in Floor(a)' : y = ct
      BY <3>3, <3>5 DEF Floor
    <3>7. \A b \in Addr \ {a} : Floor(b)' \subseteq Floor(b)
      BY <3>3, <3>5 DEF Floor
    <3>8. \A x \in Floor(a) : x <= ct
      BY <2>0, <3>1, <3>2
    <3> QED BY <3>6, <3>7, <3>8, FloorRises
  <2>3. CASE ConnectAccepted(a, ct, num)
    <3>1. /\ a \notin Live /\ PassesWatermark(a, ct) /\ InsertPeer(a, ct, num) /\ ForgetWatermark(a)
      BY <2>3 DEF ConnectAccepted
    <3>2. \A x \in Floor(a) : x <= ct
      BY <2>0, <3>1, OneFloor DEF PassesWatermark
    <3>3. /\ peers'[a].connect_time = ct
          /\ \A b \in Addr \ {a} : peers'[b] = peers[b]
      BY <3>1 DEF InsertPeer, NewPeer, Inv, SlotInv, SlotTypeOK
    <3>4. /\ reconnect_watermarks'[a] = None
          /\ \A b \in Addr \ {a} : reconnect_watermarks'[b] = reconnect_watermarks[b]
      BY <3>1 DEF ForgetWatermark, Inv, WatermarkInv, WatermarkTypeOK
    <3>5. \A y \in Floor(a)' : y = ct
      BY <3>3, <3>4 DEF Floor
    <3>6. \A b \in Addr \ {a} : Floor(b)' \subseteq Floor(b)
      BY <3>3, <3>4 DEF Floor, Live
    <3> QED BY <3>2, <3>5, <3>6, FloorRises
  <2>4. CASE ConnectRefused(a, ct) /\ PassesWatermark(a, ct) /\ reconnect_watermarks[a] # None
    <3>1. /\ a \notin Live /\ RaiseWatermark(a, ct) /\ UNCHANGED peers
      BY <2>4 DEF ConnectRefused, slotVars
    <3>2. \A x \in Floor(a) : x <= ct
      BY <2>0, <2>4, <3>1, OneFloor DEF PassesWatermark
    <3>3. /\ reconnect_watermarks'[a].connect_time = ct
          /\ \A b \in Addr \ {a} : reconnect_watermarks'[b] = reconnect_watermarks[b]
      BY <2>4, <3>1 DEF RaiseWatermark, Inv, WatermarkInv, WatermarkTypeOK, Watermark
    <3>4. \A y \in Floor(a)' : y = ct
      BY <3>1, <3>3 DEF Floor, Live
    <3>5. \A b \in Addr \ {a} : Floor(b)' \subseteq Floor(b)
      BY <3>1, <3>3 DEF Floor, Live
    <3> QED BY <3>2, <3>4, <3>5, FloorRises
  <2>5. CASE ConnectRefused(a, ct) /\ ~(PassesWatermark(a, ct) /\ reconnect_watermarks[a] # None)
    BY <1>1, <2>5 DEF ConnectRefused, RaiseWatermark, slotVars
  <2>6. CASE HandleUnreliable(a, num) \/ HandlePingPong(a, num)
    <3>1. a \in Live /\ Refresh(a) /\ UNCHANGED reconnect_watermarks
      BY <2>6 DEF HandleUnreliable, HandlePingPong, Heard, markVars
    <3>2. \A b \in Live' : b \in Live /\ peers'[b].connect_time = peers[b].connect_time
      BY <3>1, RefreshKeeps, HeardKeepsConnection DEF Live, Refresh, Inv, SlotInv, SlotTypeOK
    <3> QED BY <3>1, <3>2, FloorsFall
  <2>7. CASE HandleDisconnect(a, ct, num)
    BY <1>2, <2>7 DEF HandleDisconnect, Heard, markVars
  <2>8. CASE ConnectRepeats(a, ct)
    BY <1>1, <2>8 DEF ConnectRepeats, slotVars, markVars
  <2> QED BY <1>5, <2>1, <2>2, <2>3, <2>4, <2>5, <2>6, <2>7, <2>8 DEF Datagram
<1>6. CASE MaintainSlot
  <2> DEFINE a == peer_slots[CursorSlot]
  <2>1. CASE Expired(a) /\ work.timeouts < MaxPollTimeouts
    <3>1. a \in Live
      BY <1>6, <2>1, ExpiredIsLive
    <3> QED BY <1>2, <1>6, <2>1, <3>1 DEF MaintainSlot, markVars
  <2>2. CASE ~(Expired(a) /\ work.timeouts < MaxPollTimeouts)
    BY <1>1, <1>6, <2>2 DEF MaintainSlot, slotVars, markVars
  <2> QED BY <2>1, <2>2
<1>7. ASSUME NEW conn \in known, LocalDisconnect(conn) PROVE FloorsRise
  <2> DEFINE a == PeerAddr(conn.id)
  <2>1. CASE a # None
    <3>1. conn.id \in Slots
      BY DEF Inv, LoopTypeOK, Connection
    <3>2. a \in Live
      BY <2>1, <3>1 DEF PeerAddr, Live, Inv, SlotInv, SlotTypeOK
    <3> QED BY <1>2, <1>7, <2>1, <3>2 DEF LocalDisconnect, markVars
  <2>2. CASE a = None
    BY <1>1, <1>7, <2>2 DEF LocalDisconnect, slotVars, markVars
  <2> QED BY <2>1, <2>2
<1>8. CASE Shutdown
  BY <1>8, FloorsFall DEF Shutdown, Live
<1>9. CASE ExpireEnd \/ DrainEnd \/ MaintainEnd \/ Dispatch \/ DispatchEnd \/ DropDatagram
  BY <1>1, <1>9 DEF ExpireEnd, DrainEnd, MaintainEnd, Dispatch, DispatchEnd, DropDatagram,
                    slotVars, markVars
<1>10. CASE UNCHANGED vars
  BY <1>1, <1>10 DEF vars, slotVars, markVars
<1> QED BY <1>3, <1>4, <1>5, <1>6, <1>7, <1>8, <1>9, <1>10 DEF Next, PollLoop

\* A delayed connect request never takes an address back to a connection
\* older than the one the host holds it to.
THEOREM ConnectTimesRise == Spec => ConnectTimeMonotone
<1>1. Inv /\ Inv' /\ [Next]_vars => [FloorsRise]_vars
  BY FloorsNext
<1> QED BY <1>1, Invariant, PTL DEF Spec, ConnectTimeMonotone, FloorsRise

-----------------------------------------------------------------------------
(* The host implements the pool of PeerIds.                                *)

\* The refinement mapping, named.
Owner == [s \in Slots |-> IF peer_slots[s] = None THEN None ELSE ConnectionOf(peer_slots[s])]

Polling == phase \in {"expire", "drain", "maintain"}

Batch(evs) == [i \in DOMAIN evs |->
                 [kind |-> evs[i].kind, id |-> evs[i].conn.id, conn |-> evs[i].conn]]

\* An id is lent to a connection, and to the one that holds its slot.
LEMMA OwnerOfLive ==
    ASSUME SlotInv, NEW a \in Live
    PROVE  /\ peers[a].slot \in Slots
           /\ Owner[peers[a].slot] = ConnectionOf(a)
           /\ Owner[peers[a].slot] # None
           /\ ConnectionOf(a).id = peers[a].slot
<1>1. peers[a].slot \in Slots /\ peer_slots[peers[a].slot] = a /\ a # None
  BY LivePeer
<1>2. ConnectionOf(a) # None
  BY EventOfLive, NoneAssumption
<1> QED BY <1>1, <1>2 DEF Owner, ConnectionOf

LEMMA OwnerNone ==
    ASSUME SlotInv, NEW s \in Slots
    PROVE  /\ Owner[s] = None <=> peer_slots[s] = None
           /\ Owner[s] # None => Owner[s] \in LiveConnections /\ Owner[s].id = s
<1>1. CASE peer_slots[s] = None
  BY <1>1 DEF Owner
<1>2. CASE peer_slots[s] # None
  <2>1. peer_slots[s] \in Live /\ peers[peer_slots[s]].slot = s
    BY <1>2 DEF SlotInv, SlotsMatchPeers
  <2> QED BY <1>2, <2>1, OwnerOfLive DEF LiveConnections
<1> QED BY <1>1, <1>2

LEMMA BatchAppend ==
    ASSUME NEW evs \in Seq(Event), NEW e \in Event
    PROVE  Batch(Append(evs, e)) =
             Append(Batch(evs), [kind |-> e.kind, id |-> e.conn.id, conn |-> e.conn])
<1> DEFINE n == Len(evs)
<1> DEFINE x == [kind |-> e.kind, id |-> e.conn.id, conn |-> e.conn]
<1> DEFINE l == Batch(Append(evs, e))
<1> DEFINE B == Batch(evs)
<1> DEFINE F(v) == [kind |-> v.kind, id |-> v.conn.id, conn |-> v.conn]
<1> DEFINE T == {F(v) : v \in Event}
<1>1. n \in Nat /\ DOMAIN evs = 1..n /\ \A i \in 1..n : evs[i] \in Event
  OBVIOUS
<1>2. /\ DOMAIN Append(evs, e) = 1..(n + 1) /\ Append(evs, e)[n + 1] = e
      /\ \A i \in 1..n : Append(evs, e)[i] = evs[i]
  BY <1>1, AppendProperties
<1>3. B \in [1..n -> T] /\ x \in T /\ \A i \in 1..n : B[i] = F(evs[i])
  BY <1>1 DEF Batch
<1>4. B \in Seq(T) /\ Len(B) = n
  BY <1>1, <1>3
<1>5. /\ DOMAIN Append(B, x) = 1..(n + 1) /\ Append(B, x)[n + 1] = x
      /\ \A i \in 1..n : Append(B, x)[i] = B[i]
  BY <1>3, <1>4, AppendProperties
<1>6. l = [i \in 1..(n + 1) |-> F(Append(evs, e)[i])]
  BY <1>2 DEF Batch
<1>7. Append(B, x) = [i \in 1..(n + 1) |-> Append(B, x)[i]]
  BY <1>3, <1>4, <1>5, AppendProperties
<1>8. ASSUME NEW i \in 1..(n + 1) PROVE F(Append(evs, e)[i]) = Append(B, x)[i]
  <2>1. CASE i \in 1..n
    BY <1>2, <1>3, <1>5, <2>1
  <2>2. CASE i = n + 1
    BY <1>2, <1>5, <2>2
  <2> HIDE DEF n, F, B, x
  <2>3. i \in 1..n \/ i = n + 1
    BY <1>1
  <2> QED BY <2>1, <2>2, <2>3
<1> HIDE DEF F, l
<1> QED BY <1>6, <1>7, <1>8 DEF l

\* Steps of a poll that take no part in lending ids.
LEMMA OwnerSame ==
    ASSUME SlotInv, UNCHANGED <<peers, peer_slots>> PROVE Owner' = Owner
BY DEF Owner, ConnectionOf

LEMMA OwnerAged ==
    ASSUME SlotInv, UNCHANGED peer_slots,
           \A a \in Live : /\ peers'[a].slot = peers[a].slot
                           /\ peers'[a].connect_time = peers[a].connect_time
    PROVE  Owner' = Owner
<1>1. \A s \in Slots : peer_slots[s] # None => peer_slots[s] \in Live
  BY DEF SlotInv, SlotsMatchPeers
<1>2. \A a \in Live : ConnectionOf(a)' = ConnectionOf(a)
  BY DEF ConnectionOf
<1> QED BY <1>1, <1>2 DEF Owner

\* remove_peer_at gives the id up.
LEMMA OwnerByRemove ==
    ASSUME SlotInv, NEW a \in Live, RemovePeerAt(a)
    PROVE  Owner' = [Owner EXCEPT ![peers[a].slot] = None]
<1> DEFINE o == peers[a].slot
<1>1. a \in Addr /\ o \in Slots /\ peer_slots[o] = a
  BY LivePeer
<1>2. /\ \A b \in Addr \ {a} : peers'[b] = peers[b]
      /\ \A s \in Slots : peer_slots'[s] = IF s = o THEN None ELSE peer_slots[s]
  BY <1>1 DEF RemovePeerAt, SlotInv, SlotTypeOK
<1>3. \A s \in Slots : s # o /\ peer_slots[s] # None => peer_slots[s] \in Addr \ {a}
  BY DEF SlotInv, SlotsMatchPeers, SlotTypeOK
<1>4. \A b \in Addr \ {a} : ConnectionOf(b)' = ConnectionOf(b)
  BY <1>2 DEF ConnectionOf
<1> HIDE DEF o
<1>5. ASSUME NEW s \in Slots PROVE Owner'[s] = IF s = o THEN None ELSE Owner[s]
  BY <1>2, <1>3, <1>4 DEF Owner
<1>6. Owner' = [s \in Slots |-> Owner'[s]] /\ Owner = [s \in Slots |-> Owner[s]]
  BY DEF Owner
<1> HIDE DEF Owner
<1> QED BY <1>1, <1>5, <1>6 DEF o

LEMMA OwnerByInsert ==
    ASSUME SlotInv, CanAllocate, NEW a \in Addr, a \notin Live,
           NEW ct \in ConnectTimes, NEW num \in ConnectionNumbers, InsertPeer(a, ct, num)
    PROVE  Owner' = [Owner EXCEPT ![AllocatedSlot] = NewConnection(a, ct)]
<1> DEFINE n == AllocatedSlot
<1>1. n \in Slots /\ peer_slots[n] = None /\ a # None
  BY AllocatedIsVacant, HostAssumption
<1>2. /\ \A b \in Addr : peers'[b] = IF b = a THEN NewPeer(n, ct, num) ELSE peers[b]
      /\ \A s \in Slots : peer_slots'[s] = IF s = n THEN a ELSE peer_slots[s]
  BY <1>1 DEF InsertPeer, SlotInv, SlotTypeOK
<1>3. \A s \in Slots : peer_slots[s] # None => peer_slots[s] \in Addr \ {a}
  BY DEF SlotInv, SlotsMatchPeers, SlotTypeOK
<1>4. /\ \A b \in Addr \ {a} : ConnectionOf(b)' = ConnectionOf(b)
      /\ ConnectionOf(a)' = NewConnection(a, ct)
  BY <1>2 DEF ConnectionOf, NewConnection, NewPeer
<1> HIDE DEF n
<1>5. ASSUME NEW s \in Slots PROVE Owner'[s] = IF s = n THEN NewConnection(a, ct) ELSE Owner[s]
  BY <1>1, <1>2, <1>3, <1>4 DEF Owner
<1>6. Owner' = [s \in Slots |-> Owner'[s]] /\ Owner = [s \in Slots |-> Owner[s]]
  BY DEF Owner
<1> HIDE DEF Owner
<1> QED BY <1>1, <1>5, <1>6 DEF n

LEMMA OwnerByReplace ==
    ASSUME SlotInv, CanAllocate, NEW a \in Live, NEW ct \in ConnectTimes,
           NEW num \in ConnectionNumbers, ReplacePeer(a, ct, num)
    PROVE  Owner' = [Owner EXCEPT ![peers[a].slot] = None,
                                  ![AllocatedSlot] = NewConnection(a, ct)]
<1> DEFINE n == AllocatedSlot
<1> DEFINE o == peers[a].slot
<1>1. /\ n \in Slots /\ peer_slots[n] = None /\ a # None /\ a \in Addr
      /\ o \in Slots /\ peer_slots[o] = a /\ o # n
  BY AllocatedIsVacant, LivePeer
<1>2. /\ \A b \in Addr : peers'[b] = IF b = a THEN NewPeer(n, ct, num) ELSE peers[b]
      /\ \A s \in Slots : peer_slots'[s] =
            IF s = n THEN a ELSE IF s = o THEN None ELSE peer_slots[s]
  BY <1>1 DEF ReplacePeer, SlotInv, SlotTypeOK
<1>3. \A s \in Slots : s # o /\ peer_slots[s] # None => peer_slots[s] \in Addr \ {a}
  BY DEF SlotInv, SlotsMatchPeers, SlotTypeOK
<1>4. /\ \A b \in Addr \ {a} : ConnectionOf(b)' = ConnectionOf(b)
      /\ ConnectionOf(a)' = NewConnection(a, ct)
  BY <1>1, <1>2 DEF ConnectionOf, NewConnection, NewPeer
<1> HIDE DEF n, o
<1>5. ASSUME NEW s \in Slots
      PROVE  Owner'[s] = IF s = n THEN NewConnection(a, ct) ELSE IF s = o THEN None ELSE Owner[s]
  BY <1>1, <1>2, <1>3, <1>4 DEF Owner
<1>6. Owner' = [s \in Slots |-> Owner'[s]] /\ Owner = [s \in Slots |-> Owner[s]]
  BY DEF Owner
<1> HIDE DEF Owner
<1> QED BY <1>1, <1>5, <1>6 DEF n, o

\* remove_peer_at with its event, in a poll.
LEMMA LosesId ==
    ASSUME Inv, NEW a \in Live, RemovePeerAt(a), Polling, phase' = phase,
           events' = Append(events, EventOf("Disconnected", a))
    PROVE  Pool!PoolNext
<1>0. PICK o \in Slots : o = peers[a].slot
  BY OwnerOfLive DEF Inv
<1>1. /\ Owner[o] = ConnectionOf(a) /\ Owner[o] # None
      /\ ConnectionOf(a).id = o
  BY <1>0, OwnerOfLive DEF Inv
<1>2. Owner' = [Owner EXCEPT ![o] = None] /\ Retired' = Retired \cup {o}
  BY <1>0, OwnerByRemove, RetiredByRemove DEF Inv
<1>3. PICK e \in Event : e = EventOf("Disconnected", a)
  BY EventOfLive DEF Inv
<1>4. e.kind = "Disconnected" /\ e.conn = ConnectionOf(a)
  BY <1>3 DEF EventOf
<1>5. Batch(events') = Append(Batch(events),
         [kind |-> "Disconnected", id |-> o, conn |-> ConnectionOf(a)])
  BY <1>1, <1>3, <1>4, BatchAppend DEF Inv, LoopTypeOK
<1>6. Batch(events)' = Append(Batch(events),
         [kind |-> "Disconnected", id |-> o, conn |-> Owner[o]])
  BY <1>1, <1>5 DEF Batch
<1>7. Polling /\ Polling' = Polling
  BY DEF Polling
<1>8. Pool!Lose(o)
  BY <1>1, <1>2, <1>6, <1>7 DEF Pool!Lose, Pool!Report, Owner, Polling, Batch
<1> QED BY <1>8 DEF Pool!PoolNext

LEMMA LiveSlotsConnect ==
    ASSUME Inv, CanAllocate, phase = "drain", NEW a \in Addr, NEW ct \in ConnectTimes
    PROVE  /\ NewConnection(a, ct) \in Connection
           /\ AllocatedSlot \in Slots /\ Owner[AllocatedSlot] = None
           /\ AllocatedSlot \notin Retired
           /\ \A s \in Slots : Owner[s] # NewConnection(a, ct)
<1> DEFINE n == AllocatedSlot
<1> DEFINE c == NewConnection(a, ct)
<1>1. n \in Slots /\ peer_slots[n] = None /\ n \notin Retired
  BY AllocatedIsVacant, AllocatedNotRetired DEF Inv
<1>2. c \in Connection /\ c.id = n
  BY <1>1 DEF NewConnection, Connection
<1>3. Owner[n] = None
  BY <1>1, OwnerNone DEF Inv
<1>4. c # None
  BY <1>2, NoneAssumption
<1> HIDE DEF n, c
<1>5. ASSUME NEW s \in Slots, Owner[s] = c PROVE FALSE
  <2>1. Owner[s] # None /\ Owner[s].id = s
    BY <1>4, <1>5, OwnerNone DEF Inv
  <2>2. s = n
    BY <1>2, <1>5, <2>1
  <2> QED BY <1>3, <2>1, <2>2
<1> QED BY <1>1, <1>2, <1>3, <1>5 DEF n, c

LEMMA AcceptsId ==
    ASSUME Inv, NEW a \in Addr, NEW ct \in ConnectTimes,
           NEW num \in ConnectionNumbers, ConnectAccepted(a, ct, num)
    PROVE  Pool!PoolNext
<1>1. /\ a \notin Live /\ CanAllocate /\ InsertPeer(a, ct, num) /\ phase = "drain" /\ phase' = phase
      /\ events' = Append(events, NewEvent(a, ct))
  BY DEF ConnectAccepted, NewEvent, NewConnection, Drain
<1>0. PICK n \in Slots, c \in Connection : n = AllocatedSlot /\ c = NewConnection(a, ct)
  BY <1>1, LiveSlotsConnect
<1>2. /\ Owner[n] = None /\ n \notin Retired
      /\ \A s \in Slots : Owner[s] # c
  BY <1>0, <1>1, LiveSlotsConnect
<1>3. Owner' = [Owner EXCEPT ![n] = c] /\ Retired' = Retired
  BY <1>0, <1>1, OwnerByInsert, RetiredByInsert DEF Inv, InsertPeer
<1>4. PICK e \in Event : e = NewEvent(a, ct)
  BY <1>1, NewEventSettled DEF InsertPeer, Inv
<1>5. e.kind = "Connected" /\ e.conn = c /\ c.id = n
  BY <1>0, <1>4 DEF NewEvent, NewConnection
<1>6. Batch(events') = Append(Batch(events), [kind |-> "Connected", id |-> n, conn |-> c])
  BY <1>1, <1>4, <1>5, BatchAppend DEF Inv, LoopTypeOK
<1>7. Batch(events)' = Append(Batch(events), [kind |-> "Connected", id |-> n, conn |-> c])
  BY <1>6 DEF Batch
<1>8. Polling /\ Polling' = Polling
  BY <1>1 DEF Polling
<1>9. Pool!Accept(n, c)
  BY <1>2, <1>3, <1>7, <1>8
  DEF Pool!Accept, Pool!Lendable, Pool!Connects, Pool!Report, Owner, Polling, Batch
<1> QED BY <1>9 DEF Pool!PoolNext

LEMMA ReplacesId ==
    ASSUME Inv, NEW a \in Addr, NEW ct \in ConnectTimes,
           NEW num \in ConnectionNumbers, ConnectReplaces(a, ct, num), CanAllocate
    PROVE  Pool!PoolNext
<1>1. /\ a \in Live /\ ReplacePeer(a, ct, num) /\ phase = "drain" /\ phase' = phase
      /\ events' = events \o <<EventOf("Disconnected", a), NewEvent(a, ct)>>
  BY DEF ConnectReplaces, NewEvent, NewConnection, Drain
<1>0. PICK n \in Slots, o \in Slots, c \in Connection :
         n = AllocatedSlot /\ o = peers[a].slot /\ c = NewConnection(a, ct)
  BY <1>1, LiveSlotsConnect, OwnerOfLive DEF Inv
<1>2. /\ Owner[n] = None /\ n \notin Retired
      /\ \A s \in Slots : Owner[s] # c
  BY <1>0, <1>1, LiveSlotsConnect
<1>3. /\ Owner[o] = ConnectionOf(a) /\ Owner[o] # None
      /\ ConnectionOf(a).id = o
  BY <1>0, <1>1, OwnerOfLive DEF Inv
<1>4. Owner' = [Owner EXCEPT ![o] = None, ![n] = c] /\ Retired' = Retired \cup {o}
  BY <1>0, <1>1, OwnerByReplace, RetiredByReplace DEF Inv
<1>5. PICK e \in Event : e = EventOf("Disconnected", a)
  BY <1>1, EventOfLive DEF Inv
<1>6. PICK f \in Event : f = NewEvent(a, ct)
  BY <1>1, NewEventSettled DEF ReplacePeer, Inv
<1>7. /\ e.kind = "Disconnected" /\ e.conn = ConnectionOf(a)
      /\ f.kind = "Connected" /\ f.conn = c /\ c.id = n
  BY <1>0, <1>5, <1>6 DEF EventOf, NewEvent, NewConnection
<1>8. events \in Seq(Event) /\ Append(events, e) \in Seq(Event)
  BY DEF Inv, LoopTypeOK
<1>9. events' = Append(Append(events, e), f)
  BY <1>1, <1>5, <1>6, <1>8
<1> DEFINE x == [kind |-> "Disconnected", id |-> o, conn |-> Owner[o]]
<1> DEFINE y == [kind |-> "Connected", id |-> n, conn |-> c]
<1>10. Batch(events') = Append(Append(Batch(events), x), y)
  <2>1. Batch(Append(events, e)) = Append(Batch(events), x)
    BY <1>3, <1>7, <1>8, BatchAppend
  <2>2. Batch(Append(Append(events, e), f)) = Append(Batch(Append(events, e)), y)
    BY <1>7, <1>8, BatchAppend
  <2> HIDE DEF x, y
  <2> QED BY <1>9, <2>1, <2>2
<1>11. Append(Append(Batch(events), x), y) = Batch(events) \o <<x, y>>
  <2> DEFINE F(v) == [kind |-> v.kind, id |-> v.conn.id, conn |-> v.conn]
  <2> DEFINE T == {F(v) : v \in Event} \cup {x, y}
  <2> HIDE DEF x, y
  <2>1. /\ DOMAIN events = 1..Len(events) /\ Len(events) \in Nat
        /\ \A i \in 1..Len(events) : events[i] \in Event
    BY <1>8
  <2>2. Batch(events) \in [1..Len(events) -> T] /\ x \in T /\ y \in T
    BY <2>1 DEF Batch
  <2>3. Batch(events) \in Seq(T)
    BY <2>1, <2>2
  <2> HIDE DEF T
  <2> QED BY <2>2, <2>3
<1>12. Batch(events)' = Batch(events) \o <<x, y>>
  BY <1>10, <1>11 DEF Batch
<1>13. Polling /\ Polling' = Polling
  BY <1>1 DEF Polling
<1>14. o # n
  BY <1>2, <1>3
<1>15. Pool!Replace(o, n, c)
  BY <1>2, <1>3, <1>4, <1>12, <1>13, <1>14
  DEF Pool!Replace, Pool!Lendable, Pool!Connects, Pool!Report, Owner, Polling, Batch
<1> QED BY <1>15 DEF Pool!PoolNext

LEMMA ReceivesFrom ==
    ASSUME Inv, NEW a \in Addr, NEW num \in ConnectionNumbers, HandleUnreliable(a, num)
    PROVE  Pool!PoolNext
<1>1. /\ a \in Live /\ Refresh(a) /\ phase = "drain" /\ phase' = phase
      /\ events' = Append(events, EventOf("Data", a))
  BY DEF HandleUnreliable, Heard, Drain
<1>0. PICK o \in Slots : o = peers[a].slot
  BY <1>1, OwnerOfLive DEF Inv
<1>2. /\ Owner[o] = ConnectionOf(a) /\ Owner[o] # None
      /\ ConnectionOf(a).id = o
  BY <1>0, <1>1, OwnerOfLive DEF Inv
<1>3. Owner' = Owner /\ Retired' = Retired
  BY <1>1, HeardKeepsConnection, OwnerAged DEF Inv, Refresh, Retired
<1>4. EventOf("Data", a) \in Event
  BY <1>1, EventOfLive DEF Inv, Event
<1>5. PICK e \in Event : e = EventOf("Data", a)
  BY <1>4
<1>6. e.kind = "Data" /\ e.conn = ConnectionOf(a)
  BY <1>5 DEF EventOf
<1>7. Batch(events') = Append(Batch(events),
         [kind |-> "Data", id |-> o, conn |-> ConnectionOf(a)])
  BY <1>1, <1>2, <1>5, <1>6, BatchAppend DEF Inv, LoopTypeOK
<1>8. Batch(events)' = Append(Batch(events), [kind |-> "Data", id |-> o, conn |-> Owner[o]])
  BY <1>2, <1>7 DEF Batch
<1>9. Polling /\ Polling' = Polling
  BY <1>1 DEF Polling
<1>10. Pool!Receive(o)
  BY <1>2, <1>3, <1>8, <1>9 DEF Pool!Receive, Pool!Report, Owner, Polling, Batch
<1> QED BY <1>10 DEF Pool!PoolNext

LEMMA BatchTail ==
    ASSUME NEW evs \in Seq(Event), evs # <<>>
    PROVE  Batch(Tail(evs)) = Tail(Batch(evs)) /\ Batch(evs) # <<>>
<1> DEFINE n == Len(evs)
<1> DEFINE F(v) == [kind |-> v.kind, id |-> v.conn.id, conn |-> v.conn]
<1> DEFINE T == {F(v) : v \in Event}
<1> DEFINE B == Batch(evs)
<1>1. /\ n \in Nat /\ n > 0 /\ DOMAIN evs = 1..n
      /\ \A i \in 1..n : evs[i] \in Event
  BY EmptySeq
<1>2. DOMAIN Tail(evs) = 1..(n - 1) /\ \A i \in 1..(n - 1) : Tail(evs)[i] = evs[i + 1]
  BY <1>1, HeadTailProperties
<1>3. B \in [1..n -> T] /\ \A i \in 1..n : B[i] = F(evs[i])
  BY <1>1 DEF Batch
<1>4. B \in Seq(T) /\ Len(B) = n /\ B # <<>>
  BY <1>1, <1>3, EmptySeq
<1>5. /\ Tail(B) \in Seq(T) /\ DOMAIN Tail(B) = 1..(n - 1)
      /\ \A i \in 1..(n - 1) : Tail(B)[i] = B[i + 1]
  BY <1>1, <1>4, HeadTailProperties
<1>6. Batch(Tail(evs)) \in Seq(T) /\ Len(Batch(Tail(evs))) = n - 1
        /\ \A i \in 1..(n - 1) : Batch(Tail(evs))[i] = F(Tail(evs)[i])
  <2> DEFINE C == Batch(Tail(evs))
  <2>1. \A i \in 1..(n - 1) : F(Tail(evs)[i]) \in T
    <3>1. \A i \in 1..(n - 1) : Tail(evs)[i] \in Event
      BY <1>1, <1>2
    <3> QED BY <3>1
  <2>2. C \in [1..(n - 1) -> T] /\ \A i \in 1..(n - 1) : C[i] = F(Tail(evs)[i])
    BY <1>2, <2>1 DEF Batch
  <2> DEFINE m == n - 1
  <2>3. m \in Nat /\ C \in [1..m -> T]
    BY <1>1, <2>2
  <2> HIDE DEF C, T, m
  <2>4. C \in Seq(T) /\ Len(C) = m
    BY <2>3
  <2> QED BY <2>2, <2>4 DEF C, m
<1>7. \A i \in 1..(n - 1) : Batch(Tail(evs))[i] = Tail(B)[i]
  <2> HIDE DEF n, F, B
  <2>1. \A i \in 1..(n - 1) : i + 1 \in 1..n
    BY <1>1
  <2> QED BY <1>2, <1>3, <1>5, <1>6, <2>1
<1>8. Batch(Tail(evs)) = Tail(B)
  <2> HIDE DEF n, F, B, T
  <2>1. Len(Tail(B)) = n - 1
    BY <1>1, <1>5
  <2> QED BY <1>5, <1>6, <1>7, <2>1, SeqEqual
<1> QED BY <1>4, <1>8 DEF B

\* shutdown reports the connections it drops, each once.
LEMMA ResetsPool == Inv /\ Shutdown => Pool!Reset
<1> SUFFICES ASSUME Inv, Shutdown PROVE Pool!Reset
  OBVIOUS
<1>1. events = <<>> /\ phase = "idle" /\ phase' = "dispatch"
  BY DEF Inv, BatchKeepsIds, Shutdown
<1>2. ~Polling /\ Polling' = Polling /\ Batch(events) = <<>>
  <2>1. ~Polling /\ Polling' = Polling
    BY <1>1 DEF Polling
  <2>2. Batch(events) = <<>>
    BY <1>1 DEF Batch
  <2> QED BY <2>1, <2>2
<1>3. Owner' = [id \in Slots |-> None] /\ Retired' = {}
  BY DEF Shutdown, Owner, Retired
<1> DEFINE lent == {id \in Slots : Owner[id] # None}
<1>4. PICK order \in [1..Cardinality(Live) -> Live] :
         /\ \A i, j \in DOMAIN order : order[i] = order[j] => i = j
         /\ events' = [i \in DOMAIN order |-> EventOf("Disconnected", order[i])]
  BY DEF Shutdown
<1>5. Cardinality(lent) = Cardinality(Live)
  <2> DEFINE f == [a \in Live |-> peers[a].slot]
  <2>1. f \in [Live -> lent]
    BY OwnerOfLive DEF Inv
  <2>2. \A a, b \in Live : f[a] = f[b] => a = b
    BY LivePeer DEF Inv
  <2>3. ASSUME NEW s \in lent PROVE \E a \in Live : f[a] = s
    <3>1. peer_slots[s] # None
      BY OwnerNone DEF Inv
    <3> QED BY <3>1 DEF Inv, SlotInv, SlotsMatchPeers
  <2>4. f \in Bijection(Live, lent)
    BY <2>1, <2>2, <2>3 DEF Bijection, Injection, Surjection, IsInjective
  <2>5. ExistsBijection(Live, lent)
    BY <2>4 DEF ExistsBijection
  <2> QED BY <2>5, LiveFinite, FS_Bijection
<1> DEFINE ids == [i \in DOMAIN order |-> peers[order[i]].slot]
<1>6. /\ ids \in [1..Cardinality(lent) -> lent] /\ DOMAIN ids = DOMAIN order
      /\ \A i \in DOMAIN order : ids[i] = peers[order[i]].slot /\ order[i] \in Live
  BY <1>5, OwnerOfLive DEF Inv
<1>7. \A i, j \in DOMAIN ids : ids[i] = ids[j] => i = j
  BY <1>4, <1>6, LivePeer DEF Inv
<1>8. \A i \in DOMAIN ids : Owner[ids[i]] = ConnectionOf(order[i])
                              /\ ConnectionOf(order[i]).id = ids[i]
  BY <1>6, OwnerOfLive DEF Inv
<1> HIDE DEF ids, lent
<1>9. Batch(events') =
        [i \in DOMAIN ids |-> [kind |-> "Disconnected", id |-> ids[i], conn |-> Owner[ids[i]]]]
  BY <1>4, <1>6, <1>8 DEF Batch, EventOf
<1>10. Batch(events)' =
        [i \in DOMAIN ids |-> [kind |-> "Disconnected", id |-> ids[i], conn |-> Owner[ids[i]]]]
  BY <1>9 DEF Batch
<1>11. \E by \in [1..Cardinality(lent) -> lent] :
          /\ \A i, j \in DOMAIN by : by[i] = by[j] => i = j
          /\ Batch(events)' =
               [i \in DOMAIN by |-> [kind |-> "Disconnected", id |-> by[i], conn |-> Owner[by[i]]]]
  BY <1>6, <1>7, <1>10
<1>12. Pool!Cardinality(lent) = Cardinality(lent)
  BY DEF Pool!Cardinality, Cardinality
<1> QED BY <1>2, <1>3, <1>11, <1>12 DEF Pool!Reset, Pool!Report, Owner, Polling, Batch, lent

\* Steps the pool does not see.
LEMMA PoolStutters ==
    ASSUME Owner' = Owner, Retired' = Retired, Polling' = Polling, events' = events
    PROVE  UNCHANGED Pool!poolVars
BY DEF Pool!poolVars, Owner, Polling

\* Every step of the host is a step of the pool, or none.
LEMMA PoolStep == Inv /\ Told /\ [Next]_vars => [Pool!PoolNext]_Pool!poolVars
<1> SUFFICES ASSUME Inv, Told, [Next]_vars PROVE Pool!PoolNext \/ UNCHANGED Pool!poolVars
  OBVIOUS
<1>1. ASSUME UNCHANGED slotVars, events' = events, Polling' = Polling
      PROVE  UNCHANGED Pool!poolVars
  BY <1>1, OwnerSame, PoolStutters DEF Inv, slotVars, Retired
<1>2. ASSUME NEW a \in Live, RemovePeerAt(a), Polling, phase' = phase,
             events' = Append(events, EventOf("Disconnected", a))
      PROVE  Pool!PoolNext
  BY <1>2, LosesId
<1>3. CASE PollBegin
  <2>1. phase = "idle" /\ phase' = "expire" /\ events = <<>> /\ events' = events
    BY <1>3 DEF PollBegin, Inv, BatchKeepsIds
  <2>2. Owner' = Owner
    BY <1>3, PollKeepsConnection, OwnerAged DEF Inv, PollBegin
  <2>3. Retired' = {}
    BY <1>3 DEF PollBegin, Retired, Inv, SlotInv, SlotTypeOK
  <2>4. ~Polling /\ Polling' = TRUE /\ Batch(events) = <<>> /\ Batch(events)' = Batch(events)
    <3>1. ~Polling /\ Polling' = TRUE
      BY <2>1 DEF Polling
    <3>2. Batch(events) = <<>> /\ Batch(events)' = Batch(events)
      BY <2>1 DEF Batch
    <3> QED BY <3>1, <3>2
  <2>5. Pool!Poll
    BY <2>2, <2>3, <2>4 DEF Pool!Poll, Owner, Polling, Batch
  <2> QED BY <2>5 DEF Pool!PoolNext
<1>4. CASE ExpireWatermark \/ ExpireEnd \/ DrainEnd \/ DispatchEnd
  <2>1. UNCHANGED slotVars /\ events' = events
    BY <1>4 DEF ExpireWatermark, ExpireEnd, DrainEnd, DispatchEnd
  <2>2. Polling' = Polling
    BY <1>4 DEF ExpireWatermark, ExpireEnd, DrainEnd, DispatchEnd, Polling
  <2> QED BY <1>1, <2>1, <2>2
<1>5. CASE MaintainSlot
  <2> DEFINE a == peer_slots[CursorSlot]
  <2>0. phase' = phase /\ Polling /\ Polling' = Polling
    BY <1>5 DEF MaintainSlot, Polling
  <2>1. CASE Expired(a) /\ work.timeouts < MaxPollTimeouts
    <3>1. a \in Live
      BY <1>5, <2>1, ExpiredIsLive
    <3> QED BY <1>2, <1>5, <2>0, <2>1, <3>1 DEF MaintainSlot
  <2>2. CASE ~(Expired(a) /\ work.timeouts < MaxPollTimeouts)
    BY <1>1, <1>5, <2>0, <2>2 DEF MaintainSlot
  <2> QED BY <2>1, <2>2
<1>6. CASE MaintainEnd
  <2>1. Owner' = Owner /\ Retired' = Retired /\ events' = events
    BY <1>6, OwnerSame DEF MaintainEnd, slotVars, Inv, Retired
  <2>2. Polling /\ Polling' = FALSE
    BY <1>6 DEF MaintainEnd, Polling
  <2>3. Pool!Return
    BY <2>1, <2>2 DEF Pool!Return, Owner, Polling
  <2> QED BY <2>3 DEF Pool!PoolNext
<1>7. CASE Dispatch
  <2>1. Owner' = Owner /\ Retired' = Retired /\ events' = Tail(events) /\ events # <<>>
    BY <1>7, OwnerSame DEF Dispatch, slotVars, Inv, Retired
  <2>2. ~Polling /\ Polling' = Polling
    BY <1>7 DEF Dispatch, Polling
  <2>3. Batch(events') = Tail(Batch(events)) /\ Batch(events) # <<>>
    BY <2>1, BatchTail DEF Inv, LoopTypeOK
  <2>4. Batch(events)' = Tail(Batch(events))
    BY <2>3 DEF Batch
  <2>5. Pool!Deliver
    BY <2>1, <2>2, <2>3, <2>4 DEF Pool!Deliver, Owner, Polling, Batch
  <2> QED BY <2>5 DEF Pool!PoolNext
<1>8. ASSUME NEW a \in Addr, NEW ct \in ConnectTimes,
             NEW num \in ConnectionNumbers, Datagram(a, ct, num)
      PROVE  Pool!PoolNext \/ UNCHANGED Pool!poolVars
  <2>1. CASE ConnectReplaces(a, ct, num)
    <3>1. a \in Live /\ Polling /\ phase' = phase /\ phase = "drain"
      BY <2>1 DEF ConnectReplaces, Drain, Polling
    <3>2. CASE CanAllocate
      BY <2>1, <3>2, ReplacesId
    <3>3. CASE ~CanAllocate
      BY <1>2, <2>1, <3>1, <3>3 DEF ConnectReplaces
    <3> QED BY <3>2, <3>3
  <2>2. CASE ConnectAccepted(a, ct, num)
    BY <2>2, AcceptsId
  <2>3. CASE HandleUnreliable(a, num)
    BY <2>3, ReceivesFrom
  <2>4. CASE HandlePingPong(a, num)
    <3>1. a \in Live /\ Refresh(a) /\ events' = events
      BY <2>4 DEF HandlePingPong, Heard
    <3>2. Owner' = Owner /\ Retired' = Retired
      BY <3>1, HeardKeepsConnection, OwnerAged DEF Inv, Refresh, Retired
    <3>3. Polling' = Polling
      BY <2>4 DEF HandlePingPong, Drain, Polling
    <3> QED BY <3>1, <3>2, <3>3, PoolStutters
  <2>5. CASE HandleDisconnect(a, ct, num)
    <3>1. a \in Live /\ Polling /\ phase' = phase
      BY <2>5 DEF HandleDisconnect, Heard, Drain, Polling
    <3> QED BY <1>2, <2>5, <3>1 DEF HandleDisconnect
  <2>6. CASE ConnectRepeats(a, ct) \/ ConnectRefused(a, ct)
    <3>1. UNCHANGED slotVars /\ events' = events /\ phase' = phase
      BY <2>6 DEF ConnectRepeats, ConnectRefused, Drain
    <3> QED BY <1>1, <3>1 DEF Polling
  <2> QED BY <1>8, <2>1, <2>2, <2>3, <2>4, <2>5, <2>6 DEF Datagram
<1>9. CASE DropDatagram
  BY <1>1, <1>9 DEF DropDatagram, Drain, Polling
<1>10. ASSUME NEW conn \in known, LocalDisconnect(conn)
       PROVE  Pool!PoolNext \/ UNCHANGED Pool!poolVars
  <2> DEFINE a == PeerAddr(conn.id)
  <2>0. phase = "dispatch" /\ phase' = phase /\ events' = events
    BY <1>10 DEF LocalDisconnect
  <2>1. CASE a = None
    BY <1>1, <1>10, <2>0, <2>1 DEF LocalDisconnect, Polling
  <2>2. CASE a # None
    <3>1. a \in Live /\ RemovePeerAt(a)
      BY <1>10, <2>2, KnownNamesItsPeer DEF LocalDisconnect
    <3>2. PICK o \in Slots : o = peers[a].slot /\ Owner[o] # None
      BY <3>1, OwnerOfLive DEF Inv
    <3>3. Owner' = [Owner EXCEPT ![o] = None] /\ Retired' = Retired \cup {o}
      BY <3>1, <3>2, OwnerByRemove, RetiredByRemove DEF Inv
    <3>4. ~Polling /\ Polling' = Polling
      BY <2>0 DEF Polling
    <3>5. Pool!Drop(o)
      BY <2>0, <3>2, <3>3, <3>4 DEF Pool!Drop, Pool!Vacate, Owner, Polling
    <3> QED BY <3>2, <3>5 DEF Pool!PoolNext
  <2> QED BY <2>1, <2>2
<1>11. CASE Shutdown
  BY <1>11, ResetsPool DEF Pool!PoolNext
<1>12. CASE UNCHANGED vars
  BY <1>1, <1>12 DEF vars, Polling
<1> QED BY <1>3, <1>4, <1>5, <1>6, <1>7, <1>8, <1>9, <1>10, <1>11, <1>12 DEF Next, PollLoop

\* Host implements the pool of PeerIds the server is written against.
THEOREM HostImplementsPool == Spec => ImplementsPool
<1>1. Init => Pool!PoolInit
  <2> SUFFICES ASSUME Init PROVE Pool!PoolInit
    OBVIOUS
  <2>1. Owner = [s \in Slots |-> None] /\ Retired = {}
    BY DEF Init, Owner, Retired
  <2>2. ~Polling /\ Polling = FALSE
    BY DEF Init, Polling
  <2>3. Batch(events) = <<>>
    BY DEF Init, Batch
  <2> QED BY <2>1, <2>2, <2>3 DEF Pool!PoolInit, Owner, Polling, Batch
<1> QED BY <1>1, PoolStep, Invariant, CallerIsTold, PTL DEF Spec, ImplementsPool, Pool!PoolSpec
=============================================================================
