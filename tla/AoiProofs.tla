------------------------------ MODULE AoiProofs ------------------------------
(***************************************************************************)
(* Proofs about Aoi, for every number of players and boats, every radius   *)
(* and every budget: no work is forgotten, and a cell that counts as       *)
(* delivered was delivered whole.                                          *)
(***************************************************************************)
EXTENDS Aoi, TLAPS

\* A session and a delivery have their fields.
Shape(s) ==
    /\ DOMAIN s = {"cell", "published", "waiting", "hcursor", "active"}
    /\ \A h \in s.active :
         DOMAIN h = {"cell", "pcursor", "premaining", "mcursor", "pcomplete", "sent_any"}

\* The cells that are not delivered yet.
Open(s) == s.waiting \cup {h.cell : h \in s.active}

\* What is owed is ahead of the cursor of the one delivery there is, and a
\* delivery that has sent something has told of its cell.
Delivery(s, o, t) ==
    /\ Shape(s)
    /\ Open(s) \subseteq s.published
    /\ s.published \ Open(s) \subseteq t
    /\ \A h, g \in s.active : h = g
    /\ \A h \in s.active : h.sent_any => h.cell \in t
    /\ \A r \in o :
         /\ r = <<r[1], r[2]>> /\ r[2] \in Boat \ legacy /\ moorings[r[2]] = r[1]
         /\ \E h \in s.active : r[1] = h.cell
         /\ \A h \in s.active : h.mcursor = None \/ r[2] > h.mcursor

\* The inductive invariant.
Inv ==
    /\ TypeOK
    /\ WorkIsScheduled
    /\ \A p \in Live : Delivery(sessions[p], owed[p], told[p])

LEMMA Constants ==
    /\ MaxChanges \in Nat /\ MaxMoors \in Nat /\ MaxFailures \in Nat
    /\ Boat \subseteq Nat /\ LegacyBoats \subseteq Boat
BY AoiAssumption

LEMMA InitInv == Init => Inv
<1> SUFFICES ASSUME Init PROVE Inv
  OBVIOUS
<1>1. Live = {}
  BY DEF Init, Live
<1>2. TypeOK
  BY <1>1, Constants DEF Init, TypeOK, Live
<1>3. WorkIsScheduled
  BY <1>1 DEF Init, WorkIsScheduled
<1> QED
  BY <1>1, <1>2, <1>3 DEF Inv

-----------------------------------------------------------------------------
(* The events of a poll.                                                   *)

LEMMA NewDelivery == Delivery(NewSession, {}, {})
BY DEF Delivery, Shape, Open, NewSession

LEMMA JoinInv ==
    ASSUME Inv, NEW p \in Peer, Join(p)
    PROVE  Inv'
<1> USE DEF Inv, Join
<1>1. Live' = Live \cup {p} /\ DOMAIN owed' = Live' /\ DOMAIN told' = Live'
  BY DEF Live, With, TypeOK
<1>2. /\ sessions'[p] = NewSession /\ owed'[p] = {} /\ told'[p] = {}
      /\ \A q \in Live : /\ sessions'[q] = sessions[q] /\ owed'[q] = owed[q]
                         /\ told'[q] = told[q]
  BY <1>1 DEF Live, With, TypeOK
<1>3. TypeOK'
  BY <1>1, Constants DEF TypeOK
<1>4. WorkIsScheduled'
  BY <1>1, <1>2 DEF WorkIsScheduled, HasWork, Sub, cells_in_radius
<1>5. \A q \in Live' : Delivery(sessions[q], owed[q], told[q])'
  BY <1>1, <1>2, NewDelivery DEF Delivery, Open, Shape
<1> QED
  BY <1>3, <1>4, <1>5

LEMMA LeaveInv ==
    ASSUME Inv, NEW p \in Peer, Leave(p)
    PROVE  Inv'
<1> USE DEF Inv, Leave
<1>1. Live' = Live \ {p} /\ DOMAIN owed' = Live' /\ DOMAIN told' = Live'
  BY DEF Live, Without, TypeOK
<1>2. \A q \in Live' : /\ sessions'[q] = sessions[q] /\ owed'[q] = owed[q]
                       /\ told'[q] = told[q]
  BY <1>1 DEF Live, Without, TypeOK
<1>3. TypeOK'
  BY <1>1, Constants DEF TypeOK
<1>4. WorkIsScheduled'
  BY <1>1, <1>2 DEF WorkIsScheduled, HasWork, Sub, cells_in_radius
<1>5. \A q \in Live' : Delivery(sessions[q], owed[q], told[q])'
  BY <1>1, <1>2 DEF Delivery, Open, Shape
<1> QED
  BY <1>3, <1>4, <1>5

\* A session that only moves has work if it had some or if its area changed.
LEMMA MoveInv ==
    ASSUME Inv, NEW p \in Peer, NEW cell \in Cell, Move(p, cell)
    PROVE  Inv'
<1> USE DEF Inv, Move
<1>1. Live' = Live
  BY DEF Live
<1> DEFINE s == sessions[p]
<1>2. /\ sessions'[p].cell = cell
      /\ sessions'[p].published = s.published /\ sessions'[p].waiting = s.waiting
      /\ sessions'[p].active = s.active
      /\ DOMAIN sessions'[p] = DOMAIN s
      /\ \A q \in Live \ {p} : sessions'[q] = sessions[q]
  BY DEF Live, Delivery, Shape
<1>3. TypeOK'
  BY <1>1, Constants DEF TypeOK
<1>4. WorkIsScheduled'
  BY <1>1, <1>2 DEF WorkIsScheduled, HasWork, Sub, Scheduled
<1>5. Delivery(sessions[p], owed[p], told[p])'
  BY <1>1, <1>2 DEF Delivery, Open, Shape
<1>6. \A q \in Live \ {p} : Delivery(sessions[q], owed[q], told[q])'
  BY <1>1, <1>2 DEF Delivery, Open, Shape
<1> QED
  BY <1>1, <1>3, <1>4, <1>5, <1>6

LEMMA MoorInv ==
    ASSUME Inv, NEW boat \in Boat, NEW cell \in Cell, Moor(boat, cell)
    PROVE  Inv'
<1> USE DEF Inv, Moor
<1>1. Live' = Live /\ DOMAIN owed' = Live
  BY DEF Live
<1>2. TypeOK'
  <2>1. moorings' \in [Boat -> Cell \cup {None}] /\ legacy' \subseteq Boat
    BY DEF TypeOK
  <2>2. moors' \in 0..MaxMoors
    BY Constants DEF TypeOK
  <2> QED
    BY <1>1, <2>1, <2>2 DEF TypeOK
<1>3. WorkIsScheduled'
  BY <1>1 DEF WorkIsScheduled, HasWork, Sub, cells_in_radius
<1>4. ASSUME NEW p \in Live
      PROVE  Delivery(sessions[p], owed[p], told[p])'
  <2>1. owed'[p] = {r \in owed[p] : r[2] # boat \/ r[1] = cell}
    BY <1>4
  <2>2. ASSUME NEW r \in owed'[p]
        PROVE  r[2] \in Boat \ legacy' /\ moorings'[r[2]] = r[1]
    BY <1>4, <2>1, <2>2 DEF Delivery, TypeOK
  <2> QED
    BY <1>4, <2>1, <2>2 DEF Delivery, Open, Shape
<1> QED
  BY <1>1, <1>2, <1>3, <1>4

-----------------------------------------------------------------------------
(* Work items.                                                             *)

\* An item keeps the invariant if it leaves its own session in order.
LEMMA ServedInv ==
    ASSUME Inv, NEW p \in recipients, NEW s, NEW failed \in BOOLEAN, Served(p, s, failed),
           failed => failures < MaxFailures,
           DOMAIN owed' = Live, \A q \in Live \ {p} : owed'[q] = owed[q],
           DOMAIN told' = Live, \A q \in Live \ {p} : told'[q] = told[q],
           Delivery(s, owed'[p], told'[p])
    PROVE  Inv'
<1> USE DEF Inv, Served
<1>1. p \in Live /\ p \in Peer
  BY DEF WorkIsScheduled, TypeOK
<1>2. Live' = Live /\ sessions'[p] = s /\ \A q \in Live \ {p} : sessions'[q] = sessions[q]
  BY <1>1 DEF Live
<1>3. TypeOK'
  BY <1>1, <1>2, Constants DEF TypeOK
<1>4. WorkIsScheduled'
  BY <1>1, <1>2 DEF WorkIsScheduled, NeedsMore, HasWork, Sub, cells_in_radius
<1>5. Delivery(sessions[p], owed[p], told[p])'
  BY <1>2 DEF Delivery, Open, Shape
<1>6. \A q \in Live \ {p} : Delivery(sessions[q], owed[q], told[q])'
  BY <1>2 DEF Delivery, Open, Shape
<1> QED
  BY <1>2, <1>3, <1>4, <1>5, <1>6

LEMMA SendChunkInv ==
    ASSUME Inv, NEW p \in recipients, SendChunk(p)
    PROVE  Inv'
<1> DEFINE s == sessions[p]
           gone == Removed(s)
           new == Added(s)
           t == [s EXCEPT !.published = (@ \ gone) \cup Added(s),
                          !.waiting = (@ \ gone) \cup Added(s),
                          !.active = {h \in @ : h.cell \notin gone}]
<1>1. p \in Live /\ Delivery(s, owed[p], told[p]) /\ DOMAIN owed = Live /\ DOMAIN told = Live
  BY DEF Inv, WorkIsScheduled, TypeOK
<1>2. /\ owed' = [owed EXCEPT ![p] = {r \in @ : r[1] \notin gone}]
      /\ told' = [told EXCEPT ![p] = @ \ gone]
      /\ Served(p, t, FALSE)
  BY DEF SendChunk
<1>3. owed'[p] = {r \in owed[p] : r[1] \notin gone} /\ told'[p] = told[p] \ gone
  BY <1>1, <1>2
<1>4. /\ DOMAIN t = {"cell", "published", "waiting", "hcursor", "active"}
      /\ t.published = (s.published \ gone) \cup new
      /\ t.waiting = (s.waiting \ gone) \cup new
      /\ t.active = {h \in s.active : h.cell \notin gone}
  BY <1>1 DEF Delivery, Shape
<1> HIDE DEF s, gone, new, t
<1>5. Delivery(t, owed'[p], told'[p])
  <2>1. Shape(t)
    BY <1>1, <1>4 DEF Delivery, Shape
  <2>2. Open(t) = (Open(s) \ gone) \cup new
    BY <1>4 DEF Open
  <2>3. Open(t) \subseteq t.published /\ t.published \ Open(t) \subseteq told'[p]
    BY <1>1, <1>3, <1>4, <2>2 DEF Delivery
  <2>4. /\ \A h, g \in t.active : h = g
        /\ \A h \in t.active : h.sent_any => h.cell \in told'[p]
    BY <1>1, <1>3, <1>4 DEF Delivery
  <2>5. ASSUME NEW r \in owed'[p]
        PROVE  /\ r = <<r[1], r[2]>> /\ r[2] \in Boat \ legacy /\ moorings[r[2]] = r[1]
               /\ \E h \in t.active : r[1] = h.cell
               /\ \A h \in t.active : h.mcursor = None \/ r[2] > h.mcursor
    BY <1>1, <1>3, <1>4, <2>5 DEF Delivery
  <2> QED
    BY <2>1, <2>3, <2>4, <2>5 DEF Delivery
<1>6. DOMAIN owed' = Live /\ DOMAIN told' = Live
      /\ \A q \in Live \ {p} : owed'[q] = owed[q] /\ told'[q] = told[q]
  BY <1>1, <1>2
<1> QED
  BY <1>2, <1>5, <1>6, ServedInv

\* The delivery that an item goes on with is in order, also when it begins.
LEMMA PreparedDelivery ==
    ASSUME Inv, NEW p \in Live, NEW s \in Prepared(sessions[p]), NEW h \in s.active
    PROVE  s.active = {h} /\ Delivery(s, Owed(p, h), told[p])
<1> DEFINE u == sessions[p]
<1>1. Delivery(u, owed[p], told[p])
  BY DEF Inv
<1>2. CASE u.active # {}
  <2>1. s = u /\ Owed(p, h) = owed[p]
    BY <1>2 DEF Prepared, Owed
  <2> QED
    BY <1>1, <2>1 DEF Delivery
<1>3. CASE u.active = {}
  <2>1. PICK cell \in u.waiting :
            s = [u EXCEPT !.waiting = @ \ {cell}, !.hcursor = cell, !.active = {Hydration(cell)}]
    BY <1>3 DEF Prepared
  <2>2. /\ DOMAIN s = {"cell", "published", "waiting", "hcursor", "active"}
        /\ s.published = u.published /\ s.waiting = u.waiting \ {cell}
        /\ s.active = {Hydration(cell)}
    BY <1>1, <2>1 DEF Delivery, Shape
  <2>3. h = Hydration(cell)
    BY <2>2
  <2>4. /\ DOMAIN h = {"cell", "pcursor", "premaining", "mcursor", "pcomplete", "sent_any"}
        /\ h.cell = cell /\ h.mcursor = None /\ ~h.sent_any
    BY <2>3 DEF Hydration
  <2>5. Owed(p, h) = RowsOf(cell)
    BY <1>3, <2>4 DEF Owed
  <2>6. s.active = {h}
    BY <2>2, <2>3
  <2> HIDE DEF u
  <2>7. Open(s) = Open(u)
    BY <1>3, <2>2, <2>4, <2>6 DEF Open
  <2>8. \A r \in RowsOf(cell) : /\ r = <<r[1], r[2]>> /\ r[1] = cell
                                /\ r[2] \in Boat \ legacy /\ moorings[r[2]] = r[1]
    BY DEF RowsOf
  <2>9. Shape(s)
    BY <2>2, <2>4, <2>6 DEF Shape
  <2> QED
    BY <1>1, <2>2, <2>4, <2>5, <2>6, <2>7, <2>8, <2>9 DEF Delivery
<1> QED
  BY <1>2, <1>3

\* A delivery goes on in the same cell.
LEMMA DeliveryGoesOn ==
    ASSUME NEW s, NEW h, NEW g, NEW o, NEW o2, NEW t, NEW t2,
           Delivery(s, o, t), s.active = {h},
           DOMAIN g = DOMAIN h, g.cell = h.cell, g.sent_any => h.cell \in t2,
           o2 \subseteq o, t \subseteq t2,
           \A r \in o2 : g.mcursor = None \/ r[2] > g.mcursor
    PROVE  Delivery([s EXCEPT !.active = {g}], o2, t2)
<1> DEFINE u == [s EXCEPT !.active = {g}]
<1>1. /\ DOMAIN u = DOMAIN s /\ u.published = s.published /\ u.waiting = s.waiting
      /\ u.active = {g}
  BY DEF Delivery, Shape
<1> HIDE DEF u
<1>2. Open(u) = Open(s)
  BY <1>1 DEF Open
<1>3. Shape(u)
  BY <1>1 DEF Delivery, Shape
<1>4. Delivery(u, o2, t2)
  BY <1>1, <1>2, <1>3 DEF Delivery
<1> QED
  BY <1>4 DEF u

LEMMA IdleInv ==
    ASSUME Inv, NEW p \in recipients, Idle(p)
    PROVE  Inv'
<1>1. p \in Live /\ Delivery(sessions[p], owed[p], told[p]) /\ DOMAIN owed = Live /\ DOMAIN told = Live
  BY DEF Inv, WorkIsScheduled, TypeOK
<1>2. Served(p, sessions[p], FALSE) /\ owed' = owed /\ told' = told
  BY DEF Idle
<1> QED
  BY <1>1, <1>2, ServedInv

\* The same for an item that writes down what it owes and what it told of.
LEMMA ItemInv ==
    ASSUME Inv, NEW p \in recipients, NEW s, NEW o, NEW t, Served(p, s, FALSE),
           owed' = [owed EXCEPT ![p] = o], told' = [told EXCEPT ![p] = t],
           Delivery(s, o, t)
    PROVE  Inv'
<1>1. p \in Live /\ DOMAIN owed = Live /\ DOMAIN told = Live
  BY DEF Inv, WorkIsScheduled, TypeOK
<1>2. /\ owed'[p] = o /\ told'[p] = t
      /\ DOMAIN owed' = Live /\ \A q \in Live \ {p} : owed'[q] = owed[q]
      /\ DOMAIN told' = Live /\ \A q \in Live \ {p} : told'[q] = told[q]
  BY <1>1
<1> QED
  BY <1>2, ServedInv

LEMMA PlayersSentInv ==
    ASSUME Inv, NEW p \in recipients, NEW s \in Prepared(sessions[p]), NEW h \in s.active,
           NEW last, NEW left, NEW any, PlayersSent(p, s, h, last, left, any)
    PROVE  Inv'
<1> DEFINE g == [h EXCEPT !.pcursor = last, !.premaining = left,
                          !.pcomplete = left = 0 \/ left = h.premaining,
                          !.sent_any = @ \/ any]
           t2 == IF any THEN told[p] \cup {h.cell} ELSE told[p]
<1>1. p \in Live /\ DOMAIN owed = Live /\ DOMAIN told = Live
  BY DEF Inv, WorkIsScheduled, TypeOK
<1>2. /\ Served(p, [s EXCEPT !.active = {g}], FALSE)
      /\ told' = [told EXCEPT ![p] = t2]
      /\ owed' = [owed EXCEPT ![p] = Owed(p, h)]
  BY <1>1 DEF PlayersSent
<1>3. s.active = {h} /\ Delivery(s, Owed(p, h), told[p])
  BY <1>1, PreparedDelivery
<1>4. DOMAIN g = DOMAIN h /\ g.cell = h.cell /\ g.mcursor = h.mcursor
  BY <1>3 DEF Delivery, Shape
<1>5. g.sent_any => h.cell \in t2
  BY <1>3 DEF Delivery, Shape
<1>6. \A r \in Owed(p, h) : g.mcursor = None \/ r[2] > g.mcursor
  BY <1>3, <1>4 DEF Delivery
<1>7. told[p] \subseteq t2
  OBVIOUS
<1> HIDE DEF g, t2
<1>8. Delivery([s EXCEPT !.active = {g}], Owed(p, h), t2)
  BY <1>3, <1>4, <1>5, <1>6, <1>7, DeliveryGoesOn
<1> QED
  BY <1>2, <1>8, ItemInv

LEMMA ScanPlayersInv ==
    ASSUME Inv, NEW p \in recipients, ScanPlayers(p)
    PROVE  Inv'
<1>1. PICK s \in Prepared(sessions[p]) :
        \E h \in s.active : \E last, left, any : PlayersSent(p, s, h, last, left, any)
  BY Zenon DEF ScanPlayers
<1> QED
  BY <1>1, PlayersSentInv

LEMMA QueryFailsInv ==
    ASSUME Inv, NEW p \in recipients, NEW s \in Prepared(sessions[p]), NEW h \in s.active,
           QueryFails(p, s, h)
    PROVE  Inv'
<1>1. p \in Live
  BY DEF Inv, WorkIsScheduled
<1>2. s.active = {h} /\ Delivery(s, Owed(p, h), told[p])
  BY <1>1, PreparedDelivery
<1>3. /\ failures < MaxFailures /\ Served(p, s, TRUE)
      /\ owed' = [owed EXCEPT ![p] = Owed(p, h)] /\ told' = told
  BY DEF QueryFails
<1>4. /\ owed'[p] = Owed(p, h) /\ told'[p] = told[p]
      /\ DOMAIN owed' = Live /\ \A q \in Live \ {p} : owed'[q] = owed[q]
      /\ DOMAIN told' = Live /\ \A q \in Live \ {p} : told'[q] = told[q]
  BY <1>1, <1>3 DEF Inv, TypeOK
<1> QED
  BY <1>2, <1>3, <1>4, ServedInv

\* What is owed is among the rows that are still to be read.
LEMMA OwedIsAhead ==
    ASSUME Inv, NEW p \in Live, NEW s \in Prepared(sessions[p]), NEW h \in s.active,
           NEW r \in Owed(p, h)
    PROVE  r[2] \in RowsAfter(h.cell, h.mcursor) /\ r = <<h.cell, r[2]>> /\ r[2] \notin legacy
<1>1. s.active = {h} /\ Delivery(s, Owed(p, h), told[p])
  BY PreparedDelivery
<1>2. /\ r = <<r[1], r[2]>> /\ r[2] \in Boat \ legacy /\ moorings[r[2]] = r[1]
      /\ r[1] = h.cell
      /\ h.mcursor = None \/ r[2] > h.mcursor
  BY <1>1 DEF Delivery
<1> QED
  BY <1>2 DEF RowsAfter

LEMMA CellCompleteInv ==
    ASSUME Inv, NEW p \in recipients, NEW s \in Prepared(sessions[p]), NEW h \in s.active,
           CellComplete(p, s, h)
    PROVE  Inv'
<1> DEFINE u == [s EXCEPT !.active = {}]
           t2 == IF h.sent_any THEN told[p] ELSE told[p] \cup {h.cell}
<1>1. p \in Live
  BY DEF Inv, WorkIsScheduled
<1>2. s.active = {h} /\ Delivery(s, Owed(p, h), told[p])
  BY <1>1, PreparedDelivery
<1>3. /\ RowsAfter(h.cell, h.mcursor) = {} /\ Served(p, u, FALSE)
      /\ owed' = [owed EXCEPT ![p] = Owed(p, h)]
  BY DEF CellComplete
<1>4. told' = [told EXCEPT ![p] = t2]
  BY <1>1 DEF CellComplete, Inv, TypeOK
<1>5. Owed(p, h) = {}
  BY <1>1, <1>3, OwedIsAhead
<1>6. /\ DOMAIN u = DOMAIN s /\ u.published = s.published /\ u.waiting = s.waiting
      /\ u.active = {}
  BY <1>2 DEF Delivery, Shape
<1>7. told[p] \subseteq t2 /\ h.cell \in t2
  BY <1>2 DEF Delivery
<1> HIDE DEF u, t2
<1>8. Open(u) = s.waiting /\ Open(s) = s.waiting \cup {h.cell}
  BY <1>2, <1>6 DEF Open
<1>9. Delivery(u, {}, t2)
  BY <1>2, <1>6, <1>7, <1>8 DEF Delivery, Shape
<1> QED
  BY <1>3, <1>4, <1>5, <1>9, ItemInv

LEMMA SendMooringInv ==
    ASSUME Inv, NEW p \in recipients, NEW s \in Prepared(sessions[p]), NEW h \in s.active,
           SendMooring(p, s, h)
    PROVE  Inv'
<1>1. p \in Live
  BY DEF Inv, WorkIsScheduled
<1>2. s.active = {h} /\ Delivery(s, Owed(p, h), told[p])
  BY <1>1, PreparedDelivery
<1>3. PICK row \in RowsAfter(h.cell, h.mcursor) :
        /\ \A b \in RowsAfter(h.cell, h.mcursor) : row <= b
        /\ \/ /\ row \in legacy
              /\ Served(p, [s EXCEPT !.active = {[h EXCEPT !.mcursor = row]}], FALSE)
              /\ owed' = [owed EXCEPT ![p] = Owed(p, h)]
              /\ UNCHANGED told
           \/ /\ row \notin legacy
              /\ Served(p, [s EXCEPT !.active = {[h EXCEPT !.mcursor = row, !.sent_any = TRUE]}], FALSE)
              /\ owed' = [owed EXCEPT ![p] = Owed(p, h) \ {<<h.cell, row>>}]
              /\ told' = [told EXCEPT ![p] = @ \cup {h.cell}]
  BY DEF SendMooring
<1>4. ASSUME NEW r \in Owed(p, h), r # <<h.cell, row>> \/ row \in legacy
      PROVE  r[2] > row
  <2>1. r[2] \in RowsAfter(h.cell, h.mcursor) /\ r = <<h.cell, r[2]>> /\ r[2] \notin legacy
    BY <1>1, OwedIsAhead
  <2>2. row <= r[2] /\ row # r[2]
    BY <1>3, <1>4, <2>1
  <2>3. row \in Nat /\ r[2] \in Nat
    BY <1>3, <2>1, Constants DEF RowsAfter
  <2> QED
    BY <2>2, <2>3
<1>5. CASE row \in legacy
  <2> DEFINE g == [h EXCEPT !.mcursor = row]
  <2>1. DOMAIN g = DOMAIN h /\ g.cell = h.cell /\ g.mcursor = row /\ g.sent_any = h.sent_any
    BY <1>2 DEF Delivery, Shape
  <2>2. /\ Served(p, [s EXCEPT !.active = {g}], FALSE)
        /\ owed' = [owed EXCEPT ![p] = Owed(p, h)] /\ told' = told
    BY <1>3, <1>5
  <2> HIDE DEF g
  <2>3. /\ owed'[p] = Owed(p, h) /\ told'[p] = told[p]
        /\ DOMAIN owed' = Live /\ \A q \in Live \ {p} : owed'[q] = owed[q]
        /\ DOMAIN told' = Live /\ \A q \in Live \ {p} : told'[q] = told[q]
    BY <1>1, <2>2 DEF Inv, TypeOK
  <2>4. g.sent_any => h.cell \in told[p]
    BY <1>2, <2>1 DEF Delivery
  <2>5. Delivery([s EXCEPT !.active = {g}], Owed(p, h), told[p])
    BY <1>2, <1>4, <1>5, <2>1, <2>4, DeliveryGoesOn
  <2> QED
    BY <2>2, <2>3, <2>5, ServedInv
<1>6. CASE row \notin legacy
  <2> DEFINE g == [h EXCEPT !.mcursor = row, !.sent_any = TRUE]
             o2 == Owed(p, h) \ {<<h.cell, row>>}
             t2 == told[p] \cup {h.cell}
  <2>1. DOMAIN g = DOMAIN h /\ g.cell = h.cell /\ g.mcursor = row
    BY <1>2 DEF Delivery, Shape
  <2>2. /\ Served(p, [s EXCEPT !.active = {g}], FALSE)
        /\ owed' = [owed EXCEPT ![p] = o2]
    BY <1>3, <1>6
  <2>3. told' = [told EXCEPT ![p] = t2]
    BY <1>1, <1>3, <1>6 DEF Inv, TypeOK
  <2>4. o2 \subseteq Owed(p, h) /\ told[p] \subseteq t2 /\ h.cell \in t2
    OBVIOUS
  <2>5. \A r \in o2 : r[2] > row
    BY <1>4
  <2> HIDE DEF g, o2, t2
  <2>6. Delivery([s EXCEPT !.active = {g}], o2, t2)
    BY <1>2, <2>1, <2>4, <2>5, DeliveryGoesOn
  <2> QED
    BY <2>2, <2>3, <2>6, ItemInv
<1> QED
  BY <1>5, <1>6

-----------------------------------------------------------------------------
(* The invariant, and what follows from it.                                *)

LEMMA WorkInv ==
    ASSUME Inv, Work
    PROVE  Inv'
<1>1. PICK p \in recipients : SendChunk(p) \/ Idle(p) \/ ScanPlayers(p) \/ NextMooring(p)
  BY DEF Work
<1>2. CASE NextMooring(p)
  BY <1>2, QueryFailsInv, CellCompleteInv, SendMooringInv DEF NextMooring
<1> QED
  BY <1>1, <1>2, SendChunkInv, IdleInv, ScanPlayersInv

LEMMA StutterInv ==
    ASSUME Inv, UNCHANGED vars
    PROVE  Inv'
<1> USE DEF vars, Inv
<1>1. Live' = Live
  BY DEF Live
<1>2. TypeOK' /\ WorkIsScheduled'
  BY <1>1 DEF TypeOK, WorkIsScheduled, HasWork, Sub, cells_in_radius
<1>3. \A p \in Live' : Delivery(sessions[p], owed[p], told[p])'
  BY <1>1 DEF Delivery, Open, Shape
<1> QED
  BY <1>2, <1>3

LEMMA NextInv ==
    ASSUME Inv, [Next]_vars
    PROVE  Inv'
BY JoinInv, LeaveInv, MoveInv, MoorInv, WorkInv, StutterInv DEF Next

LEMMA Invariant == Spec => []Inv
<1>1. Inv /\ [Next]_vars => Inv'
  BY NextInv
<1> QED
  BY <1>1, InitInv, PTL DEF Spec

\* The sessions, the schedule and the table of moorings keep their types, and
\* what the bounds count stays within them.
THEOREM TypeCorrect == Spec => []TypeOK
<1>1. Inv => TypeOK
  BY DEF Inv
<1> QED
  BY <1>1, Invariant, PTL

\* process_aoi_work never leaves out a session that is still owed something: not
\* after an error, not after a change of the area half way through a delivery.
THEOREM WorkAlwaysScheduled == Spec => []WorkIsScheduled
<1>1. Inv => WorkIsScheduled
  BY DEF Inv
<1> QED
  BY <1>1, Invariant, PTL

\* A cell that process_one_aoi_work has finished with was told of, and with it all
\* moorings that were there throughout: the cursor of the pages skips none.
THEOREM CellsDeliveredWhole == Spec => []DeliveredWhole
<1>1. Inv => DeliveredWhole
  BY DEF Inv, Delivery, Open, DeliveredWhole
<1> QED
  BY <1>1, Invariant, PTL
=============================================================================
