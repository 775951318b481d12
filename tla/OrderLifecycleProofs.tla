------------------------ MODULE OrderLifecycleProofs ------------------------
(***************************************************************************)
(* Proofs about the life of an order: what holds however requests          *)
(* interleave, for any number of requests, orders, records and shipments,  *)
(* and what holds when they are served one at a time.                      *)
(***************************************************************************)
EXTENDS OrderLifecycle, TLAPS

(***************************************************************************)
(* Types                                                                   *)
(***************************************************************************)
\* What a session refers to, by handler.
RefersOK(r) ==
    /\ session[r].handler \notin {"idle", "mark"} => session[r].order \in Orders
    /\ session[r].handler = "mark" => session[r].record \in Records
    /\ session[r].handler = "track" => session[r].shipment \in Shipments

TypeInv == TypeOK /\ \A r \in Requests : RefersOK(r)

\* The idle session is a session.
LEMMA IdleType == IdleSession \in Session
BY DEF IdleSession, Session

\* The first state is well typed.
LEMMA InitTypeInv == Init => TypeInv
BY IdleType
DEF Init, TypeInv, TypeOK, RefersOK, IdleSession, RecordRow, ShipmentRow

\* Ending a request keeps the sessions well formed.
LEMMA FinishType ==
    ASSUME TypeInv, NEW r \in Requests, Finish(r)
    PROVE  /\ session' \in [Requests -> Session] /\ (\A q \in Requests : RefersOK(q))'
           /\ \A q \in Requests : session'[q] = IF q = r THEN IdleSession ELSE session[q]
<1>1. /\ session' \in [Requests -> Session]
      /\ \A q \in Requests : session'[q] = IF q = r THEN IdleSession ELSE session[q]
    BY IdleType DEF Finish, TypeInv, TypeOK
<1> QED
    BY <1>1 DEF TypeInv, RefersOK, IdleSession

\* Beginning a handler records its order and the status read.
LEMMA BeginType ==
    ASSUME TypeInv, NEW r \in Requests, NEW h \in Handlers \ {"mark", "track"}, NEW o \in Orders,
           Begin(r, h, o)
    PROVE  /\ session' \in [Requests -> Session] /\ (\A q \in Requests : RefersOK(q))'
           /\ \A q \in Requests \ {r} : session'[q] = session[q]
           /\ session'[r].handler = h /\ session'[r].order = o /\ session'[r].seen = order[o]
<1>1. [IdleSession EXCEPT !.handler = h, !.order = o, !.seen = order[o]] \in Session
    BY DEF IdleSession, Session, TypeInv, TypeOK, CommittedStates
<1>2. /\ session' \in [Requests -> Session]
      /\ \A q \in Requests \ {r} : session'[q] = session[q]
      /\ session'[r] = [IdleSession EXCEPT !.handler = h, !.order = o, !.seen = order[o]]
    BY <1>1 DEF Begin, TypeInv, TypeOK
<1>3. session'[r].handler = h /\ session'[r].order = o /\ session'[r].seen = order[o]
    BY <1>2 DEF IdleSession
<1> QED
    BY <1>2, <1>3 DEF TypeInv, RefersOK, Handlers

\* Writing a status that is committed as such keeps the orders well typed.
LEMMA SetOrderType ==
    ASSUME TypeInv, NEW o \in Orders, NEW s \in CommittedStates, SetOrder(o, s)
    PROVE  /\ order' \in [Orders -> CommittedStates \cup {"ABSENT"}]
           /\ \A p \in Orders : order'[p] = IF p = o THEN s ELSE order[p]
BY DEF SetOrder, TypeInv, TypeOK

\* The steps that only read.
ReadStep(r) ==
    /\ UNCHANGED <<order, record, incidents, shipment, events, memory>>
    /\ \/ \E o \in Orders, h \in Handlers \ {"mark", "track", "request_qc"} :
             Begin(r, h, o) /\ UNCHANGED lock
       \/ \E o \in Orders : RequestQcLock(r, o)
       \/ \E q \in Records : MarkRead(r, q)
       \/ \E s \in Shipments : TrackRead(r, s)

\* Every read is one of them.
LEMMA ReadSteps == ASSUME NEW r \in Requests, Read(r) PROVE ReadStep(r)
BY DEF Read, ReadStep, ConfirmRead, RequestQcLock, InspectRead, ShipRead, SignOffRead, MarkRead,
       TrackRead, Handlers

\* Reading keeps everything well typed.
LEMMA ReadType == ASSUME TypeInv, NEW r \in Requests, ReadStep(r) PROVE TypeInv'
<1>1. ASSUME NEW o \in Orders, NEW h \in Handlers \ {"mark", "track", "request_qc"},
             Begin(r, h, o) /\ UNCHANGED lock
      PROVE  TypeInv'
    BY <1>1, BeginType DEF ReadStep, TypeInv, TypeOK
<1>2. ASSUME NEW o \in Orders, RequestQcLock(r, o) PROVE TypeInv'
  <2>1. lock' \in [Orders -> Requests \cup {None}]
      BY <1>2 DEF RequestQcLock, TypeInv, TypeOK
  <2> QED
      BY <1>2, <2>1, BeginType DEF ReadStep, RequestQcLock, TypeInv, TypeOK, Handlers
<1>3. ASSUME NEW q \in Records, MarkRead(r, q) PROVE TypeInv'
    BY <1>3 DEF MarkRead, TypeInv, TypeOK, RefersOK, IdleSession, Session, Handlers, RecordRow
<1>4. ASSUME NEW s \in Shipments, TrackRead(r, s) PROVE TypeInv'
    BY <1>4 DEF TrackRead, TypeInv, TypeOK, RefersOK, IdleSession, Session, Handlers, ShipmentRow,
                OrderStates
<1> QED
    BY <1>1, <1>2, <1>3, <1>4 DEF ReadStep

\* Recording an inspection: what happens to each row.
LEMMA InspectEffect ==
    ASSUME TypeInv, NEW r \in Requests, NEW q \in Records, NEW result \in Results,
           NEW blamed \in BOOLEAN, NEW o \in Orders, o = session[r].order,
           InspectCommit(r, q, result, blamed)
    PROVE  /\ \/ order' = order
              \/ /\ session[r].seen = "QC_PENDING"
                 /\ result = "QC_PASSED" /\ SetOrder(o, "READY_TO_SHIP")
              \/ /\ session[r].seen = "QC_PENDING"
                 /\ result = "QC_FAILED" /\ SetOrder(o, "QC_FAILED")
           /\ events' \in [Orders -> [QC_REQUESTED : Nat, QC_PASSED : Nat]]
           /\ \A p \in Orders : /\ events'[p].QC_REQUESTED = events[p].QC_REQUESTED
                                /\ events'[p].QC_PASSED >= events[p].QC_PASSED
           /\ result = "QC_PASSED" => events'[o].QC_PASSED > 0
<1>1. \/ order' = order
      \/ /\ session[r].seen = "QC_PENDING"
         /\ result = "QC_PASSED" /\ SetOrder(o, "READY_TO_SHIP")
      \/ /\ session[r].seen = "QC_PENDING"
         /\ result = "QC_FAILED" /\ SetOrder(o, "QC_FAILED")
    BY DEF InspectCommit, AfterInspection, Results
<1>2. CASE result = "QC_PASSED"
  <2>1. events' = [events EXCEPT ![o].QC_PASSED = @ + 1]
      BY <1>2 DEF InspectCommit
  <2>2. events \in [Orders -> [QC_REQUESTED : Nat, QC_PASSED : Nat]]
      BY DEF TypeInv, TypeOK
  <2>3. events' \in [Orders -> [QC_REQUESTED : Nat, QC_PASSED : Nat]]
      BY <2>1, <2>2
  <2>4. /\ \A p \in Orders \ {o} : events'[p] = events[p]
        /\ events'[o].QC_REQUESTED = events[o].QC_REQUESTED
        /\ events'[o].QC_PASSED = events[o].QC_PASSED + 1
      BY <2>1, <2>2
  <2> QED
      BY <1>1, <2>2, <2>3, <2>4
<1>3. CASE result # "QC_PASSED"
    BY <1>1, <1>3 DEF InspectCommit, TypeInv, TypeOK
<1> QED
    BY <1>2, <1>3

\* Writing keeps everything well typed.
LEMMA CommitType == ASSUME TypeInv, NEW r \in Requests, Commit(r) PROVE TypeInv'
<1>0. /\ TypeOK /\ RefersOK(r)
      /\ {"IN_PRODUCTION", "QC_PENDING", "READY_TO_SHIP", "QC_FAILED", "SHIPPED", "DELIVERED",
          "BUYER_SIGNED_OFF"} \subseteq CommittedStates
    BY DEF TypeInv, CommittedStates, OrderStates, Transient
<1>1. CASE ConfirmCommit(r)
  <2>1. Finish(r) /\ session[r].order \in Orders /\ SetOrder(session[r].order, "IN_PRODUCTION")
      BY <1>0, <1>1 DEF ConfirmCommit, Commits, RefersOK
  <2> QED
      BY <1>0, <1>1, <2>1, SetOrderType, FinishType DEF ConfirmCommit, TypeInv, TypeOK
<1>2. CASE RequestQcCommit(r)
  <2>1. Finish(r) /\ session[r].order \in Orders /\ SetOrder(session[r].order, "QC_PENDING")
      BY <1>0, <1>2 DEF RequestQcCommit, RefersOK
  <2>2. /\ events' \in [Orders -> [QC_REQUESTED : Nat, QC_PASSED : Nat]]
        /\ lock' \in [Orders -> Requests \cup {None}]
      BY <1>0, <1>2, <2>1 DEF RequestQcCommit, TypeOK
  <2> QED
      BY <1>0, <1>2, <2>1, <2>2, SetOrderType, FinishType DEF RequestQcCommit, TypeInv, TypeOK
<1>3. CASE TrackCommit(r)
  <2>1. Finish(r) /\ session[r].order \in Orders /\ SetOrder(session[r].order, "DELIVERED")
      BY <1>0, <1>3 DEF TrackCommit, Commits, RefersOK
  <2>2. shipment' \in [Shipments -> ShipmentRow]
    <3>1. PICK s \in Shipments : s = session[r].shipment
        BY <1>0, <1>3 DEF TrackCommit, Commits, RefersOK
    <3>2. PICK row \in ShipmentRow : row = shipment[s]
        BY <1>0 DEF TypeOK
    <3>3. [row EXCEPT !.arrived = TRUE] \in ShipmentRow
        BY DEF ShipmentRow
    <3> QED
        BY <1>0, <1>3, <3>1, <3>2, <3>3 DEF TrackCommit, TypeOK
  <2> QED
      BY <1>0, <1>3, <2>1, <2>2, SetOrderType, FinishType DEF TrackCommit, TypeInv, TypeOK
<1>4. CASE SignOffCommit(r)
  <2>1. Finish(r) /\ session[r].order \in Orders /\ SetOrder(session[r].order, "BUYER_SIGNED_OFF")
      BY <1>0, <1>4 DEF SignOffCommit, Commits, RefersOK
  <2>2. memory' \in [Orders -> Nat]
      BY <1>0, <1>4, <2>1 DEF SignOffCommit, TypeOK
  <2> QED
      BY <1>0, <1>4, <2>1, <2>2, SetOrderType, FinishType DEF SignOffCommit, TypeInv, TypeOK
<1>5. ASSUME NEW q \in Records, NEW result \in Results, NEW blamed \in BOOLEAN,
             InspectCommit(r, q, result, blamed)
      PROVE  TypeInv'
  <2>1. Finish(r) /\ session[r].order \in Orders
      BY <1>0, <1>5 DEF InspectCommit, Commits, RefersOK
  <2>2. /\ order' \in [Orders -> CommittedStates \cup {"ABSENT"}]
        /\ events' \in [Orders -> [QC_REQUESTED : Nat, QC_PASSED : Nat]]
      BY <1>0, <1>5, <2>1, InspectEffect, SetOrderType DEF TypeOK
  <2>3. record' \in [Records -> RecordRow] /\ incidents' \subseteq Records
      BY <1>0, <1>5, <2>1 DEF InspectCommit, TypeOK, RecordRow
  <2> QED
      BY <1>0, <1>5, <2>1, <2>2, <2>3, FinishType DEF InspectCommit, TypeInv, TypeOK
<1>6. ASSUME NEW result \in Results, MarkCommit(r, result) PROVE TypeInv'
  <2>1. record' \in [Records -> RecordRow]
      BY <1>0, <1>6 DEF MarkCommit, RefersOK, TypeOK, RecordRow
  <2> QED
      BY <1>0, <1>6, <2>1, FinishType DEF MarkCommit, TypeInv, TypeOK
<1>7. ASSUME NEW s \in Shipments, ShipCommit(r, s) PROVE TypeInv'
  <2>1. Finish(r) /\ session[r].order \in Orders /\ SetOrder(session[r].order, "SHIPPED")
      BY <1>0, <1>7 DEF ShipCommit, Commits, RefersOK
  <2>2. shipment' \in [Shipments -> ShipmentRow]
      BY <1>0, <1>7, <2>1 DEF ShipCommit, TypeOK, ShipmentRow
  <2> QED
      BY <1>0, <1>7, <2>1, <2>2, SetOrderType, FinishType DEF ShipCommit, TypeInv, TypeOK
<1> QED
    BY <1>1, <1>2, <1>3, <1>4, <1>5, <1>6, <1>7 DEF Commit

\* Placing an order and losing a request keep everything well typed.
LEMMA OtherType ==
    ASSUME TypeInv, (\E o \in Orders : PlaceOrder(o)) \/ (\E r \in Requests : Abort(r)) \/ UNCHANGED vars
    PROVE  TypeInv'
<1>0. {"IN_PRODUCTION", "DRAFT_FROM_APPROVED_QUOTE"} \subseteq CommittedStates
    BY DEF CommittedStates, OrderStates, Transient
<1>1. ASSUME NEW o \in Orders, PlaceOrder(o) PROVE TypeInv'
    BY <1>0, <1>1, SetOrderType DEF PlaceOrder, TypeInv, TypeOK, RefersOK
<1>2. ASSUME NEW r \in Requests, Abort(r) PROVE TypeInv'
    BY <1>2, FinishType DEF Abort, TypeInv, TypeOK
<1>3. CASE UNCHANGED vars
    BY <1>3 DEF vars, TypeInv, TypeOK, RefersOK
<1> QED
    BY <1>1, <1>2, <1>3

\* Every step keeps everything well typed.
LEMMA NextTypeInv == TypeInv /\ [Next]_vars => TypeInv'
BY ReadSteps, ReadType, CommitType, OtherType DEF Next

\* Type correctness: in particular no order is ever committed in a status that a
\* handler only passes through.
THEOREM TypeCorrect == Spec => []TypeOK
<1>1. TypeInv => TypeOK
    BY DEF TypeInv
<1> QED
    BY <1>1, InitTypeInv, NextTypeInv, PTL DEF Spec

(***************************************************************************)
(* Safety under any interleaving                                           *)
(*                                                                         *)
(* What a request has read may be stale when it writes, but not all of it: *)
(* evidence only grows.  Events are never withdrawn, a shipment never      *)
(* loses its order or its arrival.  So whatever evidence stood behind the  *)
(* status a request has read still stands when it writes.                  *)
(***************************************************************************)
\* The evidence behind what a request has read.
Relies(r) ==
    LET o == session[r].order IN
    /\ session[r].handler = "ship" => events[o].QC_PASSED > 0
    /\ session[r].handler = "track" => shipment[session[r].shipment].order = o
    /\ session[r].handler = "sign_off" =>
          \E s \in Shipments : shipment[s].order = o /\ shipment[s].arrived
    /\ session[r].handler = "request_qc" => lock[o] = r /\ order[o] = "IN_PRODUCTION"

IInv ==
    /\ TypeInv
    /\ \A r \in Requests : Relies(r)
    /\ ReleasedMeansInspected
    /\ ShippedMeansShipment

\* Evidence only grows.
Grows ==
    /\ \A o \in Orders : events'[o].QC_PASSED >= events[o].QC_PASSED
    /\ \A s \in Shipments : shipment[s].order # None =>
          shipment'[s].order = shipment[s].order /\ (shipment[s].arrived => shipment'[s].arrived)

\* Recording a request for inspection counts one more and moves that order only.
LEMMA RequestQcEffect ==
    ASSUME TypeInv, NEW r \in Requests, RequestQcCommit(r), NEW o \in Orders, o = session[r].order
    PROVE  /\ events'[o].QC_REQUESTED = events[o].QC_REQUESTED + 1
           /\ \A p \in Orders \ {o} : events'[p] = events[p]
           /\ \A p \in Orders : events'[p].QC_PASSED = events[p].QC_PASSED
           /\ order'[o] = "QC_PENDING"
           /\ \A p \in Orders : lock'[p] = IF p = o THEN None ELSE lock[p]
BY DEF RequestQcCommit, TypeInv, TypeOK, SetOrder

\* No commit withdraws evidence.
LEMMA CommitGrows == ASSUME TypeInv, NEW r \in Requests, Commit(r) PROVE Grows
<1>0. TypeOK /\ RefersOK(r)
    BY DEF TypeInv
<1>1. CASE ConfirmCommit(r) \/ SignOffCommit(r)
    BY <1>0, <1>1 DEF ConfirmCommit, SignOffCommit, Grows, TypeOK
<1>2. CASE RequestQcCommit(r)
    BY <1>0, <1>2, RequestQcEffect DEF RequestQcCommit, Grows, TypeOK, RefersOK
<1>3. CASE TrackCommit(r)
    BY <1>0, <1>3 DEF TrackCommit, Commits, RefersOK, Grows, TypeOK, ShipmentRow
<1>4. ASSUME NEW q \in Records, NEW result \in Results, NEW blamed \in BOOLEAN,
             InspectCommit(r, q, result, blamed)
      PROVE  Grows
    BY <1>0, <1>4, InspectEffect DEF InspectCommit, Commits, RefersOK, Grows
<1>5. ASSUME NEW result \in Results, MarkCommit(r, result) PROVE Grows
    BY <1>0, <1>5 DEF MarkCommit, Grows, TypeOK
<1>6. ASSUME NEW s \in Shipments, ShipCommit(r, s) PROVE Grows
    BY <1>0, <1>6 DEF ShipCommit, Grows, TypeOK, ShipmentRow
<1> QED
    BY <1>1, <1>2, <1>3, <1>4, <1>5, <1>6 DEF Commit

\* A commit writes no order that another request holds FOR UPDATE, and gives up no
\* lock but its own.
LEMMA CommitRespectsLocks ==
    ASSUME IInv, NEW r \in Requests, Commit(r), NEW q \in Requests \ {r},
           NEW o \in Orders, lock[o] = q
    PROVE  lock'[o] = q /\ order'[o] = order[o]
<1>0. TypeInv /\ TypeOK /\ RefersOK(r) /\ Relies(r) /\ lock[o] # None
    BY OrderLifecycleAssumption DEF IInv, TypeInv
<1>1. CASE RequestQcCommit(r)
    BY <1>0, <1>1, RequestQcEffect DEF RequestQcCommit, Relies, RefersOK, SetOrder, TypeOK
<1>2. CASE ConfirmCommit(r) \/ TrackCommit(r) \/ SignOffCommit(r)
    BY <1>0, <1>2 DEF ConfirmCommit, TrackCommit, SignOffCommit, Commits, SetOrder, TypeOK
<1>3. ASSUME NEW x \in Records, NEW result \in Results, NEW blamed \in BOOLEAN,
             InspectCommit(r, x, result, blamed)
      PROVE  lock'[o] = q /\ order'[o] = order[o]
    BY <1>0, <1>3 DEF InspectCommit, Commits, SetOrder, TypeOK
<1>4. ASSUME NEW result \in Results, MarkCommit(r, result)
      PROVE  lock'[o] = q /\ order'[o] = order[o]
    BY <1>4 DEF MarkCommit
<1>5. ASSUME NEW s \in Shipments, ShipCommit(r, s) PROVE lock'[o] = q /\ order'[o] = order[o]
    BY <1>0, <1>5 DEF ShipCommit, Commits, SetOrder, TypeOK
<1> QED
    BY <1>1, <1>2, <1>3, <1>4, <1>5 DEF Commit

\* Whatever a request relies on survives the commits of the others.
LEMMA CommitRelies ==
    ASSUME IInv, NEW r \in Requests, Commit(r), NEW q \in Requests
    PROVE  Relies(q)'
<1>0. TypeInv /\ TypeOK /\ RefersOK(q) /\ Relies(q) /\ Finish(r)
    BY DEF IInv, TypeInv, Commit, Commits, ConfirmCommit, RequestQcCommit, TrackCommit, SignOffCommit,
           InspectCommit, MarkCommit, ShipCommit
<1>1. session'[q] = IF q = r THEN IdleSession ELSE session[q]
    BY <1>0, FinishType
<1>2. CASE q = r
    BY <1>1, <1>2 DEF Relies, IdleSession
<1>3. CASE q # r
  <2>1. Grows
      BY <1>0, CommitGrows
  <2>2. session[q].handler = "request_qc" =>
           lock'[session[q].order] = q /\ order'[session[q].order] = "IN_PRODUCTION"
      BY <1>0, <1>3, CommitRespectsLocks DEF Relies, RefersOK
  <2>3. session[q].handler = "ship" => events'[session[q].order].QC_PASSED > 0
      BY <1>0, <2>1, CommitType DEF Relies, RefersOK, Grows, TypeInv, TypeOK
  <2>4. session[q].handler = "track" => shipment'[session[q].shipment].order = session[q].order
      BY <1>0, <2>1, OrderLifecycleAssumption DEF Relies, RefersOK, Grows
  <2>5. session[q].handler = "sign_off" =>
           \E s \in Shipments : shipment'[s].order = session[q].order /\ shipment'[s].arrived
      BY <1>0, <2>1, OrderLifecycleAssumption DEF Relies, RefersOK, Grows
  <2> QED
      BY <1>1, <1>3, <2>2, <2>3, <2>4, <2>5 DEF Relies
<1> QED
    BY <1>2, <1>3

\* What is on record about an order.
Handed(o) == \E s \in Shipments : shipment[s].order = o
Arrived(o) == \E s \in Shipments : shipment[s].order = o /\ shipment[s].arrived
EvidenceOK(o) ==
    /\ order[o] \in Released \/ Handed(o) => events[o].QC_PASSED > 0
    /\ order[o] \in Shipped => Handed(o)
    /\ order[o] \in {"DELIVERED", "BUYER_SIGNED_OFF"} => Arrived(o)

\* The two invariants say that every order's evidence is in place.
LEMMA EvidenceEquiv ==
    (\A o \in Orders : EvidenceOK(o)) <=> ReleasedMeansInspected /\ ShippedMeansShipment
BY DEF EvidenceOK, Handed, Arrived, ReleasedMeansInspected, ShippedMeansShipment

\* No commit leaves an order without the evidence its status stands for.
LEMMA CommitEvidence ==
    ASSUME IInv, NEW r \in Requests, Commit(r), NEW o \in Orders
    PROVE  EvidenceOK(o)'
<1>0. /\ TypeInv /\ TypeOK /\ TypeInv' /\ RefersOK(r) /\ Relies(r) /\ EvidenceOK(o) /\ Grows
      /\ (session[r].order \in Orders => EvidenceOK(session[r].order))
    BY CommitType, CommitGrows, EvidenceEquiv DEF IInv, TypeInv
<1>1. /\ Handed(o) => Handed(o)'
      /\ Arrived(o) => Arrived(o)'
      /\ events[o].QC_PASSED > 0 => events'[o].QC_PASSED > 0
  <2>1. o # None
      BY OrderLifecycleAssumption
  <2>2. /\ Handed(o) => Handed(o)'
        /\ Arrived(o) => Arrived(o)'
      BY <1>0, <2>1 DEF Grows, Handed, Arrived
  <2>3. events[o].QC_PASSED \in Nat /\ events'[o].QC_PASSED \in Nat
      BY <1>0 DEF TypeInv, TypeOK
  <2> QED
      BY <1>0, <2>2, <2>3 DEF Grows
<1>2. CASE ConfirmCommit(r)
  <2>1. order'[o] = order[o] \/ order'[o] = "IN_PRODUCTION"
      BY <1>0, <1>2 DEF ConfirmCommit, SetOrder, TypeOK
  <2> QED
      BY <1>0, <1>1, <1>2, <2>1 DEF ConfirmCommit, EvidenceOK, Handed, Arrived, Released, Shipped
<1>3. CASE RequestQcCommit(r)
  <2>1. order'[o] = order[o] \/ order'[o] = "QC_PENDING"
      BY <1>0, <1>3 DEF RequestQcCommit, SetOrder, TypeOK
  <2>2. Handed(o)' <=> Handed(o)
      BY <1>3 DEF RequestQcCommit, Handed
  <2> QED
      BY <1>0, <1>1, <2>1, <2>2 DEF EvidenceOK, Released, Shipped
<1>4. CASE TrackCommit(r)
  <2>1. session[r].shipment \in Shipments /\ session[r].order \in Orders
        /\ shipment[session[r].shipment].order = session[r].order
      BY <1>0, <1>4 DEF TrackCommit, Commits, RefersOK, Relies
  <2>2. /\ \A s \in Shipments : shipment'[s].order = shipment[s].order
        /\ shipment'[session[r].shipment].arrived
      BY <1>0, <1>4, <2>1 DEF TrackCommit, TypeOK, ShipmentRow
  <2>3. Handed(o)' <=> Handed(o)
      BY <2>2 DEF Handed
  <2>4. CASE o = session[r].order
    <3>1. order'[o] = "DELIVERED"
        BY <1>0, <1>4, <2>4 DEF TrackCommit, SetOrder, TypeOK
    <3>2. Handed(o) /\ Arrived(o)'
        BY <2>1, <2>2, <2>4 DEF Handed, Arrived
    <3> QED
        BY <1>0, <1>1, <2>3, <3>1, <3>2 DEF EvidenceOK
  <2>5. CASE o # session[r].order
    <3>1. order'[o] = order[o]
        BY <1>0, <1>4, <2>5 DEF TrackCommit, SetOrder, TypeOK
    <3> QED
        BY <1>0, <1>1, <2>3, <3>1 DEF EvidenceOK
  <2> QED
      BY <2>4, <2>5
<1>5. CASE SignOffCommit(r)
  <2>1. Handed(o)' <=> Handed(o)
      BY <1>5 DEF SignOffCommit, Handed
  <2>2. CASE o = session[r].order
    <3>1. order'[o] = "BUYER_SIGNED_OFF"
        BY <1>0, <1>5, <2>2 DEF SignOffCommit, SetOrder, TypeOK
    <3>2. Arrived(o)
        BY <1>0, <1>5, <2>2 DEF SignOffCommit, Commits, Relies, Arrived
    <3> QED
        BY <1>0, <1>1, <2>1, <3>1, <3>2 DEF EvidenceOK, Handed, Arrived
  <2>3. CASE o # session[r].order
    <3>1. order'[o] = order[o]
        BY <1>0, <1>5, <2>3 DEF SignOffCommit, SetOrder, TypeOK
    <3> QED
        BY <1>0, <1>1, <2>1, <3>1 DEF EvidenceOK
  <2> QED
      BY <2>2, <2>3
<1>6. ASSUME NEW q \in Records, NEW result \in Results, NEW blamed \in BOOLEAN,
             InspectCommit(r, q, result, blamed)
      PROVE  EvidenceOK(o)'
  <2>1. session[r].order \in Orders /\ shipment' = shipment
      BY <1>0, <1>6 DEF InspectCommit, Commits, RefersOK
  <2>2. \/ order'[o] = order[o]
        \/ order'[o] = "QC_FAILED"
        \/ order'[o] = "READY_TO_SHIP" /\ events'[o].QC_PASSED > 0
      BY <1>0, <1>6, <2>1, InspectEffect DEF SetOrder, TypeOK
  <2>3. Handed(o)' <=> Handed(o)
      BY <2>1 DEF Handed
  <2> QED
      BY <1>0, <1>1, <2>2, <2>3 DEF EvidenceOK, Released, Shipped
<1>7. ASSUME NEW result \in Results, MarkCommit(r, result) PROVE EvidenceOK(o)'
    BY <1>0, <1>7, <1>1 DEF MarkCommit, EvidenceOK, Handed
<1>8. ASSUME NEW s \in Shipments, ShipCommit(r, s) PROVE EvidenceOK(o)'
  <2>1. /\ session[r].order \in Orders
        /\ events[session[r].order].QC_PASSED > 0
      BY <1>0, <1>8 DEF ShipCommit, Commits, RefersOK, Relies
  <2>2. /\ shipment'[s].order = session[r].order
        /\ \A t \in Shipments \ {s} : shipment'[t] = shipment[t]
      BY <1>0, <1>8 DEF ShipCommit, TypeOK
  <2>3. CASE o = session[r].order
    <3>1. order'[o] = "SHIPPED"
        BY <1>0, <1>8, <2>3 DEF ShipCommit, SetOrder, TypeOK
    <3> QED
        BY <1>1, <2>1, <2>2, <2>3, <3>1 DEF EvidenceOK, Handed
  <2>4. CASE o # session[r].order
    <3>1. order'[o] = order[o]
        BY <1>0, <1>8, <2>4 DEF ShipCommit, SetOrder, TypeOK
    <3>2. Handed(o)' => Handed(o)
        BY <2>2, <2>4 DEF Handed
    <3> QED
        BY <1>0, <1>1, <3>1, <3>2 DEF EvidenceOK
  <2> QED
      BY <2>3, <2>4
<1> QED
    BY <1>2, <1>3, <1>4, <1>5, <1>6, <1>7, <1>8 DEF Commit

\* Reading changes no order and no evidence, and reads only a status whose evidence
\* is in place.
LEMMA ReadIInv == ASSUME IInv, NEW r \in Requests, Read(r), ReadStep(r) PROVE IInv'
<1>0. TypeInv /\ TypeOK /\ TypeInv' /\ \A o \in Orders : EvidenceOK(o)
    BY ReadType, EvidenceEquiv DEF IInv, TypeInv
<1>1. ReleasedMeansInspected' /\ ShippedMeansShipment'
    BY DEF IInv, ReadStep, ReleasedMeansInspected, ShippedMeansShipment
<1>2. \A q \in Requests \ {r} : session'[q] = session[q]
    BY <1>0 DEF ReadStep, Begin, RequestQcLock, MarkRead, TrackRead, TypeOK
<1>3. \A o \in Orders : lock[o] # None => lock'[o] = lock[o]
    BY <1>0 DEF ReadStep, RequestQcLock, MarkRead, TrackRead, TypeOK
<1>4. ASSUME NEW q \in Requests \ {r} PROVE Relies(q)'
  <2>1. Relies(q) /\ RefersOK(q) /\ q # None
      BY OrderLifecycleAssumption DEF IInv, TypeInv
  <2> QED
      BY <1>2, <1>3, <2>1 DEF Relies, RefersOK, ReadStep
<1>5. Relies(r)'
  <2>1. ASSUME NEW s \in Shipments, TrackRead(r, s) PROVE Relies(r)'
      BY <1>0, <2>1 DEF TrackRead, Relies, IdleSession, TypeOK
  <2>2. ASSUME NEW q \in Records, MarkRead(r, q) PROVE Relies(r)'
      BY <1>0, <2>2 DEF MarkRead, Relies, IdleSession, TypeOK
  <2>3. ASSUME NEW o \in Orders, RequestQcLock(r, o) PROVE Relies(r)'
    <3>1. order[o] = "IN_PRODUCTION"
        BY <1>0, <2>3 DEF RequestQcLock, Transition, ValidTransitions, TypeOK, CommittedStates,
                          OrderStates
    <3>2. session'[r].handler = "request_qc" /\ session'[r].order = o /\ lock'[o] = r
        BY <1>0, <2>3, BeginType DEF RequestQcLock, Handlers, TypeOK
    <3> QED
        BY <3>1, <3>2 DEF Relies, ReadStep
  <2>4. ASSUME NEW o \in Orders, ConfirmRead(r, o) \/ InspectRead(r, o) PROVE Relies(r)'
      BY <1>0, <2>4, BeginType DEF ConfirmRead, InspectRead, Relies, Handlers
  <2>5. ASSUME NEW o \in Orders, ShipRead(r, o) PROVE Relies(r)'
      BY <1>0, <2>5, BeginType DEF ShipRead, Relies, Handlers, EvidenceOK, Released
  <2>6. ASSUME NEW o \in Orders, SignOffRead(r, o) PROVE Relies(r)'
      BY <1>0, <2>6, BeginType DEF SignOffRead, Relies, Handlers, EvidenceOK, Arrived
  <2> QED
      BY <2>1, <2>2, <2>3, <2>4, <2>5, <2>6 DEF Read
<1> QED
    BY <1>0, <1>1, <1>4, <1>5 DEF IInv

\* A new order has nothing to show, and a lost request relies on nothing.
LEMMA OtherIInv ==
    ASSUME IInv, (\E o \in Orders : PlaceOrder(o)) \/ (\E r \in Requests : Abort(r)) \/ UNCHANGED vars
    PROVE  IInv'
<1>0. TypeInv /\ TypeOK /\ TypeInv' /\ \A r \in Requests : Relies(r) /\ RefersOK(r)
    BY OtherType DEF IInv, TypeInv
<1>1. ASSUME NEW o \in Orders, PlaceOrder(o) PROVE IInv'
  <2>1. /\ order[o] = "ABSENT" /\ order'[o] \in {"DRAFT_FROM_APPROVED_QUOTE", "IN_PRODUCTION"}
        /\ \A p \in Orders \ {o} : order'[p] = order[p]
        /\ UNCHANGED <<record, incidents, shipment, events, memory, lock, session>>
      BY <1>0, <1>1 DEF PlaceOrder, SetOrder, TypeOK
  <2>2. \A r \in Requests : Relies(r)'
      BY <1>0, <2>1 DEF Relies, RefersOK
  <2>3. ReleasedMeansInspected' /\ ShippedMeansShipment'
      BY <2>1 DEF IInv, ReleasedMeansInspected, ShippedMeansShipment, Released, Shipped
  <2> QED
      BY <1>0, <2>2, <2>3 DEF IInv
<1>2. ASSUME NEW r \in Requests, Abort(r) PROVE IInv'
  <2>1. /\ \A q \in Requests : session'[q] = IF q = r THEN IdleSession ELSE session[q]
        /\ \A o \in Orders : lock'[o] = IF lock[o] = r THEN None ELSE lock[o]
        /\ UNCHANGED <<order, record, incidents, shipment, events, memory>>
      BY <1>0, <1>2, FinishType DEF Abort, TypeOK
  <2>2. \A q \in Requests : Relies(q)'
      BY <1>0, <2>1 DEF Relies, RefersOK, IdleSession
  <2> QED
      BY <1>0, <2>1, <2>2 DEF IInv, ReleasedMeansInspected, ShippedMeansShipment
<1>3. CASE UNCHANGED vars
    BY <1>0, <1>3 DEF vars, IInv, Relies, ReleasedMeansInspected, ShippedMeansShipment
<1> QED
    BY <1>1, <1>2, <1>3

\* The inductive invariant holds at first.
LEMMA InitIInv == Init => IInv
BY InitTypeInv, OrderLifecycleAssumption
DEF Init, IInv, Relies, IdleSession, ReleasedMeansInspected, ShippedMeansShipment, Released, Shipped

\* Every step preserves the inductive invariant.
LEMMA NextIInv == IInv /\ [Next]_vars => IInv'
<1> SUFFICES ASSUME IInv, [Next]_vars PROVE IInv'
    OBVIOUS
<1>1. ASSUME NEW r \in Requests, Read(r) PROVE IInv'
    BY <1>1, ReadSteps, ReadIInv
<1>2. ASSUME NEW r \in Requests, Commit(r) PROVE IInv'
  <2>1. ReleasedMeansInspected' /\ ShippedMeansShipment'
    <3>1. \A o \in Orders : EvidenceOK(o)'
        BY <1>2, CommitEvidence
    <3> QED
        BY <3>1
        DEF EvidenceOK, Handed, Arrived, ReleasedMeansInspected, ShippedMeansShipment
  <2> QED
      BY <1>2, <2>1, CommitType, CommitRelies DEF IInv
<1> QED
    BY <1>1, <1>2, OtherIInv DEF Next

\* A step that counts a request for inspection is that order's move from
\* production to inspection.
LEMMA QcRequestStep ==
    ASSUME IInv, [Next]_vars, NEW o \in Orders,
           events'[o].QC_REQUESTED # events[o].QC_REQUESTED
    PROVE  order[o] = "IN_PRODUCTION" /\ order'[o] = "QC_PENDING"
<1>0. PICK r \in Requests : Commit(r)
  <2>1. events' # events
      OBVIOUS
  <2>2. ASSUME NEW p \in Orders, PlaceOrder(p) PROVE FALSE
      BY <2>1, <2>2 DEF PlaceOrder
  <2>3. ASSUME NEW r \in Requests, Read(r) \/ Abort(r) PROVE FALSE
      BY <2>1, <2>3, ReadSteps DEF ReadStep, Abort
  <2>4. ~UNCHANGED vars
      BY <2>1 DEF vars
  <2>5. Next
      BY <2>4
  <2>6. \E r \in Requests : Read(r) \/ Commit(r) \/ Abort(r)
      BY <2>2, <2>5 DEF Next
  <2> QED
      BY <2>3, <2>6
<1>1. TypeInv /\ TypeOK /\ RefersOK(r) /\ Relies(r)
    BY DEF IInv, TypeInv
<1>2. CASE RequestQcCommit(r)
  <2>1. session[r].order \in Orders /\ session[r].handler = "request_qc"
      BY <1>1, <1>2 DEF RequestQcCommit, RefersOK
  <2>2. o = session[r].order
      BY <1>1, <1>2, <2>1, RequestQcEffect
  <2> QED
      BY <1>1, <1>2, <2>1, <2>2, RequestQcEffect DEF Relies
<1>3. ASSUME NEW q \in Records, NEW result \in Results, NEW blamed \in BOOLEAN,
             InspectCommit(r, q, result, blamed)
      PROVE  FALSE
    BY <1>1, <1>3, InspectEffect DEF InspectCommit, Commits, RefersOK
<1> QED
    BY <1>0, <1>2, <1>3
    DEF Commit, ConfirmCommit, TrackCommit, SignOffCommit, MarkCommit, ShipCommit

\* No order is released for shipment without an inspection passed and on record.
THEOREM ReleaseIsInspected == Spec => []ReleasedMeansInspected
<1>1. IInv => ReleasedMeansInspected
    BY DEF IInv
<1> QED
    BY <1>1, InitIInv, NextIInv, PTL DEF Spec

\* A shipped order has its shipment, a delivered one its arrival.
THEOREM ShippingIsOnRecord == Spec => []ShippedMeansShipment
<1>1. IInv => ShippedMeansShipment
    BY DEF IInv
<1> QED
    BY <1>1, InitIInv, NextIInv, PTL DEF Spec

\* Each QC_REQUESTED event is one real transition, whatever else runs.
THEOREM QcRequestsAreTransitions == Spec => QcRequestIsATransition
<1>1. IInv /\ [Next]_vars => [\A o \in Orders : events'[o].QC_REQUESTED # events[o].QC_REQUESTED =>
                                 order[o] = "IN_PRODUCTION" /\ order'[o] = "QC_PENDING"]_vars
    BY QcRequestStep
<1> QED
    BY <1>1, InitIInv, NextIInv, PTL DEF Spec, QcRequestIsATransition

-----------------------------------------------------------------------------
(***************************************************************************)
(* Requests served one at a time: the handlers implement OrderFlow, and an *)
(* order's status agrees with the evidence.  Two overlapping requests      *)
(* break both: a delivery event read before the sign-off and committed     *)
(* after it moves a signed-off order back.                                 *)
(***************************************************************************)
\* The status each handler has to find.
Precondition(h) ==
    CASE h = "confirm"    -> {"DRAFT_FROM_APPROVED_QUOTE"}
      [] h = "request_qc" -> {"IN_PRODUCTION"}
      [] h = "ship"       -> {"READY_TO_SHIP"}
      [] h = "track"      -> {"SHIPPED"}
      [] h = "sign_off"   -> {"DELIVERED"}
      [] OTHER            -> OrderStates

\* What the request has read is what the order's row still says.
Fresh(r) ==
    session[r].handler \notin {"idle", "mark"} =>
        /\ order[session[r].order] = session[r].seen
        /\ session[r].seen \in Precondition(session[r].handler)

SerialInv == IInv /\ \A r \in Requests : Fresh(r)

\* Every read leaves the request with a fresh status that its handler accepts.
LEMMA ReadIsFresh ==
    ASSUME IInv, NEW r \in Requests, Read(r)
    PROVE  Fresh(r)'
<1>0. TypeInv /\ TypeOK
    BY DEF IInv, TypeInv
<1>1. ASSUME NEW o \in Orders, NEW h \in Handlers \ {"mark", "track"}, Begin(r, h, o),
             order[o] \in Precondition(h), order' = order
      PROVE  Fresh(r)'
    BY <1>0, <1>1, BeginType DEF Fresh
<1>2. \A o \in Orders : order[o] # "ABSENT" => order[o] \in OrderStates
    BY <1>0 DEF TypeOK, CommittedStates
<1>3. ASSUME NEW o \in Orders, ConfirmRead(r, o) PROVE Fresh(r)'
  <2>1. Begin(r, "confirm", o) /\ order' = order /\ order[o] \in Precondition("confirm")
      BY <1>2, <1>3 DEF ConfirmRead, Begin, Transition, ValidTransitions, Precondition, OrderStates
  <2> QED
      BY <1>1, <2>1 DEF Handlers
<1>4. ASSUME NEW o \in Orders, RequestQcLock(r, o) PROVE Fresh(r)'
  <2>1. Begin(r, "request_qc", o) /\ order' = order /\ order[o] \in Precondition("request_qc")
      BY <1>2, <1>4 DEF RequestQcLock, Begin, Transition, ValidTransitions, Precondition, OrderStates
  <2> QED
      BY <1>1, <2>1 DEF Handlers
<1>5. ASSUME NEW o \in Orders, InspectRead(r, o) PROVE Fresh(r)'
    BY <1>1, <1>2, <1>5 DEF InspectRead, Begin, Precondition, Handlers
<1>6. ASSUME NEW o \in Orders, ShipRead(r, o) PROVE Fresh(r)'
    BY <1>1, <1>6 DEF ShipRead, Precondition, Handlers
<1>7. ASSUME NEW o \in Orders, SignOffRead(r, o) PROVE Fresh(r)'
    BY <1>1, <1>7 DEF SignOffRead, Precondition, Handlers
<1>8. ASSUME NEW s \in Shipments, TrackRead(r, s) PROVE Fresh(r)'
    BY <1>0, <1>8 DEF TrackRead, Fresh, TypeOK, Precondition, IdleSession
<1>9. ASSUME NEW q \in Records, MarkRead(r, q) PROVE Fresh(r)'
    BY <1>0, <1>9 DEF MarkRead, Fresh, TypeOK, IdleSession
<1> QED
    BY <1>3, <1>4, <1>5, <1>6, <1>7, <1>8, <1>9 DEF Read

\* The end of a request, by commit or by abort, leaves an idle session.
LEMMA CommitFinishes == ASSUME NEW r \in Requests, Commit(r) PROVE Finish(r)
BY DEF Commit, Commits, ConfirmCommit, RequestQcCommit, TrackCommit, SignOffCommit, InspectCommit,
       MarkCommit, ShipCommit

\* With one request slot, nothing comes between a read and the write it leads to.
LEMMA NextSerialInv ==
    ASSUME NEW only, Requests = {only}
    PROVE  SerialInv /\ [Next]_vars => SerialInv'
<1> SUFFICES ASSUME SerialInv, [Next]_vars PROVE \A r \in Requests : Fresh(r)'
    BY NextIInv DEF SerialInv
<1>0. IInv /\ TypeInv /\ TypeOK /\ Fresh(only) /\ RefersOK(only)
    BY DEF SerialInv, IInv, TypeInv
<1>1. ASSUME Read(only) PROVE Fresh(only)'
    BY <1>0, <1>1, ReadIsFresh
<1>2. ASSUME Commit(only) \/ Abort(only) PROVE Fresh(only)'
  <2>1. session'[only] = IdleSession
      BY <1>0, <1>2, CommitFinishes, FinishType DEF Abort
  <2> QED
      BY <2>1 DEF Fresh, IdleSession
<1>3. ASSUME NEW o \in Orders, PlaceOrder(o) PROVE Fresh(only)'
  <2>1. session' = session /\ order[o] = "ABSENT" /\ \A p \in Orders \ {o} : order'[p] = order[p]
      BY <1>0, <1>3 DEF PlaceOrder, SetOrder, TypeOK
  <2>2. session[only].handler \notin {"idle", "mark"} => session[only].seen \in OrderStates
      BY <1>0 DEF Fresh, Precondition, OrderStates
  <2>3. "ABSENT" \notin OrderStates
      BY DEF OrderStates
  <2> QED
      BY <1>0, <2>1, <2>2, <2>3 DEF Fresh, RefersOK
<1>4. CASE UNCHANGED vars
    BY <1>0, <1>4 DEF vars, Fresh
<1> QED
    BY <1>1, <1>2, <1>3, <1>4 DEF Next

\* The moves the handlers make are each one commit's worth of transitions.
LEMMA Moves ==
    /\ ReachedInOneCommit("DRAFT_FROM_APPROVED_QUOTE", "IN_PRODUCTION")
    /\ ReachedInOneCommit("IN_PRODUCTION", "QC_PENDING")
    /\ ReachedInOneCommit("QC_PENDING", "READY_TO_SHIP")
    /\ ReachedInOneCommit("QC_PENDING", "QC_FAILED")
    /\ ReachedInOneCommit("READY_TO_SHIP", "SHIPPED")
    /\ ReachedInOneCommit("SHIPPED", "DELIVERED")
    /\ ReachedInOneCommit("DELIVERED", "BUYER_SIGNED_OFF")
<1>1. ReachedInOneCommit("DRAFT_FROM_APPROVED_QUOTE", "IN_PRODUCTION")
  <2>1. /\ Transition("DRAFT_FROM_APPROVED_QUOTE", "PENDING_BUYER_CONFIRMATION")
        /\ Transition("PENDING_BUYER_CONFIRMATION", "CONFIRMED")
        /\ Transition("CONFIRMED", "IN_PRODUCTION")
      BY DEF Transition, ValidTransitions
  <2>2. "PENDING_BUYER_CONFIRMATION" \in Transient /\ "CONFIRMED" \in Transient
        /\ "IN_PRODUCTION" \notin Transient
      BY DEF Transient
  <2> QED
      BY <2>1, <2>2 DEF ReachedInOneCommit
<1>2. ReachedInOneCommit("QC_PENDING", "READY_TO_SHIP")
  <2>1. Transition("QC_PENDING", "QC_PASSED") /\ Transition("QC_PASSED", "READY_TO_SHIP")
      BY DEF Transition, ValidTransitions
  <2>2. "QC_PASSED" \in Transient /\ "READY_TO_SHIP" \notin Transient
      BY DEF Transient
  <2> QED
      BY <2>1, <2>2 DEF ReachedInOneCommit
<1>3. /\ Transition("IN_PRODUCTION", "QC_PENDING") /\ Transition("QC_PENDING", "QC_FAILED")
      /\ Transition("READY_TO_SHIP", "SHIPPED") /\ Transition("SHIPPED", "DELIVERED")
      /\ Transition("DELIVERED", "BUYER_SIGNED_OFF")
    BY DEF Transition, ValidTransitions
<1> QED
    BY <1>1, <1>2, <1>3 DEF ReachedInOneCommit, Transient

\* What a commit does to the orders, from a fresh read: nothing, or one move of the
\* request's own order.
LEMMA CommitMoves ==
    ASSUME IInv, NEW r \in Requests, Fresh(r), Commit(r)
    PROVE  \/ order' = order
           \/ /\ session[r].order \in Orders
              /\ \E t \in OrderStates :
                    /\ ReachedInOneCommit(order[session[r].order], t)
                    /\ order' = [order EXCEPT ![session[r].order] = t]
<1>0. /\ RefersOK(r)
      /\ {"IN_PRODUCTION", "QC_PENDING", "READY_TO_SHIP", "QC_FAILED", "SHIPPED", "DELIVERED",
          "BUYER_SIGNED_OFF"} \subseteq OrderStates
    BY DEF IInv, TypeInv, OrderStates
<1>1. CASE ConfirmCommit(r)
  <2>1. session[r].order \in Orders /\ order[session[r].order] = "DRAFT_FROM_APPROVED_QUOTE"
      BY <1>0, <1>1 DEF ConfirmCommit, Commits, RefersOK, Fresh, Precondition
  <2> QED
      BY <1>0, <1>1, <2>1, Moves DEF ConfirmCommit, SetOrder
<1>2. CASE RequestQcCommit(r)
  <2>1. session[r].order \in Orders /\ order[session[r].order] = "IN_PRODUCTION"
      BY <1>0, <1>2 DEF RequestQcCommit, RefersOK, Fresh, Precondition
  <2> QED
      BY <1>0, <1>2, <2>1, Moves DEF RequestQcCommit, SetOrder
<1>3. CASE TrackCommit(r)
  <2>1. session[r].order \in Orders /\ order[session[r].order] = "SHIPPED"
      BY <1>0, <1>3 DEF TrackCommit, Commits, RefersOK, Fresh, Precondition
  <2> QED
      BY <1>0, <1>3, <2>1, Moves DEF TrackCommit, SetOrder
<1>4. CASE SignOffCommit(r)
  <2>1. session[r].order \in Orders /\ order[session[r].order] = "DELIVERED"
      BY <1>0, <1>4 DEF SignOffCommit, Commits, RefersOK, Fresh, Precondition
  <2> QED
      BY <1>0, <1>4, <2>1, Moves DEF SignOffCommit, SetOrder
<1>5. ASSUME NEW q \in Records, NEW result \in Results, NEW blamed \in BOOLEAN,
             InspectCommit(r, q, result, blamed), order' # order
      PROVE  /\ session[r].order \in Orders
             /\ \E t \in OrderStates :
                   /\ ReachedInOneCommit(order[session[r].order], t)
                   /\ order' = [order EXCEPT ![session[r].order] = t]
  <2>1. session[r].order \in Orders /\ order[session[r].order] = session[r].seen
      BY <1>0, <1>5 DEF InspectCommit, Commits, RefersOK, Fresh
  <2>2. /\ session[r].seen = "QC_PENDING"
        /\ SetOrder(session[r].order, "READY_TO_SHIP") \/ SetOrder(session[r].order, "QC_FAILED")
      BY <1>5, <2>1, InspectEffect DEF IInv
  <2> QED
      BY <1>0, <2>1, <2>2, Moves DEF SetOrder
<1>6. ASSUME NEW s \in Shipments, ShipCommit(r, s)
      PROVE  /\ session[r].order \in Orders
             /\ \E t \in OrderStates :
                   /\ ReachedInOneCommit(order[session[r].order], t)
                   /\ order' = [order EXCEPT ![session[r].order] = t]
  <2>1. session[r].order \in Orders /\ order[session[r].order] = "READY_TO_SHIP"
      BY <1>0, <1>6 DEF ShipCommit, Commits, RefersOK, Fresh, Precondition
  <2> QED
      BY <1>0, <1>6, <2>1, Moves DEF ShipCommit, SetOrder
<1>7. ASSUME NEW result \in Results, MarkCommit(r, result) PROVE order' = order
    BY <1>7 DEF MarkCommit
<1> QED
    BY <1>1, <1>2, <1>3, <1>4, <1>5, <1>6, <1>7 DEF Commit

\* Served one at a time, the handlers implement OrderFlow: every order's status
\* moves along VALID_TRANSITIONS and a closed order stays closed.
THEOREM SerialFollowsOrderFlow ==
    ASSUME NEW only, Requests = {only}
    PROVE  Spec => FollowsOrderFlow
<1>1. Init => SerialInv /\ Flow!Init
  <2>1. Init => \A r \in Requests : Fresh(r)
      BY DEF Init, Fresh, IdleSession
  <2> QED
      BY <2>1, InitIInv DEF SerialInv, Init, Flow!Init
<1>2. SerialInv /\ [Next]_vars => SerialInv'
    BY NextSerialInv
<1>3. SerialInv /\ [Next]_vars => [Flow!Next]_order
  <2> SUFFICES ASSUME SerialInv, [Next]_vars, order' # order PROVE Flow!Next
      OBVIOUS
  <2>1. ASSUME NEW o \in Orders, PlaceOrder(o) PROVE Flow!Next
      BY <2>1 DEF PlaceOrder, SetOrder, Flow!Next, Flow!Enter
  <2>2. ASSUME NEW r \in Requests, Read(r) \/ Abort(r) PROVE FALSE
      BY <2>2, ReadSteps DEF ReadStep, Abort
  <2>3. ASSUME NEW r \in Requests, Commit(r) PROVE Flow!Next
    <3>1. PICK t \in OrderStates :
             /\ session[r].order \in Orders
             /\ ReachedInOneCommit(order[session[r].order], t)
             /\ order' = [order EXCEPT ![session[r].order] = t]
        BY <2>3, CommitMoves DEF SerialInv
    <3>2. Flow!OrderStates = OrderStates
        BY DEF Flow!OrderStates, OrderStates
    <3>3. Flow!Transient = Transient /\ \A s, u : Flow!Transition(s, u) <=> Transition(s, u)
        BY DEF Flow!Transient, Transient, Flow!Transition, Transition, Flow!ValidTransitions,
               ValidTransitions
    <3>4. Flow!ReachedInOneCommit(order[session[r].order], t)
        BY <3>1, <3>3 DEF Flow!ReachedInOneCommit, ReachedInOneCommit
    <3> QED
        BY <3>1, <3>2, <3>4 DEF Flow!Next, Flow!Advance
  <2> QED
      BY <2>1, <2>2, <2>3 DEF Next, vars
<1> QED
    BY <1>1, <1>2, <1>3, PTL DEF Spec, FollowsOrderFlow, Flow!Spec
-----------------------------------------------------------------------------
(***************************************************************************)
(* One order's part of StatusMatchesEvidence, by kind of evidence.         *)
(***************************************************************************)
Requested == Released \cup {"QC_PENDING", "QC_FAILED"}

RequestAgrees(o) == events[o].QC_REQUESTED = IF order[o] \in Requested THEN 1 ELSE 0
MemoryAgrees(o) == memory[o] = IF order[o] = "BUYER_SIGNED_OFF" THEN 1 ELSE 0
ShipmentAgrees(o) ==
    /\ order[o] \in Shipped <=> \E s \in Shipments : shipment[s].order = o
    /\ \A s, t \in Shipments : shipment[s].order = o /\ shipment[t].order = o => s = t

\* Together they are StatusMatchesEvidence.
LEMMA AgreesEquiv ==
    StatusMatchesEvidence
        <=> \A o \in Orders : RequestAgrees(o) /\ ShipmentAgrees(o) /\ MemoryAgrees(o)
BY DEF StatusMatchesEvidence, RequestAgrees, ShipmentAgrees, MemoryAgrees, Requested

\* A commit keeps an order's evidence as it was, and the status either stays or
\* moves to one that the same evidence agrees with.
LEMMA SameEvidence ==
    ASSUME NEW o \in Orders,
           RequestAgrees(o), ShipmentAgrees(o), MemoryAgrees(o),
           events'[o].QC_REQUESTED = events[o].QC_REQUESTED, memory'[o] = memory[o],
           \A s \in Shipments : shipment'[s].order = shipment[s].order,
           order'[o] \in Requested <=> order[o] \in Requested,
           order'[o] \in Shipped <=> order[o] \in Shipped,
           order'[o] = "BUYER_SIGNED_OFF" <=> order[o] = "BUYER_SIGNED_OFF"
    PROVE  RequestAgrees(o)' /\ ShipmentAgrees(o)' /\ MemoryAgrees(o)'
<1>1. RequestAgrees(o)' /\ MemoryAgrees(o)'
    BY DEF RequestAgrees, MemoryAgrees
<1>2. ShipmentAgrees(o)'
    BY DEF ShipmentAgrees
<1> QED
    BY <1>1, <1>2

\* A commit from a fresh read writes the status and its evidence together.
LEMMA CommitAgrees ==
    ASSUME IInv, StatusMatchesEvidence, NEW r \in Requests, Fresh(r), Commit(r)
    PROVE  StatusMatchesEvidence'
<1> SUFFICES ASSUME NEW o \in Orders
             PROVE  RequestAgrees(o)' /\ ShipmentAgrees(o)' /\ MemoryAgrees(o)'
    BY DEF StatusMatchesEvidence, RequestAgrees, ShipmentAgrees, MemoryAgrees, Requested
<1>0. /\ TypeOK /\ RefersOK(r)
      /\ RequestAgrees(o) /\ ShipmentAgrees(o) /\ MemoryAgrees(o)
    BY AgreesEquiv DEF IInv, TypeInv
<1>1. CASE ConfirmCommit(r)
  <2>1. session[r].order \in Orders /\ order[session[r].order] = "DRAFT_FROM_APPROVED_QUOTE"
      BY <1>0, <1>1 DEF ConfirmCommit, Commits, RefersOK, Fresh, Precondition
  <2> QED
      BY <1>0, <1>1, <2>1, SameEvidence
         DEF ConfirmCommit, SetOrder, TypeOK, Requested, Released, Shipped
<1>2. CASE RequestQcCommit(r)
  <2>1. session[r].order \in Orders /\ order[session[r].order] = "IN_PRODUCTION"
      BY <1>0, <1>2 DEF RequestQcCommit, RefersOK, Fresh, Precondition
  <2>2. UNCHANGED <<shipment, memory>> /\ order' = [order EXCEPT ![session[r].order] = "QC_PENDING"]
      BY <1>2 DEF RequestQcCommit, SetOrder
  <2>3. events' = [events EXCEPT ![session[r].order].QC_REQUESTED = @ + 1]
      BY <1>2 DEF RequestQcCommit
  <2>4. CASE o = session[r].order
    <3>1. RequestAgrees(o)'
        BY <1>0, <2>1, <2>2, <2>3, <2>4 DEF RequestAgrees, Requested, Released, Shipped, TypeOK
    <3>2. ShipmentAgrees(o)' /\ MemoryAgrees(o)'
        BY <1>0, <2>1, <2>2, <2>4 DEF ShipmentAgrees, MemoryAgrees, Shipped, TypeOK
    <3> QED
        BY <3>1, <3>2
  <2>5. CASE o # session[r].order
      BY <1>0, <2>1, <2>2, <2>3, <2>5, SameEvidence DEF TypeOK
  <2> QED
      BY <2>4, <2>5
<1>3. CASE TrackCommit(r)
  <2>1. session[r].order \in Orders /\ order[session[r].order] = "SHIPPED"
      BY <1>0, <1>3 DEF TrackCommit, Commits, RefersOK, Fresh, Precondition
  <2>2. \A s \in Shipments : shipment'[s].order = shipment[s].order
      BY <1>0, <1>3 DEF TrackCommit, TypeOK, ShipmentRow
  <2> QED
      BY <1>0, <1>3, <2>1, <2>2, SameEvidence
         DEF TrackCommit, SetOrder, TypeOK, Requested, Released, Shipped
<1>4. CASE SignOffCommit(r)
  <2>1. session[r].order \in Orders /\ order[session[r].order] = "DELIVERED"
      BY <1>0, <1>4 DEF SignOffCommit, Commits, RefersOK, Fresh, Precondition
  <2>2. /\ UNCHANGED <<shipment, events>>
        /\ order' = [order EXCEPT ![session[r].order] = "BUYER_SIGNED_OFF"]
        /\ memory' = [memory EXCEPT ![session[r].order] = @ + 1]
      BY <1>4 DEF SignOffCommit, SetOrder
  <2>3. CASE o = session[r].order
    <3>1. MemoryAgrees(o)'
        BY <1>0, <2>1, <2>2, <2>3 DEF MemoryAgrees, TypeOK
    <3>2. ShipmentAgrees(o)' /\ RequestAgrees(o)'
        BY <1>0, <2>1, <2>2, <2>3
           DEF ShipmentAgrees, RequestAgrees, Requested, Released, Shipped, TypeOK
    <3> QED
        BY <3>1, <3>2
  <2>4. CASE o # session[r].order
      BY <1>0, <2>1, <2>2, <2>4, SameEvidence DEF TypeOK
  <2> QED
      BY <2>3, <2>4
<1>5. ASSUME NEW q \in Records, NEW result \in Results, NEW blamed \in BOOLEAN,
             InspectCommit(r, q, result, blamed)
      PROVE  RequestAgrees(o)' /\ ShipmentAgrees(o)' /\ MemoryAgrees(o)'
  <2>1. session[r].order \in Orders /\ order[session[r].order] = session[r].seen
      BY <1>0, <1>5 DEF InspectCommit, Commits, RefersOK, Fresh
  <2>2. \/ order' = order
        \/ /\ session[r].seen = "QC_PENDING"
           /\ SetOrder(session[r].order, "READY_TO_SHIP") \/ SetOrder(session[r].order, "QC_FAILED")
      BY <1>5, <2>1, InspectEffect DEF IInv
  <2>3. events'[o].QC_REQUESTED = events[o].QC_REQUESTED
      BY <1>0, <1>5, <2>1 DEF InspectCommit, TypeOK
  <2>4. UNCHANGED <<shipment, memory>>
      BY <1>5 DEF InspectCommit
  <2>5. \/ order'[o] = order[o]
        \/ order[o] = "QC_PENDING" /\ order'[o] \in {"READY_TO_SHIP", "QC_FAILED"}
      BY <1>0, <2>1, <2>2 DEF SetOrder, TypeOK
  <2>6. /\ order'[o] \in Requested <=> order[o] \in Requested
        /\ order'[o] \in Shipped <=> order[o] \in Shipped
        /\ order'[o] = "BUYER_SIGNED_OFF" <=> order[o] = "BUYER_SIGNED_OFF"
      BY <2>5 DEF Requested, Released, Shipped
  <2> QED
      BY <1>0, <2>3, <2>4, <2>6, SameEvidence
<1>6. ASSUME NEW s \in Shipments, ShipCommit(r, s)
      PROVE  RequestAgrees(o)' /\ ShipmentAgrees(o)' /\ MemoryAgrees(o)'
  <2>1. session[r].order \in Orders /\ order[session[r].order] = "READY_TO_SHIP"
      BY <1>0, <1>6 DEF ShipCommit, Commits, RefersOK, Fresh, Precondition
  <2>2. /\ UNCHANGED <<events, memory>>
        /\ order' = [order EXCEPT ![session[r].order] = "SHIPPED"]
        /\ shipment[s].order = None
        /\ shipment' = [shipment EXCEPT ![s] = [order |-> session[r].order, arrived |-> FALSE]]
      BY <1>6 DEF ShipCommit, SetOrder
  <2>3. /\ shipment'[s].order = session[r].order
        /\ \A t \in Shipments \ {s} : shipment'[t].order = shipment[t].order
      BY <1>0, <2>2 DEF TypeOK
  <2>4. None \notin Orders
      BY OrderLifecycleAssumption
  <2>5. RequestAgrees(o)' /\ MemoryAgrees(o)'
      BY <1>0, <2>1, <2>2 DEF RequestAgrees, MemoryAgrees, Requested, Released, Shipped, TypeOK
  <2>6. ShipmentAgrees(o)'
    <3>1. CASE o = session[r].order
      <4>1. order'[o] \in Shipped /\ ~ (order[o] \in Shipped)
          BY <1>0, <2>1, <2>2, <3>1 DEF TypeOK, Shipped
      <4>2. \A t \in Shipments : shipment'[t].order = o => t = s
          BY <1>0, <2>3, <4>1 DEF ShipmentAgrees
      <4> QED
          BY <2>3, <3>1, <4>1, <4>2 DEF ShipmentAgrees
    <3>2. CASE o # session[r].order
      <4>1. order'[o] = order[o] /\ \A t \in Shipments : shipment'[t].order = o <=> shipment[t].order = o
          BY <1>0, <2>2, <2>3, <2>4, <3>2 DEF TypeOK
      <4> QED
          BY <1>0, <4>1 DEF ShipmentAgrees
    <3> QED
        BY <3>1, <3>2
  <2> QED
      BY <2>5, <2>6
<1>7. ASSUME NEW result \in Results, MarkCommit(r, result)
      PROVE  RequestAgrees(o)' /\ ShipmentAgrees(o)' /\ MemoryAgrees(o)'
    BY <1>0, <1>7, SameEvidence DEF MarkCommit
<1> QED
    BY <1>1, <1>2, <1>3, <1>4, <1>5, <1>6, <1>7 DEF Commit

\* Served one at a time, the handlers keep an order's status and its evidence
\* together: its QC request, its shipment, its suppliers' memory.
THEOREM SerialStatusMatchesEvidence ==
    ASSUME NEW only, Requests = {only}
    PROVE  Spec => []StatusMatchesEvidence
<1>1. Init => SerialInv /\ StatusMatchesEvidence
  <2>1. Init => \A r \in Requests : Fresh(r)
      BY DEF Init, Fresh, IdleSession
  <2>2. Init => \A o \in Orders : RequestAgrees(o) /\ ShipmentAgrees(o) /\ MemoryAgrees(o)
      BY OrderLifecycleAssumption
         DEF Init, RequestAgrees, ShipmentAgrees, MemoryAgrees, Requested, Released, Shipped
  <2> QED
      BY <2>1, <2>2, InitIInv, AgreesEquiv DEF SerialInv
<1>2. SerialInv /\ [Next]_vars => SerialInv'
    BY NextSerialInv
<1>3. SerialInv /\ StatusMatchesEvidence /\ [Next]_vars => StatusMatchesEvidence'
  <2> SUFFICES ASSUME SerialInv, StatusMatchesEvidence, [Next]_vars PROVE StatusMatchesEvidence'
      OBVIOUS
  <2>0. TypeOK /\ \A o \in Orders : RequestAgrees(o) /\ ShipmentAgrees(o) /\ MemoryAgrees(o)
      BY AgreesEquiv DEF SerialInv, IInv, TypeInv
  <2>1. ASSUME NEW p \in Orders, PlaceOrder(p), NEW o \in Orders
        PROVE  RequestAgrees(o)' /\ ShipmentAgrees(o)' /\ MemoryAgrees(o)'
    <3>1. \/ order'[o] = order[o]
          \/ order[o] = "ABSENT" /\ order'[o] \in {"DRAFT_FROM_APPROVED_QUOTE", "IN_PRODUCTION"}
        BY <2>0, <2>1 DEF PlaceOrder, SetOrder, TypeOK
    <3>2. /\ order'[o] \in Requested <=> order[o] \in Requested
          /\ order'[o] \in Shipped <=> order[o] \in Shipped
          /\ order'[o] = "BUYER_SIGNED_OFF" <=> order[o] = "BUYER_SIGNED_OFF"
        BY <3>1 DEF Requested, Released, Shipped
    <3> QED
        BY <2>0, <2>1, <3>2, SameEvidence DEF PlaceOrder
  <2>2. ASSUME UNCHANGED <<order, events, memory, shipment>> PROVE StatusMatchesEvidence'
      BY <2>2 DEF StatusMatchesEvidence
  <2>3. ASSUME NEW r \in Requests, Read(r) \/ Abort(r)
        PROVE  UNCHANGED <<order, events, memory, shipment>>
      BY <2>3, ReadSteps DEF ReadStep, Abort
  <2>4. ASSUME NEW r \in Requests, Commit(r) PROVE StatusMatchesEvidence'
      BY <2>4, CommitAgrees DEF SerialInv
  <2>5. ASSUME NEW p \in Orders, PlaceOrder(p) PROVE StatusMatchesEvidence'
      BY <2>1, <2>5
         DEF StatusMatchesEvidence, RequestAgrees, ShipmentAgrees, MemoryAgrees, Requested
  <2>6. CASE UNCHANGED vars
      BY <2>2, <2>6 DEF vars
  <2> QED
      BY <2>2, <2>3, <2>4, <2>5, <2>6 DEF Next
<1> QED
    BY <1>1, <1>2, <1>3, PTL DEF Spec
=============================================================================
