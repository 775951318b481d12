--------------------------- MODULE OrderLifecycle ---------------------------
(***************************************************************************)
(* The life of a placed order: POST /orders/{id}/confirm, /request-qc,     *)
(* /qc-records, /shipments and /buyer-sign-off, /qc-records/{id}/mark-pass *)
(* and /mark-fail, /shipments/{id}/tracking-events.                        *)
(*                                                                         *)
(* Each request runs in its own READ COMMITTED transaction.  All but one   *)
(* of the handlers read the order without a lock, check the status they    *)
(* read, and write it back with their commit; request_qc reads it FOR      *)
(* UPDATE.  A handler is therefore two steps: a Begin step that reads and  *)
(* checks, and a step that writes and commits from what was read.  Between *)
(* the two, other requests run.  A check that fails ends the request with  *)
(* an error and no change, so such a request is not begun here.            *)
(***************************************************************************)
EXTENDS Naturals, FiniteSets, OrderStates

CONSTANTS
    Requests,    \* slots in which HTTP requests are served, one at a time each
    Orders,      \* ids of Order rows
    Records,     \* ids of QCRecord rows
    Shipments,   \* ids of Shipment rows
    None

ASSUME OrderLifecycleAssumption ==
    None \notin Requests \cup Orders \cup Records \cup Shipments

VARIABLES
    order,       \* committed Order.status
    record,      \* committed QCRecord rows
    incidents,   \* QC records for which a QualityIncident was filed
    shipment,    \* committed Shipment rows
    events,      \* numbers of QC_REQUESTED and QC_PASSED execution events
    memory,      \* times the supplier memory was updated from an order
    lock,        \* the request holding an order's row FOR UPDATE
    session      \* what each request has read, and which handler it runs

vars == <<order, record, incidents, shipment, events, memory, lock, session>>

-----------------------------------------------------------------------------
Results == {"QC_PASSED", "QC_FAILED"}
Handlers == {"confirm", "request_qc", "inspect", "mark", "ship", "track", "sign_off"}

RecordRow == [order : Orders \cup {None}, result : Results \cup {None}]
ShipmentRow == [order : Orders \cup {None}, arrived : BOOLEAN]
Session == [handler : Handlers \cup {"idle"}, order : Orders \cup {None},
            seen : OrderStates \cup {"ABSENT"}, result : Results \cup {None},
            record : Records \cup {None}, shipment : Shipments \cup {None}]

IdleSession == [handler |-> "idle", order |-> None, seen |-> "ABSENT",
                result |-> None, record |-> None, shipment |-> None]

Finish(r) == session' = [session EXCEPT ![r] = IdleSession]

\* Read the order as last committed and go on with the handler.
Begin(r, handler, o) ==
    /\ session[r].handler = "idle"
    /\ order[o] # "ABSENT"
    /\ session' = [session EXCEPT ![r] =
           [IdleSession EXCEPT !.handler = handler, !.order = o, !.seen = order[o]]]

\* Every write of a handler touches the order's row, or inserts a row that
\* refers to it, and waits while another transaction holds it FOR UPDATE.
Commits(r, handler) ==
    /\ session[r].handler = handler
    /\ lock[session[r].order] = None
    /\ Finish(r)

SetOrder(o, s) == order' = [order EXCEPT ![o] = s]

-----------------------------------------------------------------------------
\* create_order_from_approved_option, and import_confirmed_order for a
\* purchase order already confirmed with a provider.
PlaceOrder(o) ==
    /\ order[o] = "ABSENT"
    /\ \E s \in {"DRAFT_FROM_APPROVED_QUOTE", "IN_PRODUCTION"} : SetOrder(o, s)
    /\ UNCHANGED <<record, incidents, shipment, events, memory, lock, session>>

ConfirmRead(r, o) ==
    /\ Transition(order[o], "PENDING_BUYER_CONFIRMATION")
    /\ Begin(r, "confirm", o)
    /\ UNCHANGED <<order, record, incidents, shipment, events, memory, lock>>

\* Mutant of ConfirmCommit: the last transition, into production, is forgotten.
ConfirmCommitStopsShort(r) ==
    /\ Commits(r, "confirm")
    /\ SetOrder(session[r].order, "CONFIRMED")
    /\ UNCHANGED <<record, incidents, shipment, events, memory, lock>>

\* DRAFT -> PENDING_BUYER_CONFIRMATION -> CONFIRMED -> IN_PRODUCTION in one commit.
ConfirmCommit(r) ==
    /\ Commits(r, "confirm")
    /\ SetOrder(session[r].order, "IN_PRODUCTION")
    /\ UNCHANGED <<record, incidents, shipment, events, memory, lock>>

\* Mutant of RequestQcLock: the order is read without FOR UPDATE.
RequestQcUnlocked(r, o) ==
    /\ Transition(order[o], "QC_PENDING")
    /\ Begin(r, "request_qc", o)
    /\ UNCHANGED <<order, record, incidents, shipment, events, memory, lock>>

RequestQcLock(r, o) ==
    /\ Transition(order[o], "QC_PENDING")
    /\ lock[o] = None
    /\ Begin(r, "request_qc", o)
    /\ lock' = [lock EXCEPT ![o] = r]
    /\ UNCHANGED <<order, record, incidents, shipment, events, memory>>

RequestQcCommit(r) ==
    LET o == session[r].order IN
    /\ session[r].handler = "request_qc"
    /\ SetOrder(o, "QC_PENDING")
    /\ events' = [events EXCEPT ![o].QC_REQUESTED = @ + 1]
    /\ lock' = [lock EXCEPT ![o] = None]
    /\ Finish(r)
    /\ UNCHANGED <<record, incidents, shipment, memory>>

-----------------------------------------------------------------------------
\* Bound: an inspection is begun only while an unused record id is left, and a
\* shipment only while an unused shipment id is left.
InspectRead(r, o) ==
    /\ \E q \in Records : record[q].order = None
    /\ Begin(r, "inspect", o)
    /\ UNCHANGED <<order, record, incidents, shipment, events, memory, lock>>

\* Mutant of AfterInspection: a passed inspection makes any order ready to ship.
AfterInspectionUnchecked(seen, result) ==
    CASE result = "QC_PASSED" -> "READY_TO_SHIP"
      [] seen = "QC_PENDING" /\ result = "QC_FAILED" -> "QC_FAILED"
      [] OTHER -> seen

AfterInspection(seen, result) ==
    CASE seen = "QC_PENDING" /\ result = "QC_PASSED" -> "READY_TO_SHIP"
      [] seen = "QC_PENDING" /\ result = "QC_FAILED" -> "QC_FAILED"
      [] OTHER -> seen

\* A failed inspection for which a participant is named files an incident.  What
\* create_quality_incident does beyond that row is in module QualityLedger.
InspectCommit(r, q, result, blamed) ==
    LET o == session[r].order
        next == AfterInspection(session[r].seen, result)
    IN
    /\ Commits(r, "inspect")
    /\ record[q].order = None
    /\ record' = [record EXCEPT ![q] = [order |-> o, result |-> result]]
    /\ IF next = session[r].seen THEN UNCHANGED order ELSE SetOrder(o, next)
    /\ events' = IF result = "QC_PASSED" THEN [events EXCEPT ![o].QC_PASSED = @ + 1] ELSE events
    /\ incidents' = IF result = "QC_FAILED" /\ blamed THEN incidents \cup {q} ELSE incidents
    /\ UNCHANGED <<shipment, memory, lock>>

\* mark_qc_pass and mark_qc_fail correct a record's result; they touch neither the
\* order nor the quality ledger.
MarkRead(r, q) ==
    /\ session[r].handler = "idle"
    /\ record[q].order # None
    /\ session' = [session EXCEPT ![r] =
           [IdleSession EXCEPT !.handler = "mark", !.record = q, !.result = record[q].result]]
    /\ UNCHANGED <<order, record, incidents, shipment, events, memory, lock>>

MarkCommit(r, result) ==
    /\ session[r].handler = "mark"
    /\ record' = IF result = session[r].result THEN record
                 ELSE [record EXCEPT ![session[r].record].result = result]
    /\ Finish(r)
    /\ UNCHANGED <<order, incidents, shipment, events, memory, lock>>

-----------------------------------------------------------------------------
\* Mutant of ShipRead: the order's status is not checked.
ShipReadUnchecked(r, o) ==
    /\ \E s \in Shipments : shipment[s].order = None
    /\ Begin(r, "ship", o)
    /\ UNCHANGED <<order, record, incidents, shipment, events, memory, lock>>

ShipRead(r, o) ==
    /\ \E s \in Shipments : shipment[s].order = None
    /\ order[o] = "READY_TO_SHIP"
    /\ Begin(r, "ship", o)
    /\ UNCHANGED <<order, record, incidents, shipment, events, memory, lock>>

ShipCommit(r, s) ==
    /\ Commits(r, "ship")
    /\ shipment[s].order = None
    /\ shipment' = [shipment EXCEPT ![s] = [order |-> session[r].order, arrived |-> FALSE]]
    /\ SetOrder(session[r].order, "SHIPPED")
    /\ UNCHANGED <<record, incidents, events, memory, lock>>

\* A delivery event for an order read as SHIPPED; every other tracking event only
\* adds a row nothing else reads.
TrackRead(r, s) ==
    /\ shipment[s].order # None
    /\ order[shipment[s].order] = "SHIPPED"
    /\ session[r].handler = "idle"
    /\ session' = [session EXCEPT ![r] =
           [IdleSession EXCEPT !.handler = "track", !.order = shipment[s].order,
                               !.seen = "SHIPPED", !.shipment = s]]
    /\ UNCHANGED <<order, record, incidents, shipment, events, memory, lock>>

\* Mutant of TrackCommit: the order is moved, the arrival is not noted.
TrackCommitOrderOnly(r) ==
    /\ Commits(r, "track")
    /\ SetOrder(session[r].order, "DELIVERED")
    /\ UNCHANGED <<record, incidents, shipment, events, memory, lock>>

TrackCommit(r) ==
    /\ Commits(r, "track")
    /\ shipment' = [shipment EXCEPT ![session[r].shipment].arrived = TRUE]
    /\ SetOrder(session[r].order, "DELIVERED")
    /\ UNCHANGED <<record, incidents, events, memory, lock>>

\* Mutant of SignOffRead: a signed-off order may be signed off again.
SignOffReadAgain(r, o) ==
    /\ order[o] \in {"DELIVERED", "BUYER_SIGNED_OFF"}
    /\ Begin(r, "sign_off", o)
    /\ UNCHANGED <<order, record, incidents, shipment, events, memory, lock>>

SignOffRead(r, o) ==
    /\ order[o] = "DELIVERED"
    /\ Begin(r, "sign_off", o)
    /\ UNCHANGED <<order, record, incidents, shipment, events, memory, lock>>

\* buyer_sign_off and the update_supplier_memory_after_signoff it ends with.
SignOffCommit(r) ==
    LET o == session[r].order IN
    /\ Commits(r, "sign_off")
    /\ SetOrder(o, "BUYER_SIGNED_OFF")
    /\ memory' = [memory EXCEPT ![o] = @ + 1]
    /\ UNCHANGED <<record, incidents, shipment, events, lock>>

\* The request dies before its commit: PostgreSQL drops its writes and its lock.
Abort(r) ==
    /\ session[r].handler # "idle"
    /\ lock' = [o \in Orders |-> IF lock[o] = r THEN None ELSE lock[o]]
    /\ Finish(r)
    /\ UNCHANGED <<order, record, incidents, shipment, events, memory>>

-----------------------------------------------------------------------------
Init ==
    /\ order = [o \in Orders |-> "ABSENT"]
    /\ record = [q \in Records |-> [order |-> None, result |-> None]]
    /\ incidents = {}
    /\ shipment = [s \in Shipments |-> [order |-> None, arrived |-> FALSE]]
    /\ events = [o \in Orders |-> [QC_REQUESTED |-> 0, QC_PASSED |-> 0]]
    /\ memory = [o \in Orders |-> 0]
    /\ lock = [o \in Orders |-> None]
    /\ session = [r \in Requests |-> IdleSession]

Read(r) ==
    \/ \E o \in Orders :
          \/ ConfirmRead(r, o) \/ RequestQcLock(r, o) \/ InspectRead(r, o)
          \/ ShipRead(r, o) \/ SignOffRead(r, o)
    \/ \E q \in Records : MarkRead(r, q)
    \/ \E s \in Shipments : TrackRead(r, s)

Commit(r) ==
    \/ ConfirmCommit(r) \/ RequestQcCommit(r) \/ TrackCommit(r) \/ SignOffCommit(r)
    \/ \E q \in Records, result \in Results, blamed \in BOOLEAN :
          InspectCommit(r, q, result, blamed)
    \/ \E result \in Results : MarkCommit(r, result)
    \/ \E s \in Shipments : ShipCommit(r, s)

Next ==
    \/ \E o \in Orders : PlaceOrder(o)
    \/ \E r \in Requests : Read(r) \/ Commit(r) \/ Abort(r)

Spec == Init /\ [][Next]_vars

\* An accepted request is run to its end; a wait for the row lock is queued by
\* PostgreSQL, so it is not overtaken for ever.
ServerFairness == \A r \in Requests :
    /\ SF_vars(ConfirmCommit(r))
    /\ SF_vars(RequestQcCommit(r))
    /\ SF_vars(\E q \in Records, result \in Results, blamed \in BOOLEAN :
                  InspectCommit(r, q, result, blamed))
    /\ SF_vars(\E result \in Results : MarkCommit(r, result))
    /\ SF_vars(\E s \in Shipments : ShipCommit(r, s))
    /\ SF_vars(TrackCommit(r))
    /\ SF_vars(SignOffCommit(r))

\* People keep asking for whatever an order's status allows.
PeopleFairness == \A r \in Requests, o \in Orders :
    /\ SF_vars(ConfirmRead(r, o))
    /\ SF_vars(RequestQcLock(r, o))
    /\ SF_vars(order[o] = "QC_PENDING" /\ InspectRead(r, o))
    /\ SF_vars(ShipRead(r, o))
    /\ SF_vars(\E s \in Shipments : shipment[s].order = o /\ TrackRead(r, s))
    /\ SF_vars(SignOffRead(r, o))

FairSpec == Spec /\ ServerFairness
PersistentSpec == FairSpec /\ PeopleFairness

-----------------------------------------------------------------------------
(***************************************************************************)
(* Properties that hold however requests interleave                        *)
(***************************************************************************)
Shipped == {"SHIPPED", "DELIVERED", "BUYER_SIGNED_OFF"}
Released == Shipped \cup {"READY_TO_SHIP"}

\* Rows and sessions hold the values the schema and the handlers allow; no order
\* is committed in the statuses a handler only passes through, or cancelled.
CommittedStates == OrderStates \ (Transient \cup {"CANCELLED"})

TypeOK ==
    /\ order \in [Orders -> CommittedStates \cup {"ABSENT"}]
    /\ record \in [Records -> RecordRow]
    /\ incidents \subseteq Records
    /\ shipment \in [Shipments -> ShipmentRow]
    /\ events \in [Orders -> [QC_REQUESTED : Nat, QC_PASSED : Nat]]
    /\ memory \in [Orders -> Nat]
    /\ lock \in [Orders -> Requests \cup {None}]
    /\ session \in [Requests -> Session]

\* Goods are handed to a carrier only with an inspection passed and on record:
\* no order is released for shipment, and no shipment exists, without a QC_PASSED
\* event of that order (record_qc_result, create_shipment).
ReleasedMeansInspected ==
    \A o \in Orders :
        (order[o] \in Released \/ \E s \in Shipments : shipment[s].order = o)
            => events[o].QC_PASSED > 0

\* An order shown as shipped has a shipment, one shown as delivered or signed off
\* has a shipment with its arrival noted: the two rows create_shipment and
\* add_tracking_event write never come apart, whichever request writes last.
ShippedMeansShipment ==
    \A o \in Orders :
        /\ order[o] \in Shipped => \E s \in Shipments : shipment[s].order = o
        /\ order[o] \in {"DELIVERED", "BUYER_SIGNED_OFF"} =>
              \E s \in Shipments : shipment[s].order = o /\ shipment[s].arrived

\* Each QC_REQUESTED event stands for one transition that really took place, from
\* IN_PRODUCTION to QC_PENDING; the FOR UPDATE of request_qc is there for this.
QcRequestIsATransition ==
    [][\A o \in Orders : events'[o].QC_REQUESTED # events[o].QC_REQUESTED =>
          order[o] = "IN_PRODUCTION" /\ order'[o] = "QC_PENDING"]_vars

(***************************************************************************)
(* Properties of requests served one at a time                             *)
(***************************************************************************)
\* The order's status moves only along VALID_TRANSITIONS, and a closed order stays
\* closed: the handlers implement OrderFlow.
Flow == INSTANCE OrderFlow WITH Orders <- Orders, order <- order
FollowsOrderFlow == Flow!Spec

\* The status agrees with the evidence: inspection was requested exactly once if
\* the order is past production, it has one shipment exactly if it is shipped, and
\* its suppliers' memory was updated once exactly if it is signed off.
StatusMatchesEvidence ==
    \A o \in Orders :
        /\ events[o].QC_REQUESTED =
              IF order[o] \in Released \cup {"QC_PENDING", "QC_FAILED"} THEN 1 ELSE 0
        /\ order[o] \in Shipped <=> \E s \in Shipments : shipment[s].order = o
        /\ \A s, t \in Shipments :
              shipment[s].order = o /\ shipment[t].order = o => s = t
        /\ memory[o] = IF order[o] = "BUYER_SIGNED_OFF" THEN 1 ELSE 0

\* No order gets stuck between two handlers: while people keep acting, an order
\* comes to be signed off unless it fails its inspection.  The model's stock of QC
\* records may run out first.
OrdersComeToRest ==
    \A o \in Orders : order[o] # "ABSENT" ~>
        \/ order[o] \in {"BUYER_SIGNED_OFF", "QC_FAILED"}
        \/ \A q \in Records : record[q].order # None
=============================================================================
