--------------------------- MODULE ProviderHandoff ---------------------------
(***************************************************************************)
(* Importing a purchase order that is already confirmed with an external   *)
(* provider: POST /orders/from-provider-confirmed.                         *)
(*                                                                         *)
(* import_confirmed_order associates the order with this executor at the   *)
(* provider first, by compare-and-set and a readback, and only then        *)
(* inserts the execution records, in one local transaction.  The write may *)
(* be lost, late or applied without a reply; the process may die anywhere; *)
(* the client repeats the import.  Executors have a database and a local   *)
(* tenant of their own, from which the identities of the records are       *)
(* derived, and know each other only through the provider.                 *)
(***************************************************************************)
EXTENDS Naturals

CONSTANTS
    Requests,      \* slots in which imports are served, one at a time each
    Executors,     \* local databases, each with the local tenant it imports for
    PurchaseOrders,
    MaxSource,     \* bound on the versions of a confirmed source
    None

ASSUME ProviderHandoffAssumption ==
    /\ None \notin Requests \cup Executors \cup PurchaseOrders
    /\ MaxSource \in Nat \ {0}

VARIABLES
    source,        \* provider: version of the confirmed source, 0 until confirmed
    association,   \* provider: the execution state of a purchase order
    flight,        \* writes of execution states that the provider has not handled
    order,         \* committed Order and ProviderOrderAssociation rows per executor
    lock,          \* the request holding the executor's tenant row
    session        \* what each request has read, and where it is

provider == <<source, association, flight>>
vars == <<provider, order, lock, session>>

-----------------------------------------------------------------------------
Snapshots == 0..MaxSource
Association == [executor : Executors \cup {None}, source : Snapshots, revision : Nat]
NoAssociation == [executor |-> None, source |-> 0, revision |-> 0]

\* The order with the association row inserted beside it; source 0 if neither is.
OrderRow == [source : Snapshots, progressed : BOOLEAN]
NoOrder == [source |-> 0, progressed |-> FALSE]

Write == [po : PurchaseOrders, executor : Executors, source : Snapshots, expected_revision : Nat]
Session == [pc : {"idle", "read", "post", "sent", "verify"}, executor : Executors \cup {None},
            po : PurchaseOrders \cup {None}, source : Snapshots, existing : BOOLEAN,
            current : Association, readback_source : Snapshots]
IdleSession == [pc |-> "idle", executor |-> None, po |-> None, source |-> 0,
                existing |-> FALSE, current |-> NoAssociation, readback_source |-> 0]

Finish(r) == session' = [session EXCEPT ![r] = IdleSession]
Unlock(r) == lock' = [e \in Executors |-> IF lock[e] = r THEN None ELSE lock[e]]

-----------------------------------------------------------------------------
(***************************************************************************)
(* The provider                                                            *)
(***************************************************************************)
\* Confirmed, or confirmed anew with another snapshot hash.
ConfirmSource(po) ==
    /\ source[po] < MaxSource
    /\ source' = [source EXCEPT ![po] = @ + 1]
    /\ UNCHANGED <<association, flight, order, lock, session>>

\* A write takes effect if the revision it expects is still the current one.
ApplyWrite(w) ==
    /\ association' = IF association[w.po].revision = w.expected_revision
                      THEN [association EXCEPT ![w.po] =
                               [executor |-> w.executor, source |-> w.source,
                                revision |-> w.expected_revision + 1]]
                      ELSE association
    /\ flight' = flight \ {w}
    /\ UNCHANGED <<source, order, lock, session>>

LoseWrite(w) ==
    /\ flight' = flight \ {w}
    /\ UNCHANGED <<source, association, order, lock, session>>

-----------------------------------------------------------------------------
(***************************************************************************)
(* The import                                                              *)
(***************************************************************************)
\* The tenant's row is locked, the source read and the local association looked up;
\* one made from another source version is refused.
Start(r, e, po) ==
    /\ session[r].pc = "idle"
    /\ lock[e] = None
    /\ source[po] > 0
    /\ order[e][po].source \in {0, source[po]}
    /\ lock' = [lock EXCEPT ![e] = r]
    /\ session' = [session EXCEPT ![r] =
           [IdleSession EXCEPT !.pc = "read", !.executor = e, !.po = po, !.source = source[po],
                               !.existing = order[e][po].source > 0]]
    /\ UNCHANGED <<provider, order>>

\* Mutant of GetExecution: an association already there is taken for a conflict.
GetExecutionOnce(r) ==
    LET po == session[r].po IN
    /\ session[r].pc = "read"
    /\ association[po].executor = None
    /\ session' = [session EXCEPT ![r].pc = "post", ![r].current = association[po],
                                  ![r].readback_source = source[po]]
    /\ UNCHANGED <<provider, order, lock>>

\* associate returns an execution state that is there, whoever wrote it.
GetExecution(r) ==
    LET po == session[r].po IN
    /\ session[r].pc = "read"
    /\ session' = [session EXCEPT
           ![r].pc = IF association[po].executor = None THEN "post" ELSE "verify",
           ![r].current = association[po], ![r].readback_source = source[po]]
    /\ UNCHANGED <<provider, order, lock>>

Post(r) ==
    /\ session[r].pc = "post"
    /\ flight' = flight \cup
           {[po |-> session[r].po, executor |-> session[r].executor, source |-> session[r].source,
             expected_revision |-> session[r].current.revision]}
    /\ session' = [session EXCEPT ![r].pc = "sent"]
    /\ UNCHANGED <<source, association, order, lock>>

\* Success, conflict, timeout and an invalid reply all lead to the readback.
ReadBack(r) ==
    LET po == session[r].po IN
    /\ session[r].pc = "sent"
    /\ session' = [session EXCEPT ![r].pc = "verify", ![r].current = association[po],
                                  ![r].readback_source = source[po]]
    /\ UNCHANGED <<provider, order, lock>>

\* Mutant of Verified: the local identities in the readback are not compared.
VerifiedForAnyone(r) ==
    /\ session[r].readback_source = session[r].source
    /\ session[r].current.revision >= 1
    /\ session[r].current.source = session[r].source

\* The readback names this executor's identities and the source just read.
Verified(r) ==
    /\ session[r].readback_source = session[r].source
    /\ session[r].current.revision >= 1
    /\ session[r].current.executor = session[r].executor
    /\ session[r].current.source = session[r].source

\* Mutant of ReturnExisting: the records are written as on the first import.
ReturnExistingReset(r) ==
    /\ session[r].pc = "verify"
    /\ Verified(r)
    /\ session[r].existing
    /\ order' = [order EXCEPT ![session[r].executor][session[r].po] =
                    [source |-> session[r].source, progressed |-> FALSE]]
    /\ Unlock(r)
    /\ Finish(r)
    /\ UNCHANGED provider

ReturnExisting(r) ==
    /\ session[r].pc = "verify"
    /\ Verified(r)
    /\ session[r].existing
    /\ Unlock(r)
    /\ Finish(r)
    /\ UNCHANGED <<provider, order>>

\* Every execution record and the audit event, in one commit.  The primary keys are
\* the derived identities: a second insert would fail.
Import(r) ==
    LET e == session[r].executor
        po == session[r].po
    IN
    /\ session[r].pc = "verify"
    /\ Verified(r)
    /\ ~session[r].existing
    /\ order[e][po] = NoOrder
    /\ order' = [order EXCEPT ![e][po] = [source |-> session[r].source, progressed |-> FALSE]]
    /\ Unlock(r)
    /\ Finish(r)
    /\ UNCHANGED provider

Refuse(r) ==
    /\ session[r].pc = "verify"
    /\ ~Verified(r)
    /\ Unlock(r)
    /\ Finish(r)
    /\ UNCHANGED <<provider, order>>

\* The provider answers with an error, or the process dies, before the commit.  A
\* write that is under way stays under way.
Abort(r) ==
    /\ session[r].pc # "idle"
    /\ Unlock(r)
    /\ Finish(r)
    /\ UNCHANGED <<provider, order>>

\* The order lives on: module OrderLifecycle.
Progress(e, po) ==
    /\ order[e][po].source > 0
    /\ order' = [order EXCEPT ![e][po].progressed = TRUE]
    /\ UNCHANGED <<provider, lock, session>>

\* "A fresh local database can recover the initial handoff from the provider": the
\* executor's database is lost, and with it whatever runs on it.
LoseDatabase(e) ==
    /\ order' = [order EXCEPT ![e] = [po \in PurchaseOrders |-> NoOrder]]
    /\ lock' = [lock EXCEPT ![e] = None]
    /\ session' = [r \in Requests |->
                      IF session[r].executor = e THEN IdleSession ELSE session[r]]
    /\ UNCHANGED provider

-----------------------------------------------------------------------------
Init ==
    /\ source = [po \in PurchaseOrders |-> 0]
    /\ association = [po \in PurchaseOrders |-> NoAssociation]
    /\ flight = {}
    /\ order = [e \in Executors |-> [po \in PurchaseOrders |-> NoOrder]]
    /\ lock = [e \in Executors |-> None]
    /\ session = [r \in Requests |-> IdleSession]

Provider ==
    \/ \E po \in PurchaseOrders : ConfirmSource(po)
    \/ \E w \in flight : ApplyWrite(w) \/ LoseWrite(w)

Step(r) ==
    \/ GetExecution(r) \/ Post(r) \/ ReadBack(r)
    \/ ReturnExisting(r) \/ Import(r) \/ Refuse(r)

Next ==
    \/ Provider
    \/ \E r \in Requests :
          \/ \E e \in Executors, po \in PurchaseOrders : Start(r, e, po)
          \/ Step(r) \/ Abort(r)
    \/ \E e \in Executors :
          \/ LoseDatabase(e)
          \/ \E po \in PurchaseOrders : Progress(e, po)

Spec == Init /\ [][Next]_vars

\* An import that is not interrupted runs on.  The client repeats the import of a
\* purchase order, and not every repetition is interrupted at the same point.
Fairness ==
    /\ \A r \in Requests : WF_vars(Step(r))
    /\ \A e \in Executors, po \in PurchaseOrders :
          LET importing(r) == session[r].executor = e /\ session[r].po = po IN
          /\ SF_vars(\E r \in Requests : Start(r, e, po))
          /\ SF_vars(\E r \in Requests : importing(r) /\ GetExecution(r))
          /\ SF_vars(\E r \in Requests : importing(r) /\ Import(r))

FairSpec == Spec /\ Fairness

-----------------------------------------------------------------------------
(***************************************************************************)
(* Properties                                                              *)
(***************************************************************************)
\* Rows, messages and sessions hold the values the code allows.
TypeOK ==
    /\ source \in [PurchaseOrders -> Snapshots]
    /\ association \in [PurchaseOrders -> Association]
    /\ flight \subseteq Write
    /\ order \in [Executors -> [PurchaseOrders -> OrderRow]]
    /\ lock \in [Executors -> Requests \cup {None}]
    /\ session \in [Requests -> Session]

\* docs/PROVIDER_ORDER_HANDOFF.md: "association identity conflicts [...] and uncertain
\* readback do not launch an execution order".  Whoever has the order is the one the
\* provider names, and executes the source version it was associated with; no late
\* write ever takes an association from an executor that has launched the order.
OrderMeansAssociation ==
    \A e \in Executors, po \in PurchaseOrders : order[e][po].source > 0 =>
        /\ association[po].executor = e
        /\ association[po].source = order[e][po].source

\* "Import replay never resets or reconstructs progressed lifecycle data", however
\* imports of one purchase order overlap, fail and are repeated; only the loss of the
\* whole database takes an order away.
ReplayKeepsProgress ==
    [][\A e \in Executors, po \in PurchaseOrders :
          order[e][po].source > 0 /\ order'[e][po] # order[e][po] =>
              \/ order'[e][po].source = order[e][po].source /\ order'[e][po].progressed
              \/ \A other \in PurchaseOrders : order'[e][other] = NoOrder]_vars

\* "It can finish an initial import after a local transaction failure": an association
\* made by an import that then failed does not block the purchase order for ever.
\* Unless the confirmed source changes, repetition leads to the order.
AssociationsAreCompleted ==
    \A e \in Executors, po \in PurchaseOrders :
        association[po].executor = e ~>
            order[e][po].source > 0 \/ source[po] # association[po].source
=============================================================================
