------------------------ MODULE ProviderHandoffProofs ------------------------
(***************************************************************************)
(* What the import of confirmed purchase orders guarantees for any number  *)
(* of executors, requests and purchase orders: only the executor the       *)
(* provider names has the order, and replay never undoes its progress.     *)
(*                                                                         *)
(* The argument: every write expects revision 0, so only the first one     *)
(* that arrives takes effect and an association never changes again; what  *)
(* a request has read back is therefore still so when it commits.          *)
(***************************************************************************)
EXTENDS ProviderHandoff, TLAPS

WritesExpectNothing ==
    /\ \A po \in PurchaseOrders :
          association[po].revision = 0 <=> association[po].executor = None
    /\ \A w \in flight : w.expected_revision = 0

\* What a request carries with it, and what it has read back.
SessionOK(r) ==
    /\ session[r].pc # "idle" =>
          session[r].executor \in Executors /\ session[r].po \in PurchaseOrders
    /\ session[r].pc = "post" => session[r].current.revision = 0
    /\ session[r].pc = "verify" /\ session[r].current.executor # None =>
          session[r].current = association[session[r].po]

IInv ==
    /\ TypeOK
    /\ WritesExpectNothing
    /\ \A r \in Requests : SessionOK(r)
    /\ OrderMeansAssociation

-----------------------------------------------------------------------------
\* Nothing is confirmed, associated or imported at first.
LEMMA InitIInv == Init => IInv
<1> SUFFICES ASSUME Init PROVE IInv
    OBVIOUS
<1> USE ProviderHandoffAssumption
<1>1. TypeOK
    BY DEF Init, TypeOK, Snapshots, Association, NoAssociation, OrderRow, NoOrder, Session,
           IdleSession
<1>2. WritesExpectNothing
    BY DEF Init, WritesExpectNothing, NoAssociation
<1>3. \A r \in Requests : SessionOK(r)
    BY DEF Init, SessionOK, IdleSession
<1>4. OrderMeansAssociation
    BY DEF Init, OrderMeansAssociation, NoOrder
<1> QED
    BY <1>1, <1>2, <1>3, <1>4 DEF IInv

\* A session that has done nothing is one.
LEMMA IdleType == IdleSession \in Session
BY ProviderHandoffAssumption DEF IdleSession, Session, NoAssociation, Association, Snapshots

\* What a request has read of the provider is of its type.
LEMMA ReadType ==
    ASSUME TypeOK, NEW r \in Requests, SessionOK(r), session[r].pc # "idle",
           NEW next \in {"post", "verify"},
           session' = [session EXCEPT ![r].pc = next,
                           ![r].current = association[session[r].po],
                           ![r].readback_source = source[session[r].po]]
    PROVE  session' \in [Requests -> Session]
<1>1. PICK old \in Session : old = session[r]
    BY DEF TypeOK
<1>2. association[old.po] \in Association /\ source[old.po] \in Snapshots
    BY <1>1 DEF SessionOK, TypeOK
<1>3. [old EXCEPT !.pc = next, !.current = association[old.po],
                  !.readback_source = source[old.po]] \in Session
    BY <1>2 DEF Session
<1>4. session' = [session EXCEPT ![r] = [old EXCEPT !.pc = next, !.current = association[old.po],
                                             !.readback_source = source[old.po]]]
    BY <1>1 DEF TypeOK
<1> QED
    BY <1>3, <1>4 DEF TypeOK

\* Resetting a session and the locks it holds keeps them of their types.
LEMMA FinishType ==
    ASSUME TypeOK, NEW r \in Requests, Finish(r), Unlock(r)
    PROVE  session' \in [Requests -> Session] /\ lock' \in [Executors -> Requests \cup {None}]
BY IdleType DEF TypeOK, Finish, Unlock

\* Every step of the provider keeps the types.
LEMMA ProviderType == IInv /\ Provider => TypeOK'
<1> SUFFICES ASSUME IInv, Provider PROVE TypeOK'
    OBVIOUS
<1>0. TypeOK
    BY DEF IInv
<1>1. ASSUME NEW po \in PurchaseOrders, ConfirmSource(po) PROVE TypeOK'
    BY <1>0, <1>1, ProviderHandoffAssumption DEF TypeOK, ConfirmSource, Snapshots
<1>2. ASSUME NEW w \in flight, ApplyWrite(w) PROVE TypeOK'
  <2>1. w \in Write
      BY <1>0 DEF TypeOK
  <2>2. [executor |-> w.executor, source |-> w.source, revision |-> w.expected_revision + 1]
           \in Association
      BY <2>1 DEF Write, Association
  <2>3. association' \in [PurchaseOrders -> Association]
      BY <1>0, <1>2, <2>1, <2>2 DEF TypeOK, ApplyWrite, Write
  <2> QED
      BY <1>0, <1>2, <2>3 DEF TypeOK, ApplyWrite
<1>3. ASSUME NEW w \in flight, LoseWrite(w) PROVE TypeOK'
    BY <1>0, <1>3 DEF TypeOK, LoseWrite
<1> QED
    BY <1>1, <1>2, <1>3 DEF Provider

\* Every step of a request keeps the types.
LEMMA RequestType ==
    ASSUME IInv, NEW r \in Requests,
           \/ \E e \in Executors, po \in PurchaseOrders : Start(r, e, po)
           \/ Step(r)
           \/ Abort(r)
    PROVE  TypeOK'
<1>0. TypeOK /\ SessionOK(r)
    BY DEF IInv
<1>1. ASSUME NEW e \in Executors, NEW po \in PurchaseOrders, Start(r, e, po) PROVE TypeOK'
  <2>1. PICK started \in Session :
           started = [IdleSession EXCEPT !.pc = "read", !.executor = e, !.po = po,
                                         !.source = source[po],
                                         !.existing = order[e][po].source > 0]
    <3>1. source[po] \in Snapshots /\ (order[e][po].source > 0) \in BOOLEAN
        BY <1>0 DEF TypeOK
    <3> QED
        BY <3>1, IdleType DEF Session
  <2>2. session' = [session EXCEPT ![r] = started]
      BY <1>1, <2>1 DEF Start
  <2>3. session' \in [Requests -> Session] /\ lock' \in [Executors -> Requests \cup {None}]
      BY <1>0, <1>1, <2>2 DEF TypeOK, Start
  <2> QED
      BY <1>0, <1>1, <2>3 DEF TypeOK, Start, provider
<1>2. CASE GetExecution(r)
  <2>1. session' \in [Requests -> Session]
    <3>1. CASE association[session[r].po].executor = None
        BY <1>0, <1>2, <3>1, ReadType DEF GetExecution
    <3>2. CASE association[session[r].po].executor # None
        BY <1>0, <1>2, <3>2, ReadType DEF GetExecution
    <3> QED
        BY <3>1, <3>2
  <2> QED
      BY <1>0, <1>2, <2>1 DEF TypeOK, GetExecution, provider
<1>3. CASE Post(r)
  <2>1. [po |-> session[r].po, executor |-> session[r].executor, source |-> session[r].source,
         expected_revision |-> session[r].current.revision] \in Write
    <3>1. PICK old \in Session : old = session[r]
        BY <1>0 DEF TypeOK
    <3>2. old.executor \in Executors /\ old.po \in PurchaseOrders
        BY <1>0, <1>3, <3>1 DEF SessionOK, Post
    <3>3. old.source \in Snapshots /\ old.current.revision \in Nat
        BY DEF Session, Association
    <3> QED
        BY <3>1, <3>2, <3>3 DEF Write
  <2>2. session' \in [Requests -> Session]
    <3>1. PICK old \in Session : old = session[r]
        BY <1>0 DEF TypeOK
    <3>2. [old EXCEPT !.pc = "sent"] \in Session
        BY DEF Session
    <3> QED
        BY <1>0, <1>3, <3>1, <3>2 DEF TypeOK, Post
  <2> QED
      BY <1>0, <1>3, <2>1, <2>2 DEF TypeOK, Post
<1>4. CASE ReadBack(r)
  <2>1. session' \in [Requests -> Session]
      BY <1>0, <1>4, ReadType DEF ReadBack
  <2> QED
      BY <1>0, <1>4, <2>1 DEF TypeOK, ReadBack, provider
<1>5. CASE Import(r)
  <2>1. order' \in [Executors -> [PurchaseOrders -> OrderRow]]
      BY <1>0, <1>5 DEF TypeOK, SessionOK, Import, Session, OrderRow
  <2>2. session' \in [Requests -> Session] /\ lock' \in [Executors -> Requests \cup {None}]
      BY <1>0, <1>5, FinishType DEF Import
  <2> QED
      BY <1>0, <1>5, <2>1, <2>2 DEF TypeOK, Import, provider
<1>6. CASE ReturnExisting(r) \/ Refuse(r) \/ Abort(r)
  <2>1. session' \in [Requests -> Session] /\ lock' \in [Executors -> Requests \cup {None}]
      BY <1>0, <1>6, FinishType DEF ReturnExisting, Refuse, Abort
  <2> QED
      BY <1>0, <1>6, <2>1 DEF TypeOK, ReturnExisting, Refuse, Abort, provider
<1> QED
    BY <1>1, <1>2, <1>3, <1>4, <1>5, <1>6 DEF Step

\* Every step keeps rows, messages and sessions of their types.
LEMMA NextTypeOK == IInv /\ [Next]_vars => TypeOK'
<1> SUFFICES ASSUME IInv, [Next]_vars PROVE TypeOK'
    OBVIOUS
<1>0. TypeOK
    BY DEF IInv
<1>1. ASSUME NEW e \in Executors, NEW po \in PurchaseOrders, Progress(e, po) PROVE TypeOK'
  <2>1. PICK row \in OrderRow : row = order[e][po]
      BY <1>0 DEF TypeOK
  <2>2. [row EXCEPT !.progressed = TRUE] \in OrderRow
      BY DEF OrderRow
  <2>3. order' \in [Executors -> [PurchaseOrders -> OrderRow]]
    <3>1. order' = [order EXCEPT ![e] = [order[e] EXCEPT ![po] = [row EXCEPT !.progressed = TRUE]]]
        BY <1>1, <2>1 DEF Progress
    <3> QED
        BY <1>0, <2>2, <3>1 DEF TypeOK
  <2> QED
      BY <1>0, <1>1, <2>3 DEF TypeOK, Progress, provider
<1>2. ASSUME NEW e \in Executors, LoseDatabase(e) PROVE TypeOK'
  <2>1. NoOrder \in OrderRow
      BY ProviderHandoffAssumption DEF NoOrder, OrderRow, Snapshots
  <2> QED
      BY <1>0, <1>2, <2>1, IdleType DEF TypeOK, LoseDatabase, provider
<1>3. CASE UNCHANGED vars
    BY <1>0, <1>3 DEF TypeOK, vars, provider
<1> QED
    BY <1>1, <1>2, <1>3, ProviderType, RequestType DEF Next

-----------------------------------------------------------------------------
\* An association is never replaced or taken back, whatever writes are still on their
\* way.
LEMMA AssociationsStay ==
    ASSUME IInv, [Next]_vars, NEW po \in PurchaseOrders, association[po].executor # None
    PROVE  association'[po] = association[po]
<1>1. ASSUME NEW w \in flight, ApplyWrite(w) PROVE association'[po] = association[po]
  <2>1. w.expected_revision = 0 /\ association[po].revision # 0
      BY DEF IInv, WritesExpectNothing
  <2> QED
      BY <1>1, <2>1 DEF ApplyWrite, IInv, TypeOK
<1> QED
    BY <1>1 DEF Next, Provider, Step, vars, provider, ConfirmSource, LoseWrite, Start, GetExecution,
       Post, ReadBack, ReturnExisting, Import, Refuse, Abort, Progress, LoseDatabase

\* Every write that is sent expects that there is no association.
LEMMA NextWrites == IInv /\ [Next]_vars => WritesExpectNothing'
<1> SUFFICES ASSUME IInv, [Next]_vars PROVE WritesExpectNothing'
    OBVIOUS
<1>0. TypeOK /\ WritesExpectNothing /\ \A r \in Requests : SessionOK(r)
    BY DEF IInv
<1>1. ASSUME NEW w \in flight, ApplyWrite(w) PROVE WritesExpectNothing'
  <2>1. w.expected_revision = 0 /\ w.executor # None /\ w.po \in PurchaseOrders
      BY <1>0, ProviderHandoffAssumption DEF WritesExpectNothing, TypeOK, Write
  <2>2. ASSUME NEW po \in PurchaseOrders
        PROVE  association'[po].revision = 0 <=> association'[po].executor = None
    <3>1. \/ association'[po] = association[po]
          \/ association'[po].executor = w.executor /\ association'[po].revision = 1
        BY <1>0, <1>1, <2>1 DEF ApplyWrite, TypeOK
    <3> QED
        BY <1>0, <2>1, <3>1 DEF WritesExpectNothing
  <2> QED
      BY <1>0, <1>1, <2>2 DEF WritesExpectNothing, ApplyWrite
<1>2. ASSUME NEW r \in Requests, Post(r) PROVE WritesExpectNothing'
    BY <1>0, <1>2 DEF Post, SessionOK, WritesExpectNothing
<1>3. CASE UNCHANGED <<association, flight>>
    BY <1>0, <1>3 DEF WritesExpectNothing
<1>4. ASSUME NEW w \in flight, LoseWrite(w) PROVE WritesExpectNothing'
    BY <1>0, <1>4 DEF WritesExpectNothing, LoseWrite
<1> QED
    BY <1>1, <1>2, <1>3, <1>4
    DEF Next, Provider, Step, vars, provider, ConfirmSource, Start, GetExecution, ReadBack,
        ReturnExisting, Import, Refuse, Abort, Progress, LoseDatabase

\* What a request has read back stays so until it commits.
LEMMA NextSessions == IInv /\ [Next]_vars => \A q \in Requests : SessionOK(q)'
<1> SUFFICES ASSUME IInv, [Next]_vars, NEW q \in Requests PROVE SessionOK(q)'
    OBVIOUS
<1>0. TypeOK /\ SessionOK(q) /\ WritesExpectNothing
    BY DEF IInv
<1>1. CASE session'[q] = session[q]
  <2>1. CASE session[q].pc = "verify" /\ session[q].current.executor # None
    <3>1. PICK po \in PurchaseOrders : po = session[q].po
        BY <1>0, <2>1 DEF SessionOK
    <3>2. association[po].executor # None
        BY <1>0, <2>1, <3>1 DEF SessionOK
    <3>3. association'[po] = association[po]
        BY <3>2, AssociationsStay
    <3> QED
        BY <1>0, <1>1, <2>1, <3>1, <3>3 DEF SessionOK
  <2>2. CASE ~(session[q].pc = "verify" /\ session[q].current.executor # None)
      BY <1>0, <1>1, <2>2 DEF SessionOK
  <2> QED
      BY <2>1, <2>2
<1>2. CASE session'[q] = IdleSession
    BY <1>2 DEF SessionOK, IdleSession
<1>3. ASSUME NEW e \in Executors, NEW po \in PurchaseOrders, Start(q, e, po) PROVE SessionOK(q)'
    BY <1>0, <1>3 DEF Start, TypeOK, SessionOK, IdleSession
<1>4. CASE GetExecution(q) \/ ReadBack(q)
  <2>1. PICK po \in PurchaseOrders : po = session[q].po
      BY <1>0, <1>4 DEF SessionOK, GetExecution, ReadBack
  <2>2. /\ session'[q].po = po /\ session'[q].executor \in Executors
        /\ session'[q].current = association[po]
        /\ \/ session'[q].pc = "verify"
           \/ session'[q].pc = "post" /\ association[po].executor = None
        /\ association' = association
    <3>0. PICK old \in Session : old = session[q]
        BY <1>0 DEF TypeOK
    <3>1. old.executor \in Executors
        BY <1>0, <1>4, <3>0 DEF SessionOK, GetExecution, ReadBack
    <3>2. ASSUME NEW next, session' = [session EXCEPT
                     ![q].pc = next, ![q].current = association[po], ![q].readback_source = source[po]]
          PROVE  session'[q] = [old EXCEPT !.pc = next, !.current = association[po],
                                           !.readback_source = source[po]]
        BY <1>0, <3>0, <3>2 DEF TypeOK
    <3>3. CASE GetExecution(q)
      <4> DEFINE next == IF association[po].executor = None THEN "post" ELSE "verify"
      <4>1. session'[q] = [old EXCEPT !.pc = next, !.current = association[po],
                                      !.readback_source = source[po]]
          BY <2>1, <3>2, <3>3 DEF GetExecution
      <4>2. association' = association
          BY <3>3 DEF GetExecution, provider
      <4> QED
          BY <2>1, <3>0, <3>1, <4>1, <4>2 DEF Session
    <3>4. CASE ReadBack(q)
      <4>1. session'[q] = [old EXCEPT !.pc = "verify", !.current = association[po],
                                      !.readback_source = source[po]]
          BY <2>1, <3>2, <3>4 DEF ReadBack
      <4>2. association' = association
          BY <3>4 DEF ReadBack, provider
      <4> QED
          BY <2>1, <3>0, <3>1, <4>1, <4>2 DEF Session
    <3> QED
        BY <1>4, <3>3, <3>4
  <2>3. association[po].executor = None => association[po].revision = 0
      BY <1>0 DEF WritesExpectNothing
  <2> QED
      BY <2>2, <2>3 DEF SessionOK
<1>5. CASE Post(q)
    BY <1>0, <1>5 DEF Post, TypeOK, Session, SessionOK
<1>6. ASSUME NEW r \in Requests, r # q,
             \/ \E e \in Executors, po \in PurchaseOrders : Start(r, e, po)
             \/ GetExecution(r) \/ Post(r) \/ ReadBack(r)
      PROVE  session'[q] = session[q]
    BY <1>0, <1>6 DEF Start, GetExecution, Post, ReadBack, TypeOK
<1>7. ASSUME NEW r \in Requests, Finish(r)
      PROVE  session'[q] = session[q] \/ session'[q] = IdleSession
    BY <1>0, <1>7 DEF Finish, TypeOK
<1>8. ASSUME NEW e \in Executors, LoseDatabase(e)
      PROVE  session'[q] = session[q] \/ session'[q] = IdleSession
    BY <1>8 DEF LoseDatabase
<1> QED
    BY <1>1, <1>2, <1>3, <1>4, <1>5, <1>6, <1>7, <1>8
    DEF Next, Provider, Step, vars, ConfirmSource, ApplyWrite, LoseWrite, ReturnExisting, Import,
        Refuse, Abort, Progress

-----------------------------------------------------------------------------
\* How a step changes one order: it does not, or it is the first import, progress, or
\* the loss of the executor's database.
OrderStep(e, po) ==
    \/ order'[e][po] = order[e][po]
    \/ order[e][po] = NoOrder
       /\ \E r \in Requests : Import(r) /\ session[r].executor = e /\ session[r].po = po
    \/ order'[e][po].source = order[e][po].source /\ order'[e][po].progressed
    \/ \A other \in PurchaseOrders : order'[e][other] = NoOrder

LEMMA OrderSteps ==
    ASSUME IInv, [Next]_vars, NEW e \in Executors, NEW po \in PurchaseOrders
    PROVE  OrderStep(e, po)
<1>0. TypeOK /\ \A r \in Requests : SessionOK(r)
    BY DEF IInv
<1>1. ASSUME NEW r \in Requests, Import(r) PROVE OrderStep(e, po)
  <2>1. session[r].executor \in Executors /\ session[r].po \in PurchaseOrders
      BY <1>0, <1>1 DEF SessionOK, Import
  <2>2. CASE session[r].executor = e /\ session[r].po = po
      BY <1>1, <2>2 DEF Import, OrderStep
  <2>3. CASE ~(session[r].executor = e /\ session[r].po = po)
      BY <1>0, <1>1, <2>1, <2>3 DEF Import, OrderStep, TypeOK
  <2> QED
      BY <2>2, <2>3
<1>2. ASSUME NEW f \in Executors, NEW other \in PurchaseOrders, Progress(f, other)
      PROVE  OrderStep(e, po)
    BY <1>0, <1>2 DEF Progress, OrderStep, TypeOK, OrderRow
<1>3. ASSUME NEW f \in Executors, LoseDatabase(f) PROVE OrderStep(e, po)
    BY <1>0, <1>3 DEF LoseDatabase, OrderStep, TypeOK
<1>4. CASE order' = order
    BY <1>4 DEF OrderStep
<1> QED
    BY <1>1, <1>2, <1>3, <1>4
    DEF Next, Provider, Step, vars, ConfirmSource, ApplyWrite, LoseWrite, Start, GetExecution,
        Post, ReadBack, ReturnExisting, Refuse, Abort

\* The order that is imported is the associated one, and an association stays.
LEMMA NextOrders == IInv /\ [Next]_vars => OrderMeansAssociation'
<1> SUFFICES ASSUME IInv, [Next]_vars, NEW e \in Executors, NEW po \in PurchaseOrders,
                    order'[e][po].source > 0
             PROVE  /\ association'[po].executor = e
                    /\ association'[po].source = order'[e][po].source
    BY DEF OrderMeansAssociation
<1>0. TypeOK /\ OrderMeansAssociation
    BY DEF IInv
<1>1. CASE order'[e][po].source = order[e][po].source
  <2>1. association[po].executor = e /\ association[po].source = order[e][po].source
      BY <1>0, <1>1 DEF OrderMeansAssociation
  <2>2. association'[po] = association[po]
      BY <2>1, ProviderHandoffAssumption, AssociationsStay
  <2> QED
      BY <1>1, <2>1, <2>2
<1>2. ASSUME NEW r \in Requests, Import(r), session[r].executor = e, session[r].po = po
      PROVE  /\ association'[po].executor = e
             /\ association'[po].source = order'[e][po].source
  <2>1. session[r].current.executor = e /\ session[r].current.source = session[r].source
      BY <1>2 DEF Import, Verified
  <2>2. session[r].current = association[po]
      BY <1>2, <2>1, ProviderHandoffAssumption DEF IInv, SessionOK, Import
  <2>3. association' = association /\ order'[e][po].source = session[r].source
      BY <1>0, <1>2 DEF Import, provider, TypeOK
  <2> QED
      BY <2>1, <2>2, <2>3
<1>3. CASE \A other \in PurchaseOrders : order'[e][other] = NoOrder
  <2>1. order'[e][po].source = 0
      BY <1>3 DEF NoOrder
  <2> QED
      BY <2>1
<1> QED
    BY <1>1, <1>2, <1>3, OrderSteps DEF OrderStep

\* The invariant is inductive.
LEMMA Inductive == Spec => []IInv
<1>1. IInv /\ [Next]_vars => IInv'
    BY NextTypeOK, NextWrites, NextSessions, NextOrders DEF IInv
<1> QED
    BY <1>1, InitIInv, PTL DEF Spec

\* Rows, messages and sessions hold the values the code allows.
THEOREM TypeCorrect == Spec => []TypeOK
<1>1. IInv => TypeOK
    BY DEF IInv
<1> QED
    BY <1>1, Inductive, PTL

\* However writes are lost, delayed or repeated, whoever has the order is the one the
\* provider names.
THEOREM OrdersAreAssociated == Spec => []OrderMeansAssociation
<1>1. IInv => OrderMeansAssociation
    BY DEF IInv
<1> QED
    BY <1>1, Inductive, PTL

\* However imports overlap and are repeated, none undoes an order's progress.
THEOREM ReplayIsHarmless == Spec => ReplayKeepsProgress
<1>1. IInv /\ [Next]_vars =>
         [\A e \in Executors, po \in PurchaseOrders :
             order[e][po].source > 0 /\ order'[e][po] # order[e][po] =>
                 \/ order'[e][po].source = order[e][po].source /\ order'[e][po].progressed
                 \/ \A other \in PurchaseOrders : order'[e][other] = NoOrder]_vars
  <2> SUFFICES ASSUME IInv, [Next]_vars, NEW e \in Executors, NEW po \in PurchaseOrders,
                      order[e][po].source > 0, order'[e][po] # order[e][po]
               PROVE  \/ order'[e][po].source = order[e][po].source /\ order'[e][po].progressed
                      \/ \A other \in PurchaseOrders : order'[e][other] = NoOrder
      OBVIOUS
  <2>1. order[e][po] # NoOrder
      BY DEF NoOrder
  <2> QED
      BY <2>1, OrderSteps DEF OrderStep
<1> QED
    BY <1>1, Inductive, PTL DEF Spec, ReplayKeepsProgress
=============================================================================
