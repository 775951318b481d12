------------------------- MODULE ApprovalGateProofs -------------------------
(***************************************************************************)
(* Proofs that the approval gate keeps its safety invariants for any       *)
(* number of requests, approvals, RFQs, packets and options; and, in the   *)
(* last part, that orders and the form they freeze do, for any number of   *)
(* clerks, orders and versions.                                            *)
(***************************************************************************)
EXTENDS OrderPlacement, FiniteSetTheorems, TLAPS

(***************************************************************************)
(* Type correctness                                                        *)
(***************************************************************************)
\* What a session holds at each point of its handler.
SessionOK == \A r \in Requests :
    /\ session[r].pc # "idle" => session[r].approval \in Approvals
    /\ session[r].pc = "review" => session[r].verdict \in Verdicts
    /\ session[r].pc \in {"gate", "consumed", "loaded"} => session[r].target \in Targets

TypeInv == TypeOK /\ SessionOK

\* The first state is well typed.
LEMMA InitTypeOK == Init => TypeInv
BY ApprovalGateAssumption
DEF Init, TypeInv, SessionOK, TypeOK, NoApproval, IdleSession, ApprovalRow, PacketRow, Session,
    ApprovalStatus, RfqStatus, PacketStatus, Verdicts, ActionTypes, Targets

\* The idle session is a session.
LEMMA IdleType == IdleSession \in Session
BY ApprovalGateAssumption DEF IdleSession, Session, ApprovalStatus, Verdicts, Targets

\* Ending a request keeps sessions well formed.
LEMMA FinishType ==
    ASSUME TypeInv, NEW r \in Requests, Finish(r)
    PROVE  /\ session' \in [Requests -> Session] /\ SessionOK'
           /\ \A q \in Requests : session'[q] = IF q = r THEN IdleSession ELSE session[q]
<1>1. /\ session' \in [Requests -> Session]
      /\ \A q \in Requests : session'[q] = IF q = r THEN IdleSession ELSE session[q]
    BY IdleType DEF Finish, TypeInv, TypeOK
<1>2. SessionOK'
    BY <1>1 DEF TypeInv, SessionOK, IdleSession
<1> QED
    BY <1>1, <1>2

\* Going on with a gated handler keeps sessions well formed.
LEMMA GotoType ==
    ASSUME TypeInv, NEW r \in Requests, NEW pc \in {"consumed", "loaded"}, Goto(r, pc),
           session[r].pc \in {"gate", "consumed"}
    PROVE  /\ session' \in [Requests -> Session] /\ SessionOK'
           /\ \A q \in Requests \ {r} : session'[q] = session[q]
           /\ session'[r] = [session[r] EXCEPT !.pc = pc]
<1>1. [session[r] EXCEPT !.pc = pc] \in Session
    BY DEF TypeInv, TypeOK, Session
<1>2. /\ session' \in [Requests -> Session]
      /\ \A q \in Requests \ {r} : session'[q] = session[q]
      /\ session'[r] = [session[r] EXCEPT !.pc = pc]
    BY <1>1 DEF Goto, TypeInv, TypeOK
<1>3. /\ session[r] \in Session
      /\ session[r].approval \in Approvals /\ session[r].target \in Targets
    BY DEF TypeInv, TypeOK, SessionOK
<1>4. /\ session'[r].pc = pc
      /\ session'[r].approval = session[r].approval /\ session'[r].target = session[r].target
    BY <1>2, <1>3 DEF Session
<1>5. SessionOK'
    BY <1>2, <1>3, <1>4 DEF TypeInv, SessionOK
<1> QED
    BY <1>2, <1>5

\* Giving up locks keeps the lock table well typed.
LEMMA UnlockType ==
    ASSUME TypeInv, NEW r \in Requests, Unlock(r)
    PROVE  /\ lock' \in [Approvals -> Requests \cup {None}]
           /\ \A a \in Approvals : lock'[a] = IF lock[a] = r THEN None ELSE lock[a]
BY DEF Unlock, TypeInv, TypeOK

\* Spending an approval marks that row only.
LEMMA SpendType ==
    ASSUME TypeInv, NEW r \in Requests, session[r].pc = "loaded", Spend(r)
    PROVE  /\ approval' \in [Approvals -> ApprovalRow]
           /\ uses' \in [Approvals -> Nat]
           /\ session[r].approval \in Approvals
           /\ approval' = [approval EXCEPT ![session[r].approval].consumed = TRUE]
           /\ uses' = [uses EXCEPT ![session[r].approval] = @ + 1]
<1>1. session[r].approval \in Approvals
    BY DEF TypeInv, SessionOK
<1>2. PICK a \in Approvals : a = session[r].approval
    BY <1>1
<1>3. PICK row \in ApprovalRow, n \in Nat : row = approval[a] /\ n = uses[a]
    BY DEF TypeInv, TypeOK
<1>4. [row EXCEPT !.consumed = TRUE] \in ApprovalRow /\ n + 1 \in Nat
  <2>1. [row EXCEPT !.consumed = TRUE] \in ApprovalRow
      BY DEF ApprovalRow
  <2> QED
      BY <2>1
<1>5. /\ approval' = [approval EXCEPT ![a] = [approval[a] EXCEPT !.consumed = TRUE]]
      /\ uses' = [uses EXCEPT ![a] = uses[a] + 1]
    BY <1>2 DEF Spend
<1>6. approval' \in [Approvals -> ApprovalRow] /\ uses' \in [Approvals -> Nat]
    BY <1>3, <1>4, <1>5 DEF TypeInv, TypeOK
<1> QED
    BY <1>1, <1>6 DEF Spend

\* Every step keeps rows and sessions well typed.
LEMMA NextTypeOK == TypeInv /\ [Next]_vars => TypeInv'
<1> SUFFICES ASSUME TypeInv, [Next]_vars PROVE TypeInv'
    OBVIOUS
<1>0. /\ approval \in [Approvals -> ApprovalRow] /\ rfq \in [Rfqs -> RfqStatus]
      /\ packet \in [Packets -> PacketRow] /\ lock \in [Approvals -> Requests \cup {None}]
      /\ session \in [Requests -> Session] /\ uses \in [Approvals -> Nat] /\ SessionOK
    BY DEF TypeInv, TypeOK
<1>1. ASSUME NEW a \in Approvals, NEW x \in Rfqs, CreateRfq(a, x) PROVE TypeInv'
    BY <1>0, <1>1
    DEF CreateRfq, CreateApprovalRequest, ActionOf, TypeInv, TypeOK, SessionOK,
        ApprovalRow, ApprovalStatus, RfqStatus, ActionTypes, Targets
<1>2. ASSUME NEW a \in Approvals, NEW p \in Packets, GeneratePacket(a, p) PROVE TypeInv'
    BY <1>0, <1>2
    DEF GeneratePacket, CreateApprovalRequest, ActionOf, TypeInv, TypeOK, SessionOK,
        ApprovalRow, ApprovalStatus, PacketRow, PacketStatus, ActionTypes, Targets
<1>3. ASSUME NEW r \in Requests, NEW a \in Approvals, NEW v \in Verdicts, ReviewRead(r, a, v)
      PROVE TypeInv'
    BY <1>0, <1>3, ApprovalGateAssumption
    DEF ReviewRead, IdleSession, TypeInv, TypeOK, SessionOK, Session, ApprovalRow
<1>4. ASSUME NEW r \in Requests, ReviewWrite(r) PROVE TypeInv'
  <2>1. session[r].approval \in Approvals /\ session[r].verdict \in Verdicts
      BY <1>0, <1>4 DEF ReviewWrite, SessionOK
  <2>2. [approval[session[r].approval] EXCEPT !.status = session[r].verdict] \in ApprovalRow
      BY <1>0, <2>1 DEF ApprovalRow, ApprovalStatus
  <2>3. approval' \in [Approvals -> ApprovalRow]
      BY <1>0, <1>4, <2>1, <2>2 DEF ReviewWrite
  <2> QED
      BY <1>0, <1>4, <2>3, FinishType DEF ReviewWrite, TypeInv, TypeOK
<1>5. ASSUME NEW r \in Requests, NEW a \in Approvals, NEW x \in Rfqs, SendRfqGuard(r, a, x)
      PROVE TypeInv'
    BY <1>0, <1>5
    DEF SendRfqGuard, BeginGated, IdleSession, TypeInv, TypeOK, SessionOK, Session,
        ApprovalStatus, Verdicts, Targets
<1>6. ASSUME NEW r \in Requests, NEW a \in Approvals, NEW p \in Packets, NEW o \in Options,
             ApproveOptionGuard(r, a, p, o)
      PROVE TypeInv'
    BY <1>0, <1>6
    DEF ApproveOptionGuard, BeginGated, IdleSession, TypeInv, TypeOK, SessionOK, Session,
        ApprovalStatus, Verdicts, Targets
<1>7. ASSUME NEW r \in Requests, Consume(r) PROVE TypeInv'
  <2>1. lock' \in [Approvals -> Requests \cup {None}]
      BY <1>0, <1>7 DEF Consume
  <2> QED
      BY <1>0, <1>7, <2>1, GotoType DEF Consume, TypeInv, TypeOK
<1>8. ASSUME NEW r \in Requests, SendRfqLoad(r) \/ ApproveOptionLoad(r) PROVE TypeInv'
    BY <1>0, <1>8, GotoType DEF SendRfqLoad, ApproveOptionLoad, TypeInv, TypeOK
<1>9. ASSUME NEW r \in Requests, SendRfqRefused(r) \/ Abort(r) PROVE TypeInv'
    BY <1>0, <1>9, FinishType, UnlockType DEF SendRfqRefused, Abort, TypeInv, TypeOK
<1>10. ASSUME NEW r \in Requests, SendRfqCommit(r) PROVE TypeInv'
  <2>1. Spend(r) /\ session[r].pc = "loaded" /\ packet' = packet
      BY <1>10 DEF SendRfqCommit
  <2>2. rfq' \in [Rfqs -> RfqStatus]
      BY <1>0, <1>10 DEF SendRfqCommit, RfqStatus
  <2> QED
      BY <1>0, <2>1, <2>2, SpendType, FinishType, UnlockType DEF Spend, TypeInv, TypeOK
<1>11. ASSUME NEW r \in Requests, ApproveOptionCommit(r) PROVE TypeInv'
  <2>1. Spend(r) /\ session[r].pc = "loaded" /\ rfq' = rfq
      BY <1>11 DEF ApproveOptionCommit
  <2>2. packet' \in [Packets -> PacketRow]
      BY <1>0, <1>11 DEF ApproveOptionCommit, PacketRow, PacketStatus, Session
  <2> QED
      BY <1>0, <2>1, <2>2, SpendType, FinishType, UnlockType DEF Spend, TypeInv, TypeOK
<1>12. CASE UNCHANGED vars
    BY <1>0, <1>12 DEF vars, TypeInv, TypeOK, SessionOK
<1> QED
    BY <1>1, <1>2, <1>3, <1>4, <1>5, <1>6, <1>7, <1>8, <1>9, <1>10, <1>11, <1>12
    DEF Next, Create, Start, Proceed

\* Type correctness of the gate.
THEOREM TypeCorrect == Spec => []TypeOK
<1>1. Init => TypeInv
    BY InitTypeOK
<1>2. TypeInv /\ [Next]_vars => TypeInv'
    BY NextTypeOK
<1>3. TypeInv => TypeOK
    BY DEF TypeInv
<1> QED
    BY <1>1, <1>2, <1>3, PTL DEF Spec

(***************************************************************************)
(* The safety invariants                                                   *)
(*                                                                         *)
(* RfqSentOnce is not inductive: a request that has passed the check of    *)
(* send_rfq must be known to hold the row lock and to have found the       *)
(* approval unused, and every request past require_approved must still     *)
(* have the bound, reviewed row it read.                                   *)
(***************************************************************************)
\* What an ApprovalRequest row says about the resource it is bound to.
RowsOK == \A a \in Approvals :
    /\ approval[a].status = "ABSENT" => uses[a] = 0 /\ ~approval[a].consumed
    /\ approval[a].status # "ABSENT" =>
          approval[a].resource \in Targets /\ approval[a].action = ActionOf(approval[a].resource)
    /\ approval[a].consumed => approval[a].status \in Verdicts
    /\ approval[a].consumed /\ approval[a].resource \in Rfqs => rfq[approval[a].resource] = "SENT"
    /\ approval[a].consumed /\ approval[a].resource \in Packets =>
          packet[approval[a].resource].status = "APPROVED"
    /\ approval[a].action = "RFQ_SEND" =>
          uses[a] \in {0, 1} /\ (uses[a] = 1 => approval[a].consumed)

Gated == {"gate", "consumed", "loaded"}

\* What a request past require_approved can rely on.
Entitled(r) ==
    LET a == session[r].approval
        t == session[r].target
    IN /\ session[r].pc = "review" => approval[a].status # "ABSENT"
       /\ session[r].pc \in Gated =>
             /\ approval[a].status \in Verdicts
             /\ approval[a].action = ActionOf(t)
             /\ approval[a].resource = t
       /\ session[r].pc \in {"consumed", "loaded"} => lock[a] = r
       /\ session[r].pc = "loaded" /\ t \in Rfqs => uses[a] = 0

SessionsOK == \A r \in Requests : Entitled(r)

IInv == TypeInv /\ RowsOK /\ SessionsOK /\ DoneMeansSpent

\* The inductive invariant implies the three safety invariants.
LEMMA IInvSuffices == IInv => DoneMeansSpent /\ SpentMeansDone /\ RfqSentOnce
<1> SUFFICES ASSUME IInv PROVE SpentMeansDone /\ RfqSentOnce
    BY DEF IInv
<1>1. SpentMeansDone
  <2> SUFFICES ASSUME NEW a \in Approvals, approval[a].consumed
               PROVE  IF approval[a].action = "RFQ_SEND"
                      THEN rfq[approval[a].resource] = "SENT"
                      ELSE packet[approval[a].resource].status = "APPROVED"
      BY DEF SpentMeansDone
  <2>1. approval[a].resource \in Targets /\ approval[a].action = ActionOf(approval[a].resource)
      BY DEF IInv, RowsOK, Verdicts
  <2> QED
      BY <2>1, ApprovalGateAssumption DEF IInv, RowsOK, Targets, ActionOf
<1>2. RfqSentOnce
    BY DEF IInv, RowsOK, RfqSentOnce
<1> QED
    BY <1>1, <1>2

\* The inductive invariant holds at first.
LEMMA InitIInv == Init => IInv
<1> SUFFICES ASSUME Init PROVE RowsOK /\ SessionsOK /\ DoneMeansSpent
    BY InitTypeOK DEF IInv
<1> QED
    BY ApprovalGateAssumption
    DEF Init, RowsOK, SessionsOK, Entitled, DoneMeansSpent, NoApproval, IdleSession, Gated, ActionTypes

\* A step that leaves rows alone leaves what is said about rows alone.
LEMMA RowsUnchanged ==
    ASSUME RowsOK, DoneMeansSpent, UNCHANGED <<approval, rfq, packet, uses>>
    PROVE  RowsOK' /\ DoneMeansSpent'
BY DEF RowsOK, DoneMeansSpent, SpentFor

\* Inserting a resource with its approval preserves the invariant.
LEMMA CreateIInv ==
    ASSUME IInv, NEW a \in Approvals, NEW t \in Targets, CreateApprovalRequest(a, t),
           UNCHANGED <<lock, session, uses>>,
           \/ t \in Rfqs /\ rfq[t] = "ABSENT" /\ packet' = packet
                 /\ rfq' = [rfq EXCEPT ![t] = "PENDING_APPROVAL"]
           \/ t \in Packets /\ packet[t].status = "ABSENT" /\ rfq' = rfq
                 /\ packet' = [packet EXCEPT ![t] = [status |-> "PENDING", option |-> None]]
    PROVE  RowsOK' /\ SessionsOK' /\ DoneMeansSpent'
<1>0. TypeOK /\ SessionOK /\ RowsOK /\ SessionsOK /\ DoneMeansSpent
    BY DEF IInv, TypeInv
<1>1. /\ approval[a].status = "ABSENT" /\ ~approval[a].consumed /\ uses[a] = 0
      /\ approval'[a] = [status |-> "PENDING", consumed |-> FALSE,
                         action |-> ActionOf(t), resource |-> t]
      /\ \A b \in Approvals \ {a} : approval'[b] = approval[b]
    BY <1>0 DEF CreateApprovalRequest, TypeOK, RowsOK
<1>2. /\ \A x \in Rfqs : rfq'[x] = "SENT" <=> rfq[x] = "SENT"
      /\ \A p \in Packets : packet'[p].status = "APPROVED" <=> packet[p].status = "APPROVED"
    BY <1>0, ApprovalGateAssumption DEF TypeOK
<1>3. RowsOK'
    BY <1>0, <1>1, <1>2 DEF RowsOK, Verdicts
<1>4. SessionsOK'
    BY <1>0, <1>1 DEF SessionsOK, Entitled, SessionOK, Gated, Verdicts
<1>5. DoneMeansSpent'
    BY <1>0, <1>1, <1>2 DEF DoneMeansSpent, SpentFor
<1> QED
    BY <1>3, <1>4, <1>5

\* Spending a loaded request's approval, with the status change it authorises,
\* preserves the invariant.
LEMMA SpendIInv ==
    ASSUME IInv, NEW r \in Requests, session[r].pc = "loaded", Spend(r),
           NEW a \in Approvals, a = session[r].approval,
           NEW t \in Targets, t = session[r].target,
           \/ t \in Rfqs /\ packet' = packet /\ rfq' = [rfq EXCEPT ![t] = "SENT"]
           \/ t \in Packets /\ rfq' = rfq
                 /\ packet' = [packet EXCEPT ![t] = [status |-> "APPROVED", option |-> session[r].option]]
    PROVE  RowsOK' /\ SessionsOK' /\ DoneMeansSpent'
<1>0. TypeOK /\ SessionOK /\ RowsOK /\ SessionsOK /\ DoneMeansSpent /\ TypeInv
    BY DEF IInv, TypeInv
<1>1. /\ lock[a] = r /\ approval[a].status \in Verdicts
      /\ approval[a].action = ActionOf(t) /\ approval[a].resource = t
      /\ t \in Rfqs => uses[a] = 0
    BY <1>0 DEF SessionOK, SessionsOK, Entitled, Gated
<1>2. /\ approval'[a] = [approval[a] EXCEPT !.consumed = TRUE]
      /\ uses'[a] = uses[a] + 1
      /\ \A b \in Approvals \ {a} : approval'[b] = approval[b] /\ uses'[b] = uses[b]
      /\ \A q \in Requests : session'[q] = IF q = r THEN IdleSession ELSE session[q]
      /\ \A b \in Approvals : lock'[b] = IF lock[b] = r THEN None ELSE lock[b]
    BY <1>0, <1>1, FinishType, UnlockType, SpendType DEF Spend, TypeOK
<1>3. /\ approval'[a].status = approval[a].status /\ approval'[a].consumed
      /\ approval'[a].action = approval[a].action /\ approval'[a].resource = approval[a].resource
    BY <1>0, <1>1, <1>2 DEF TypeOK, ApprovalRow
<1>4. /\ \A x \in Rfqs : rfq'[x] = "SENT" <=> rfq[x] = "SENT" \/ x = t
      /\ \A p \in Packets : packet'[p].status = "APPROVED" <=> packet[p].status = "APPROVED" \/ p = t
    BY <1>0, ApprovalGateAssumption DEF TypeOK
<1>5. RowsOK'
  <2> SUFFICES ASSUME NEW b \in Approvals
               PROVE  /\ approval'[b].status = "ABSENT" => uses'[b] = 0 /\ ~approval'[b].consumed
                      /\ approval'[b].status # "ABSENT" =>
                           /\ approval'[b].resource \in Targets
                           /\ approval'[b].action = ActionOf(approval'[b].resource)
                      /\ approval'[b].consumed => approval'[b].status \in Verdicts
                      /\ approval'[b].consumed /\ approval'[b].resource \in Rfqs =>
                           rfq'[approval'[b].resource] = "SENT"
                      /\ approval'[b].consumed /\ approval'[b].resource \in Packets =>
                           packet'[approval'[b].resource].status = "APPROVED"
                      /\ approval'[b].action = "RFQ_SEND" =>
                           uses'[b] \in {0, 1} /\ (uses'[b] = 1 => approval'[b].consumed)
      BY DEF RowsOK
  <2>1. CASE b = a
    <3>1. approval'[b].status \in Verdicts /\ approval'[b].resource = t
          /\ approval'[b].action = ActionOf(t) /\ uses'[b] = uses[a] + 1
        BY <1>1, <1>2, <1>3, <2>1
    <3>2. t \in Rfqs => uses'[b] = 1
        BY <1>1, <3>1
    <3>3. approval'[b].action = "RFQ_SEND" => t \in Rfqs
        BY <3>1 DEF ActionOf
    <3>4. /\ t \in Rfqs => rfq'[t] = "SENT"
          /\ t \in Packets => packet'[t].status = "APPROVED"
        BY <1>4
    <3> QED
        BY <1>3, <2>1, <3>1, <3>2, <3>3, <3>4 DEF Verdicts
  <2>2. CASE b # a
      BY <1>0, <1>2, <1>4, <2>2 DEF RowsOK
  <2> QED
      BY <2>1, <2>2
<1>6. SessionsOK'
  <2> SUFFICES ASSUME NEW q \in Requests, q # r PROVE Entitled(q)'
      BY <1>2 DEF SessionsOK, Entitled, IdleSession, Gated
  <2>1. session[q].pc # "idle" => session[q].approval \in Approvals
      BY <1>0 DEF SessionOK
  <2>2. session[q].pc \in {"consumed", "loaded"} => session[q].approval # a
      BY <1>0, <1>1 DEF SessionsOK, Entitled
  <2>3. session[q].pc # "idle" =>
          LET b == session[q].approval
          IN /\ approval'[b].status = approval[b].status
             /\ approval'[b].action = approval[b].action
             /\ approval'[b].resource = approval[b].resource
      BY <1>2, <1>3, <2>1
  <2>4. session[q].pc \in {"consumed", "loaded"} =>
          lock'[session[q].approval] = q /\ uses'[session[q].approval] = uses[session[q].approval]
      BY <1>0, <1>2, <2>1, <2>2 DEF SessionsOK, Entitled
  <2>5. session'[q] = session[q] /\ Entitled(q)
      BY <1>0, <1>2 DEF SessionsOK
  <2>6. CASE session[q].pc \in {"consumed", "loaded"}
    <3>1. /\ approval[session[q].approval].status \in Verdicts
          /\ approval[session[q].approval].action = ActionOf(session[q].target)
          /\ approval[session[q].approval].resource = session[q].target
          /\ session[q].pc = "loaded" /\ session[q].target \in Rfqs => uses[session[q].approval] = 0
        BY <2>5, <2>6 DEF Entitled, Gated
    <3> QED
        BY <2>3, <2>4, <2>5, <2>6, <3>1 DEF Entitled, Gated
  <2>7. CASE session[q].pc \notin {"consumed", "loaded"}
      BY <2>3, <2>5, <2>7 DEF Entitled, Gated
  <2> QED
      BY <2>6, <2>7
<1>7. DoneMeansSpent'
  <2>1. ASSUME NEW b \in Approvals, NEW u \in Targets, SpentFor(b, u) PROVE SpentFor(b, u)'
    <3>1. /\ approval[b].consumed /\ approval[b].status \in Verdicts
          /\ approval[b].action = ActionOf(u) /\ approval[b].resource = u
        BY <2>1 DEF SpentFor
    <3>2. /\ approval'[b].consumed /\ approval'[b].status = approval[b].status
          /\ approval'[b].action = approval[b].action
          /\ approval'[b].resource = approval[b].resource
        BY <1>2, <1>3, <3>1
    <3> QED
        BY <3>1, <3>2 DEF SpentFor
  <2>2. SpentFor(a, t)'
      BY <1>1, <1>3 DEF SpentFor
  <2> QED
      BY <1>0, <1>1, <1>4, <2>1, <2>2 DEF DoneMeansSpent, Targets
<1> QED
    BY <1>5, <1>6, <1>7

\* A review, which may come at any time, changes no more than one verdict.
LEMMA ReviewIInv ==
    ASSUME IInv, NEW r \in Requests, ReviewWrite(r)
    PROVE  RowsOK' /\ SessionsOK' /\ DoneMeansSpent'
<1>0. TypeOK /\ SessionOK /\ RowsOK /\ SessionsOK /\ DoneMeansSpent /\ TypeInv
    BY DEF IInv, TypeInv
<1>1. PICK a \in Approvals : a = session[r].approval
    BY <1>0 DEF ReviewWrite, SessionOK
<1>2. approval[a].status # "ABSENT" /\ session[r].verdict \in Verdicts
    BY <1>0, <1>1 DEF ReviewWrite, SessionsOK, Entitled, SessionOK
<1>3. \A b \in Approvals :
         /\ \/ approval'[b].status = approval[b].status
            \/ (b = a /\ approval'[b].status \in Verdicts)
         /\ approval'[b].consumed = approval[b].consumed
         /\ approval'[b].action = approval[b].action
         /\ approval'[b].resource = approval[b].resource
  <2>1. CASE session[r].verdict = session[r].seen
      BY <1>0, <2>1 DEF ReviewWrite
  <2>2. CASE session[r].verdict # session[r].seen
    <3>1. approval' = [approval EXCEPT ![a].status = session[r].verdict]
        BY <1>1, <2>2 DEF ReviewWrite
    <3> QED
        BY <1>0, <1>2, <3>1 DEF TypeOK, ApprovalRow
  <2> QED
      BY <2>1, <2>2
<1>4. /\ UNCHANGED <<rfq, packet, lock, uses>>
      /\ \A q \in Requests : session'[q] = IF q = r THEN IdleSession ELSE session[q]
    BY <1>0, FinishType DEF ReviewWrite
<1>5. RowsOK'
    BY <1>0, <1>2, <1>3, <1>4 DEF RowsOK, Verdicts
<1>6. SessionsOK'
    BY <1>0, <1>2, <1>3, <1>4 DEF SessionsOK, Entitled, SessionOK, IdleSession, Gated, Verdicts
<1>7. DoneMeansSpent'
    BY <1>0, <1>3, <1>4 DEF DoneMeansSpent, SpentFor
<1> QED
    BY <1>5, <1>6, <1>7

\* Every step preserves the inductive invariant.
LEMMA NextIInv == IInv /\ [Next]_vars => IInv'
<1> SUFFICES ASSUME IInv, [Next]_vars PROVE RowsOK' /\ SessionsOK' /\ DoneMeansSpent'
    BY NextTypeOK DEF IInv
<1>0. TypeOK /\ SessionOK /\ RowsOK /\ SessionsOK /\ DoneMeansSpent /\ TypeInv
    BY DEF IInv, TypeInv
<1>1. ASSUME NEW a \in Approvals, NEW x \in Rfqs, CreateRfq(a, x)
      PROVE  RowsOK' /\ SessionsOK' /\ DoneMeansSpent'
    BY <1>1, CreateIInv DEF CreateRfq, Targets
<1>2. ASSUME NEW a \in Approvals, NEW p \in Packets, GeneratePacket(a, p)
      PROVE  RowsOK' /\ SessionsOK' /\ DoneMeansSpent'
    BY <1>2, CreateIInv DEF GeneratePacket, Targets
<1>3. ASSUME NEW r \in Requests, NEW a \in Approvals, NEW v \in Verdicts, ReviewRead(r, a, v)
      PROVE  RowsOK' /\ SessionsOK' /\ DoneMeansSpent'
  <2>1. SessionsOK'
      BY <1>0, <1>3 DEF ReviewRead, SessionsOK, Entitled, TypeOK, IdleSession, Gated
  <2> QED
      BY <1>0, <1>3, <2>1, RowsUnchanged DEF ReviewRead
<1>4. ASSUME NEW r \in Requests, ReviewWrite(r)
      PROVE  RowsOK' /\ SessionsOK' /\ DoneMeansSpent'
    BY <1>4, ReviewIInv
<1>5. ASSUME NEW r \in Requests, NEW a \in Approvals, NEW t \in Targets, NEW o \in Options \cup {None},
             IsUsable(a, ActionOf(t), t), BeginGated(r, a, t, o),
             UNCHANGED <<approval, rfq, packet, lock, uses>>
      PROVE  RowsOK' /\ SessionsOK' /\ DoneMeansSpent'
  <2>1. SessionsOK'
      BY <1>0, <1>5 DEF BeginGated, IsUsable, SessionsOK, Entitled, TypeOK, IdleSession, Gated, Verdicts
  <2> QED
      BY <1>0, <1>5, <2>1, RowsUnchanged
<1>6. ASSUME NEW r \in Requests, Consume(r)
      PROVE  RowsOK' /\ SessionsOK' /\ DoneMeansSpent'
  <2>1. session[r].approval \in Approvals /\ session[r].pc = "gate"
      BY <1>0, <1>6 DEF Consume, SessionOK
  <2>2. /\ \A q \in Requests \ {r} : session'[q] = session[q]
        /\ session'[r] = [session[r] EXCEPT !.pc = "consumed"]
      BY <1>0, <1>6, <2>1, GotoType DEF Consume
  <2>3. /\ session'[r].pc = "consumed" /\ session'[r].approval = session[r].approval
        /\ session'[r].target = session[r].target
      BY <1>0, <2>2 DEF TypeOK, Session
  <2>4. /\ lock'[session[r].approval] = r
        /\ \A a \in Approvals : lock[a] # None => lock'[a] = lock[a]
      BY <1>0, <1>6, <2>1 DEF Consume, TypeOK
  <2>5. Entitled(r)'
      BY <1>0, <1>6, <2>1, <2>3, <2>4 DEF Consume, SessionsOK, Entitled, Gated
  <2>6. ASSUME NEW q \in Requests \ {r} PROVE Entitled(q)'
    <3>1. session[q].pc \in {"consumed", "loaded"} =>
            lock'[session[q].approval] = lock[session[q].approval]
        BY <1>0, <2>4, ApprovalGateAssumption DEF SessionsOK, Entitled, SessionOK
    <3> QED
        BY <1>0, <1>6, <2>2, <3>1 DEF Consume, SessionsOK, Entitled
  <2>7. SessionsOK'
      BY <2>5, <2>6 DEF SessionsOK
  <2> QED
      BY <1>0, <1>6, <2>7, RowsUnchanged DEF Consume
<1>7. ASSUME NEW r \in Requests, SendRfqLoad(r) \/ ApproveOptionLoad(r)
      PROVE  RowsOK' /\ SessionsOK' /\ DoneMeansSpent'
  <2>1. session[r].approval \in Approvals /\ session[r].pc = "consumed"
      BY <1>0, <1>7 DEF SendRfqLoad, ApproveOptionLoad, SessionOK
  <2>2. /\ \A q \in Requests \ {r} : session'[q] = session[q]
        /\ session'[r] = [session[r] EXCEPT !.pc = "loaded"]
      BY <1>0, <1>7, <2>1, GotoType DEF SendRfqLoad, ApproveOptionLoad
  <2>3. /\ session'[r].pc = "loaded" /\ session'[r].approval = session[r].approval
        /\ session'[r].target = session[r].target
      BY <1>0, <2>2 DEF TypeOK, Session
  <2>4. session[r].target \in Rfqs => uses[session[r].approval] = 0
    <3>1. CASE session[r].target \in Rfqs
      <4>1. rfq[session[r].target] = "PENDING_APPROVAL"
          BY <1>7, <3>1, ApprovalGateAssumption DEF SendRfqLoad, ApproveOptionLoad
      <4>2. /\ approval[session[r].approval].action = "RFQ_SEND"
            /\ approval[session[r].approval].resource = session[r].target
          BY <1>0, <2>1, <3>1 DEF SessionsOK, Entitled, Gated, ActionOf
      <4>3. ~approval[session[r].approval].consumed
          BY <1>0, <2>1, <3>1, <4>1, <4>2 DEF RowsOK
      <4> QED
          BY <1>0, <2>1, <4>2, <4>3 DEF RowsOK
    <3> QED
        BY <3>1
  <2>5. UNCHANGED <<approval, rfq, packet, lock, uses>>
      BY <1>7 DEF SendRfqLoad, ApproveOptionLoad
  <2>6. Entitled(r)'
      BY <1>0, <2>1, <2>3, <2>4, <2>5 DEF SessionsOK, Entitled, Gated
  <2>7. \A q \in Requests \ {r} : Entitled(q)'
      BY <1>0, <2>2, <2>5 DEF SessionsOK, Entitled
  <2>8. SessionsOK'
      BY <2>6, <2>7 DEF SessionsOK
  <2> QED
      BY <1>0, <1>7, <2>8, RowsUnchanged DEF SendRfqLoad, ApproveOptionLoad
<1>8. ASSUME NEW r \in Requests, SendRfqRefused(r) \/ Abort(r)
      PROVE  RowsOK' /\ SessionsOK' /\ DoneMeansSpent'
  <2>1. /\ \A q \in Requests : session'[q] = IF q = r THEN IdleSession ELSE session[q]
        /\ \A a \in Approvals : lock'[a] = IF lock[a] = r THEN None ELSE lock[a]
      BY <1>0, <1>8, FinishType, UnlockType DEF SendRfqRefused, Abort
  <2>2. SessionsOK'
      BY <1>0, <1>8, <2>1 DEF SendRfqRefused, Abort, SessionsOK, Entitled, SessionOK, IdleSession, Gated
  <2> QED
      BY <1>0, <1>8, <2>2, RowsUnchanged DEF SendRfqRefused, Abort
<1>9. ASSUME NEW r \in Requests, SendRfqCommit(r) \/ ApproveOptionCommit(r)
      PROVE  RowsOK' /\ SessionsOK' /\ DoneMeansSpent'
  <2>1. session[r].approval \in Approvals /\ session[r].target \in Targets
      BY <1>0, <1>9 DEF SendRfqCommit, ApproveOptionCommit, SessionOK
  <2> QED
      BY <1>9, <2>1, SpendIInv DEF SendRfqCommit, ApproveOptionCommit
<1>10. CASE UNCHANGED vars
    BY <1>0, <1>10, RowsUnchanged DEF vars, SessionsOK, Entitled
<1>11. ASSUME NEW r \in Requests, Start(r)
       PROVE  RowsOK' /\ SessionsOK' /\ DoneMeansSpent'
  <2>1. ASSUME NEW a \in Approvals, NEW x \in Rfqs, SendRfqGuard(r, a, x)
        PROVE  RowsOK' /\ SessionsOK' /\ DoneMeansSpent'
      BY <1>5, <2>1 DEF SendRfqGuard, Targets, ActionOf
  <2>2. ASSUME NEW a \in Approvals, NEW p \in Packets, NEW o \in Options, ApproveOptionGuard(r, a, p, o)
        PROVE  RowsOK' /\ SessionsOK' /\ DoneMeansSpent'
      BY <1>5, <2>2, ApprovalGateAssumption DEF ApproveOptionGuard, Targets, ActionOf
  <2> QED
      BY <1>3, <1>11, <2>1, <2>2 DEF Start
<1> QED
    BY <1>1, <1>2, <1>4, <1>6, <1>7, <1>8, <1>9, <1>10, <1>11 DEF Next, Create, Proceed

\* Nothing gated is done, in any interleaving of requests, without a reviewed
\* approval bound to it having been spent on it.
THEOREM GatedActionsAreApproved == Spec => []DoneMeansSpent
BY InitIInv, NextIInv, IInvSuffices, PTL DEF Spec

\* An approval is spent only together with the action it authorises: no failure
\* between the two leaves an approval lost.
THEOREM ApprovalsAreNotLost == Spec => []SpentMeansDone
BY InitIInv, NextIInv, IInvSuffices, PTL DEF Spec

\* An RFQ goes out at most once per approval.
THEOREM RfqsAreSentOnce == Spec => []RfqSentOnce
BY InitIInv, NextIInv, IInvSuffices, PTL DEF Spec

-----------------------------------------------------------------------------
(***************************************************************************)
(* OrderPlacement                                                          *)
(*                                                                         *)
(* The gate's invariant goes on holding, since placing orders is a stutter *)
(* of the gate.  An order is only as good as what its clerk read: that the *)
(* packet was approved stays true for ever, that the form's version was    *)
(* the current one only as long as nobody else has been served meanwhile.  *)
(***************************************************************************)
\* Behind an approved packet there is an approval that was spent on it.
Approved(p) == p \in Packets /\ \E a \in Approvals : SpentFor(a, p)
PacketsApproved ==
    /\ \A d \in Placed : Approved(order[d].packet)
    /\ \A c \in Clerks : clerk[c].pc \in {"chosen", "numbered"} => Approved(clerk[c].packet)

\* What one clerk at a time keeps true of the form, of the orders, and of what he read.
OneAtATime == \A c, e \in Clerks : clerk[c].pc # "idle" /\ clerk[e].pc # "idle" => c = e
FormOK ==
    /\ form.current_version = 0 => \A n \in Versions : rows[n] = 0
    /\ form.current_version > 0 => IsLatest(form.current_version)
    /\ \A n \in Versions : rows[n] <= 1
OrdersOK ==
    \A d \in Placed : order[d].version > 0 =>
        order[d].version = form.current_version /\ form.is_locked
ClerkOK(x) ==
    /\ x.pc = "update" =>
          /\ form.current_version > 0
          /\ x.version = form.current_version + 1
          /\ x.version \in Versions
          /\ \A d \in Placed : order[d].version = 0
    /\ x.pc \in {"chosen", "numbered"} /\ x.version > 0 =>
          x.version = form.current_version /\ (x.is_locked => form.is_locked)
ClerksOK == \A c \in Clerks : ClerkOK(clerk[c])

PlacementInv ==
    /\ IInv
    /\ PlacementTypeOK
    /\ IsFiniteSet(Placed)
    /\ PacketsApproved
    /\ ~overlapped => OneAtATime /\ FormOK /\ OrdersOK /\ ClerksOK

\* The first state has no form, no order and nobody served.
LEMMA InitPlacementInv == PlacementInit => PlacementInv
<1> SUFFICES ASSUME PlacementInit PROVE PlacementInv
    OBVIOUS
<1> USE DEF PlacementInit
<1>1. \A c \in Clerks : clerk[c] = IdleClerk
    OBVIOUS
<1>2. IdleClerk \in Clerk /\ IdleClerk.pc = "idle" /\ NoOrder \in OrderRow
    BY OrderPlacementAssumption DEF IdleClerk, Clerk, NoOrder, OrderRow
<1>3. Placed = {}
    BY DEF Placed
<1>4. IInv
    BY InitIInv
<1>5. PlacementTypeOK
  <2>1. form \in [current_version : 0..MaxVersion, is_locked : BOOLEAN]
    <3>1. 0 \in 0..MaxVersion
        BY OrderPlacementAssumption
    <3> QED
        BY <3>1
  <2>2. rows \in [Versions -> Nat] /\ order \in [Orders -> OrderRow]
        /\ clerk \in [Clerks -> Clerk] /\ overlapped \in BOOLEAN
      BY <1>2
  <2> QED
      BY <2>1, <2>2 DEF PlacementTypeOK
<1>6. IsFiniteSet(Placed) /\ PacketsApproved
    BY <1>1, <1>2, <1>3, FS_EmptySet DEF PacketsApproved
<1>7. OneAtATime /\ FormOK /\ OrdersOK /\ ClerksOK
    BY <1>1, <1>2, <1>3 DEF OneAtATime, FormOK, OrdersOK, ClerksOK, ClerkOK
<1> QED
    BY <1>4, <1>5, <1>6, <1>7 DEF PlacementInv

\* Every step of form and order requests is a stutter of the gate.
LEMMA PlacementIsGateStep == [PlacementNext]_placementVars => [Next]_vars
<1> SUFFICES ASSUME [PlacementNext]_placementVars, ~GateStep PROVE UNCHANGED vars
    BY DEF GateStep
<1>1. CASE UNCHANGED placementVars
    BY <1>1 DEF placementVars, gate
<1>2. CASE PlacementNext
    BY <1>2 DEF PlacementNext, CreateForm, LockForm, UpdateRead, UpdateCommit, NumberOrder,
                ClerkAborts, ChooseOption, PlaceOrder, gate
<1> QED
    BY <1>1, <1>2

\* A spent approval is never unmade.
LEMMA SpentStays ==
    ASSUME IInv, [Next]_vars, NEW a \in Approvals, NEW t, SpentFor(a, t)
    PROVE  SpentFor(a, t)'
<1>0. TypeOK /\ SessionOK /\ RowsOK /\ TypeInv
    BY DEF IInv, TypeInv
<1>1. /\ approval[a].consumed /\ approval[a].status \in Verdicts
      /\ approval[a].action = ActionOf(t) /\ approval[a].resource = t
    BY DEF SpentFor
<1> SUFFICES /\ approval'[a].consumed /\ approval'[a].status \in Verdicts
             /\ approval'[a].action = approval[a].action
             /\ approval'[a].resource = approval[a].resource
    BY <1>1 DEF SpentFor
<1>2. CASE approval' = approval
    BY <1>1, <1>2
<1>3. ASSUME NEW b \in Approvals, NEW u, CreateApprovalRequest(b, u)
      PROVE  approval'[a] = approval[a]
    BY <1>0, <1>1, <1>3 DEF CreateApprovalRequest, TypeOK, Verdicts
<1>4. ASSUME NEW r \in Requests, ReviewWrite(r)
      PROVE  /\ approval'[a].consumed = approval[a].consumed
             /\ approval'[a].status \in Verdicts
             /\ approval'[a].action = approval[a].action
             /\ approval'[a].resource = approval[a].resource
  <2>1. session[r].approval \in Approvals /\ session[r].verdict \in Verdicts
      BY <1>0, <1>4 DEF ReviewWrite, SessionOK
  <2> QED
      BY <1>0, <1>1, <1>4, <2>1 DEF ReviewWrite, TypeOK, ApprovalRow
<1>5. ASSUME NEW r \in Requests, Spend(r), session[r].pc = "loaded"
      PROVE  /\ approval'[a].consumed /\ approval'[a].status = approval[a].status
             /\ approval'[a].action = approval[a].action
             /\ approval'[a].resource = approval[a].resource
    BY <1>0, <1>1, <1>5 DEF Spend, TypeOK, SessionOK, ApprovalRow
<1>6. CASE UNCHANGED vars
    BY <1>2, <1>6 DEF vars
<1>7. CASE Create
    BY <1>1, <1>3, <1>7 DEF Create, CreateRfq, GeneratePacket
<1>8. ASSUME NEW r \in Requests, Start(r) \/ Consume(r) \/ Abort(r)
      PROVE  approval' = approval
    BY <1>8 DEF Start, ReviewRead, SendRfqGuard, ApproveOptionGuard, Consume, Abort
<1>9. ASSUME NEW r \in Requests, Proceed(r)
      PROVE  approval' = approval \/ ReviewWrite(r) \/ (Spend(r) /\ session[r].pc = "loaded")
    BY <1>9 DEF Proceed, SendRfqLoad, SendRfqRefused, SendRfqCommit, ApproveOptionLoad,
                ApproveOptionCommit
<1> QED
    BY <1>1, <1>2, <1>4, <1>5, <1>6, <1>7, <1>8, <1>9 DEF Next

\* So is an approved packet's standing.
LEMMA ApprovedStays ==
    ASSUME IInv, [Next]_vars, NEW p, Approved(p) PROVE Approved(p)'
BY SpentStays DEF Approved

\* What a clerk's request changes besides the form, the rows and the orders.
LEMMA ClerkStep ==
    ASSUME PlacementInv, NEW c \in Clerks, NEW x \in Clerk, clerk' = [clerk EXCEPT ![c] = x]
    PROVE  /\ clerk' \in [Clerks -> Clerk]
           /\ clerk'[c] = x
           /\ \A e \in Clerks \ {c} : clerk'[e] = clerk[e]
BY DEF PlacementInv, PlacementTypeOK

LEMMA IdleClerkType == IdleClerk \in Clerk /\ IdleClerk.pc = "idle"
BY OrderPlacementAssumption DEF IdleClerk, Clerk

\* The gate's own steps leave the clerks' rows alone.
LEMMA GateStepInv ==
    ASSUME PlacementInv, [Next]_vars, UNCHANGED <<form, rows, order, clerk, overlapped>>
    PROVE  PlacementInv'
<1>1. IInv /\ IInv'
    BY NextIInv DEF PlacementInv
<1>2. Placed' = Placed
    BY DEF Placed
<1>3. PlacementTypeOK' /\ IsFiniteSet(Placed')
    BY <1>2 DEF PlacementInv, PlacementTypeOK
<1>4. PacketsApproved'
    BY <1>1, <1>2, ApprovedStays DEF PlacementInv, PacketsApproved
<1>5. ~overlapped => (OneAtATime /\ FormOK /\ OrdersOK /\ ClerksOK)'
    BY <1>2 DEF PlacementInv, OneAtATime, FormOK, OrdersOK, ClerksOK, ClerkOK, IsLatest
<1> QED
    BY <1>1, <1>2, <1>3, <1>4, <1>5 DEF PlacementInv

\* What is left to show of a step that leaves the gate and the orders alone.
LEMMA FormStep ==
    ASSUME PlacementInv, UNCHANGED <<gate, order>>
    PROVE  /\ Placed' = Placed /\ IInv' /\ IsFiniteSet(Placed')
           /\ order' \in [Orders -> OrderRow]
           /\ \A p : Approved(p) => Approved(p)'
           /\ (\A d \in Placed : Approved(order[d].packet))'
<1>1. IInv /\ UNCHANGED vars
    BY DEF PlacementInv, gate
<1>2. IInv'
    BY <1>1, NextIInv
<1>3. Placed' = Placed
    BY DEF Placed
<1>4. \A p : Approved(p) => Approved(p)'
    BY <1>1, ApprovedStays
<1> QED
    BY <1>2, <1>3, <1>4 DEF PlacementInv, PlacementTypeOK, PacketsApproved

\* A form is created for a project that has none, with its first version.
LEMMA CreateFormInv == ASSUME PlacementInv, CreateForm PROVE PlacementInv'
<1>1. UNCHANGED <<gate, order, clerk, overlapped>> /\ form.current_version = 0
    BY DEF CreateForm
<1>2. form'.current_version = 1 /\ form'.is_locked = FALSE /\ 1 \in Versions
    BY OrderPlacementAssumption DEF CreateForm, Versions
<1>3. \A n \in Versions : rows'[n] = IF n = 1 THEN 1 ELSE rows[n]
    BY DEF CreateForm, PlacementInv, PlacementTypeOK
<1>4. PlacementTypeOK'
  <2>1. 1 \in 0..MaxVersion
      BY OrderPlacementAssumption
  <2>2. form' \in [current_version : 0..MaxVersion, is_locked : BOOLEAN]
      BY <2>1 DEF CreateForm
  <2>3. rows' \in [Versions -> Nat]
      BY DEF CreateForm, PlacementInv, PlacementTypeOK
  <2> QED
      BY <1>1, <2>2, <2>3 DEF PlacementInv, PlacementTypeOK
<1>5. PacketsApproved'
    BY <1>1, FormStep DEF PlacementInv, PacketsApproved
<1>6. ASSUME ~overlapped PROVE (OneAtATime /\ FormOK /\ OrdersOK /\ ClerksOK)'
  <2>1. OneAtATime /\ FormOK /\ OrdersOK /\ ClerksOK
      BY <1>6 DEF PlacementInv
  <2>2. \A n \in Versions : n \in Nat /\ rows[n] = 0
      BY <1>1, <2>1 DEF FormOK, Versions
  <2>3. FormOK'
      BY <1>2, <1>3, <2>2 DEF FormOK, IsLatest
  <2>4. \A d \in Placed : order[d].version = 0
    <3>1. \A d \in Placed : order[d].version \in Nat
        BY OrderPlacementAssumption DEF PlacementInv, PlacementTypeOK, OrderRow, Placed
    <3> QED
        BY <1>1, <2>1, <3>1 DEF OrdersOK
  <2>5. OrdersOK'
      BY <1>1, <2>4, FormStep DEF OrdersOK
  <2>6. ClerksOK'
    <3>1. \A c \in Clerks : clerk[c].version \in Nat
        BY OrderPlacementAssumption DEF PlacementInv, PlacementTypeOK, Clerk
    <3> QED
        BY <1>1, <2>1, <3>1 DEF ClerksOK, ClerkOK
  <2> QED
      BY <1>1, <2>1, <2>3, <2>5, <2>6 DEF OneAtATime
<1> QED
    BY <1>1, <1>4, <1>5, <1>6, FormStep DEF PlacementInv

\* Locking a form disturbs nothing: whoever reads it later sees the lock.
LEMMA LockFormInv == ASSUME PlacementInv, LockForm PROVE PlacementInv'
<1>1. UNCHANGED <<gate, rows, order, clerk, overlapped>>
    BY DEF LockForm
<1>2. form'.current_version = form.current_version /\ form'.is_locked
    BY DEF LockForm, PlacementInv, PlacementTypeOK
<1>3. PlacementTypeOK'
    BY <1>1 DEF LockForm, PlacementInv, PlacementTypeOK
<1>4. PacketsApproved'
    BY <1>1, FormStep DEF PlacementInv, PacketsApproved
<1>5. ASSUME ~overlapped PROVE (OneAtATime /\ FormOK /\ OrdersOK /\ ClerksOK)'
    BY <1>1, <1>2, <1>5, FormStep
    DEF PlacementInv, OneAtATime, FormOK, IsLatest, OrdersOK, ClerksOK, ClerkOK
<1> QED
    BY <1>1, <1>3, <1>4, <1>5, FormStep DEF PlacementInv

\* A request that begins has read what is committed.
LEMMA ClerkBeginsInv ==
    ASSUME PlacementInv, NEW c \in Clerks, NEW x \in Clerk, ClerkBegins(c, x),
           UNCHANGED <<gate, form, rows, order>>,
           x.pc \in {"chosen", "numbered"} => Approved(x.packet),
           ~overlapped => ClerkOK(x)
    PROVE  PlacementInv'
<1>1. /\ clerk' \in [Clerks -> Clerk] /\ clerk'[c] = x
      /\ \A e \in Clerks \ {c} : clerk'[e] = clerk[e]
    BY ClerkStep DEF ClerkBegins
<1>2. overlapped' \in BOOLEAN
    BY DEF ClerkBegins, PlacementInv, PlacementTypeOK
<1>3. PlacementTypeOK'
    BY <1>1, <1>2 DEF PlacementInv, PlacementTypeOK
<1>4. PacketsApproved'
    BY <1>1, FormStep DEF PlacementInv, PacketsApproved
<1>5. ASSUME ~overlapped' PROVE (OneAtATime /\ FormOK /\ OrdersOK /\ ClerksOK)'
  <2>1. ~overlapped /\ \A e \in Clerks : clerk[e].pc = "idle"
      BY <1>5 DEF ClerkBegins
  <2>2. OneAtATime'
      BY <1>1, <2>1 DEF OneAtATime
  <2>3. FormOK' /\ OrdersOK'
      BY <2>1, FormStep DEF PlacementInv, FormOK, IsLatest, OrdersOK
  <2>4. \A e \in Clerks : ClerkOK(clerk[e])
      BY <2>1 DEF PlacementInv, ClerksOK
  <2>5. ClerksOK'
      BY <1>1, <2>1, <2>4, FormStep DEF ClerksOK, ClerkOK
  <2> QED
      BY <2>2, <2>3, <2>5
<1> QED
    BY <1>3, <1>4, <1>5, FormStep DEF PlacementInv

LEMMA UpdateReadInv ==
    ASSUME PlacementInv, NEW c \in Clerks, UpdateRead(c) PROVE PlacementInv'
<1>1. PICK n \in Versions \ {MaxVersion} :
         IsLatest(n) /\ ClerkBegins(c, [IdleClerk EXCEPT !.pc = "update", !.version = n + 1])
    BY DEF UpdateRead
<1>2. PICK x : x = [IdleClerk EXCEPT !.pc = "update", !.version = n + 1]
    OBVIOUS
<1>3. x.pc = "update" /\ x.version = n + 1
    BY <1>2 DEF IdleClerk
<1>4. n \in Nat /\ n + 1 \in Versions
    BY OrderPlacementAssumption DEF Versions
<1>5. x \in Clerk
  <2>1. n + 1 \in 0..MaxVersion
      BY <1>4, OrderPlacementAssumption DEF Versions
  <2> QED
      BY <1>2, <2>1 DEF IdleClerk, Clerk
<1>6. ASSUME ~overlapped PROVE ClerkOK(x)
  <2>1. FormOK /\ OrdersOK /\ form.current_version > 0 /\ ~form.is_locked
      BY <1>6 DEF PlacementInv, UpdateRead
  <2>2. form.current_version \in Versions
      BY <2>1, OrderPlacementAssumption DEF PlacementInv, PlacementTypeOK, Versions
  <2>3. n = form.current_version
      BY <1>1, <1>4, <2>1, <2>2 DEF FormOK, IsLatest, Versions
  <2>4. \A d \in Placed : order[d].version = 0
    <3>1. \A d \in Placed : order[d].version \in Nat
        BY OrderPlacementAssumption DEF PlacementInv, PlacementTypeOK, OrderRow, Placed
    <3> QED
        BY <2>1, <3>1 DEF OrdersOK
  <2> QED
      BY <1>3, <1>4, <2>1, <2>3, <2>4 DEF ClerkOK
<1> QED
    BY <1>1, <1>2, <1>3, <1>5, <1>6, ClerkBeginsInv DEF UpdateRead

LEMMA ChooseOptionInv ==
    ASSUME PlacementInv, NEW c \in Clerks, NEW p \in Packets, NEW o \in Options,
           ChooseOption(c, p, o)
    PROVE  PlacementInv'
<1>1. PICK x : x = [IdleClerk EXCEPT !.pc = "chosen", !.packet = p, !.option = o,
                      !.version = form.current_version, !.is_locked = form.is_locked]
    OBVIOUS
<1>2. /\ x.pc = "chosen" /\ x.packet = p /\ x.version = form.current_version
      /\ x.is_locked = form.is_locked
    BY <1>1 DEF IdleClerk
<1>3. x \in Clerk
    BY <1>1, OrderPlacementAssumption DEF IdleClerk, Clerk, PlacementInv, PlacementTypeOK
<1>4. Approved(p)
    BY DEF ChooseOption, Approved, PlacementInv, IInv, DoneMeansSpent
<1>5. ClerkOK(x)
    BY <1>2 DEF ClerkOK
<1> QED
    BY <1>1, <1>2, <1>3, <1>4, <1>5, ClerkBeginsInv DEF ChooseOption

\* While one clerk works, the others are idle; when he is done, all are.
LEMMA ClerkFinishesStep ==
    ASSUME PlacementInv, NEW c \in Clerks, ClerkFinishes(c)
    PROVE  /\ clerk' \in [Clerks -> Clerk] /\ clerk'[c] = IdleClerk
           /\ \A e \in Clerks \ {c} : clerk'[e] = clerk[e]
           /\ overlapped' = overlapped
           /\ ~overlapped => OneAtATime'
           /\ ~overlapped /\ clerk[c].pc # "idle" => \A e \in Clerks : clerk'[e].pc = "idle"
<1>1. /\ clerk' \in [Clerks -> Clerk] /\ clerk'[c] = IdleClerk
      /\ \A e \in Clerks \ {c} : clerk'[e] = clerk[e]
      /\ overlapped' = overlapped
    BY ClerkStep, IdleClerkType DEF ClerkFinishes
<1> QED
    BY <1>1, IdleClerkType DEF PlacementInv, OneAtATime

LEMMA UpdateCommitInv ==
    ASSUME PlacementInv, NEW c \in Clerks, UpdateCommit(c) PROVE PlacementInv'
<1> PICK n : n = clerk[c].version
    OBVIOUS
<1>1. /\ clerk[c].pc = "update" /\ ClerkFinishes(c) /\ UNCHANGED <<gate, order>>
      /\ rows' = [rows EXCEPT ![n] = @ + 1] /\ form' = [form EXCEPT !.current_version = n]
    BY DEF UpdateCommit
<1>2. n \in 0..MaxVersion /\ n \in Nat
    BY OrderPlacementAssumption DEF PlacementInv, PlacementTypeOK, Clerk
<1>3. form'.current_version = n /\ form'.is_locked = form.is_locked
    BY <1>1 DEF PlacementInv, PlacementTypeOK
<1>4. \A m \in Versions : rows[m] \in Nat /\ rows'[m] = IF m = n THEN rows[m] + 1 ELSE rows[m]
    BY <1>1 DEF PlacementInv, PlacementTypeOK
<1>5. PlacementTypeOK'
  <2>1. rows' \in [Versions -> Nat]
    <3>1. rows \in [Versions -> Nat]
        BY DEF PlacementInv, PlacementTypeOK
    <3>2. CASE n \in Versions
        BY <1>1, <3>1, <3>2
    <3>3. CASE n \notin Versions
        BY <1>1, <3>1, <3>3
    <3> QED
        BY <3>2, <3>3
  <2>2. form' \in [current_version : 0..MaxVersion, is_locked : BOOLEAN]
      BY <1>1, <1>2 DEF PlacementInv, PlacementTypeOK
  <2> QED
      BY <1>1, <2>1, <2>2, ClerkFinishesStep DEF PlacementInv, PlacementTypeOK
<1>6. PacketsApproved'
    BY <1>1, ClerkFinishesStep, IdleClerkType, FormStep DEF PlacementInv, PacketsApproved
<1>7. ASSUME ~overlapped PROVE (OneAtATime /\ FormOK /\ OrdersOK /\ ClerksOK)'
  <2>1. FormOK /\ ClerkOK(clerk[c])
      BY <1>7 DEF PlacementInv, ClerksOK
  <2>2. /\ form.current_version > 0 /\ n = form.current_version + 1 /\ n \in Versions
        /\ \A d \in Placed : order[d].version = 0
      BY <1>1, <2>1 DEF ClerkOK
  <2>3. form.current_version \in Nat
      BY OrderPlacementAssumption DEF PlacementInv, PlacementTypeOK
  <2>4. \A m \in Versions : m \in Nat /\ (rows[m] > 0 => m <= form.current_version)
      BY <2>1, <2>2 DEF FormOK, IsLatest, Versions
  <2>5. rows'[n] = 1
      BY <1>4, <2>2, <2>3, <2>4
  <2>6. FormOK'
      BY <1>2, <1>3, <1>4, <2>1, <2>2, <2>3, <2>4, <2>5 DEF FormOK, IsLatest
  <2>7. OrdersOK'
      BY <1>1, <2>2, FormStep DEF OrdersOK
  <2>8. ClerksOK'
      BY <1>1, <1>7, ClerkFinishesStep DEF ClerksOK, ClerkOK
  <2> QED
      BY <1>1, <1>7, <2>6, <2>7, <2>8, ClerkFinishesStep
<1> QED
    BY <1>1, <1>5, <1>6, <1>7, ClerkFinishesStep, FormStep DEF PlacementInv

\* The number counts the orders on file.
LEMMA NumberOrderInv ==
    ASSUME PlacementInv, NEW c \in Clerks, NumberOrder(c) PROVE PlacementInv'
<1>1. Cardinality(Placed) + 1 \in Nat
    BY FS_CardinalityType DEF PlacementInv
<1>2. PICK x : x = [clerk[c] EXCEPT !.pc = "numbered", !.number = Cardinality(Placed) + 1]
    OBVIOUS
<1>3. clerk' = [clerk EXCEPT ![c] = x] /\ clerk[c].pc = "chosen" /\ clerk[c] \in Clerk
    BY <1>2 DEF NumberOrder, PlacementInv, PlacementTypeOK
<1>4. /\ x \in Clerk /\ x.pc = "numbered" /\ x.packet = clerk[c].packet
      /\ x.version = clerk[c].version /\ x.is_locked = clerk[c].is_locked
    BY <1>1, <1>2, <1>3 DEF Clerk
<1>5. /\ clerk' \in [Clerks -> Clerk] /\ clerk'[c] = x
      /\ \A e \in Clerks \ {c} : clerk'[e] = clerk[e]
    BY <1>3, <1>4, ClerkStep
<1>6. UNCHANGED <<gate, form, rows, order, overlapped>>
    BY DEF NumberOrder
<1>7. PlacementTypeOK'
    BY <1>5, <1>6 DEF PlacementInv, PlacementTypeOK
<1>8. PacketsApproved'
    BY <1>3, <1>4, <1>5, <1>6, FormStep DEF PlacementInv, PacketsApproved
<1>9. ASSUME ~overlapped PROVE (OneAtATime /\ FormOK /\ OrdersOK /\ ClerksOK)'
  <2>1. OneAtATime /\ FormOK /\ OrdersOK /\ \A e \in Clerks : ClerkOK(clerk[e])
      BY <1>9 DEF PlacementInv, ClerksOK
  <2>2. OneAtATime'
      BY <1>3, <1>4, <1>5, <2>1 DEF OneAtATime
  <2>3. FormOK' /\ OrdersOK'
      BY <1>6, <2>1, FormStep DEF FormOK, IsLatest, OrdersOK
  <2>4. ClerkOK(x)
      BY <1>3, <1>4, <2>1 DEF ClerkOK
  <2>5. ClerksOK'
      BY <1>5, <1>6, <2>1, <2>4, FormStep DEF ClerksOK, ClerkOK
  <2> QED
      BY <2>2, <2>3, <2>5
<1> QED
    BY <1>6, <1>7, <1>8, <1>9, FormStep DEF PlacementInv

\* The order takes what its clerk has read, and freezes the form's version.
LEMMA PlaceOrderInv ==
    ASSUME PlacementInv, NEW c \in Clerks, NEW d \in Orders, PlaceOrder(c, d)
    PROVE  PlacementInv'
<1> PICK x \in Clerk : x = clerk[c]
    BY DEF PlacementInv, PlacementTypeOK
<1>1. PICK row : row = [packet |-> x.packet, option |-> x.option, version |-> x.version,
                        number |-> x.number]
    OBVIOUS
<1>2. /\ row \in OrderRow /\ row.packet = x.packet /\ row.version = x.version
      /\ x.version \in 0..MaxVersion /\ x.version \in Nat
    BY <1>1, OrderPlacementAssumption DEF OrderRow, Clerk
<1>3. /\ x.pc = "numbered" /\ order' = [order EXCEPT ![d] = row] /\ ClerkFinishes(c)
      /\ UNCHANGED <<gate, rows>>
    BY <1>1 DEF PlaceOrder
<1>4. \A e \in Orders : order'[e] = IF e = d THEN row ELSE order[e]
    BY <1>3 DEF PlacementInv, PlacementTypeOK
<1>5. Placed' \subseteq Placed \cup {d}
    BY <1>4 DEF Placed
<1>6. IsFiniteSet(Placed')
    BY <1>5, FS_AddElement, FS_Subset DEF PlacementInv
<1>7. /\ form' \in [current_version : 0..MaxVersion, is_locked : BOOLEAN]
      /\ form'.current_version = form.current_version
      /\ form.is_locked => form'.is_locked
      /\ x.version > 0 /\ ~x.is_locked => form'.is_locked
    BY DEF PlaceOrder, PlacementInv, PlacementTypeOK
<1>8. PlacementTypeOK'
    BY <1>2, <1>3, <1>7, ClerkFinishesStep DEF PlacementInv, PlacementTypeOK
<1>9. IInv /\ UNCHANGED vars
    BY <1>3 DEF PlacementInv, gate
<1>10. IInv'
    BY <1>9, NextIInv
<1>11. PacketsApproved'
  <2>1. Approved(x.packet) /\ \A e \in Placed : Approved(order[e].packet)
      BY <1>3 DEF PlacementInv, PacketsApproved
  <2>2. \A p : Approved(p) => Approved(p)'
      BY <1>9, ApprovedStays
  <2>3. \A e \in Clerks : clerk'[e].pc \in {"chosen", "numbered"} => clerk'[e] = clerk[e]
      BY <1>3, ClerkFinishesStep, IdleClerkType
  <2>4. (\A e \in Placed : Approved(order[e].packet))'
      BY <1>2, <1>4, <1>5, <2>1, <2>2 DEF Placed
  <2> QED
      BY <2>2, <2>3, <2>4 DEF PlacementInv, PacketsApproved
<1>12. ASSUME ~overlapped PROVE (OneAtATime /\ FormOK /\ OrdersOK /\ ClerksOK)'
  <2>1. FormOK /\ OrdersOK /\ ClerkOK(x)
      BY <1>12 DEF PlacementInv, ClerksOK
  <2>2. FormOK'
      BY <1>3, <1>7, <2>1 DEF FormOK, IsLatest
  <2>3. x.version > 0 => x.version = form.current_version /\ form'.is_locked
    <3>1. x.is_locked \in BOOLEAN
        BY DEF Clerk
    <3> QED
        BY <1>3, <1>7, <2>1, <3>1 DEF ClerkOK
  <2>4. OrdersOK'
      BY <1>2, <1>4, <1>5, <1>7, <2>1, <2>3 DEF OrdersOK, Placed
  <2>5. ClerksOK'
      BY <1>3, <1>12, ClerkFinishesStep DEF ClerksOK, ClerkOK
  <2> QED
      BY <1>3, <1>12, <2>2, <2>4, <2>5, ClerkFinishesStep
<1> QED
    BY <1>3, <1>6, <1>8, <1>10, <1>11, <1>12, ClerkFinishesStep DEF PlacementInv

LEMMA ClerkAbortsInv ==
    ASSUME PlacementInv, NEW c \in Clerks, ClerkAborts(c) PROVE PlacementInv'
<1>1. ClerkFinishes(c) /\ clerk[c].pc # "idle" /\ UNCHANGED <<gate, form, rows, order>>
    BY DEF ClerkAborts
<1>2. PlacementTypeOK'
    BY <1>1, ClerkFinishesStep DEF PlacementInv, PlacementTypeOK
<1>3. PacketsApproved'
    BY <1>1, ClerkFinishesStep, IdleClerkType, FormStep DEF PlacementInv, PacketsApproved
<1>4. ASSUME ~overlapped PROVE (OneAtATime /\ FormOK /\ OrdersOK /\ ClerksOK)'
  <2>1. FormOK' /\ OrdersOK'
      BY <1>1, <1>4, FormStep DEF PlacementInv, FormOK, IsLatest, OrdersOK
  <2>2. ClerksOK'
      BY <1>1, <1>4, ClerkFinishesStep DEF ClerksOK, ClerkOK
  <2> QED
      BY <1>1, <1>4, <2>1, <2>2, ClerkFinishesStep
<1> QED
    BY <1>1, <1>2, <1>3, <1>4, ClerkFinishesStep, FormStep DEF PlacementInv

\* Every step preserves the invariant.
LEMMA PlacementNextInv == PlacementInv /\ [PlacementNext]_placementVars => PlacementInv'
<1> SUFFICES ASSUME PlacementInv, [PlacementNext]_placementVars PROVE PlacementInv'
    OBVIOUS
<1>1. CASE GateStep
    BY <1>1, GateStepInv DEF GateStep
<1>2. CASE UNCHANGED placementVars
    BY <1>2, GateStepInv DEF placementVars, gate
<1>3. ASSUME NEW c \in Clerks,
             \/ UpdateRead(c) \/ UpdateCommit(c) \/ NumberOrder(c) \/ ClerkAborts(c)
             \/ \E p \in Packets, o \in Options : ChooseOption(c, p, o)
             \/ \E d \in Orders : PlaceOrder(c, d)
      PROVE  PlacementInv'
    BY <1>3, UpdateReadInv, UpdateCommitInv, NumberOrderInv, ClerkAbortsInv, ChooseOptionInv,
       PlaceOrderInv
<1> QED
    BY <1>1, <1>2, <1>3, CreateFormInv, LockFormInv DEF PlacementNext

LEMMA SpecPlacementInv == PlacementSpec => []PlacementInv
<1>1. PlacementInit => PlacementInv
    BY InitPlacementInv
<1>2. PlacementInv /\ [PlacementNext]_placementVars => PlacementInv'
    BY PlacementNextInv
<1> QED
    BY <1>1, <1>2, PTL DEF PlacementSpec

\* Placing orders leaves the gate as it is, step for step: what was proved of the gate
\* holds of it here too.
THEOREM PlacementFollowsGate == PlacementSpec => Spec
<1>1. PlacementInit => Init
    BY DEF PlacementInit
<1>2. [PlacementNext]_placementVars => [Next]_vars
    BY PlacementIsGateStep
<1> QED
    BY <1>1, <1>2, PTL DEF PlacementSpec, Spec

\* Type correctness of forms, orders and their requests.
THEOREM PlacementTypeCorrect == PlacementSpec => []PlacementTypeOK
<1>1. PlacementInv => PlacementTypeOK
    BY DEF PlacementInv
<1> QED
    BY <1>1, SpecPlacementInv, PTL

\* The docstring of create_order_from_approved_option: an order is proof that a human
\* approved its packet, however requests interleave and whoever places it.
THEOREM OrdersAreApproved == PlacementSpec => []OrderMeansApproval
<1>1. PlacementInv => OrderMeansApproval
    BY DEF PlacementInv, PacketsApproved, Approved, OrderMeansApproval
<1> QED
    BY <1>1, SpecPlacementInv, PTL

\* Served one at a time, update_form_fields numbers versions without gaps or repeats, and
\* the form points to the last.
THEOREM CurrentVersionIsLatest == PlacementSpec => []CurrentIsLatest
<1>1. PlacementInv => CurrentIsLatest
    BY DEF PlacementInv, FormOK, CurrentIsLatest
<1> QED
    BY <1>1, SpecPlacementInv, PTL

\* Served one at a time, no request adds a version to a form that an order has frozen.
THEOREM OrderedFormStays == PlacementSpec => []OrderedFormIsFinal
<1>1. PlacementInv => OrderedFormIsFinal
    BY DEF PlacementInv, OrdersOK, OrderedFormIsFinal
<1> QED
    BY <1>1, SpecPlacementInv, PTL
=============================================================================
