---------------------------- MODULE ApprovalGate ----------------------------
(***************************************************************************)
(* The human-approval gate in front of the two gated routes of the API:    *)
(* POST /rfqs/{id}/send and POST /decision-packets/{id}/approve-option.    *)
(*                                                                         *)
(* Every HTTP request runs in a session of its own, in one PostgreSQL      *)
(* transaction at the default READ COMMITTED isolation (src/db/base.py).   *)
(* A request is therefore a short sequence of statements: it reads rows    *)
(* into its session, where SQLAlchemy keeps the copy, writes columns it    *)
(* changed, and commits.  A flushed UPDATE holds the row's lock until the  *)
(* transaction ends; other writers of that row wait, readers do not.       *)
(* A module step is one or more statements between two points at which     *)
(* another transaction can make a difference.                              *)
(*                                                                         *)
(* All rows belong to one tenant.  "SENT" stands for SENT and for every    *)
(* status supplier responses move an RFQ on to: none allows a transition   *)
(* back to PENDING_APPROVAL, APPROVED_TO_SEND or SENT.                     *)
(***************************************************************************)
EXTENDS Naturals, FiniteSets

CONSTANTS
    Requests,    \* slots in which HTTP requests are served, one at a time each
    Approvals,   \* ids of ApprovalRequest rows
    Rfqs,        \* ids of RFQ rows
    Packets,     \* ids of DecisionPacket rows
    Options,     \* ids of DecisionOption rows
    None         \* no row, no request

ASSUME ApprovalGateAssumption ==
    /\ None \notin Requests \cup Approvals \cup Rfqs \cup Packets \cup Options
    /\ Rfqs \cap Packets = {}

VARIABLES
    approval,    \* committed ApprovalRequest rows
    rfq,         \* committed RFQ.status
    packet,      \* committed DecisionPacket approval status and chosen option
    lock,        \* the request holding the lock of an ApprovalRequest row
    session,     \* what each request has read so far, and where it is
    uses         \* history: committed actions that an approval has authorised

vars == <<approval, rfq, packet, lock, session, uses>>

(***************************************************************************)
(* Rows and sessions                                                       *)
(***************************************************************************)
Targets == Rfqs \cup Packets
Verdicts == {"APPROVED", "REJECTED"}
ApprovalStatus == {"ABSENT", "PENDING"} \cup Verdicts
RfqStatus == {"ABSENT", "PENDING_APPROVAL", "SENT"}
PacketStatus == {"ABSENT", "PENDING", "APPROVED"}
ActionTypes == {"RFQ_SEND", "QUOTE_APPROVE"}

ApprovalRow == [status : ApprovalStatus, consumed : BOOLEAN,
                action : ActionTypes \cup {None}, resource : Targets \cup {None}]
PacketRow == [status : PacketStatus, option : Options \cup {None}]

NoApproval == [status |-> "ABSENT", consumed |-> FALSE, action |-> None, resource |-> None]

Session == [pc : {"idle", "review", "gate", "consumed", "loaded"},
            approval : Approvals \cup {None}, target : Targets \cup {None},
            option : Options \cup {None}, seen : ApprovalStatus,
            verdict : Verdicts \cup {None}]

IdleSession == [pc |-> "idle", approval |-> None, target |-> None,
                option |-> None, seen |-> "ABSENT", verdict |-> None]

ActionOf(t) == IF t \in Rfqs THEN "RFQ_SEND" ELSE "QUOTE_APPROVE"

Goto(r, pc) == session' = [session EXCEPT ![r].pc = pc]
Finish(r) == session' = [session EXCEPT ![r] = IdleSession]
Unlock(r) == lock' = [a \in Approvals |-> IF lock[a] = r THEN None ELSE lock[a]]

(***************************************************************************)
(* create_rfq and generate_decision_packet insert a resource and, in the   *)
(* same transaction, the one ApprovalRequest bound to it.  Nobody sees     *)
(* either row before the commit, so each handler is a single step.         *)
(***************************************************************************)
CreateApprovalRequest(a, t) ==
    /\ approval[a].status = "ABSENT"
    /\ approval' = [approval EXCEPT ![a] =
           [status |-> "PENDING", consumed |-> FALSE, action |-> ActionOf(t), resource |-> t]]

CreateRfq(a, x) ==
    /\ rfq[x] = "ABSENT"
    /\ CreateApprovalRequest(a, x)
    /\ rfq' = [rfq EXCEPT ![x] = "PENDING_APPROVAL"]
    /\ UNCHANGED <<packet, lock, session, uses>>

\* A packet is built from the responses to some RFQ, which a supplier may have
\* given at any time after the RFQ was created.
GeneratePacket(a, p) ==
    /\ packet[p].status = "ABSENT"
    /\ \E x \in Rfqs : rfq[x] # "ABSENT"
    /\ CreateApprovalRequest(a, p)
    /\ packet' = [packet EXCEPT ![p] = [status |-> "PENDING", option |-> None]]
    /\ UNCHANGED <<rfq, lock, session, uses>>

(***************************************************************************)
(* The review routes: the row is read, then its status is set whatever it  *)
(* was.  SQLAlchemy writes a column only when its value differs from the   *)
(* one read, so a verdict equal to the status read leaves the column as it *)
(* is in the database by then.                                             *)
(***************************************************************************)
ReviewRead(r, a, v) ==
    /\ session[r].pc = "idle"
    /\ approval[a].status # "ABSENT"
    /\ session' = [session EXCEPT ![r] = [IdleSession EXCEPT
           !.pc = "review", !.approval = a, !.verdict = v, !.seen = approval[a].status]]
    /\ UNCHANGED <<approval, rfq, packet, lock, uses>>

ReviewWrite(r) ==
    LET a == session[r].approval IN
    /\ session[r].pc = "review"
    /\ lock[a] = None
    /\ approval' = IF session[r].verdict = session[r].seen THEN approval
                   ELSE [approval EXCEPT ![a].status = session[r].verdict]
    /\ Finish(r)
    /\ UNCHANGED <<rfq, packet, lock, uses>>

(***************************************************************************)
(* require_approved: the row is read once and checked; its consumption is  *)
(* flushed, which takes the row's lock, before the guarded handler reads   *)
(* anything of its own.  A failed check ends the request with a 403 and    *)
(* changes nothing.                                                        *)
(***************************************************************************)
\* Mutant of IsUsable: the approval's resource is not compared.
IsUsableForAnyResource(a, action, t) ==
    /\ approval[a].status = "APPROVED"
    /\ ~approval[a].consumed
    /\ approval[a].action = action

IsUsable(a, action, t) ==
    /\ approval[a].status = "APPROVED"
    /\ ~approval[a].consumed
    /\ approval[a].action = action
    /\ approval[a].resource = t

BeginGated(r, a, t, o) ==
    session' = [session EXCEPT ![r] = [IdleSession EXCEPT
        !.pc = "gate", !.approval = a, !.target = t, !.option = o, !.seen = "APPROVED"]]

SendRfqGuard(r, a, x) ==
    /\ session[r].pc = "idle"
    /\ IsUsable(a, "RFQ_SEND", x)
    /\ BeginGated(r, a, x, None)
    /\ UNCHANGED <<approval, rfq, packet, lock, uses>>

ApproveOptionGuard(r, a, p, o) ==
    /\ session[r].pc = "idle"
    /\ IsUsable(a, "QUOTE_APPROVE", p)
    /\ BeginGated(r, a, p, o)
    /\ UNCHANGED <<approval, rfq, packet, lock, uses>>

\* Mutant of Consume: the consumption is committed before the guarded action runs.
ConsumeCommitted(r) ==
    LET a == session[r].approval IN
    /\ session[r].pc = "gate"
    /\ lock[a] = None
    /\ approval' = [approval EXCEPT ![a].consumed = TRUE]
    /\ Goto(r, "consumed")
    /\ UNCHANGED <<rfq, packet, lock, uses>>

Consume(r) ==
    LET a == session[r].approval IN
    /\ session[r].pc = "gate"
    /\ lock[a] = None
    /\ lock' = [lock EXCEPT ![a] = r]
    /\ Goto(r, "consumed")
    /\ UNCHANGED <<approval, rfq, packet, uses>>

\* Mutant of SendRfqLoad: the RFQ's status is not checked by a transition.
SendRfqLoadUnchecked(r) ==
    /\ session[r].pc = "consumed"
    /\ session[r].target \in Rfqs
    /\ Goto(r, "loaded")
    /\ UNCHANGED <<approval, rfq, packet, lock, uses>>

\* Mutant of SendRfqRefused: the request ends without rolling back.
SendRfqRefusedHoldingLock(r) ==
    /\ session[r].pc = "consumed"
    /\ session[r].target \in Rfqs
    /\ rfq[session[r].target] # "PENDING_APPROVAL"
    /\ Finish(r)
    /\ UNCHANGED <<approval, rfq, packet, lock, uses>>

\* The RFQ is read only now; transition() raises unless it is still to be sent,
\* and the transaction, the consumption included, is rolled back.
SendRfqLoad(r) ==
    /\ session[r].pc = "consumed"
    /\ session[r].target \in Rfqs
    /\ rfq[session[r].target] = "PENDING_APPROVAL"
    /\ Goto(r, "loaded")
    /\ UNCHANGED <<approval, rfq, packet, lock, uses>>

SendRfqRefused(r) ==
    /\ session[r].pc = "consumed"
    /\ session[r].target \in Rfqs
    /\ rfq[session[r].target] # "PENDING_APPROVAL"
    /\ Unlock(r)
    /\ Finish(r)
    /\ UNCHANGED <<approval, rfq, packet, uses>>

\* The packet is loaded and belongs to the tenant; its status is not looked at.
ApproveOptionLoad(r) ==
    /\ session[r].pc = "consumed"
    /\ session[r].target \in Packets
    /\ packet[session[r].target].status # "ABSENT"
    /\ Goto(r, "loaded")
    /\ UNCHANGED <<approval, rfq, packet, lock, uses>>

Spend(r) ==
    LET a == session[r].approval IN
    /\ approval' = [approval EXCEPT ![a].consumed = TRUE]
    /\ uses' = [uses EXCEPT ![a] = @ + 1]
    /\ Unlock(r)
    /\ Finish(r)

SendRfqCommit(r) ==
    /\ session[r].pc = "loaded"
    /\ session[r].target \in Rfqs
    /\ rfq' = [rfq EXCEPT ![session[r].target] = "SENT"]
    /\ Spend(r)
    /\ UNCHANGED packet

ApproveOptionCommit(r) ==
    /\ session[r].pc = "loaded"
    /\ session[r].target \in Packets
    /\ packet' = [packet EXCEPT ![session[r].target] =
           [status |-> "APPROVED", option |-> session[r].option]]
    /\ Spend(r)
    /\ UNCHANGED rfq

\* The client goes away, the server dies or a statement fails: the session
\* closes without a commit and PostgreSQL drops its writes and its locks.
Abort(r) ==
    /\ session[r].pc # "idle"
    /\ Unlock(r)
    /\ Finish(r)
    /\ UNCHANGED <<approval, rfq, packet, uses>>

-----------------------------------------------------------------------------
Init ==
    /\ approval = [a \in Approvals |-> NoApproval]
    /\ rfq = [x \in Rfqs |-> "ABSENT"]
    /\ packet = [p \in Packets |-> [status |-> "ABSENT", option |-> None]]
    /\ lock = [a \in Approvals |-> None]
    /\ session = [r \in Requests |-> IdleSession]
    /\ uses = [a \in Approvals |-> 0]

Create == \E a \in Approvals :
    \/ \E x \in Rfqs : CreateRfq(a, x)
    \/ \E p \in Packets : GeneratePacket(a, p)

Start(r) == \E a \in Approvals :
    \/ \E v \in Verdicts : ReviewRead(r, a, v)
    \/ \E x \in Rfqs : SendRfqGuard(r, a, x)
    \/ \E p \in Packets, o \in Options : ApproveOptionGuard(r, a, p, o)

Proceed(r) ==
    \/ ReviewWrite(r)
    \/ SendRfqLoad(r) \/ SendRfqRefused(r) \/ SendRfqCommit(r)
    \/ ApproveOptionLoad(r) \/ ApproveOptionCommit(r)

Next ==
    \/ Create
    \/ \E r \in Requests : Start(r) \/ Consume(r) \/ Proceed(r) \/ Abort(r)

Spec == Init /\ [][Next]_vars

\* The server runs every request it has accepted.  Two requests can compete
\* for one row lock for ever only if the database starves a waiter, and
\* PostgreSQL queues waiters: a wait for a lock is strongly fair.
Fairness == \A r \in Requests :
    /\ WF_vars(SendRfqLoad(r) \/ SendRfqRefused(r) \/ SendRfqCommit(r)
                 \/ ApproveOptionLoad(r) \/ ApproveOptionCommit(r))
    /\ SF_vars(ReviewWrite(r))
    /\ SF_vars(Consume(r))

FairSpec == Spec /\ Fairness

-----------------------------------------------------------------------------
(***************************************************************************)
(* Properties                                                              *)
(***************************************************************************)

\* Rows and sessions hold the values the schema and the handlers allow; in
\* particular no RFQ is committed as DRAFT or APPROVED_TO_SEND, the two
\* statuses create_rfq and send_rfq pass through inside a transaction.
TypeOK ==
    /\ approval \in [Approvals -> ApprovalRow]
    /\ rfq \in [Rfqs -> RfqStatus]
    /\ packet \in [Packets -> PacketRow]
    /\ lock \in [Approvals -> Requests \cup {None}]
    /\ session \in [Requests -> Session]
    /\ uses \in [Approvals -> Nat]

\* The spent approval of a target: reviewed by a human, of the target's action
\* type, bound to that very target, and marked consumed.
SpentFor(a, t) ==
    /\ approval[a].consumed
    /\ approval[a].status \in Verdicts
    /\ approval[a].action = ActionOf(t)
    /\ approval[a].resource = t

\* No RFQ is sent and no packet is approved without a reviewed approval bound
\* to it having been spent on it (require_approved in send_rfq and
\* approve_decision_option), whatever requests run against each other.
DoneMeansSpent ==
    /\ \A x \in Rfqs : rfq[x] = "SENT" => \E a \in Approvals : SpentFor(a, x)
    /\ \A p \in Packets : packet[p].status = "APPROVED" => \E a \in Approvals : SpentFor(a, p)

\* An approval is never lost: it is spent only together with the action it
\* authorises, even when the transaction fails between the flush of consumed_at
\* and the end of the handler.
SpentMeansDone ==
    \A a \in Approvals : approval[a].consumed =>
        IF approval[a].action = "RFQ_SEND"
        THEN rfq[approval[a].resource] = "SENT"
        ELSE packet[approval[a].resource].status = "APPROVED"

\* An RFQ goes out to its recipients at most once per approval.  Two requests
\* may both find the approval unconsumed; what stops the second is that it
\* waits for the row lock before it reads the RFQ.
RfqSentOnce ==
    \A a \in Approvals : approval[a].action = "RFQ_SEND" => uses[a] <= 1

\* The docstring of require_approved: "the same approval can never authorise a
\* second action".  approve_decision_option reads no status behind the lock.
OneUsePerApproval == \A a \in Approvals : uses[a] <= 1

\* Every request a client starts is answered: a wait for an approval's row lock
\* always ends, also behind a request that is refused or dies.
RequestsFinish == \A r \in Requests : session[r].pc # "idle" ~> session[r].pc = "idle"
=============================================================================
