-------------------------- MODULE SupplierResponses --------------------------
(***************************************************************************)
(* Suppliers' answers to one RFQ: POST /rfqs/{id}/responses.               *)
(*                                                                         *)
(* record_supplier_response reads the RFQ, inserts the response, marks the *)
(* recipient, awaits a language model for many seconds, counts responses   *)
(* and moves the RFQ's status from the one it read at the start.  The flush*)
(* before the await holds the recipient's row lock until the commit;       *)
(* nothing holds the RFQ's row.  READ COMMITTED: a count sees the responses*)
(* committed by then and the transaction's own.                            *)
(***************************************************************************)
EXTENDS Naturals, FiniteSets

CONSTANTS
    Requests,      \* slots in which responses are recorded, one at a time each
    Participants,  \* suppliers known to the tenant
    Recipients,    \* the suppliers this RFQ is addressed to
    Responses,     \* ids of SupplierResponse rows
    None

ASSUME SupplierResponsesAssumption ==
    /\ None \notin Requests \cup Participants
    /\ Recipients \subseteq Participants
    /\ IsFiniteSet(Recipients) /\ IsFiniteSet(Responses)

VARIABLES
    status,        \* committed RFQ.status
    response,      \* the author of a committed SupplierResponse row
    recipient,     \* committed RFQRecipient.status
    lock,          \* the request holding a recipient's row
    session,       \* what each request has read and decided, and where it is
    overlapped     \* history: two responses have been recorded at the same time

vars == <<status, response, recipient, lock, session, overlapped>>

\* The statuses an RFQ can be committed in: DRAFT and APPROVED_TO_SEND are passed
\* through within a transaction, EXPIRED and CANCELLED are set by no handler.
RfqStates == {"PENDING_APPROVAL", "SENT", "RECEIVED", "PARTIAL_RESPONSE", "COMPLETE_RESPONSE"}

\* VALID_TRANSITIONS between them; sending takes two at once.
ValidTransitions(current) ==
    CASE current = "PENDING_APPROVAL" -> {"SENT"}
      [] current = "SENT"             -> {"RECEIVED", "PARTIAL_RESPONSE"}
      [] current = "RECEIVED"         -> {"PARTIAL_RESPONSE", "COMPLETE_RESPONSE"}
      [] current = "PARTIAL_RESPONSE" -> {"COMPLETE_RESPONSE"}
      [] OTHER                        -> {}

Session == [pc : {"idle", "read", "found", "marked", "counted"}, participant : Participants \cup {None},
            seen : RfqStates, answered : BOOLEAN, next : RfqStates]
IdleSession == [pc |-> "idle", participant |-> None, seen |-> "PENDING_APPROVAL",
                answered |-> FALSE, next |-> "PENDING_APPROVAL"]

Recorded == {i \in Responses : response[i] # None}
Finish(r) == session' = [session EXCEPT ![r] = IdleSession]
Unlock(r) == lock' = [p \in Recipients |-> IF lock[p] = r THEN None ELSE lock[p]]

-----------------------------------------------------------------------------
\* send_rfq, behind its approval (ApprovalGate): every recipient is marked, also one
\* that has answered already.
Send ==
    /\ status = "PENDING_APPROVAL"
    /\ \A p \in Recipients : lock[p] = None
    /\ status' = "SENT"
    /\ recipient' = [p \in Recipients |-> "SENT"]
    /\ UNCHANGED <<response, lock, session, overlapped>>

\* The RFQ is read.
\* Bound: a response is begun only while an unused response id is left.
Read(r, p) ==
    /\ session[r].pc = "idle"
    /\ Recorded # Responses
    /\ session' = [session EXCEPT ![r] =
           [IdleSession EXCEPT !.pc = "read", !.participant = p, !.seen = status]]
    /\ overlapped' = (overlapped \/ \E s \in Requests : session[s].pc # "idle")
    /\ UNCHANGED <<status, response, recipient, lock>>

\* Behind the flush of the response, the supplier's row is read if it is a recipient.
FindRecipient(r) ==
    LET p == session[r].participant IN
    /\ session[r].pc = "read"
    /\ session' = [session EXCEPT ![r].pc = "found",
           ![r].answered = p \in Recipients /\ recipient[p] = "RESPONDED"]
    /\ UNCHANGED <<status, response, recipient, lock, overlapped>>

\* The flush of emit_event writes the recipient's row and waits for it first.
Mark(r) ==
    LET p == session[r].participant IN
    /\ session[r].pc = "found"
    /\ p \in Recipients => lock[p] = None
    /\ lock' = IF p \in Recipients THEN [lock EXCEPT ![p] = r] ELSE lock
    /\ session' = [session EXCEPT ![r].pc = "marked"]
    /\ UNCHANGED <<status, response, recipient, overlapped>>

\* Mutant of EnoughWith: the response being recorded is counted twice.
EnoughWithOneMore(responded) == responded + 1 >= Cardinality(Recipients)

EnoughWith(responded) == responded >= Cardinality(Recipients)

\* Mutant of StatusAfter: only the first response moves the RFQ.
StatusAfterFirst(seen, enough) ==
    IF seen # "SENT" THEN seen ELSE IF enough THEN "RECEIVED" ELSE "PARTIAL_RESPONSE"

\* Mutant of StatusAfter: the status is taken from the count alone.
StatusAfterAny(seen, enough) ==
    CASE ~enough -> "PARTIAL_RESPONSE"
      [] seen \in {"RECEIVED", "PARTIAL_RESPONSE"} /\ enough -> "COMPLETE_RESPONSE"
      [] OTHER -> seen

\* _update_rfq_status_from_responses.
StatusAfter(seen, enough) ==
    CASE seen = "SENT" /\ enough  -> "RECEIVED"
      [] seen = "SENT" /\ ~enough -> "PARTIAL_RESPONSE"
      [] seen \in {"RECEIVED", "PARTIAL_RESPONSE"} /\ enough -> "COMPLETE_RESPONSE"
      [] OTHER -> seen

\* The model has answered; the responses are counted and the next status chosen.
Count(r) ==
    /\ session[r].pc = "marked"
    /\ session' = [session EXCEPT ![r].pc = "counted",
           ![r].next = StatusAfter(session[r].seen, EnoughWith(Cardinality(Recorded) + 1))]
    /\ UNCHANGED <<status, response, recipient, lock, overlapped>>

\* Columns are written only where they differ from what was read.
Commit(r, i) ==
    LET p == session[r].participant IN
    /\ session[r].pc = "counted"
    /\ response[i] = None
    /\ response' = [response EXCEPT ![i] = p]
    /\ recipient' = IF p \in Recipients /\ ~session[r].answered
                    THEN [recipient EXCEPT ![p] = "RESPONDED"] ELSE recipient
    /\ status' = IF session[r].next = session[r].seen THEN status ELSE session[r].next
    /\ Unlock(r)
    /\ Finish(r)
    /\ UNCHANGED overlapped

\* The language model, the client or the server fails before the commit.
Abort(r) ==
    /\ session[r].pc # "idle"
    /\ Unlock(r)
    /\ Finish(r)
    /\ UNCHANGED <<status, response, recipient, overlapped>>

-----------------------------------------------------------------------------
Init ==
    /\ status = "PENDING_APPROVAL"
    /\ response = [i \in Responses |-> None]
    /\ recipient = [p \in Recipients |-> "PENDING"]
    /\ lock = [p \in Recipients |-> None]
    /\ session = [r \in Requests |-> IdleSession]
    /\ overlapped = FALSE

Next ==
    \/ Send
    \/ \E r \in Requests :
          \/ \E p \in Participants : Read(r, p)
          \/ FindRecipient(r) \/ Mark(r) \/ Count(r) \/ Abort(r)
          \/ \E i \in Responses : Commit(r, i)

Spec == Init /\ [][Next]_vars

-----------------------------------------------------------------------------
(***************************************************************************)
(* Properties that hold however responses overlap                          *)
(***************************************************************************)
\* Rows and sessions hold the values the schema and the handlers allow.
TypeOK ==
    /\ status \in RfqStates
    /\ response \in [Responses -> Participants \cup {None}]
    /\ recipient \in [Recipients -> {"PENDING", "SENT", "RESPONDED"}]
    /\ lock \in [Recipients -> Requests \cup {None}]
    /\ session \in [Requests -> Session]
    /\ overlapped \in BOOLEAN

\* An RFQ is never shown as answered on too few responses, although the status is
\* chosen from a count that other requests overtake.
AnsweredMeansEnough ==
    status \in {"RECEIVED", "COMPLETE_RESPONSE"} => Cardinality(Recorded) >= Cardinality(Recipients)

\* A recipient shown as having responded has a response on record, also when the
\* language model fails after the recipient was marked.
RespondedMeansRecorded ==
    \A p \in Recipients : recipient[p] = "RESPONDED" => \E i \in Responses : response[i] = p

(***************************************************************************)
(* Properties that hold as long as no two responses have overlapped        *)
(***************************************************************************)
\* The docstring of _update_rfq_status_from_responses: "Update RFQ to RECEIVED or
\* PARTIAL_RESPONSE based on response count": no RFQ stays partial with enough
\* responses on record.
StatusMatchesCount ==
    ~overlapped /\ status = "PARTIAL_RESPONSE" => Cardinality(Recorded) < Cardinality(Recipients)

\* Every change of status is a transition src/rfq/state_machine.py allows.
StatusFollowsTransitions ==
    [][~overlapped => status' \in ValidTransitions(status)]_status
=============================================================================
