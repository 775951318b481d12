--------------------------- MODULE CustomerQuotes ---------------------------
(***************************************************************************)
(* AIVAN: one project's requirement, the suppliers' replies to it, and the *)
(* e-mails that are drafted from both, approved by a human and sent        *)
(* (aivan/execution/rfq_execution.py, aivan/api/main.py).                  *)
(*                                                                         *)
(* Everything arrives as an event, which the channel may deliver again.    *)
(* Its handler reads the project and writes its JSON column as a whole.  A *)
(* buyer's message revises the requirement and may leave inquiries to      *)
(* suppliers to be approved.  A reply is appended, buyer options are       *)
(* generated from all replies and, if there are any, a quote replaces the  *)
(* open one.  One transaction does this and another one enters the event   *)
(* in the idempotency ledger.  A draft is approved, sent and marked in one *)
(* transaction; the e-mail is out before the commit.                       *)
(*                                                                         *)
(* Other events leave no trace but their ledger row, and the operator's    *)
(* notices, drafts that go out unapproved, are left out.                   *)
(*                                                                         *)
(* Row locks are PostgreSQL's.  SQLite, the default, locks the database at *)
(* a handler's first write: fewer interleavings, after reads as stale.     *)
(***************************************************************************)
EXTENDS Naturals, FiniteSets

CONSTANTS
    Requests,   \* slots in which events and approvals are handled
    Messages,   \* messages of the buyer's side, by idempotency key
    Events,     \* supplier replies, by idempotency key
    Priced,     \* those in which a unit price was found
    Drafts,     \* ids of InquiryDraftRecord rows
    Project,    \* id of the Project row
    MaxSent,    \* bound: e-mails that go out from one draft
    MaxAsked,   \* how many suppliers are asked at once, at most
    None

ASSUME CustomerQuotesAssumption ==
    /\ Priced \subseteq Events
    /\ Events \cap (Messages \cup Drafts) = {}
    /\ Project \notin Drafts
    /\ MaxSent \in Nat
    /\ None \notin Requests \cup Messages \cup Events \cup Drafts

VARIABLES
    processed,   \* committed ProcessedInboundEvent rows
    requirement, \* the project's requirement_json
    draft,       \* committed InquiryDraftRecord rows
    sent,        \* e-mails that went out from a draft
    lock,        \* the request holding a row's lock
    session,     \* what each request has read and decided, and where it is
    overlapped,  \* history: two requests have been handled at once; as long as not:
    shelved,     \* history: events answered with nothing of them being kept
    outdated     \* history: open quotes and replies a buyer's message came after

vars == <<processed, requirement, draft, sent, lock, session, overlapped, shelved, outdated>>

-----------------------------------------------------------------------------
\* The messages a requirement was structured from, and supplier_replies: how often
\* each is in it.  There is no requirement before the first message.
Replies == [Events -> Nat]
NoReplies == [e \in Events |-> 0]
Requirement == [wants : SUBSET Messages, replies : Replies]
NoRequirement == [wants |-> {}, replies |-> NoReplies]

\* Nothing calls approve_and_send, which knows approved_pending_send and send_failed.
DraftStatus == {"ABSENT", "pending_approval", "approved", "sent", "rejected", "superseded"}
DraftRow == [type : {"customer_quote", "supplier_inquiry"}, status : DraftStatus,
             basis : Requirement]
NoDraft == [type |-> "supplier_inquiry", status |-> "ABSENT", basis |-> NoRequirement]

Session == [pc : {"idle", "received", "quoting", "unquoted", "revising", "recording",
                  "approving", "approved", "answered", "rejecting"},
            event : Messages \cup Events \cup {None}, seen : Requirement, writes : BOOLEAN,
            stale : SUBSET Drafts, draft : Drafts \cup {None}, success : BOOLEAN]
IdleSession == [pc |-> "idle", event |-> None, seen |-> NoRequirement, writes |-> FALSE,
                stale |-> {}, draft |-> None, success |-> FALSE]

Absent == {d \in Drafts : draft[d].status = "ABSENT"}
Open == {d \in Drafts : draft[d].status = "pending_approval"}
OpenQuotes == {d \in Open : draft[d].type = "customer_quote"}

Begin(r, read) ==
    /\ session[r].pc = "idle"
    /\ session' = [session EXCEPT ![r] = read]
    /\ overlapped' = (overlapped \/ \E q \in Requests : session[q].pc # "idle")
    /\ shelved' = IF overlapped' THEN {} ELSE shelved
    /\ outdated' = IF overlapped' THEN {} ELSE outdated
Goto(r, pc) == session' = [session EXCEPT ![r].pc = pc]
Answer(r) ==
    session' = [session EXCEPT ![r] =
                   [IdleSession EXCEPT !.pc = "recording", !.event = session[r].event]]
Finish(r) == session' = [session EXCEPT ![r] = IdleSession]
Unlock(r) == lock' = [x \in DOMAIN lock |-> IF lock[x] = r THEN None ELSE lock[x]]

-----------------------------------------------------------------------------
(***************************************************************************)
(* A buyer's message or a supplier's reply                                 *)
(***************************************************************************)
\* An event in the ledger is answered from it; any other is handled, and the project
\* is loaded.
Receive(r, e) ==
    /\ e \notin processed
    /\ Begin(r, [IdleSession EXCEPT !.pc = "received", !.event = e, !.seen = requirement])
    /\ UNCHANGED <<processed, requirement, draft, sent, lock>>

\* A message for which suppliers or a service are missing, and a reply to a project
\* without a requirement, are answered and nothing of them is saved.
SetAside(r) ==
    /\ session[r].pc = "received"
    /\ session[r].event \in Messages \/ session[r].seen.wants = {}
    /\ shelved' = IF overlapped THEN shelved ELSE shelved \cup {session[r].event}
    /\ Answer(r)
    /\ UNCHANGED <<processed, requirement, draft, sent, lock, outdated, overlapped>>

\* The old requirement's fields complete the new one's; model_dump has no replies.
Revised(seen, m) == [wants |-> seen.wants \cup {m}, replies |-> NoReplies]

WithReply(seen, e) == [seen EXCEPT !.replies[e] = @ + 1]

Payload(r) ==
    IF session[r].event \in Messages THEN Revised(session[r].seen, session[r].event)
                                      ELSE WithReply(session[r].seen, session[r].event)

\* generate_buyer_options makes options of the replies with a price.
HasOptions(r) ==
    session[r].event \in Events /\ \E e \in Priced : Payload(r).replies[e] > 0

\* Mutant of IsWritten: of replies, only the first is.
IsWrittenFirst(r) ==
    IF session[r].event \in Messages THEN {TRUE, Payload(r) # session[r].seen}
                                      ELSE {session[r].seen.replies = NoReplies}

\* Whether an UPDATE is issued, which takes a value that differs.  A message's may not
\* if it was handled before.  A reply is appended to a list the loaded value shares,
\* unless there is none yet: then only new options make it differ.
IsWritten(r) ==
    IF session[r].event \in Messages THEN {TRUE, Payload(r) # session[r].seen}
    ELSE {HasOptions(r) \/ session[r].seen.replies = NoReplies}

\* Mutant of Stale: drafts that were approved are looked for.
StaleApproved == {d \in Drafts : draft[d].status = "approved"}

\* supersede_customer_quote_drafts.
Stale == OpenQuotes

Flushed(r, writes) ==
    [session[r] EXCEPT !.writes = writes,
        !.stale = IF HasOptions(r) THEN Stale ELSE {},
        !.pc = IF session[r].event \in Messages THEN "revising"
               ELSE IF HasOptions(r) THEN "quoting" ELSE "unquoted"]

\* Mutant of UpdateRequirement: the project's row is not written before the commit.
UpdateRequirementLate(r) ==
    /\ session[r].pc = "received"
    /\ session[r].event \in Messages \/ session[r].seen.wants # {}
    /\ \E writes \in IsWritten(r) : session' = [session EXCEPT ![r] = Flushed(r, writes)]
    /\ UNCHANGED <<processed, requirement, draft, sent, lock, shelved, outdated, overlapped>>

\* project_repo.update_requirement flushes.  With the row its own until the commit, a
\* reply that yields options then looks for the open quotes.
UpdateRequirement(r) ==
    /\ session[r].pc = "received"
    /\ session[r].event \in Messages \/ session[r].seen.wants # {}
    /\ \E writes \in IsWritten(r) :
          /\ session' = [session EXCEPT ![r] = Flushed(r, writes)]
          /\ IF writes THEN lock[Project] = None /\ lock' = [lock EXCEPT ![Project] = r]
                       ELSE UNCHANGED lock
    /\ UNCHANGED <<processed, requirement, draft, sent, shelved, outdated, overlapped>>

\* The commit: the JSON column, if it was flushed, goes over what is there.
SaveRequirement(r) ==
    /\ requirement' = IF session[r].writes THEN Payload(r) ELSE requirement
    /\ Unlock(r)
    /\ Answer(r)

NewDraft(r, type) == [type |-> type, status |-> "pending_approval", basis |-> Payload(r)]

\* The commit of a reply that yields options: stale quotes are superseded, waiting for
\* whoever has them locked, and a new one is made.
Quote(r, d) ==
    /\ session[r].pc = "quoting"
    /\ d \in Absent
    /\ \A s \in session[r].stale : lock[s] = None
    /\ draft' = [x \in Drafts |->
           IF x = d THEN NewDraft(r, "customer_quote")
           ELSE IF x \in session[r].stale THEN [draft[x] EXCEPT !.status = "superseded"]
           ELSE draft[x]]
    /\ SaveRequirement(r)
    /\ UNCHANGED <<processed, sent, shelved, outdated, overlapped>>

\* The commit of a reply that yields none.
KeepReply(r) ==
    /\ session[r].pc = "unquoted"
    /\ SaveRequirement(r)
    /\ UNCHANGED <<processed, draft, sent, shelved, outdated, overlapped>>

\* The commit of a message, with inquiries if the requirement is ready.  Neither the
\* open quote nor inquiries of earlier messages are withdrawn.
Revise(r, inquiries) ==
    /\ session[r].pc = "revising"
    /\ inquiries \subseteq Absent
    /\ draft' = [x \in Drafts |->
           IF x \in inquiries THEN NewDraft(r, "supplier_inquiry") ELSE draft[x]]
    /\ SaveRequirement(r)
    /\ outdated' = IF overlapped \/ ~session[r].writes THEN outdated
                   ELSE outdated \cup OpenQuotes \cup {e \in Events : requirement.replies[e] > 0}
    /\ UNCHANGED <<processed, sent, shelved, overlapped>>

\* InboundEventRepository.record: a row that is there already is left alone.
Record(r) ==
    /\ session[r].pc = "recording"
    /\ processed' = processed \cup {session[r].event}
    /\ Finish(r)
    /\ UNCHANGED <<requirement, draft, sent, lock, shelved, outdated, overlapped>>

-----------------------------------------------------------------------------
(***************************************************************************)
(* Approving and rejecting a draft                                         *)
(***************************************************************************)
\* Mutant of ApproveRead: a draft may be approved in any status.
ApproveReadAny(r, d) ==
    /\ draft[d].status # "ABSENT"
    /\ Begin(r, [IdleSession EXCEPT !.pc = "approving", !.draft = d])
    /\ UNCHANGED <<processed, requirement, draft, sent, lock, shelved, outdated>>

\* _do_approve_draft; repo.approve then finds the status in the session.
ApproveRead(r, d) ==
    /\ d \in Open
    /\ Begin(r, [IdleSession EXCEPT !.pc = "approving", !.draft = d])
    /\ UNCHANGED <<processed, requirement, draft, sent, lock>>

ApproveFlush(r) ==
    /\ session[r].pc = "approving"
    /\ lock[session[r].draft] = None
    /\ lock' = [lock EXCEPT ![session[r].draft] = r]
    /\ Goto(r, "approved")
    /\ UNCHANGED <<processed, requirement, draft, sent, shelved, outdated, overlapped>>

\* send_if_approved: blocked by the channel policy, sent, or sent without a reply.
Send(r, delivered, success) ==
    /\ session[r].pc = "approved"
    /\ success => delivered
    /\ delivered => sent[session[r].draft] < MaxSent
    /\ sent' = IF delivered THEN [sent EXCEPT ![session[r].draft] = @ + 1] ELSE sent
    /\ session' = [session EXCEPT ![r].pc = "answered", ![r].success = success]
    /\ UNCHANGED <<processed, requirement, draft, lock, shelved, outdated, overlapped>>

\* Mutant of ApproveCommit: a failed send is marked sent.
ApproveCommitSent(r) ==
    /\ session[r].pc = "answered"
    /\ draft' = [draft EXCEPT ![session[r].draft].status = "sent"]
    /\ Unlock(r)
    /\ Finish(r)
    /\ UNCHANGED <<processed, requirement, sent, shelved, outdated, overlapped>>

\* A draft whose message could not be sent stays approved, and no handler takes it on.
ApproveCommit(r) ==
    /\ session[r].pc = "answered"
    /\ draft' = [draft EXCEPT ![session[r].draft].status =
                    IF session[r].success THEN "sent" ELSE "approved"]
    /\ Unlock(r)
    /\ Finish(r)
    /\ UNCHANGED <<processed, requirement, sent, shelved, outdated, overlapped>>

RejectRead(r, d) ==
    /\ d \in Open
    /\ Begin(r, [IdleSession EXCEPT !.pc = "rejecting", !.draft = d])
    /\ UNCHANGED <<processed, requirement, draft, sent, lock>>

RejectCommit(r) ==
    /\ session[r].pc = "rejecting"
    /\ lock[session[r].draft] = None
    /\ draft' = [draft EXCEPT ![session[r].draft].status = "rejected"]
    /\ Finish(r)
    /\ UNCHANGED <<processed, requirement, sent, lock, shelved, outdated, overlapped>>

\* The request fails or dies: its transaction is rolled back, what it committed or
\* sent stays.
Abort(r) ==
    /\ session[r].pc # "idle"
    /\ Unlock(r)
    /\ Finish(r)
    /\ UNCHANGED <<processed, requirement, draft, sent, shelved, outdated, overlapped>>

-----------------------------------------------------------------------------
Init ==
    /\ processed = {}
    /\ requirement = NoRequirement
    /\ draft = [d \in Drafts |-> NoDraft]
    /\ sent = [d \in Drafts |-> 0]
    /\ lock = [x \in Drafts \cup {Project} |-> None]
    /\ session = [r \in Requests |-> IdleSession]
    /\ shelved = {}
    /\ outdated = {}
    /\ overlapped = FALSE

Next == \E r \in Requests :
    \/ \E e \in Messages \cup Events : Receive(r, e)
    \/ SetAside(r) \/ UpdateRequirement(r) \/ KeepReply(r) \/ Record(r)
    \/ \E inquiries \in SUBSET Absent :
          Cardinality(inquiries) <= MaxAsked /\ Revise(r, inquiries)
    \/ ApproveFlush(r) \/ ApproveCommit(r) \/ RejectCommit(r)
    \/ \E d \in Drafts : Quote(r, d) \/ ApproveRead(r, d) \/ RejectRead(r, d)
    \/ \E delivered, success \in BOOLEAN : Send(r, delivered, success)
    \/ Abort(r)

Spec == Init /\ [][Next]_vars

-----------------------------------------------------------------------------
(***************************************************************************)
(* Properties that hold however requests overlap, fail and are repeated    *)
(***************************************************************************)
\* Rows and sessions hold the values the code allows; no draft is committed in a
\* status of approval_state.py that no handler uses.
TypeOK ==
    /\ processed \subseteq Messages \cup Events
    /\ requirement \in Requirement
    /\ draft \in [Drafts -> DraftRow]
    /\ sent \in [Drafts -> Nat]
    /\ lock \in [Drafts \cup {Project} -> Requests \cup {None}]
    /\ session \in [Requests -> Session]
    /\ shelved \subseteq Messages \cup Events
    /\ outdated \subseteq Drafts \cup Events
    /\ overlapped \in BOOLEAN

\* A customer never has two quotes of one project open for approval: replies that
\* arrive together supersede each other's drafts, because supersede_customer_quote_drafts
\* comes after the flush of the project's row.
OneOpenQuote == \A d, e \in OpenQuotes : d = e

\* A draft shown as sent has left; what a send without an answer leaves behind is never
\* taken for sent, and no other request writes over the row in between.
SentMeansMessage == \A d \in Drafts : draft[d].status = "sent" => sent[d] > 0

(***************************************************************************)
(* Properties that hold as long as no two requests overlap                 *)
(***************************************************************************)
\* The quote a human may approve was made from the requirement and the replies on
\* record, also after failures and redelivery, unless the buyer has written since.
OpenQuoteIsCurrent ==
    ~overlapped => \A d \in OpenQuotes \ outdated : draft[d].basis = requirement

Kept(e) ==
    \/ e \in shelved
    \/ e \in Messages /\ e \in requirement.wants
    \/ e \in Priced /\ (e \in outdated \/ requirement.replies[e] > 0)
    \/ e \in Events \ Priced

\* What the ledger answers for is in the project, if it was not set aside: the buyer's
\* messages in the requirement, whoever wrote it last, and priced replies beside it
\* until the buyer writes again.
EventsAreKept == ~overlapped => \A e \in processed : Kept(e)

\* rfq_execution.py: superseded drafts "cannot be approved or sent after buyer options
\* have been regenerated"; nor are rejected ones, nor sent ones a second time.
WithdrawnIsNotSent ==
    [][\A d \in Drafts : sent'[d] # sent[d] /\ ~overlapped => d \in Open]_vars
=============================================================================
