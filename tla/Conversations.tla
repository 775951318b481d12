--------------------------- MODULE Conversations ----------------------------
(***************************************************************************)
(* adapt_openclaw_event: messages of buyers, suppliers and salespeople are *)
(* turned into procurement projects, and into drafts of supplier inquiries *)
(* that OpenClaw sends once someone in the conversation has confirmed.     *)
(*                                                                         *)
(* Bindings, workspaces and drafts are JSON files.  Nothing locks them,    *)
(* and events are handled in threads or processes of their own, so other   *)
(* events run between any two accesses.  A file is truncated before it is  *)
(* written: a reader in between skips it when it lists the directory and   *)
(* raises when it reads that one file, which ends its event.               *)
(*                                                                         *)
(* A message is reduced to what the parsers find in it.  The fields of a   *)
(* requirement that a draft needs are Basic ones, whose value has to be    *)
(* known, and Specs, which a message need only mention.                    *)
(***************************************************************************)
EXTENDS FiniteSets, Naturals

CONSTANTS
    Handlers,      \* slots in which events are handled, one at a time each
    Convs,         \* source, channel, account, conversation and sender of an event
    Projects,      \* RFQ ids; each has its B-side workspace
    Drafts,        \* ids of message drafts
    Messages,      \* what messages can say, a subset of Message
    Basic, Specs,
    Null

ASSUME ConversationsAssumption ==
    /\ Null \notin Convs \cup Projects
    /\ Convs \cap Projects = {}

VARIABLES
    bindings,      \* the conversation bindings on file
    started,       \* projects whose workspace has been created
    known,         \* the fields of each workspace's requirement that have a value
    draft,         \* status and project of each draft
    event,         \* what each handler has read of its event, and where it is
    sent,          \* history: how often a draft was handed to OpenClaw for dispatch
    overlapped,    \* history: conversations and projects with overlapping events
    died           \* history: drafts approved by a request that died

convVars == <<bindings, started, known, draft, event, sent, overlapped, died>>

Fields == Basic \cup Specs
Mode == {"auto", "b_side", "m_side"}
Message == [approves : BOOLEAN, refuses : BOOLEAN, offers : BOOLEAN, mode : Mode,
            gives : SUBSET Fields, mentions : SUBSET Specs]

ASSUME MessagesAreMessages == Messages \subseteq Message

Binding == [conv : Convs, project : Projects, mode : {"b_side", "m_side"}]

ASSUME NullIsNoBinding == Null \notin Binding

DraftRow == [status : {"ABSENT", "pending_approval", "approved", "rejected"},
             project : Projects \cup {Null}]
NoDraft == [status |-> "ABSENT", project |-> Null]

Event == [pc : {"idle", "workspace", "bind", "save", "draft", "approving", "rejecting"},
          conv : Convs \cup {Null}, project : Projects \cup {Null},
          gives : SUBSET Fields, mentions : SUBSET Specs,
          mode : {"b_side", "m_side"},
          todo : SUBSET Drafts, outbound : SUBSET Drafts]
IdleEvent == [pc |-> "idle", conv |-> Null, project |-> Null, gives |-> {},
              mentions |-> {}, mode |-> "b_side",
              todo |-> {}, outbound |-> {}]

BeginEvent(r, s) ==
    /\ event[r].pc = "idle"
    /\ event' = [event EXCEPT ![r] = s]
    /\ LET others == {q \in Handlers :
               /\ event[q].pc # "idle"
               /\ event[q].conv = s.conv \/ (event[q].project = s.project /\ s.project # Null)}
       IN  overlapped' = IF others = {} THEN overlapped
                         ELSE overlapped \cup {s.conv} \cup ({s.project} \ {Null})
FinishEvent(r) == event' = [event EXCEPT ![r] = IdleEvent]

-----------------------------------------------------------------------------
(***************************************************************************)
(* Which project and which handler                                         *)
(***************************************************************************)
\* find_binding returns the first match in the order of the directory: any of them.
FindBinding(c) ==
    LET found == {b \in bindings : b.conv = c} IN
    IF found = {} THEN {Null} ELSE found

ProjectOf(b, named) ==
    IF named # Null THEN named ELSE IF b = Null THEN Null ELSE b.project

\* The mode of the event, else of the binding, else what the words suggest.
ModeOf(m, b) ==
    IF m.mode # "auto" THEN m.mode
    ELSE IF b # Null THEN b.mode
    ELSE IF m.offers THEN "m_side" ELSE "b_side"

\* Words of approval count before words of rejection, and both before the mode.
IsReview(m) == m.approves \/ m.refuses

\* Mutant of Pending: every draft of the project counts as pending.
PendingAny(p) == {d \in Drafts : draft[d].status # "ABSENT" /\ draft[d].project = p}

Pending(p) == {d \in Drafts : draft[d].status = "pending_approval" /\ draft[d].project = p}

\* Drafts whose file another request may be writing right now.
BeingWritten(r) == UNION {event[q].todo : q \in Handlers \ {r}}
PendingSeen(r, p) ==
    {found \in SUBSET Pending(p) : Pending(p) \ BeingWritten(r) \subseteq found}

\* What is still missing once `values` have been recorded, read together with the
\* message at hand: naming a specification is enough.
Missing(values, m) == (Basic \ values) \cup (Specs \ (values \cup m.mentions))

-----------------------------------------------------------------------------
(***************************************************************************)
(* Approval and rejection                                                  *)
(***************************************************************************)
\* _handle_approval and _handle_rejection: the pending drafts of the project are
\* listed.  Without a project or a draft there is nothing to do.
Review(r, m, c, b, named) ==
    LET p == ProjectOf(b, named) IN
    /\ IsReview(m)
    /\ p # Null
    /\ \E found \in PendingSeen(r, p) \ {{}} :
          BeginEvent(r, [IdleEvent EXCEPT
              !.pc = IF m.approves THEN "approving" ELSE "rejecting",
              !.conv = c, !.project = p, !.todo = found])
    /\ UNCHANGED <<bindings, started, known, draft, sent, died>>

\* Mutant of ApproveDraft: only a draft that was still pending is returned for dispatch.
ApproveDraftPending(r, d) ==
    /\ event[r].pc = "approving"
    /\ d \in event[r].todo
    /\ draft' = [draft EXCEPT ![d].status = "approved"]
    /\ event' = [event EXCEPT ![r].todo = @ \ {d},
           ![r].outbound = IF draft[d].status = "pending_approval" THEN @ \cup {d} ELSE @]
    /\ UNCHANGED <<bindings, started, known, sent, overlapped, died>>

\* approve_draft reads the draft again and sets its status, whatever it is by now.
ApproveDraft(r, d) ==
    /\ event[r].pc = "approving"
    /\ d \in event[r].todo
    /\ draft' = [draft EXCEPT ![d].status = "approved"]
    /\ event' = [event EXCEPT ![r].todo = @ \ {d}, ![r].outbound = @ \cup {d}]
    /\ UNCHANGED <<bindings, started, known, sent, overlapped, died>>

\* The answer: OpenClaw dispatches what it lists.
Dispatch(r) ==
    /\ event[r].pc = "approving"
    /\ event[r].todo = {}
    /\ sent' = [d \in Drafts |-> IF d \in event[r].outbound THEN sent[d] + 1 ELSE sent[d]]
    /\ FinishEvent(r)
    /\ UNCHANGED <<bindings, started, known, draft, overlapped, died>>

RejectDraft(r, d) ==
    /\ event[r].pc = "rejecting"
    /\ d \in event[r].todo
    /\ draft' = [draft EXCEPT ![d].status = "rejected"]
    /\ IF event[r].todo = {d} THEN FinishEvent(r)
       ELSE event' = [event EXCEPT ![r].todo = @ \ {d}]
    /\ UNCHANGED <<bindings, started, known, sent, overlapped, died>>

-----------------------------------------------------------------------------
(***************************************************************************)
(* Requirements                                                            *)
(***************************************************************************)
\* Mutant of Continues: the conversation's binding is looked up by its mode too.
ContinuesAs(m, b, named) == b # Null /\ m.mode = b.mode

\* A bound conversation continues a project; one without a binding starts a new
\* one, even if the event names a project.
Continues(m, b, named) == b # Null

\* _handle_b_side_new begins.
StartProject(r, m, c, b, named) ==
    /\ ~IsReview(m) /\ ModeOf(m, b) = "b_side"
    /\ ~Continues(m, b, named)
    /\ BeginEvent(r, [IdleEvent EXCEPT !.pc = "workspace", !.conv = c, !.gives = m.gives,
                                       !.mentions = m.mentions])
    /\ UNCHANGED <<bindings, started, known, draft, sent, died>>

\* create_b_workspace, and save_b_workspace with the structured requirement: no one
\* else knows the id yet.
CreateWorkspace(r, p) ==
    /\ event[r].pc = "workspace"
    /\ p \notin started
    /\ started' = started \cup {p}
    /\ known' = [known EXCEPT ![p] = event[r].gives]
    /\ event' = [event EXCEPT ![r].pc = "bind", ![r].project = p]
    /\ UNCHANGED <<bindings, draft, sent, overlapped, died>>

\* A draft follows if nothing is missing.
Drafting(r, values) ==
    IF Missing(values, event[r]) = {}
    THEN event' = [event EXCEPT ![r].pc = "draft"]
    ELSE FinishEvent(r)

\* Mutant of CreateBinding: the binding is written after the draft.
CreateBindingLate(r) ==
    /\ event[r].pc = "bind"
    /\ bindings' = bindings
    /\ Drafting(r, known[event[r].project])
    /\ UNCHANGED <<started, known, draft, sent, overlapped, died>>

\* create_binding, for a new project or a supplier's first reply.
CreateBinding(r) ==
    /\ event[r].pc = "bind"
    /\ bindings' = bindings \cup
           {[conv |-> event[r].conv, project |-> event[r].project, mode |-> event[r].mode]}
    /\ IF event[r].mode = "b_side" THEN Drafting(r, event[r].gives) ELSE FinishEvent(r)
    /\ UNCHANGED <<started, known, draft, sent, overlapped, died>>

\* Mutant of MergedFields: the follow-up's requirement replaces the one on file.
MergedFieldsLast(values, m) == m.gives

MergedFields(values, m) == values \cup m.gives

\* _handle_b_side_followup: the workspace is loaded.  The binding of a supplier has
\* none, which is an error.
FollowUpMessage(r, m, c, b, named) ==
    /\ ~IsReview(m) /\ ModeOf(m, b) = "b_side"
    /\ Continues(m, b, named)
    /\ b.mode = "b_side"
    /\ BeginEvent(r, [IdleEvent EXCEPT !.pc = "save", !.conv = c, !.project = b.project,
                                       !.gives = MergedFields(known[b.project], m),
                                       !.mentions = m.mentions])
    /\ UNCHANGED <<bindings, started, known, draft, sent, died>>

\* save_b_workspace writes the whole workspace back.
SaveWorkspace(r) ==
    /\ event[r].pc = "save"
    /\ known' = [known EXCEPT ![event[r].project] = event[r].gives]
    /\ Drafting(r, event[r].gives)
    /\ UNCHANGED <<bindings, started, draft, sent, overlapped, died>>

\* create_draft; drafts already pending for the project are left as they are.
CreateDraft(r, d) ==
    /\ event[r].pc = "draft"
    /\ draft[d].status = "ABSENT"
    /\ draft' = [draft EXCEPT ![d] =
           [status |-> "pending_approval", project |-> event[r].project]]
    /\ FinishEvent(r)
    /\ UNCHANGED <<bindings, started, known, sent, overlapped, died>>

\* _handle_m_side: the conversation is bound to the project named.  The reply itself
\* is recorded nowhere: _append_to_m_workspace compares the project with fields a
\* workspace does not have.
SupplierReply(r, m, c, b, named) ==
    /\ ~IsReview(m) /\ ModeOf(m, b) = "m_side"
    /\ b = Null /\ named # Null
    /\ BeginEvent(r, [IdleEvent EXCEPT !.pc = "bind", !.conv = c, !.project = named,
                                       !.mode = "m_side"])
    /\ UNCHANGED <<bindings, started, known, draft, sent, died>>

\* The request dies, or raises on a file another one is writing.
EventDies(r) ==
    /\ event[r].pc # "idle"
    /\ died' = died \cup event[r].outbound
    /\ FinishEvent(r)
    /\ UNCHANGED <<bindings, started, known, draft, sent, overlapped>>

-----------------------------------------------------------------------------
ConvInit ==
    /\ bindings = {}
    /\ started = {}
    /\ known = [p \in Projects |-> {}]
    /\ draft = [d \in Drafts |-> NoDraft]
    /\ event = [r \in Handlers |-> IdleEvent]
    /\ sent = [d \in Drafts |-> 0]
    /\ overlapped = {}
    /\ died = {}

\* An event may name a project that exists, whatever its conversation is bound to.
Receive(r, m, c) ==
    \E b \in FindBinding(c), named \in started \cup {Null} :
        \/ Review(r, m, c, b, named)
        \/ StartProject(r, m, c, b, named)
        \/ FollowUpMessage(r, m, c, b, named)
        \/ SupplierReply(r, m, c, b, named)

ConvNext ==
    \E r \in Handlers :
        \/ \E m \in Messages, c \in Convs : Receive(r, m, c)
        \/ \E p \in Projects : CreateWorkspace(r, p)
        \/ CreateBinding(r)
        \/ SaveWorkspace(r)
        \/ \E d \in Drafts : CreateDraft(r, d) \/ ApproveDraft(r, d) \/ RejectDraft(r, d)
        \/ Dispatch(r)
        \/ EventDies(r)

ConvSpec == ConvInit /\ [][ConvNext]_convVars

-----------------------------------------------------------------------------
ConvTypeOK ==
    /\ bindings \in SUBSET Binding
    /\ started \in SUBSET Projects
    /\ known \in [Projects -> SUBSET Fields]
    /\ draft \in [Drafts -> DraftRow]
    /\ event \in [Handlers -> Event]
    /\ sent \in [Drafts -> Nat]
    /\ overlapped \in SUBSET (Convs \cup Projects)
    /\ died \in SUBSET Drafts

\* Until two events overlap in a conversation, it has one project: a binding is only
\* made when there is none, and every later message finds it.
OneBinding ==
    \A b1, b2 \in bindings : b1.conv = b2.conv /\ b1.conv \notin overlapped => b1 = b2

\* Wherever an event dies, a draft on file can be confirmed in a conversation: the
\* binding is written before it.
DraftsAreReachable ==
    \A d \in Drafts : draft[d].status # "ABSENT" =>
        \E b \in bindings : b.project = draft[d].project

\* Until two events of a project overlap, confirming twice sends its drafts once,
\* and what was rejected is not sent.
DispatchedOnce ==
    \A d \in Drafts : draft[d].project \notin overlapped =>
        sent[d] <= IF draft[d].status = "rejected" THEN 0 ELSE 1

\* However events overlap, an approved draft has been handed over for dispatch, or
\* will be with the answer of a request that still runs or died on the way.
ApprovedIsDispatched ==
    \A d \in Drafts : draft[d].status = "approved" =>
        sent[d] > 0 \/ d \in died \/ \E r \in Handlers : d \in event[r].outbound

\* Until two events of a project overlap, its requirement loses no field.
FieldsAreKept ==
    [][\A p \in started : p \notin overlapped' => known[p] \subseteq known'[p]]_convVars
=============================================================================
