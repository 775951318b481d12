------------------------- MODULE CustomerQuotesProofs -------------------------
(***************************************************************************)
(* What the handling of messages, supplier replies and drafts guarantees   *)
(* for any number of requests, events and drafts.                          *)
(*                                                                         *)
(* However requests overlap: a reply that yields options holds the         *)
(* project's row from its flush to its commit, so no quote is opened       *)
(* between its search for stale ones and its own (HoldsProject); and an    *)
(* e-mail is known to be out before its draft is marked (KnowsItLeft).     *)
(*                                                                         *)
(* As long as no two overlap, the one request at work has read what is     *)
(* still committed (SerialOK); a reply that yields no options leaves an    *)
(* open quote current because none is but outdated ones: a quote has a     *)
(* priced reply behind it (Quoted).                                        *)
(***************************************************************************)
EXTENDS CustomerQuotes, TLAPS

Handling == {"received", "quoting", "unquoted", "revising", "recording"}
Deciding == {"approving", "approved", "answered", "rejecting"}

\* A request knows the event or the draft it is about.
Bound(r) ==
    /\ session[r].pc \in Handling => session[r].event \in Messages \cup Events
    /\ session[r].pc \in {"quoting", "unquoted"} => session[r].event \in Events
    /\ session[r].pc = "revising" => session[r].event \in Messages
    /\ session[r].pc \in Deciding => session[r].draft \in Drafts

HoldsProject(r) ==
    session[r].pc = "quoting" =>
        /\ lock[Project] = r
        /\ session[r].writes /\ HasOptions(r)
        /\ OpenQuotes \subseteq session[r].stale

KnowsItLeft(r) ==
    session[r].pc = "answered" /\ session[r].success => sent[session[r].draft] > 0

IInv ==
    /\ TypeOK
    /\ \A r \in Requests : Bound(r)
    /\ \A r \in Requests : HoldsProject(r)
    /\ \A r \in Requests : KnowsItLeft(r)
    /\ OneOpenQuote
    /\ SentMeansMessage

-----------------------------------------------------------------------------
\* The steps of Next: those of an event, and those of a decision about a draft.
EventStep(r) ==
    \/ \E e \in Messages \cup Events : Receive(r, e)
    \/ SetAside(r) \/ UpdateRequirement(r) \/ KeepReply(r) \/ Record(r)
    \/ \E d \in Drafts : Quote(r, d)
    \/ \E inquiries \in SUBSET Absent : Revise(r, inquiries)

DecisionStep(r) ==
    \/ \E d \in Drafts : ApproveRead(r, d) \/ RejectRead(r, d)
    \/ ApproveFlush(r) \/ ApproveCommit(r) \/ RejectCommit(r)
    \/ \E delivered, success \in BOOLEAN : Send(r, delivered, success)
    \/ Abort(r)

LEMMA NextSteps == Next => \E r \in Requests : EventStep(r) \/ DecisionStep(r)
BY DEF Next, EventStep, DecisionStep

\* A session that has done nothing is one, and nothing is required at first.
LEMMA IdleType == IdleSession \in Session /\ NoRequirement \in Requirement
BY DEF IdleSession, Session, NoRequirement, Requirement, NoReplies, Replies

\* Nothing is handled, drafted or sent at first.
LEMMA InitIInv == Init => IInv
<1> SUFFICES ASSUME Init PROVE IInv
    OBVIOUS
<1> USE IdleType
<1>1. TypeOK
  <2>1. draft \in [Drafts -> DraftRow] /\ sent \in [Drafts -> Nat]
      BY DEF Init, NoDraft, DraftRow, DraftStatus
  <2> QED
      BY <2>1 DEF Init, TypeOK
<1>2. \A r \in Requests : session[r].pc = "idle"
    BY DEF Init, IdleSession
<1>3. \A r \in Requests : Bound(r) /\ HoldsProject(r) /\ KnowsItLeft(r)
    BY <1>2 DEF Bound, HoldsProject, KnowsItLeft, Handling, Deciding
<1>4. OneOpenQuote /\ SentMeansMessage
    BY DEF Init, OneOpenQuote, SentMeansMessage, OpenQuotes, Open, NoDraft
<1> QED
    BY <1>1, <1>3, <1>4 DEF IInv

\* What is written for an event is a requirement.
LEMMA PayloadType ==
    ASSUME TypeOK, NEW r \in Requests, session[r].event \in Messages \cup Events
    PROVE  Payload(r) \in Requirement
<1>1. session[r].seen \in Requirement
    BY DEF TypeOK, Session
<1>2. ASSUME NEW m \in Messages PROVE Revised(session[r].seen, m) \in Requirement
    BY <1>1, IdleType DEF Revised, Requirement, NoRequirement
<1>3. ASSUME NEW e \in Events PROVE WithReply(session[r].seen, e) \in Requirement
    BY <1>1 DEF WithReply, Requirement, Replies
<1> QED
    BY <1>2, <1>3 DEF Payload

\* Counting one more reply counts it, and loses none.
LEMMA PayloadOfReply ==
    ASSUME TypeOK, NEW r \in Requests, session[r].event \in Events
    PROVE  /\ Payload(r).wants = session[r].seen.wants
           /\ Payload(r).replies[session[r].event] > 0
           /\ \A e \in Events : Payload(r).replies[e] >= session[r].seen.replies[e]
<1>1. session[r].seen \in Requirement
    BY DEF TypeOK, Session
<1>2. Payload(r) = WithReply(session[r].seen, session[r].event)
    BY CustomerQuotesAssumption DEF Payload
<1> QED
    BY <1>1, <1>2 DEF WithReply, Requirement, Replies

\* A message is counted, and no earlier one is lost.
LEMMA PayloadOfMessage ==
    ASSUME TypeOK, NEW r \in Requests, session[r].event \in Messages
    PROVE  Payload(r).wants = session[r].seen.wants \cup {session[r].event}
BY DEF Payload, Revised

-----------------------------------------------------------------------------
(***************************************************************************)
(* Types                                                                   *)
(***************************************************************************)
\* A request that goes on keeps its session's type.
LEMMA GotoType ==
    ASSUME TypeOK, NEW r \in Requests,
           NEW pc \in Handling \cup Deciding, Goto(r, pc)
    PROVE  session' \in [Requests -> Session]
<1>1. PICK old \in Session : old = session[r]
    BY DEF TypeOK
<1>2. [old EXCEPT !.pc = pc] \in Session
    BY DEF Session, Handling, Deciding
<1>3. session' = [session EXCEPT ![r] = [old EXCEPT !.pc = pc]]
    BY <1>1 DEF Goto, TypeOK
<1> QED
    BY <1>2, <1>3 DEF TypeOK

\* A request begins, answers and ends with a session.
LEMMA BeginType ==
    ASSUME TypeOK, NEW r \in Requests, NEW read \in Session, Begin(r, read)
    PROVE  /\ session' \in [Requests -> Session] /\ overlapped' \in BOOLEAN
           /\ shelved' \subseteq Messages \cup Events
           /\ outdated' \subseteq Drafts \cup Events
BY DEF TypeOK, Begin

LEMMA AnswerType ==
    ASSUME TypeOK, NEW r \in Requests, session[r].event \in Messages \cup Events, Answer(r)
    PROVE  session' \in [Requests -> Session]
<1>1. [IdleSession EXCEPT !.pc = "recording", !.event = session[r].event] \in Session
    BY IdleType DEF Session
<1> QED
    BY <1>1 DEF TypeOK, Answer

LEMMA FinishType ==
    ASSUME TypeOK, NEW r \in Requests, Finish(r)
    PROVE  session' \in [Requests -> Session]
BY IdleType DEF TypeOK, Finish

LEMMA UnlockType ==
    ASSUME TypeOK, NEW r \in Requests, Unlock(r)
    PROVE  lock' \in [Drafts \cup {Project} -> Requests \cup {None}]
BY DEF TypeOK, Unlock

\* What is flushed is a session.
LEMMA FlushedType ==
    ASSUME TypeOK, NEW r \in Requests, NEW writes \in BOOLEAN
    PROVE  Flushed(r, writes) \in Session
<1>1. session[r] \in Session
    BY DEF TypeOK
<1>2. Stale \in SUBSET Drafts
    BY DEF Stale, OpenQuotes, Open
<1> QED
    BY <1>1, <1>2 DEF Flushed, Session

\* A commit writes a requirement.
LEMMA SaveType ==
    ASSUME TypeOK, NEW r \in Requests, session[r].event \in Messages \cup Events,
           SaveRequirement(r)
    PROVE  /\ requirement' \in Requirement
           /\ lock' \in [Drafts \cup {Project} -> Requests \cup {None}]
           /\ session' \in [Requests -> Session]
<1>1. requirement' \in Requirement
    BY PayloadType DEF SaveRequirement, TypeOK
<1> QED
    BY <1>1, AnswerType, UnlockType DEF SaveRequirement

LEMMA NewDraftType ==
    ASSUME TypeOK, NEW r \in Requests, session[r].event \in Messages \cup Events,
           NEW type \in {"customer_quote", "supplier_inquiry"}
    PROVE  NewDraft(r, type) \in DraftRow
BY PayloadType DEF NewDraft, DraftRow, DraftStatus

\* Every step of an event keeps the types.
LEMMA EventType ==
    ASSUME TypeOK, NEW r \in Requests, Bound(r),
           EventStep(r)
    PROVE  TypeOK'
<1>1. ASSUME NEW e \in Messages \cup Events, Receive(r, e) PROVE TypeOK'
  <2>1. [IdleSession EXCEPT !.pc = "received", !.event = e, !.seen = requirement] \in Session
      BY IdleType DEF Session, TypeOK
  <2> QED
      BY <1>1, <2>1, BeginType DEF TypeOK, Receive
<1>2. CASE SetAside(r)
  <2>1. session[r].event \in Messages \cup Events
      BY <1>2 DEF SetAside, Bound, Handling
  <2> QED
      BY <1>2, <2>1, AnswerType DEF SetAside, TypeOK
<1>3. CASE UpdateRequirement(r)
  <2>1. PICK writes \in IsWritten(r) :
          /\ session' = [session EXCEPT ![r] = Flushed(r, writes)]
          /\ IF writes THEN lock[Project] = None /\ lock' = [lock EXCEPT ![Project] = r]
                       ELSE UNCHANGED lock
      BY <1>3 DEF UpdateRequirement
  <2>2. writes \in BOOLEAN
      BY DEF IsWritten, HasOptions
  <2>3. lock' \in [Drafts \cup {Project} -> Requests \cup {None}]
      BY <2>1 DEF TypeOK
  <2>4. session' \in [Requests -> Session]
      BY <2>1, <2>2, FlushedType DEF TypeOK
  <2> QED
      BY <1>3, <2>3, <2>4 DEF UpdateRequirement, TypeOK
<1>4. CASE KeepReply(r)
  <2>1. session[r].event \in Messages \cup Events
      BY <1>4 DEF KeepReply, Bound
  <2> QED
      BY <1>4, <2>1, SaveType DEF KeepReply, TypeOK
<1>5. CASE Record(r)
    BY <1>5, FinishType DEF Record, TypeOK, Bound, Handling
<1>6. ASSUME NEW d \in Drafts, Quote(r, d) PROVE TypeOK'
  <2>1. session[r].event \in Messages \cup Events
      BY <1>6 DEF Quote, Bound
  <2>2. draft' \in [Drafts -> DraftRow]
    <3> SUFFICES ASSUME NEW x \in Drafts PROVE draft'[x] \in DraftRow
        BY <1>6 DEF Quote
    <3>1. draft[x] \in DraftRow
        BY DEF TypeOK
    <3>2. [draft[x] EXCEPT !.status = "superseded"] \in DraftRow
        BY <3>1 DEF DraftRow, DraftStatus
    <3>3. NewDraft(r, "customer_quote") \in DraftRow
        BY <2>1, NewDraftType
    <3> QED
        BY <1>6, <3>1, <3>2, <3>3 DEF Quote
  <2> QED
      BY <1>6, <2>1, <2>2, SaveType DEF Quote, TypeOK
<1>7. ASSUME NEW inquiries \in SUBSET Absent, Revise(r, inquiries) PROVE TypeOK'
  <2>1. session[r].event \in Messages \cup Events
      BY <1>7 DEF Revise, Bound
  <2>2. draft' \in [Drafts -> DraftRow]
    <3>1. NewDraft(r, "supplier_inquiry") \in DraftRow
        BY <2>1, NewDraftType
    <3> QED
        BY <1>7, <3>1 DEF Revise, TypeOK
  <2>3. outdated' \subseteq Drafts \cup Events
      BY <1>7 DEF Revise, TypeOK, OpenQuotes, Open
  <2> QED
      BY <1>7, <2>1, <2>2, <2>3, SaveType DEF Revise, TypeOK
<1> QED
    BY <1>1, <1>2, <1>3, <1>4, <1>5, <1>6, <1>7 DEF EventStep

\* Setting a draft's status keeps the drafts' type.
LEMMA DraftType ==
    ASSUME TypeOK, NEW d \in Drafts, NEW status \in DraftStatus,
           draft' = [draft EXCEPT ![d].status = status]
    PROVE  draft' \in [Drafts -> DraftRow]
<1>1. draft[d] \in DraftRow
    BY DEF TypeOK
<1>2. [draft[d] EXCEPT !.status = status] \in DraftRow
    BY <1>1 DEF DraftRow
<1> QED
    BY <1>2 DEF TypeOK

\* Every step of an approval or a rejection keeps the types.
LEMMA DecisionType ==
    ASSUME TypeOK, NEW r \in Requests, Bound(r),
           DecisionStep(r)
    PROVE  TypeOK'
<1>1. ASSUME NEW d \in Drafts, ApproveRead(r, d) PROVE TypeOK'
  <2>1. [IdleSession EXCEPT !.pc = "approving", !.draft = d] \in Session
      BY IdleType DEF Session
  <2> QED
      BY <1>1, <2>1, BeginType DEF TypeOK, ApproveRead
<1>2. ASSUME NEW d \in Drafts, RejectRead(r, d) PROVE TypeOK'
  <2>1. [IdleSession EXCEPT !.pc = "rejecting", !.draft = d] \in Session
      BY IdleType DEF Session
  <2> QED
      BY <1>2, <2>1, BeginType DEF TypeOK, RejectRead
<1>3. CASE ApproveFlush(r)
    BY <1>3, GotoType DEF ApproveFlush, TypeOK, Bound, Deciding
<1>4. CASE ApproveCommit(r)
  <2>1. session[r].draft \in Drafts
      BY <1>4 DEF ApproveCommit, Bound, Deciding
  <2>2. draft' \in [Drafts -> DraftRow]
    <3>1. (IF session[r].success THEN "sent" ELSE "approved") \in DraftStatus
        BY DEF DraftStatus
    <3> QED
        BY <1>4, <2>1, <3>1, DraftType DEF ApproveCommit
  <2> QED
      BY <1>4, <2>2, FinishType, UnlockType DEF ApproveCommit, TypeOK
<1>5. CASE RejectCommit(r)
  <2>1. draft' \in [Drafts -> DraftRow]
      BY <1>5, DraftType DEF RejectCommit, DraftStatus, Bound, Deciding
  <2> QED
      BY <1>5, <2>1, FinishType DEF RejectCommit, TypeOK
<1>6. ASSUME NEW delivered \in BOOLEAN, NEW success \in BOOLEAN, Send(r, delivered, success)
      PROVE  TypeOK'
  <2>1. PICK old \in Session : old = session[r]
      BY DEF TypeOK
  <2>2. [old EXCEPT !.pc = "answered", !.success = success] \in Session
      BY DEF Session
  <2>3. session' = [session EXCEPT ![r] = [old EXCEPT !.pc = "answered", !.success = success]]
      BY <1>6, <2>1 DEF Send, TypeOK
  <2>4. sent' \in [Drafts -> Nat]
    <3>1. session[r].draft \in Drafts
        BY <1>6 DEF Send, Bound, Deciding
    <3>2. sent' = sent \/ sent' = [sent EXCEPT ![session[r].draft] = @ + 1]
        BY <1>6, Zenon DEF Send
    <3> QED
        BY <3>1, <3>2 DEF TypeOK
  <2>5. UNCHANGED <<processed, requirement, draft, lock, shelved, outdated, overlapped>>
      BY <1>6 DEF Send
  <2>6. session' \in [Requests -> Session]
      BY <2>2, <2>3 DEF TypeOK
  <2> QED
      BY <2>4, <2>5, <2>6 DEF TypeOK
<1>7. CASE Abort(r)
    BY <1>7, FinishType, UnlockType DEF Abort, TypeOK
<1> QED
    BY <1>1, <1>2, <1>3, <1>4, <1>5, <1>6, <1>7 DEF DecisionStep

-----------------------------------------------------------------------------
(***************************************************************************)
(* What no overlap disturbs                                                *)
(***************************************************************************)
\* A request's step leaves the others' sessions alone.
LEMMA OwnSession ==
    ASSUME TypeOK, NEW r \in Requests, EventStep(r) \/ DecisionStep(r),
           NEW q \in Requests, q # r
    PROVE  session'[q] = session[q]
<1>1. CASE EventStep(r)
    BY <1>1 DEF EventStep, TypeOK, Receive, SetAside, UpdateRequirement, KeepReply, Record,
           Quote, Revise, SaveRequirement, Begin, Answer, Finish
<1>2. CASE DecisionStep(r)
    BY <1>2 DEF DecisionStep, TypeOK, ApproveRead, RejectRead, ApproveFlush, ApproveCommit,
           RejectCommit, Send, Abort, Begin, Goto, Finish
<1> QED
    BY <1>1, <1>2

\* A request that goes on, begins, answers or ends: what its session then holds.
LEMMA GotoSession ==
    ASSUME TypeOK, NEW r \in Requests, NEW pc, Goto(r, pc)
    PROVE  session'[r].pc = pc /\ session'[r].draft = session[r].draft
<1>1. PICK old \in Session : old = session[r]
    BY DEF TypeOK
<1>2. session'[r] = [old EXCEPT !.pc = pc]
    BY <1>1 DEF Goto, TypeOK
<1> QED
    BY <1>1, <1>2 DEF Session

LEMMA BeginSession ==
    ASSUME TypeOK, NEW r \in Requests, NEW read, Begin(r, read)
    PROVE  session'[r] = read
BY DEF TypeOK, Begin

LEMMA AnswerSession ==
    ASSUME TypeOK, NEW r \in Requests, Answer(r)
    PROVE  session'[r].pc = "recording" /\ session'[r].event = session[r].event
BY DEF TypeOK, Answer, IdleSession

LEMMA FinishSession ==
    ASSUME TypeOK, NEW r \in Requests, Finish(r)
    PROVE  session'[r].pc = "idle"
BY DEF TypeOK, Finish, IdleSession

\* A flush leaves what is read, and what is to be written, as it is.
LEMMA FlushSession ==
    ASSUME TypeOK, NEW r \in Requests, UpdateRequirement(r)
    PROVE  /\ session'[r].event = session[r].event
           /\ session'[r].seen = session[r].seen
           /\ session'[r].writes \in IsWritten(r)
           /\ session'[r].writes => lock'[Project] = r
           /\ session'[r].stale = IF HasOptions(r) THEN OpenQuotes ELSE {}
           /\ session'[r].pc = IF session[r].event \in Messages THEN "revising"
                               ELSE IF HasOptions(r) THEN "quoting" ELSE "unquoted"
<1>1. PICK old \in Session : old = session[r]
    BY DEF TypeOK
<1>2. PICK writes \in IsWritten(r) :
        /\ session' = [session EXCEPT ![r] = Flushed(r, writes)]
        /\ IF writes THEN lock[Project] = None /\ lock' = [lock EXCEPT ![Project] = r]
                     ELSE UNCHANGED lock
    BY DEF UpdateRequirement
<1>3. session'[r] = Flushed(r, writes)
    BY <1>2 DEF TypeOK
<1>4. writes => lock'[Project] = r
    BY <1>2 DEF TypeOK
<1> DEFINE stale == IF HasOptions(r) THEN OpenQuotes ELSE {}
           next == IF session[r].event \in Messages THEN "revising"
                   ELSE IF HasOptions(r) THEN "quoting" ELSE "unquoted"
<1>5. Flushed(r, writes) = [old EXCEPT !.writes = writes, !.stale = stale, !.pc = next]
    BY <1>1 DEF Flushed, Stale
<1>6. session'[r].stale = stale /\ session'[r].pc = next
  <2> HIDE DEF stale, next
  <2> QED
      BY <1>3, <1>5 DEF Session
<1>7. /\ session'[r].event = old.event /\ session'[r].seen = old.seen
      /\ session'[r].writes = writes
  <2> HIDE DEF stale, next
  <2> QED
      BY <1>3, <1>5 DEF Session
<1> QED
    BY <1>1, <1>2, <1>4, <1>6, <1>7

LEMMA SendSession ==
    ASSUME TypeOK, NEW r \in Requests,
           NEW delivered \in BOOLEAN, NEW success \in BOOLEAN, Send(r, delivered, success)
    PROVE  /\ session'[r].pc = "answered"
           /\ session'[r].draft = session[r].draft
           /\ session'[r].success = success
<1>1. PICK old \in Session : old = session[r]
    BY DEF TypeOK
<1>2. session'[r] = [old EXCEPT !.pc = "answered", !.success = success]
    BY <1>1 DEF Send, TypeOK
<1> QED
    BY <1>1, <1>2 DEF Session

\* Where a step takes its request, and what the request keeps.
LEMMA EventSession ==
    ASSUME TypeOK, NEW r \in Requests, EventStep(r)
    PROVE  \/ /\ \E e \in Messages \cup Events : Receive(r, e) /\ session'[r].event = e
              /\ session'[r].pc = "received"
           \/ /\ UpdateRequirement(r)
              /\ session'[r].pc \in {"revising", "quoting", "unquoted"}
           \/ /\ \/ SetAside(r) \/ KeepReply(r)
                 \/ \E d \in Drafts : Quote(r, d)
                 \/ \E inquiries \in SUBSET Absent : Revise(r, inquiries)
              /\ session'[r].pc = "recording"
              /\ session'[r].event = session[r].event
           \/ Record(r) /\ session'[r].pc = "idle"
<1>1. ASSUME NEW e \in Messages \cup Events, Receive(r, e)
      PROVE  session'[r].pc = "received" /\ session'[r].event = e
    BY <1>1, BeginSession DEF Receive, IdleSession
<1>2. ASSUME UpdateRequirement(r)
      PROVE  session'[r].pc \in {"revising", "quoting", "unquoted"}
    BY <1>2, FlushSession
<1>3. ASSUME \/ SetAside(r) \/ KeepReply(r)
             \/ \E d \in Drafts : Quote(r, d)
             \/ \E inquiries \in SUBSET Absent : Revise(r, inquiries)
      PROVE  session'[r].pc = "recording" /\ session'[r].event = session[r].event
  <2>1. Answer(r)
      BY <1>3, Zenon DEF SetAside, KeepReply, Quote, Revise, SaveRequirement
  <2> QED
      BY <2>1, AnswerSession
<1>4. ASSUME Record(r) PROVE session'[r].pc = "idle"
    BY <1>4, FinishSession DEF Record
<1> QED
    BY <1>1, <1>2, <1>3, <1>4 DEF EventStep

LEMMA DecisionSession ==
    ASSUME TypeOK, NEW r \in Requests, DecisionStep(r)
    PROVE  \/ /\ \E d \in Drafts : /\ ApproveRead(r, d) \/ RejectRead(r, d)
                                   /\ session'[r].draft = d
              /\ session'[r].pc \in {"approving", "rejecting"}
           \/ ApproveFlush(r) /\ session'[r].pc = "approved" /\ session'[r].draft = session[r].draft
           \/ /\ \E delivered, success \in BOOLEAN : Send(r, delivered, success)
              /\ session'[r].pc = "answered" /\ session'[r].draft = session[r].draft
           \/ (ApproveCommit(r) \/ RejectCommit(r) \/ Abort(r)) /\ session'[r].pc = "idle"
<1>1. ASSUME NEW d \in Drafts, ApproveRead(r, d)
      PROVE  session'[r].draft = d /\ session'[r].pc = "approving"
    BY <1>1, BeginSession DEF ApproveRead, IdleSession
<1>2. ASSUME NEW d \in Drafts, RejectRead(r, d)
      PROVE  session'[r].draft = d /\ session'[r].pc = "rejecting"
    BY <1>2, BeginSession DEF RejectRead, IdleSession
<1>3. ASSUME ApproveFlush(r)
      PROVE  session'[r].pc = "approved" /\ session'[r].draft = session[r].draft
    BY <1>3, GotoSession DEF ApproveFlush
<1>4. ASSUME NEW delivered \in BOOLEAN, NEW success \in BOOLEAN, Send(r, delivered, success)
      PROVE  session'[r].pc = "answered" /\ session'[r].draft = session[r].draft
    BY <1>4, SendSession
<1>5. ASSUME ApproveCommit(r) \/ RejectCommit(r) \/ Abort(r) PROVE session'[r].pc = "idle"
  <2>1. Finish(r)
      BY <1>5 DEF ApproveCommit, RejectCommit, Abort
  <2> QED
      BY <2>1, FinishSession
<1> QED
    BY <1>1, <1>2, <1>3, <1>4, <1>5 DEF DecisionStep

\* A request keeps knowing what it is about.
LEMMA BoundStep ==
    ASSUME TypeOK, NEW r \in Requests, Bound(r), EventStep(r) \/ DecisionStep(r)
    PROVE  Bound(r)'
<1>1. CASE UpdateRequirement(r)
  <2>1. session[r].event \in Messages \cup Events
      BY <1>1 DEF UpdateRequirement, Bound, Handling
  <2> QED
      BY <1>1, <2>1, FlushSession DEF Bound, Handling, Deciding
<1>2. CASE EventStep(r) /\ ~UpdateRequirement(r)
    BY <1>2, EventSession DEF Bound, Handling, Deciding, SetAside, KeepReply, Quote, Revise
<1>3. CASE DecisionStep(r)
    BY <1>3, DecisionSession DEF Bound, Handling, Deciding, ApproveFlush, Send
<1> QED
    BY <1>1, <1>2, <1>3

\* Only a reply that yields options opens a quote; the open ones stay as they were made.
LEMMA OpenQuotesShrink ==
    ASSUME TypeOK, NEW r \in Requests, Bound(r), EventStep(r) \/ DecisionStep(r),
           ~\E d \in Drafts : Quote(r, d)
    PROVE  \A d \in OpenQuotes' : d \in OpenQuotes /\ draft'[d].basis = draft[d].basis
<1>1. CASE ApproveCommit(r)
    BY <1>1 DEF OpenQuotes, Open, ApproveCommit, TypeOK, DraftRow
<1>2. CASE RejectCommit(r)
    BY <1>2 DEF OpenQuotes, Open, RejectCommit, TypeOK, DraftRow
<1>3. ASSUME NEW inquiries \in SUBSET Absent, Revise(r, inquiries)
      PROVE  \A d \in OpenQuotes' : d \in OpenQuotes /\ draft'[d].basis = draft[d].basis
    BY <1>3 DEF OpenQuotes, Open, Revise, NewDraft
<1>4. CASE /\ ~ApproveCommit(r) /\ ~RejectCommit(r)
           /\ ~\E inquiries \in SUBSET Absent : Revise(r, inquiries)
  <2>1. UNCHANGED draft
      BY <1>4, Zenon DEF EventStep, DecisionStep, Receive, SetAside, UpdateRequirement, KeepReply,
             Record, ApproveRead, RejectRead, ApproveFlush, Send, Abort
  <2> QED
      BY <2>1 DEF OpenQuotes, Open
<1> QED
    BY <1>1, <1>2, <1>3, <1>4

\* A quote takes the place of all that were open.
LEMMA QuoteReplaces ==
    ASSUME IInv, NEW r \in Requests, NEW d \in Drafts, Quote(r, d)
    PROVE  OpenQuotes' = {d} /\ draft'[d].basis = Payload(r)
<1>1. OpenQuotes \subseteq session[r].stale
    BY DEF IInv, HoldsProject, Quote
<1>2. \A x \in Drafts : x # d /\ x \in OpenQuotes' => x \in OpenQuotes /\ x \notin session[r].stale
    BY DEF Quote, OpenQuotes, Open, IInv, TypeOK, DraftRow
<1>3. draft'[d] = NewDraft(r, "customer_quote")
    BY DEF Quote
<1>4. d \in OpenQuotes' /\ draft'[d].basis = Payload(r)
    BY <1>3 DEF NewDraft, OpenQuotes, Open
<1>5. OpenQuotes' \subseteq Drafts
    BY DEF OpenQuotes, Open
<1> QED
    BY <1>1, <1>2, <1>4, <1>5

\* Whoever has the project's row keeps it until it is done.
LEMMA OthersKeepProject ==
    ASSUME TypeOK, NEW r \in Requests, Bound(r), EventStep(r) \/ DecisionStep(r),
           NEW q \in Requests, q # r, lock[Project] = q
    PROVE  lock'[Project] = q
<1> USE CustomerQuotesAssumption DEF TypeOK
<1>1. CASE UpdateRequirement(r)
    BY <1>1 DEF UpdateRequirement
<1>2. CASE EventStep(r) /\ ~UpdateRequirement(r)
    BY <1>2 DEF EventStep, Receive, SetAside, KeepReply, Record, Quote, Revise,
           SaveRequirement, Unlock
<1>3. CASE ApproveFlush(r)
  <2>1. session[r].draft # Project
      BY <1>3 DEF ApproveFlush, Bound, Deciding
  <2> QED
      BY <1>3, <2>1 DEF ApproveFlush
<1>4. CASE DecisionStep(r) /\ ~ApproveFlush(r)
    BY <1>4 DEF DecisionStep, ApproveRead, RejectRead, ApproveCommit, RejectCommit, Send,
           Abort, Unlock
<1> QED
    BY <1>1, <1>2, <1>3, <1>4

\* A reply that yields options has the project's row, and knows of every open quote.
LEMMA HoldsProjectStep ==
    ASSUME IInv, NEW r \in Requests, EventStep(r) \/ DecisionStep(r)
    PROVE  \A q \in Requests : HoldsProject(q)'
<1>0. TypeOK /\ Bound(r) /\ HoldsProject(r)
    BY DEF IInv
<1>1. ASSUME NEW q \in Requests, q # r PROVE HoldsProject(q)'
  <2>1. session'[q] = session[q] /\ HoldsProject(q)
      BY <1>0, <1>1, OwnSession DEF IInv
  <2>2. HasOptions(q)' = HasOptions(q)
      BY <2>1 DEF HasOptions, Payload
  <2>3. ASSUME session[q].pc = "quoting"
        PROVE  lock[Project] = q /\ lock'[Project] = q /\ OpenQuotes' \subseteq session[q].stale
    <3>1. lock[Project] = q /\ lock'[Project] = q
        BY <1>0, <1>1, <2>1, <2>3, OthersKeepProject DEF HoldsProject
    <3>2. ~\E d \in Drafts : Quote(r, d)
        BY <1>0, <1>1, <3>1 DEF HoldsProject, Quote
    <3> QED
        BY <1>0, <2>1, <2>3, <3>1, <3>2, OpenQuotesShrink DEF HoldsProject
  <2> QED
      BY <2>1, <2>2, <2>3 DEF HoldsProject
<1>2. HoldsProject(r)'
  <2>1. CASE UpdateRequirement(r)
    <3>1. OpenQuotes' = OpenQuotes
        BY <2>1 DEF UpdateRequirement, OpenQuotes, Open
    <3>2. HasOptions(r)' = HasOptions(r)
        BY <1>0, <2>1, FlushSession DEF HasOptions, Payload
    <3>3. ASSUME session'[r].pc = "quoting"
          PROVE  HasOptions(r) /\ session'[r].writes /\ session'[r].stale = OpenQuotes
      <4>1. HasOptions(r) /\ session[r].event \notin Messages
          BY <1>0, <2>1, <3>3, FlushSession
      <4> QED
          BY <1>0, <2>1, <4>1, FlushSession DEF IsWritten
    <3> QED
        BY <1>0, <2>1, <3>1, <3>2, <3>3, FlushSession DEF HoldsProject
  <2>2. CASE EventStep(r) /\ ~UpdateRequirement(r)
    <3>1. session'[r].pc # "quoting"
        BY <1>0, <2>2, EventSession
    <3> QED
        BY <3>1 DEF HoldsProject
  <2>3. CASE DecisionStep(r)
    <3>1. session'[r].pc # "quoting"
        BY <1>0, <2>3, DecisionSession
    <3> QED
        BY <3>1 DEF HoldsProject
  <2> QED
      BY <2>1, <2>2, <2>3
<1> QED
    BY <1>1, <1>2

\* E-mails that went out stay out, and a request counts its own before it says so.
LEMMA SentGrows ==
    ASSUME TypeOK, NEW r \in Requests, Bound(r), EventStep(r) \/ DecisionStep(r)
    PROVE  \A d \in Drafts : sent'[d] >= sent[d]
<1>1. ASSUME NEW delivered \in BOOLEAN, NEW success \in BOOLEAN, Send(r, delivered, success)
      PROVE  \A d \in Drafts : sent'[d] >= sent[d]
  <2>1. sent' = sent \/ sent' = [sent EXCEPT ![session[r].draft] = @ + 1]
      BY <1>1, Zenon DEF Send
  <2> QED
      BY <2>1 DEF TypeOK
<1>2. CASE ~\E delivered, success \in BOOLEAN : Send(r, delivered, success)
  <2>1. UNCHANGED sent
      BY <1>2, Zenon DEF EventStep, DecisionStep, Receive, SetAside, UpdateRequirement,
             KeepReply, Record, Quote, Revise, ApproveRead, RejectRead, ApproveFlush, ApproveCommit,
             RejectCommit, Abort
  <2> QED
      BY <2>1 DEF TypeOK
<1> QED
    BY <1>1, <1>2

LEMMA KnowsItLeftStep ==
    ASSUME IInv, NEW r \in Requests, EventStep(r) \/ DecisionStep(r)
    PROVE  \A q \in Requests : KnowsItLeft(q)'
<1>0. TypeOK /\ Bound(r)
    BY DEF IInv
<1>1. ASSUME NEW q \in Requests, q # r PROVE KnowsItLeft(q)'
  <2>1. session'[q] = session[q] /\ KnowsItLeft(q) /\ Bound(q)
      BY <1>0, <1>1, OwnSession DEF IInv
  <2>2. ASSUME session[q].pc = "answered", sent[session[q].draft] > 0
        PROVE  sent'[session[q].draft] > 0
    <3>1. session[q].draft \in Drafts
        BY <2>1, <2>2 DEF Bound, Deciding
    <3>2. /\ sent[session[q].draft] \in Nat /\ sent'[session[q].draft] \in Nat
          /\ sent'[session[q].draft] >= sent[session[q].draft]
        BY <1>0, <3>1, SentGrows, EventType, DecisionType DEF TypeOK
    <3> QED
        BY <2>2, <3>2
  <2> QED
      BY <2>1, <2>2 DEF KnowsItLeft
<1>2. KnowsItLeft(r)'
  <2>1. ASSUME NEW delivered \in BOOLEAN, NEW success \in BOOLEAN, Send(r, delivered, success)
        PROVE  KnowsItLeft(r)'
    <3>1. session'[r].draft = session[r].draft /\ session'[r].success = success
        BY <1>0, <2>1, SendSession
    <3>2. session[r].draft \in Drafts
        BY <1>0, <2>1 DEF Bound, Deciding, Send
    <3>3. ASSUME success PROVE sent'[session[r].draft] > 0
      <4>1. sent' = [sent EXCEPT ![session[r].draft] = @ + 1]
          BY <2>1, <3>3, Zenon DEF Send
      <4> QED
          BY <1>0, <3>2, <4>1 DEF TypeOK
    <3> QED
        BY <3>1, <3>3 DEF KnowsItLeft
  <2>2. CASE ~\E delivered, success \in BOOLEAN : Send(r, delivered, success)
    <3>1. session'[r].pc # "answered"
        BY <1>0, <2>2, EventSession, DecisionSession
    <3> QED
        BY <3>1 DEF KnowsItLeft
  <2> QED
      BY <2>1, <2>2
<1> QED
    BY <1>1, <1>2

\* No step opens a second quote.
LEMMA OneOpenQuoteStep ==
    ASSUME IInv, NEW r \in Requests, EventStep(r) \/ DecisionStep(r)
    PROVE  OneOpenQuote'
<1>1. ASSUME NEW d \in Drafts, Quote(r, d) PROVE OneOpenQuote'
    BY <1>1, QuoteReplaces DEF OneOpenQuote
<1>2. CASE ~\E d \in Drafts : Quote(r, d)
    BY <1>2, OpenQuotesShrink DEF OneOpenQuote, IInv
<1> QED
    BY <1>1, <1>2

\* Only an approval whose e-mail has left marks a draft as sent.
LEMMA SentMeansMessageStep ==
    ASSUME IInv, NEW r \in Requests, EventStep(r) \/ DecisionStep(r)
    PROVE  SentMeansMessage'
<1>0. TypeOK /\ Bound(r) /\ KnowsItLeft(r) /\ SentMeansMessage /\ TypeOK'
    BY EventType, DecisionType DEF IInv
<1> SUFFICES ASSUME NEW d \in Drafts, draft'[d].status = "sent" PROVE sent'[d] > 0
    BY DEF SentMeansMessage
<1>1. sent[d] \in Nat /\ sent'[d] \in Nat /\ sent'[d] >= sent[d]
    BY <1>0, SentGrows DEF TypeOK
<1>2. draft[d].status = "sent" \/ sent[d] > 0
  <2>1. CASE ApproveCommit(r)
    <3>1. CASE session[r].draft = d /\ session[r].success
        BY <1>0, <2>1, <3>1 DEF ApproveCommit, KnowsItLeft
    <3>2. CASE session[r].draft # d \/ ~session[r].success
        BY <1>0, <2>1, <3>2 DEF ApproveCommit, TypeOK, DraftRow
    <3> QED
        BY <3>1, <3>2
  <2>2. CASE RejectCommit(r)
      BY <1>0, <2>2 DEF RejectCommit, TypeOK, DraftRow
  <2>3. ASSUME NEW e \in Drafts, Quote(r, e) PROVE draft[d].status = "sent"
      BY <1>0, <2>3 DEF Quote, NewDraft, TypeOK, DraftRow
  <2>4. ASSUME NEW inquiries \in SUBSET Absent, Revise(r, inquiries)
        PROVE  draft[d].status = "sent"
      BY <2>4 DEF Revise, NewDraft
  <2>5. CASE /\ ~ApproveCommit(r) /\ ~RejectCommit(r) /\ ~\E e \in Drafts : Quote(r, e)
             /\ ~\E inquiries \in SUBSET Absent : Revise(r, inquiries)
    <3>1. UNCHANGED draft
        BY <2>5, Zenon DEF EventStep, DecisionStep, Receive, SetAside, UpdateRequirement,
               KeepReply, Record, ApproveRead, RejectRead, ApproveFlush, Send, Abort
    <3> QED
        BY <3>1
  <2> QED
      BY <2>1, <2>2, <2>3, <2>4, <2>5
<1> QED
    BY <1>0, <1>1, <1>2 DEF SentMeansMessage

-----------------------------------------------------------------------------
\* Every step keeps the invariant.
LEMMA NextIInv == IInv /\ [Next]_vars => IInv'
<1> SUFFICES ASSUME IInv, [Next]_vars PROVE IInv'
    OBVIOUS
<1>1. CASE Next
  <2>1. PICK r \in Requests : EventStep(r) \/ DecisionStep(r)
      BY <1>1, NextSteps
  <2>2. TypeOK /\ Bound(r)
      BY DEF IInv
  <2>3. TypeOK'
      BY <2>1, <2>2, EventType, DecisionType
  <2>4. \A q \in Requests : Bound(q)'
    <3>1. ASSUME NEW q \in Requests, q # r PROVE Bound(q)'
        BY <2>1, <2>2, <3>1, OwnSession DEF Bound, IInv
    <3> QED
        BY <2>1, <2>2, <3>1, BoundStep
  <2> QED
      BY <2>1, <2>3, <2>4, HoldsProjectStep, KnowsItLeftStep, OneOpenQuoteStep,
         SentMeansMessageStep DEF IInv
<1>2. CASE UNCHANGED vars
    BY <1>2 DEF vars, IInv, TypeOK, Bound, HoldsProject, KnowsItLeft, OneOpenQuote,
           SentMeansMessage, OpenQuotes, Open, HasOptions, Payload
<1> QED
    BY <1>1, <1>2

LEMMA Invariance == Spec => []IInv
BY InitIInv, NextIInv, PTL DEF Spec

\* Rows and sessions hold the values the code allows, and no draft is committed in a
\* status that only the unused approve_and_send would set.
THEOREM TypeCorrect == Spec => []TypeOK
<1>1. IInv => TypeOK
    BY DEF IInv
<1> QED
    BY <1>1, Invariance, PTL

\* However requests overlap, fail and repeat, _do_approve_draft marks only a draft as
\* sent whose e-mail has left.
THEOREM SentHasLeft == Spec => []SentMeansMessage
<1>1. IInv => SentMeansMessage
    BY DEF IInv
<1> QED
    BY <1>1, Invariance, PTL

\* However replies overlap and are redelivered, _create_customer_quote_email_draft
\* leaves a project with one open quote.
THEOREM OneQuoteIsOpen == Spec => []OneOpenQuote
<1>1. IInv => OneOpenQuote
    BY DEF IInv
<1> QED
    BY <1>1, Invariance, PTL

-----------------------------------------------------------------------------
(***************************************************************************)
(* What holds as long as no two requests overlap                           *)
(***************************************************************************)
\* The one request at work has read what is committed.
SerialOK(r) ==
    /\ \A q \in Requests : session[q].pc # "idle" /\ session[r].pc # "idle" => q = r
    /\ session[r].pc \in {"received", "quoting", "unquoted", "revising"} =>
          session[r].seen = requirement
    /\ session[r].pc = "unquoted" => ~HasOptions(r)
    /\ session[r].pc = "revising" => session[r].writes \/ Payload(r) = session[r].seen
    /\ session[r].pc = "recording" => Kept(session[r].event)
    /\ session[r].pc \in {"approving", "approved"} => session[r].draft \in Open

Quoted == \A d \in OpenQuotes : \E e \in Priced : draft[d].basis.replies[e] > 0

SInv ==
    /\ IInv
    /\ Quoted
    /\ ~overlapped => \A r \in Requests : SerialOK(r)
    /\ OpenQuoteIsCurrent
    /\ ~overlapped => \A e \in processed : Kept(e)

\* The invariant says no more of the ledger than the property.
LEMMA KeptMeansKept ==
    (~overlapped => \A e \in processed : Kept(e)) => EventsAreKept
BY DEF Kept, EventsAreKept

\* Every open quote has a priced reply behind it, also under overlap.
LEMMA QuotedStep ==
    ASSUME IInv, Quoted, NEW r \in Requests, EventStep(r) \/ DecisionStep(r)
    PROVE  Quoted'
<1>1. ASSUME NEW d \in Drafts, Quote(r, d) PROVE Quoted'
  <2>1. HasOptions(r)
      BY <1>1 DEF IInv, HoldsProject, Quote
  <2> QED
      BY <1>1, <2>1, QuoteReplaces DEF Quoted, HasOptions
<1>2. CASE ~\E d \in Drafts : Quote(r, d)
    BY <1>2, OpenQuotesShrink DEF Quoted, IInv
<1> QED
    BY <1>1, <1>2

\* Until requests overlap, the others are idle while one takes a step.
LEMMA OthersAreIdle ==
    ASSUME TypeOK, ~overlapped => \A q \in Requests : SerialOK(q), ~overlapped',
           NEW r \in Requests, EventStep(r) \/ DecisionStep(r)
    PROVE  /\ ~overlapped
           /\ \A q \in Requests : q # r => session[q].pc = "idle" /\ session'[q].pc = "idle"
<1>1. CASE session[r].pc = "idle"
  <2>1. ~overlapped /\ \A q \in Requests : session[q].pc = "idle"
      BY <1>1, Zenon DEF EventStep, DecisionStep, Receive, SetAside, UpdateRequirement,
             KeepReply, Record, Quote, Revise, ApproveRead, RejectRead, ApproveFlush,
             ApproveCommit, RejectCommit, Send, Abort, Begin
  <2> QED
      BY <2>1, OwnSession
<1>2. CASE session[r].pc # "idle"
  <2>1. UNCHANGED overlapped
      BY <1>2, Zenon DEF EventStep, DecisionStep, Receive, SetAside, UpdateRequirement,
             KeepReply, Record, Quote, Revise, ApproveRead, RejectRead, ApproveFlush,
             ApproveCommit, RejectCommit, Send, Abort, Begin
  <2> QED
      BY <1>2, <2>1, OwnSession DEF SerialOK
<1> QED
    BY <1>1, <1>2

\* What was set aside or is outdated stays so.
LEMMA HistoryGrows ==
    ASSUME TypeOK, ~overlapped, ~overlapped',
           NEW r \in Requests, EventStep(r) \/ DecisionStep(r)
    PROVE  shelved \subseteq shelved' /\ outdated \subseteq outdated'
<1>1. shelved' = shelved \/ shelved' = shelved \cup {session[r].event}
    BY Zenon DEF EventStep, DecisionStep, Receive, SetAside, UpdateRequirement, KeepReply, Record,
           Quote, Revise, ApproveRead, RejectRead, ApproveFlush, ApproveCommit, RejectCommit,
           Send, Abort, Begin
<1>2. CASE \E inquiries \in SUBSET Absent : Revise(r, inquiries)
    BY <1>1, <1>2 DEF Revise
<1>3. CASE ~\E inquiries \in SUBSET Absent : Revise(r, inquiries)
  <2>1. outdated' = outdated
      BY <1>3, Zenon DEF EventStep, DecisionStep, Receive, SetAside, UpdateRequirement, KeepReply,
             Record, Quote, ApproveRead, RejectRead, ApproveFlush, ApproveCommit, RejectCommit,
             Send, Abort, Begin
  <2> QED
      BY <1>1, <2>1
<1> QED
    BY <1>2, <1>3

\* Only a commit writes the requirement, only Record the ledger.
LEMMA RequirementWritten ==
    ASSUME NEW r \in Requests, EventStep(r) \/ DecisionStep(r), ~KeepReply(r),
           ~\E d \in Drafts : Quote(r, d),
           ~\E inquiries \in SUBSET Absent : Revise(r, inquiries)
    PROVE  requirement' = requirement
BY Zenon DEF EventStep, DecisionStep, Receive, SetAside, UpdateRequirement, Record,
       ApproveRead, RejectRead, ApproveFlush, ApproveCommit, RejectCommit, Send, Abort

LEMMA LedgerWritten ==
    ASSUME NEW r \in Requests, EventStep(r) \/ DecisionStep(r), ~Record(r)
    PROVE  processed' = processed
BY Zenon DEF EventStep, DecisionStep, Receive, SetAside, UpdateRequirement, KeepReply, Quote,
       Revise, ApproveRead, RejectRead, ApproveFlush, ApproveCommit, RejectCommit, Send, Abort

\* The commit of an event by the one request at work keeps it, and those kept before.
LEMMA SaveKeeps ==
    ASSUME TypeOK, NEW r \in Requests, session[r].event \in Messages \cup Events,
           session[r].seen = requirement, SaveRequirement(r), shelved \subseteq shelved',
           outdated \subseteq outdated',
           session[r].event \in Messages =>
               /\ session[r].writes \/ Payload(r) = session[r].seen
               /\ session[r].writes => {e \in Events : requirement.replies[e] > 0} \subseteq outdated',
           session[r].event \in Priced => session[r].writes
    PROVE  Kept(session[r].event)' /\ \A e \in Messages \cup Events : Kept(e) => Kept(e)'
<1> DEFINE event == session[r].event
<1>1. event' = event
    BY AnswerSession DEF SaveRequirement
<1>2. requirement' = Payload(r) \/ (requirement' = requirement /\ ~session[r].writes)
    BY DEF SaveRequirement
<1>3. requirement \in Requirement /\ Payload(r) \in Requirement
    BY PayloadType DEF TypeOK
<1>4. CASE event \in Messages
  <2>1. requirement'.wants = requirement.wants \cup {event}
      BY <1>2, <1>4, PayloadOfMessage
  <2>2. event \notin Priced
      BY <1>4, CustomerQuotesAssumption
  <2>3. ASSUME NEW e \in Priced, requirement.replies[e] > 0
        PROVE  e \in outdated' \/ requirement'.replies[e] > 0
      BY <1>2, <1>4, <2>3, CustomerQuotesAssumption
  <2> QED
      BY <1>1, <1>4, <2>1, <2>2, <2>3 DEF Kept
<1>5. CASE event \in Events
  <2>1. event \notin Messages /\ requirement'.wants = requirement.wants
      BY <1>2, <1>5, PayloadOfReply, CustomerQuotesAssumption
  <2>2. ASSUME NEW e \in Events, requirement.replies[e] > 0 PROVE requirement'.replies[e] > 0
    <3>1. requirement.replies[e] \in Nat /\ requirement'.replies[e] \in Nat
        BY <1>2, <1>3 DEF Requirement, Replies
    <3>2. requirement'.replies[e] >= requirement.replies[e]
        BY <1>2, <1>5, <3>1, PayloadOfReply
    <3> QED
        BY <2>2, <3>1, <3>2
  <2>3. event \in Priced => requirement'.replies[event] > 0
      BY <1>2, <1>5, PayloadOfReply
  <2>4. Priced \subseteq Events
      BY CustomerQuotesAssumption
  <2> QED
      BY <1>1, <2>1, <2>2, <2>3, <2>4 DEF Kept
<1> QED
    BY <1>4, <1>5

\* So does every step of it.
LEMMA StepKeeps ==
    ASSUME SInv, ~overlapped', NEW r \in Requests, EventStep(r) \/ DecisionStep(r)
    PROVE  /\ \A e \in Messages \cup Events : Kept(e) => Kept(e)'
           /\ \/ KeepReply(r) \/ \E d \in Drafts : Quote(r, d)
              \/ \E inquiries \in SUBSET Absent : Revise(r, inquiries)
              => Kept(session[r].event)'
<1>0. /\ TypeOK /\ Bound(r) /\ HoldsProject(r) /\ SerialOK(r)
      /\ shelved \subseteq shelved' /\ outdated \subseteq outdated' /\ ~overlapped
    BY OthersAreIdle, HistoryGrows DEF SInv, IInv
<1>1. ASSUME NEW d \in Drafts, Quote(r, d)
      PROVE  Kept(session[r].event)' /\ \A e \in Messages \cup Events : Kept(e) => Kept(e)'
  <2>1. /\ SaveRequirement(r) /\ session[r].event \in Events
        /\ session[r].seen = requirement /\ session[r].writes
      BY <1>0, <1>1 DEF Quote, Bound, SerialOK, HoldsProject
  <2> QED
      BY <1>0, <2>1, SaveKeeps, CustomerQuotesAssumption
<1>2. ASSUME KeepReply(r)
      PROVE  Kept(session[r].event)' /\ \A e \in Messages \cup Events : Kept(e) => Kept(e)'
  <2>1. /\ SaveRequirement(r) /\ session[r].event \in Events
        /\ session[r].seen = requirement /\ ~HasOptions(r)
      BY <1>0, <1>2 DEF KeepReply, Bound, SerialOK
  <2>2. session[r].event \notin Priced
      BY <1>0, <2>1, PayloadOfReply DEF HasOptions
  <2> QED
      BY <1>0, <2>1, <2>2, SaveKeeps, CustomerQuotesAssumption
<1>3. ASSUME NEW inquiries \in SUBSET Absent, Revise(r, inquiries)
      PROVE  Kept(session[r].event)' /\ \A e \in Messages \cup Events : Kept(e) => Kept(e)'
  <2>1. /\ SaveRequirement(r) /\ session[r].event \in Messages
        /\ session[r].seen = requirement
        /\ session[r].writes \/ Payload(r) = session[r].seen
      BY <1>0, <1>3 DEF Revise, Bound, SerialOK
  <2>2. session[r].writes => {e \in Events : requirement.replies[e] > 0} \subseteq outdated'
      BY <1>0, <1>3 DEF Revise
  <2> QED
      BY <1>0, <2>1, <2>2, SaveKeeps, CustomerQuotesAssumption
<1>4. CASE /\ ~KeepReply(r) /\ ~\E d \in Drafts : Quote(r, d)
           /\ ~\E inquiries \in SUBSET Absent : Revise(r, inquiries)
    BY <1>0, <1>4, RequirementWritten DEF Kept
<1> QED
    BY <1>1, <1>2, <1>3, <1>4

\* What the one request at work has read stays true.
LEMMA SerialStep ==
    ASSUME SInv, ~overlapped', NEW r \in Requests, EventStep(r) \/ DecisionStep(r)
    PROVE  \A q \in Requests : SerialOK(q)'
<1>0. TypeOK /\ Bound(r) /\ HoldsProject(r) /\ SerialOK(r) /\ ~overlapped
      /\ (\A q \in Requests : q # r => session'[q].pc = "idle")
    BY OthersAreIdle DEF SInv, IInv
<1>1. ASSUME NEW q \in Requests, q # r PROVE SerialOK(q)'
    BY <1>0, <1>1 DEF SerialOK
<1>2. ASSUME NEW e \in Messages \cup Events, Receive(r, e) PROVE SerialOK(r)'
  <2>1. session'[r].pc = "received" /\ session'[r].seen = requirement
      BY <1>0, <1>2, BeginSession DEF Receive, IdleSession
  <2> QED
      BY <1>0, <1>2, <2>1 DEF SerialOK, Receive
<1>3. CASE UpdateRequirement(r)
  <2>1. HasOptions(r)' = HasOptions(r) /\ Payload(r)' = Payload(r)
      BY <1>0, <1>3, FlushSession DEF HasOptions, Payload
  <2>2. session[r].seen = requirement /\ requirement' = requirement
      BY <1>0, <1>3 DEF UpdateRequirement, SerialOK
  <2>3. ASSUME session'[r].pc = "unquoted" PROVE ~HasOptions(r)
      BY <1>0, <1>3, <2>3, FlushSession
  <2>4. ASSUME session'[r].pc = "revising"
        PROVE  session'[r].writes \/ Payload(r) = session[r].seen
    <3>1. session[r].event \in Messages /\ session'[r].writes \in IsWritten(r)
        BY <1>0, <1>3, <2>4, FlushSession
    <3>2. session'[r].writes = TRUE \/ session'[r].writes = (Payload(r) # session[r].seen)
        BY <3>1 DEF IsWritten
    <3> QED
        BY <3>2
  <2>5. session'[r].pc \in {"revising", "quoting", "unquoted"}
        /\ session'[r].seen = session[r].seen
      BY <1>0, <1>3, FlushSession
  <2> QED
      BY <1>0, <2>1, <2>2, <2>3, <2>4, <2>5 DEF SerialOK
<1>4. CASE \/ SetAside(r) \/ KeepReply(r)
           \/ \E d \in Drafts : Quote(r, d)
           \/ \E inquiries \in SUBSET Absent : Revise(r, inquiries)
  <2>1. session'[r].pc = "recording" /\ session'[r].event = session[r].event
    <3>1. Answer(r)
        BY <1>4, Zenon DEF SetAside, KeepReply, Quote, Revise, SaveRequirement
    <3> QED
        BY <1>0, <3>1, AnswerSession
  <2>2. Kept(session[r].event)'
    <3>1. CASE SetAside(r)
      <4>1. session[r].event \in shelved'
          BY <1>0, <3>1 DEF SetAside
      <4> QED
          BY <2>1, <4>1 DEF Kept
    <3>2. CASE ~SetAside(r)
        BY <1>4, <3>2, StepKeeps
    <3> QED
        BY <3>1, <3>2
  <2> QED
      BY <1>0, <2>1, <2>2 DEF SerialOK
<1>5. CASE (\E d \in Drafts : ApproveRead(r, d)) \/ ApproveFlush(r)
  <2>1. Open' = Open
      BY <1>5 DEF Open, ApproveRead, ApproveFlush
  <2>2. session'[r].pc \in {"approving", "approved"} /\ session'[r].draft \in Open
    <3>1. ASSUME NEW d \in Drafts, ApproveRead(r, d)
          PROVE  session'[r].pc = "approving" /\ session'[r].draft \in Open
        BY <1>0, <3>1, BeginSession DEF ApproveRead, IdleSession
    <3>2. ASSUME ApproveFlush(r)
          PROVE  session'[r].pc = "approved" /\ session'[r].draft \in Open
        BY <1>0, <3>2, GotoSession DEF ApproveFlush, SerialOK
    <3> QED
        BY <1>5, <3>1, <3>2
  <2> QED
      BY <1>0, <2>1, <2>2 DEF SerialOK
<1>6. CASE \/ Record(r)
           \/ DecisionStep(r) /\ ~ApproveFlush(r) /\ ~\E d \in Drafts : ApproveRead(r, d)
  <2>1. session'[r].pc \in {"rejecting", "answered", "idle"}
    <3>1. ASSUME NEW d \in Drafts, RejectRead(r, d) PROVE session'[r].pc = "rejecting"
        BY <1>0, <3>1, BeginSession DEF RejectRead, IdleSession
    <3>2. ASSUME NEW delivered \in BOOLEAN, NEW success \in BOOLEAN, Send(r, delivered, success)
          PROVE  session'[r].pc = "answered"
        BY <1>0, <3>2, SendSession
    <3>3. ASSUME Record(r) \/ ApproveCommit(r) \/ RejectCommit(r) \/ Abort(r)
          PROVE  session'[r].pc = "idle"
      <4>1. Finish(r)
          BY <3>3 DEF Record, ApproveCommit, RejectCommit, Abort
      <4> QED
          BY <1>0, <4>1, FinishSession
    <3> QED
        BY <1>6, <3>1, <3>2, <3>3 DEF DecisionStep
  <2> QED
      BY <1>0, <2>1 DEF SerialOK
<1> QED
    BY <1>1, <1>2, <1>3, <1>4, <1>5, <1>6 DEF EventStep

\* A new quote is made from the requirement it is committed with; a reply that yields
\* none, and a message, find none open or leave only outdated ones.
LEMMA OpenQuoteStep ==
    ASSUME SInv, ~overlapped', NEW r \in Requests, EventStep(r) \/ DecisionStep(r)
    PROVE  \A d \in OpenQuotes' \ outdated' : draft'[d].basis = requirement'
<1>0. /\ IInv /\ TypeOK /\ Bound(r) /\ SerialOK(r) /\ ~overlapped /\ outdated \subseteq outdated'
      /\ \A d \in OpenQuotes \ outdated : draft[d].basis = requirement
    BY OthersAreIdle, HistoryGrows DEF SInv, IInv, OpenQuoteIsCurrent
<1>1. ASSUME NEW d \in Drafts, Quote(r, d)
      PROVE  draft'[d].basis = requirement' /\ OpenQuotes' = {d}
  <2>1. session[r].writes /\ SaveRequirement(r)
      BY <1>1 DEF SInv, IInv, HoldsProject, Quote
  <2>2. requirement' = Payload(r)
      BY <2>1 DEF SaveRequirement
  <2> QED
      BY <1>0, <1>1, <2>2, QuoteReplaces
<1>2. CASE KeepReply(r)
  <2>1. session[r].seen = requirement /\ ~HasOptions(r) /\ session[r].event \in Events
      BY <1>0, <1>2 DEF KeepReply, SerialOK, Bound
  <2>2. ASSUME NEW e \in Priced PROVE ~(requirement.replies[e] > 0)
    <3> SUFFICES ASSUME requirement.replies[e] > 0 PROVE HasOptions(r)
        BY <2>1
    <3>1. e \in Events /\ requirement.replies[e] \in Nat
        BY <1>0, CustomerQuotesAssumption DEF TypeOK, Requirement, Replies
    <3>2. Payload(r).replies[e] \in Nat
        BY <1>0, <2>1, <3>1, PayloadType DEF Requirement, Replies
    <3>3. Payload(r).replies[e] >= requirement.replies[e]
        BY <1>0, <2>1, <3>1, PayloadOfReply
    <3> QED
        BY <2>1, <3>1, <3>2, <3>3 DEF HasOptions
  <2>3. OpenQuotes \subseteq outdated
      BY <1>0, <2>2 DEF SInv, Quoted
  <2>4. OpenQuotes' = OpenQuotes
      BY <1>2 DEF KeepReply, OpenQuotes, Open
  <2> QED
      BY <1>0, <2>3, <2>4
<1>3. ASSUME NEW inquiries \in SUBSET Absent, Revise(r, inquiries)
      PROVE  \A d \in OpenQuotes' \ outdated' : draft'[d].basis = requirement'
  <2>1. \A d \in OpenQuotes' : d \in OpenQuotes /\ draft'[d].basis = draft[d].basis
    <3>1. ~\E d \in Drafts : Quote(r, d)
        BY <1>3 DEF Revise, Quote
    <3> QED
        BY <1>0, <3>1, OpenQuotesShrink
  <2>2. CASE session[r].writes
    <3>1. OpenQuotes \subseteq outdated'
        BY <1>0, <1>3, <2>2 DEF Revise
    <3> QED
        BY <2>1, <3>1
  <2>3. CASE ~session[r].writes
    <3>1. requirement' = requirement
        BY <1>3, <2>3 DEF Revise, SaveRequirement
    <3> QED
        BY <1>0, <2>1, <3>1
  <2> QED
      BY <2>2, <2>3
<1>4. CASE /\ ~KeepReply(r) /\ ~\E d \in Drafts : Quote(r, d)
           /\ ~\E inquiries \in SUBSET Absent : Revise(r, inquiries)
    BY <1>0, <1>4, OpenQuotesShrink, RequirementWritten
<1> QED
    BY <1>1, <1>2, <1>3, <1>4

\* No commit loses an event, and none enters the ledger before it is kept.
LEMMA LedgerStep ==
    ASSUME SInv, ~overlapped', NEW r \in Requests, EventStep(r) \/ DecisionStep(r)
    PROVE  \A e \in processed' : Kept(e)'
<1>0. TypeOK /\ Bound(r) /\ SerialOK(r) /\ \A e \in processed : Kept(e)
    BY OthersAreIdle DEF SInv, IInv
<1>1. \A e \in processed : Kept(e)'
    BY <1>0, StepKeeps DEF TypeOK
<1>2. ASSUME Record(r), NEW e \in Messages \cup Events, e = session[r].event PROVE Kept(e)'
    BY <1>0, <1>2 DEF Record, SerialOK, Kept
<1>3. CASE Record(r)
  <2>1. PICK e \in Messages \cup Events : e = session[r].event
      BY <1>0, <1>3 DEF Record, Bound, Handling
  <2>2. processed' = processed \cup {e}
      BY <1>3, <2>1 DEF Record
  <2> QED
      BY <1>1, <1>2, <1>3, <2>1, <2>2
<1>4. CASE ~Record(r)
    BY <1>1, <1>4, LedgerWritten
<1> QED
    BY <1>3, <1>4

-----------------------------------------------------------------------------
LEMMA InitSInv == Init => SInv
<1> SUFFICES ASSUME Init PROVE SInv
    OBVIOUS
<1>1. IInv
    BY InitIInv
<1>2. OpenQuotes = {} /\ processed = {} /\ \A r \in Requests : session[r].pc = "idle"
    BY DEF Init, OpenQuotes, Open, NoDraft, IdleSession
<1> QED
    BY <1>1, <1>2 DEF SInv, Quoted, SerialOK, OpenQuoteIsCurrent

LEMMA NextSInv == SInv /\ [Next]_vars => SInv'
<1> SUFFICES ASSUME SInv, [Next]_vars PROVE SInv'
    OBVIOUS
<1>1. IInv'
    BY NextIInv DEF SInv
<1>2. CASE Next
  <2>1. PICK r \in Requests : EventStep(r) \/ DecisionStep(r)
      BY <1>2, NextSteps
  <2>2. Quoted'
      BY <2>1, QuotedStep DEF SInv
  <2>3. ASSUME ~overlapped'
        PROVE  /\ \A q \in Requests : SerialOK(q)'
               /\ \A d \in OpenQuotes' \ outdated' : draft'[d].basis = requirement'
               /\ \A e \in processed' : Kept(e)'
      BY <2>1, <2>3, SerialStep, OpenQuoteStep, LedgerStep
  <2> QED
      BY <1>1, <2>2, <2>3 DEF SInv, OpenQuoteIsCurrent
<1>3. CASE UNCHANGED vars
  <2>1. Quoted'
      BY <1>3 DEF vars, SInv, Quoted, OpenQuotes, Open
  <2>2. ~overlapped' => \A r \in Requests : SerialOK(r)'
      BY <1>3 DEF vars, SInv, SerialOK, Open, HasOptions, Payload, Kept
  <2>3. OpenQuoteIsCurrent' /\ (~overlapped' => \A e \in processed' : Kept(e)')
      BY <1>3 DEF vars, SInv, OpenQuoteIsCurrent, OpenQuotes, Open, Kept
  <2> QED
      BY <1>1, <2>1, <2>2, <2>3 DEF SInv
<1> QED
    BY <1>2, <1>3

LEMMA SerialInvariance == Spec => []SInv
BY InitSInv, NextSInv, PTL DEF Spec

\* As long as requests do not overlap and the buyer has not written since, the quote a
\* human may approve was made from the requirement and all replies on record, whatever
\* fails and is redelivered in between.
THEOREM QuoteIsCurrent == Spec => []OpenQuoteIsCurrent
<1>1. SInv => OpenQuoteIsCurrent
    BY DEF SInv
<1> QED
    BY <1>1, SerialInvariance, PTL

\* As long as requests do not overlap, an event create_rfq_from_event answers from its
\* ledger is in the project, if it was not set aside: a message for good, a priced reply
\* until the buyer writes again.
THEOREM EventsStay == Spec => []EventsAreKept
<1>1. SInv => EventsAreKept
    BY KeptMeansKept DEF SInv
<1> QED
    BY <1>1, SerialInvariance, PTL

\* As long as requests do not overlap, send_if_approved sends an open draft only, none
\* that was superseded, rejected or sent.
THEOREM OnlyOpenDraftsLeave == Spec => WithdrawnIsNotSent
<1>1. SInv /\ [Next]_vars =>
          [\A d \in Drafts : sent'[d] # sent[d] /\ ~overlapped => d \in Open]_vars
  <2> SUFFICES ASSUME SInv, Next, NEW d \in Drafts, sent'[d] # sent[d], ~overlapped
               PROVE  d \in Open
      OBVIOUS
  <2>1. PICK r \in Requests : EventStep(r) \/ DecisionStep(r)
      BY NextSteps
  <2>2. TypeOK /\ Bound(r) /\ SerialOK(r)
      BY DEF SInv, IInv
  <2>3. PICK delivered \in BOOLEAN, success \in BOOLEAN : Send(r, delivered, success)
      BY <2>1, Zenon DEF EventStep, DecisionStep, Receive, SetAside, UpdateRequirement,
             KeepReply, Record, Quote, Revise, ApproveRead, RejectRead, ApproveFlush,
             ApproveCommit, RejectCommit, Abort
  <2>4. session[r].draft \in Open
      BY <2>2, <2>3 DEF Send, SerialOK
  <2>5. sent' = sent \/ sent' = [sent EXCEPT ![session[r].draft] = @ + 1]
      BY <2>3, Zenon DEF Send
  <2> QED
      BY <2>2, <2>4, <2>5 DEF TypeOK
<1> QED
    BY <1>1, SerialInvariance, PTL DEF Spec, WithdrawnIsNotSent
=============================================================================
