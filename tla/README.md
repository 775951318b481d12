# Verification of abcdYi

TLA+ specifications of the parts of abcdYi that decide what may happen to an
order: who has approved what, in which order things are done, and what is left
when requests overlap, fail, are repeated or are cut off. The specifications are
checked on small instances with TLC; what matters most about them is proved for
every instance with TLAPS. Everything is translated from the Python source; the
exact lines behind each definition are in `PROJECT.json` under `map`.

## 1. The system

abcdYi takes an apparel inquiry through RFQ, supplier responses, a decision
packet, an order, production, quality control and shipping to the buyer's
sign-off. It does so more than once: with a database behind the API, with a
second database in AIVAN, and in JSON files for the chat skill. Four parts hold
state worth modelling:

* the **main service** (`src/src`, `src/api`): FastAPI on asyncio, SQLAlchemy,
  PostgreSQL. One session and one transaction per HTTP request (`src/src/db/base.py`,
  `src/api/deps.py`): commit when the handler returns, rollback when it raises.
* **AIVAN** (`src/src/aivan`): a second FastAPI application with a database of
  its own, which answers chat and e-mail events, keeps an idempotency ledger and
  sends messages a human approved;
* the **pricing service** (`src/src/aivan/gpm`): server processes that keep decision
  packets in memory in front of an external giraffe-db;
* the **file-backed side** (`src/src/openclaw_skill`, `b_side`, `m_side`, `bm_bridge`,
  `merchandiser`): conversations, workspaces, drafts and orders, one JSON file each.

Around them: rule and arithmetic packages (lead time, pricing, feasibility),
clients of external services (LLMs, giraffe-db, the order provider) and a
frontend.

### Inventory

| component | state | operations | talks to | what makes it correct | model |
|---|---|---|---|---|---|
| Approval gate `src/src/approval_gates` | ApprovalRequest rows: status, consumed_at, what it is for | create, approve, reject, `require_approved` | called by RFQ sending and packet approval | nothing gated happens without a reviewed approval of that very thing; approvals are used once and not lost | `ApprovalGate` |
| RFQ `src/src/rfq` | RFQ.status, recipients | create, send | gate; supplier responses move it on | sent once per approval, only along its transitions | `ApprovalGate`, `SupplierResponses` |
| Supplier responses | responses, recipient marks | record (with an LLM call inside), normalize | RFQ | the RFQ's status agrees with the responses on record | `SupplierResponses` |
| Decision packets | packet status, chosen option | generate, approve option | gate; orders | an option is approved by a human | `ApprovalGate` |
| Dynamic form | form, versions, lock | create, update, lock | order placement locks it | an ordered version is final, version numbers are unique | `OrderPlacement` |
| Order placement `src/src/order_confirmation` | Order rows, order numbers | `create_order_from_approved_option` | packet, form | an order is for what was approved | `OrderPlacement` |
| Order lifecycle `src/src/orders` and the services that write Order.status | Order.status, execution events, supplier memory | confirm, request QC, record and correct inspections, ship, track, sign off | QC, logistics, supplier memory | released only inspected, shipped only with a shipment, each step once, no way back | `OrderLifecycle`, `OrderFlow` |
| Quality ledger, replacement alerts | incidents, alerts | file (inside recording an inspection), check, review | QC | an alert at the third incident, one active alert at most | `QualityLedger` |
| Provider handoff `provider_handoff.py` | local order, association row; execution state at the provider | import | external provider by HTTP | one executor per purchase order; replay is harmless; an interrupted import can be completed | `ProviderHandoff` |
| AIVAN events and drafts `src/src/aivan` | ledger, project requirement JSON, drafts | handle a buyer's message or a supplier's reply, approve and send, reject | channel, mail server | one current quote is open, events are kept, withdrawn drafts are not sent | `CustomerQuotes` |
| GPM packet store `src/src/aivan/gpm` | memory of each process, rows of giraffe-db | save, read, decide | giraffe-db by HTTP | a decision stays; a server takes nothing back | `PacketStore`, `PacketViews` |
| OpenClaw conversations `src/src/openclaw_skill` | bindings, drafts, the buyer's workspace | adapt an event: new project, follow-up, confirm, refuse, supplier reply | OpenClaw, which sends what an answer lists | one project per conversation, drafts go out once and when confirmed | `Conversations` |
| Workspaces and orders on file `src/src/b_side`, `m_side`, `bm_bridge`, `merchandiser` | buyer's and suppliers' workspaces, orders, plans | submit and attach a response, simulate, select a path, order updates, sign-off | each other, through the files | a selection has its order, production was acknowledged, nothing is lost but by a listed message | `OrderExecution` |
| Logistics ingestion, production monitoring | shipments and events; milestones, alerts | ingest events; report progress, predict delay | read by reports | | no, see section 8 |
| Lead time, pricing, matching, participants, tenancy, LLM, frontend | none, or insert-only | computations | | (unit tests) | no, see section 8 |

### What is hard to test here

* PostgreSQL runs at READ COMMITTED and almost nothing takes `FOR UPDATE`. A handler
  reads rows into its session, decides, and writes; another request may commit
  in between, and a flush that waited for a row lock goes on with what was read.
* A flush in the middle of a handler (the consumption of an approval) and a later
  refusal must go or stay together.
* Some handlers wait for seconds, for a language model or a mail server, between
  a read and the write that depends on it.
* Effects outside the transaction: the provider's compare-and-set and the mail
  server act before the local commit, which may never come.
* Files are loaded, changed and saved as a whole, without locks; a simulation waits for
  the lead-time service in between. A write truncates first, so a reader may find
  nothing.
* Calls that time out may still take effect (giraffe-db, the order provider).
* Chains of handlers spread over six services write one status column.

`PROJECT.json` lists these at their lines under `hazards`.

## 2. How the code is modelled

* **Requests.** A request slot runs one handler at a time. Its `session` holds what
  it has read (SQLAlchemy keeps the first copy of a row) and where it is.
* **Steps.** A handler is split where another transaction can make a difference:
  at a read, at the first flush that takes a row lock, at an external call, at the
  commit. Reads and writes with nothing in between that matters are one step.
* **Writes.** SQLAlchemy writes the columns a handler changed, so a commit changes
  exactly these and lets others' columns be.
* **Locks.** A flushed UPDATE (or `FOR UPDATE`) holds the row to the end of the
  transaction; writers wait, readers do not. Only rows where waiting can show
  have a lock in the model.
* **Files.** A session that loaded a file keeps the copy it is going to write. Saving
  replaces the file, whoever saved it meanwhile; `stale` (history) remembers which loaded
  files have been saved by others, so that a property can tell an overwriting
  request (`OverwrittenBy`) from a handler that forgets something.
* **Abort** (`ClerkAborts`, `EventDies`) stands for a refusal after the first write, an
  exception, a lost connection and a crash alike: the transaction is rolled back, what was
  committed, sent or posted before stays.
* **History variables** never guard a step. `uses` counts what an approval has
  authorised; `overlapped` records whether two requests have been in progress at
  once (for the ledger: against which participant; for conversations: in which one, on
  which project), which lets a run of all interleavings also state what holds until
  they overlap.
* Rows, numbers and names are model values. Measurements, prices, wordings and the
  language model's answer are arbitrary choices where they decide something,
  and left out elsewhere.

## 3. Modules

| module | models | composes |
|---|---|---|
| `ApprovalGate` | `require_approved` in front of `send_rfq` and `approve_decision_option`, creation and review of approvals | |
| `OrderStates` | `VALID_TRANSITIONS` of orders, and what one commit may reach through them | |
| `OrderFlow` | abstract specification: an order advances from one committed status to the next | `OrderStates` |
| `OrderLifecycle` | the eight handlers around an order, with QC records, shipments, events, supplier memory | refines `OrderFlow` (`Flow == INSTANCE OrderFlow WITH ...`) when served one at a time |
| `OrderPlacement` | dynamic form and order placement | extends `ApprovalGate`, whose steps are steps of it |
| `QualityLedger` | recording a failed inspection: incident, count, alert; review of alerts | |
| `SupplierResponses` | recording responses and the RFQ status derived from them | |
| `ProviderHandoff` | import of confirmed purchase orders over a provider whose messages are lost or late | |
| `CustomerQuotes` | a buyer's messages, supplier replies, the ledger, drafts, approval and sending | |
| `PacketViews` | abstract specification: what a server shows of a packet, it does not take back | |
| `PacketStore` | decision packets in server processes over one giraffe-db | refines `PacketViews` |
| `Conversations` | events of OpenClaw: bindings, requirements, drafts and their confirmation | |
| `OrderExecution` | workspaces, responses, selection and the order on file | |
| `*Proofs` | theorems about the module of that name; `ApprovalGateProofs` also about `OrderPlacement`, `OrderExecutionProofs` also about `Conversations` | |
| `MC*` | symmetry and bounds for TLC | |

**ApprovalGate.** `BeginGated` is the read of the approval, `Consume` the flush of
`consumed_at` with the row lock, `SendRfqLoad`/`ApproveOptionLoad` the read of the
guarded row, `…Commit` the rest. Reviews read a row and write it later. The gate
reads without a lock, so two requests may both find an approval unconsumed.
What then keeps an RFQ from going out twice is not the gate but the RFQ's own
state machine, read again after the wait; packets have no such second check.

**OrderLifecycle.** `…Read` loads the order and refuses, `…Commit` writes. Only
`request_qc` locks (`RequestQcLock`). Evidence is kept next to the status: QC
records and their results, shipments, the events of the execution graph, the
supplier memory written at sign-off.

**OrderPlacement.** `ChooseOption` reads packet, option, form and current version;
`NumberOrder` counts orders; `PlaceOrder` commits, with the unique order number,
and locks the form. `UpdateRead`/`UpdateCommit` append versions. The slots that serve
these are `Clerks`; the gate's `Requests` go on beside them.

**QualityLedger.** `FileAndCount` flushes the incident and counts the committed ones
and its own; `CheckAlert` looks for an active alert, and raises if it finds two
(`scalar_one_or_none`); `CommitWithAlert` inserts.

**SupplierResponses.** `Read` loads RFQ and recipient before the language model is
asked, `Mark` flushes the recipient's mark, `Count` counts and derives the status
from the one read, `Commit` writes it.

**ProviderHandoff.** `GetExecution`, `Post`, `ReadBack` are the three HTTP calls; a
posted write is in `flight` until the provider applies it or it is lost, whether or
not the caller saw a reply. `Import` is the local transaction. The provider itself
is external and modelled by the compare-and-set the client relies on.

**CustomerQuotes.** `Receive` asks the ledger and loads the project. A buyer's message
is `Revised` into the requirement and may leave inquiries to suppliers to be approved
(`Revise`), or is set aside because a supplier or a service is missing (`SetAside`). A
reply is appended; `UpdateRequirement` flushes the column, `Flushed` finds the open
drafts, `Quote` or `KeepReply` commits. `Record` commits the ledger row in a transaction of
its own. `IsWritten` says when SQLAlchemy issues the UPDATE: the reply is
appended to a list that the loaded value shares, so only new options, or the
first reply, make the column differ. `Send` comes before `ApproveCommit`, and an
`Abort` may come in between.

**PacketStore.** `Create`, `Show` and `Decide` are the handlers up to their write;
`UpdateStored`, `UpdateInMemory` and `UpdateTimesOut` are the three ways a decision ends. A
response outside 2xx makes the store go on in memory; a transport error leaves the
handler, and the write stays in `inflight`, to `Land` at any later time. `Restart`
empties a server's memory and finds out again whether giraffe-db is there.

**Conversations.** A message is what the parsers find in it: words of approval, of
refusal, of an offer, fields it gives and fields it mentions. `Receive` finds the binding and
dispatches: `Review` lists the pending drafts, which are approved or rejected one file at
a time, and `Dispatch` is the answer that has OpenClaw send them; `StartProject` writes
workspace, binding and draft in this order; `FollowUpMessage` saves the merged requirement.
`Handlers` serve one event at a time each.

**OrderExecution.** Begins after the inquiry was dispatched. Each handler is a load, which
computes what will be written, and its saves in the order of the code. Selecting a path
(`SelectPath` to `MarkSelected`) writes the order, its plan, the order again, the buyer's
workspace and the supplier's. Of the supplier's messages only the ones that set the
order's status are told apart.

## 4. Runs

State counts are TLC's distinct states.

| run | question | states |
|---|---|---|
| `approval` | two requests race over two approvals, two RFQs and a packet: is every gated action approved, every spent approval spent on its action, no RFQ sent twice, and does every request end? | 44 451 |
| `order_concurrent` | two requests race on an order: is it released only inspected, shipped only with a shipment, is each QC request one transition? | 21 273 |
| `order_serial` | served one at a time: do the handlers implement `OrderFlow`, does the status agree with the evidence, does an order come to rest? | 1 121 |
| `placement` | two clerks, two orders, one form, two approvals: is each order approved, its version on record and final? | 1 143 814 |
| `ledger` | two inspections of two participants: are alerts justified, due at the third incident, single? | 17 274 |
| `responses` | three overlapping responses of two recipients and a stranger: is the status never ahead of the responses? | 226 269 |
| `handoff` | two imports, two executors, lost and late writes, a changing source, lost databases: does the provider's word decide, does repetition help and never harm? | 16 061 |
| `quotes` | a buyer's message and two replies, redelivered, overlapping, with approvals, failures and crashes: is one current quote open, is a sent draft sent, is what the ledger answers for kept? | 3 717 376 |
| `packets` | three servers, two tenants, a giraffe-db that refuses, times out and takes writes late: does a server take back what it showed, does an answered decision stay? | 30 236 |
| `conversations` | two events at a time in two conversations, one project or two: can each draft be confirmed, is it sent once, and only then? | 371 091 |
| `execution` | two requests over the files of one procurement: has a selection its order, a produced order its acknowledgement, and what may be lost? | 1 948 664 |

One run shows a statement of the repository violated:

| run | what it shows | statement |
|---|---|---|
| `approval_one_use` | two requests approve a packet under one approval | `approval_gates/service.py:108` "the same approval can never authorise a second action" |

**Bounds.** The properties speak of one approval, order, participant, form, project,
packet or purchase order and of at most two requests that interfere on it. Each
instance has two requests (three for responses, where the third is the one that
overtakes; three servers for packets, so that a third may read between two writers)
and a second resource where confusing two of them is the danger. Three incidents
are the threshold; five allow for a second alert after a review. `MaxVersion` 3 allows
the ordered version, one before and one after it. `MaxSource` 2 is a source
that changes once. In `quotes`, one priced and one unpriced reply are the two ways a reply
is kept, two drafts are a quote and what replaces it, `MaxAsked` 1 leaves the other draft
to a quote; the buyer's message may be delivered again. `MaxSent` 1 is the one bound that
cuts a case off, a second e-mail from one draft; the theorems, for any `MaxSent`, have it.
In `conversations` one specification is enough to tell a message that gives it from one
that mentions it, and one draft may be confirmed from both conversations; six messages are
all the handlers tell apart. In `execution` a supplier
writes once: responses are told apart by their supplier, and the second supplier's is what
others may lose. One order id means that a second selection of a path gets as far as
saving its order and no further. Symmetry is used in runs without liveness only.

Each property is also run against a model with a plausible fault in one definition
(the mutants in `PROJECT.json`), and is violated there. `TypeOK` is a property of no
run: it is proved of every component (as `PlacementTypeOK` and `ConvTypeOK` of the two
that share a module of proofs).

**Deadlock** is not checked: ids are finite, so every instance runs out of
orders, records, drafts or messages and rightly stops. That requests do not wait for
each other forever is `RequestsFinish` in `approval`; the file-backed components and the
packet store have nothing to wait for.

## 5. Fairness

* `approval` (`FairSpec`): a handler that is not waiting goes on (weak fairness).
  Waiting for a row lock is strong fairness, because PostgreSQL queues waiters of
  a row. Nobody is assumed to send requests.
* `order_serial` (`PersistentSpec`): `ServerFairness` is about requests that are
  being served. `PeopleFairness`, that people keep trying to confirm, inspect, ship,
  track and sign off, is an assumption about the environment: `OrdersComeToRest` says the
  code leaves no order where trying does not help, other than `QC_FAILED`. Strong
  fairness of the commits excludes only that every single attempt fails.
* `handoff` (`FairSpec`): an undisturbed import goes on; the client repeats imports, as
  `docs/PROVIDER_ORDER_HANDOFF.md` asks it to, and not every repetition fails at the
  same point. Messages have no fairness: each may be lost.

## 6. Proofs

`TypeOK` and the properties below hold for every value of the constants that
satisfies the module's assumption (distinct ids, finite sets where they are counted, a
positive threshold, messages that are messages). The proofs follow one pattern: an
inductive invariant, initial states, one step per action, `PTL`.

* **ApprovalGateProofs.** `DoneMeansSpent`, `SpentMeansDone`, `RfqSentOnce`. The
  invariant adds what a waiting session is entitled to: whoever holds an approval's
  lock, past the flush, is the only one that can spend it now, and for an RFQ it
  is unused as long as the RFQ is not sent.
  Of `OrderPlacement`: `PlacementFollowsGate`, every behaviour is one of the gate, step for
  step, so the gate's invariant holds there too. `OrderMeansApproval` under overlap: a spent
  approval is never unmade (`SpentStays`), so a clerk who once read that a packet is
  approved may rely on it at the commit, and so may everyone who finds the order.
  `CurrentIsLatest` and `OrderedFormIsFinal` until two form or order requests overlap: the
  one clerk (`OneAtATime`) holds the current version or the number after it (`ClerkOK`), and
  a version that an order refers to is current and its form locked (`OrdersOK`), although
  a form may be created or locked while he works.
* **OrderLifecycleProofs.** `ReleasedMeansInspected`, `ShippedMeansShipment`,
  `QcRequestIsATransition`, however requests race. What a session has read may be
  stale, but events and shipments are never taken back, so what a session knows of
  them stays true.
  With a single request slot (`Requests = {only}`), also `SerialFollowsOrderFlow`:
  `OrderLifecycle` implements `OrderFlow` under the mapping of the committed status; and
  `SerialStatusMatchesEvidence`. The invariant says that what the request has read is
  still committed (`Fresh`). With two slots both are false (section 7).
* **QualityLedgerProofs.** `AlertsAreJustified` unconditionally, because a count
  includes the own incident and committed incidents stay; `ThirdIncidentAlerts` and
  `AtMostOneActiveAlert` for participants whose inspections have not overlapped.
* **SupplierResponsesProofs.** `AnsweredMeansEnough` and `RespondedMeansRecorded`
  under overlap; `StatusMatchesCount` and `StatusFollowsTransitions` until two overlap.
* **ProviderHandoffProofs.** `OrderMeansAssociation`, `ReplayKeepsProgress`. The key:
  every write expects revision 0, so only the first to arrive takes effect, an
  association never changes, and what was read back is still so at the commit.
* **CustomerQuotesProofs.** `SentMeansMessage` and `OneOpenQuote` under overlap: the
  project's row is held from its flush to the commit (`HoldsProject`), so no draft is
  opened between the search for stale ones and the new one; a session past a successful
  send knows that the e-mail left (`KnowsItLeft`). `OpenQuoteIsCurrent`, `EventsAreKept`,
  `WithdrawnIsNotSent` until requests overlap: `SerialOK` says that the one request
  has read what is still committed. The first needs that an open quote not outdated has a
  priced reply behind it (`Quoted`): a reply that yields no option, and may not be
  written, then finds no such quote. The second needs, besides, that the event about to be
  recorded is kept (`Kept`).
* **PacketStoreProofs.** `UpdateFindsPacket`, `AnsweredIsKept` and `FollowsPacketViews`, the
  refinement: `cache` implements `PacketViews`. The invariant: a session's packet is
  pending in its server's memory, and, until a write of the packet fails, memories and
  giraffe-db agree on it but for one server that may still hold it as pending.
* **OrderExecutionProofs.** `SelectedMeansOrdered`, `SelectedSupplierHasOrder` and
  `ProductionMeansAcknowledged`, however requests overlap, overwrite each other or die;
  `ResponsesAreKept` and `ReopenedByMessageOnly`. Any copy may become the file, so the
  invariant asks of each copy about to be written what the file must show; it is kept
  because an order on file stays, for its path (`Grows`). A copy is compared with its file
  only until somebody else saves that file (`stale`).
  Of `Conversations`: `DraftsAreReachable` and `ApprovedIsDispatched`, however events overlap
  or die, because bindings and a draft's project are never taken back (`Stays`) and only
  the handler that approved a draft has it to answer for. `OneBinding`, `DispatchedOnce` and
  `FieldsAreKept` until events overlap: two that share a conversation or a project are
  known to (`Apart`), so an event that binds still finds no binding (`BindsFirst`), one that
  saves a follow-up still knows all fields on file (`SavesMerged`), and a draft's status
  tells whether it was sent and who may still send it (`StatusTells`). That invariant was
  checked on the instance of `conversations`, the one above on that of `placement`, before
  they were proved.

**Model-checked only.** Liveness (`RequestsFinish`, `OrdersComeToRest`,
`AssociationsAreCompleted`) is out of the prover's reach. Every invariant, action property
and refinement of the passing runs is proved.

## 7. Where code and statements differ

Apart from the violation run, seen while modelling:

*Main service*
* A delivery event read before the sign-off and committed after it moves a signed-off
  order back to DELIVERED (`logistics/service.py:90`; the state machine has no way out of
  BUYER_SIGNED_OFF). `FollowsOrderFlow` is therefore about a single request slot.
* A response that read the RFQ early moves it back (`supplier_responses/service.py:32`), and
  overlapping ones count without each other: `StatusFollowsTransitions` and
  `StatusMatchesCount` are about responses that have not overlapped.
* Overlapping inspections can raise two active alerts; every later failed inspection
  of the participant then raises an error (`replacement_alerts/service.py:43`).
* A rejection committed between the gate's read and its flush is overtaken: "Only after
  `status = APPROVED`" (`docs/human_approval_policy.md:26`) holds of what was read.
* A form update that read the form before it was locked adds a version after the
  lock; two updates may take one number, after which the current version cannot be
  looked up and no order placed (`dynamic_forms/service.py:153`).
* Two racing requests can create two shipments for an order (`docs/user_manual.md:291`
  has them only in READY_TO_SHIP).
* `mark_qc_fail` files no incident (`docs/user_manual.md:266`), and no handler takes an
  order out of QC_FAILED (`docs/participant_roles.md:96` has a rework loop).
* Confirmation, shipment and sign-off pass no gate (`docs/human_approval_policy.md:5`).
* An order's `approved_option_id` is whatever option of the packet the client names
  (`order_confirmation/service.py:57`), while `supplier_memory/service.py:27` speaks of "the
  approved option".
* Of three incidents filed while inspections overlap, each may count without the others,
  and no alert is raised (`docs/acceptance_criteria_v1.md:60`).

*AIVAN*
* `approve_and_send`, which implements the states of `approval_state.py`, is called
  nowhere; the route leaves a draft whose send failed `approved`, which
  `approval_state.py:9` says must never be, and no handler tries again.
* A crash between sending and committing leaves the draft open: approved again, it is
  sent twice. A draft superseded or rejected while its approval is in progress is sent.
* An event redelivered before its ledger row is committed counts its reply twice; of
  two overlapping replies, one is lost (one JSON column, read and written whole).
* Of two replies without a price, handled one after the other, the second is
  acknowledged and lost: `dict(...)` copies the column one level deep, so the reply is
  appended to the loaded value too, and nothing differs (`rfq_execution.py:892`, under the comment
  "accumulate all prior replies").
* A buyer's further message writes the requirement without the suppliers' replies
  (`rfq_execution.py:236`) and leaves the quote made from them open for approval, and the
  inquiries of earlier messages too.
* A message set aside because suppliers or a service are missing is in the ledger and is
  not handled again when it is redelivered; the operator's notice of it is sent before
  the commit (`rfq_execution.py:672`).

*Pricing service*
* `giraffe_db_client.py:5` says transport errors become `GiraffeDBClientError`; create, get and
  update catch `HTTPStatusError` only. A timeout therefore fails the request, its effect
  unknown, instead of falling back to memory.
* A decision made in memory alone is lost with the process: the packet is pending again
  after a restart, and may be decided the other way. Two servers that hold a packet as
  pending may both decide it.

*Conversations*
* "do not send it" contains "send it", and words of approval count first: it approves the
  pending drafts (`openclaw_event_adapter.py:883`; `docs/OPENCLAW_WECHAT_BSIDE_MSIDE_SETUP.md:245`
  lists it under rejection). `Message` therefore allows a message that does both.
* A supplier's reply is recorded nowhere: `_append_to_m_workspace` (line 792) compares
  fields a workspace does not have, while the answer says the record was updated.
* Naming a specification counts as giving it: a draft may follow with the field empty.
* An event of an unbound conversation that names a project starts a new one.
* Overlapping events of a conversation start two projects; two confirmations send a
  draft twice, and a confirmation may overtake a rejection.

*Orders on file*
* No handler consults `_VALID_TRANSITIONS` (`merchandiser_state_machine.py`, where
  ORDER_CLOSED has no successor): a late acknowledgement or logistics message reopens
  a closed order. `ReopenedByMessageOnly` says that nothing else does.
* Selecting twice makes two orders. A simulation or follow-up run after a selection puts
  the workspace's status back, and the order stays.
* The second save of a new order overwrites an acknowledgement that came in between.
* A sign-off that names no order closes the one whose plan was written last.
* Logistics ingestion, not modelled: `last_event_at` advances only when the status changes
  (`logistics_ingestion_service.py:153`), so an older event may overwrite a newer status;
  events are saved before the shipment, so after a crash in between redelivery finds a
  duplicate and the shipment stays as it was.

## 8. Not modelled, and why

`map` covers a small share of the repository's lines. Most of them are demonstrators,
benchmarks and scripts, migrations, adapters to external services, wording and regular
expressions, scoring and report building, read-only routes, and definitions of rows and
messages, of which a model keeps the columns that decide something.

* Scoring, pricing, lead time, matching, feasibility: functions of one request's
  data, with unit tests. They appear as arbitrary results.
* Language models and other external services: calls that take long and fail.
* Tenancy and authentication: all rows of a model belong to one tenant (in `PacketStore`,
  to one of two). Field contents, standards, drafted texts, clarification questions:
  nothing checked depends on them.
* The upstream-sourcing pipeline (`m_side/upstream`, `rollup`, `communication`): one request
  over objects in memory; what it leaves is a response, which `OrderExecution` takes in.
  The outbox and `send_receive_state_machine` are called by scripts and tests only.
* Production monitoring and milestones: a milestone is set to what the request says, a
  repeated prediction repeats its alerts, and no route sends an expedite alert.
* Logistics ingestion: see section 7; no modelled component reads its shipments.
* AIVAN's creation of projects, and events that leave only a ledger row.
* Isolation other than READ COMMITTED. SQLite, AIVAN's default, serialises writers
  at their first write; its behaviours are among those modelled.

## 9. Plan

Done, in this order: the gate, order lifecycle with its abstract flow, order
placement over the gate, quality ledger, supplier responses, provider handoff, customer
quotes; packet store with its abstract views, conversations, orders on file, the buyer's
messages in customer quotes; proofs of every safety property of the passing runs.

Next: logistics ingestion under redelivery and crashes.
