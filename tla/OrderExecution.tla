--------------------------- MODULE OrderExecution ---------------------------
(***************************************************************************)
(* A procurement workspace after its inquiry was dispatched: suppliers     *)
(* answer in workspaces of their own, their responses are attached to the  *)
(* buyer's workspace, delivery paths are simulated, one is selected, and   *)
(* the order it becomes is moved on by messages of the supplier and by the *)
(* buyer's sign-off.                                                       *)
(*                                                                         *)
(* Each of these is a JSON file that a request loads, changes and saves as *)
(* a whole.  Nothing locks the files, so other requests run between any    *)
(* two accesses; a simulation waits for the lead-time service in between.  *)
(* A request computes what it will save from what it has loaded, so the    *)
(* session keeps the copy as it is going to be written.                    *)
(*                                                                         *)
(* A supplier's packet and response are known by the number of messages    *)
(* they were made from, a delivery path by its supplier and response.      *)
(***************************************************************************)
EXTENDS FiniteSets, Naturals

CONSTANTS
    Requests,      \* slots in which requests are handled, one at a time each
    Suppliers,     \* the inquiry was dispatched to each of them
    Orders,        \* ids of order executions
    MaxMessages,   \* how many messages a supplier writes at most
    Answers,       \* whether suppliers say they can make it
    None

Workspace == "workspace"
Files == {Workspace} \cup Suppliers \cup Orders

ASSUME OrderExecutionAssumption ==
    /\ MaxMessages \in Nat
    /\ Answers \subseteq BOOLEAN
    /\ None \notin Files
    /\ Workspace \notin Suppliers \cup Orders
    /\ Suppliers \cap Orders = {}

VARIABLES
    buyer,         \* the buyer's workspace
    supplier,      \* the workspace of each supplier
    order,         \* the order executions on file
    newest,        \* the order of the merchandiser plan written last
    session,       \* what each request is about to write, and where it is
    announced      \* history: orders whose creation has been answered

vars == <<buyer, supplier, order, newest, session, announced>>

Count == 0 .. MaxMessages
Offer == [of : Count, can : BOOLEAN]
NoOffer == [of |-> 0, can |-> FALSE]
Path == [of : Suppliers, offer : Offer]

Buyer == [status : {"inquiry_drafted", "requirement_structured", "collecting_responses",
                    "feasibility_complete", "supplier_selected"},
          response : [Suppliers -> Offer], paths : SUBSET Path, selected : Path \cup {None}]
Supplier == [status : {"inquiry_received", "response_collecting", "response_draft_ready",
                       "selected_by_buyer"},
             messages : Count, packet : Offer]
Order == [status : {"order_acknowledgement_pending", "order_acknowledged", "in_production",
                    "qc_pending", "shipped", "buyer_signoff_pending", "ORDER_CLOSED"},
          path : Path, confirmed : BOOLEAN]

ASSUME NoneIsNoOrder == None \notin Order

\* What a session is about to write: `files` names the files it has loaded for that,
\* `stale` those of them that another request has saved since (history).
Session == [pc : {"idle", "append", "load", "packet", "save", "order", "plan", "planned",
                  "select", "notify", "mark", "write"},
            files : SUBSET Files, stale : SUBSET Files,
            of : Suppliers \cup {None}, supplier : Supplier \cup {None},
            path : Path \cup {None}, buyer : Buyer \cup {None},
            order : Orders \cup {None}, row : Order \cup {None}]
Idle == [pc |-> "idle", files |-> {}, stale |-> {}, of |-> None, supplier |-> None,
         path |-> None, buyer |-> None, order |-> None, row |-> None]

Begin(r, s) ==
    /\ session[r].pc = "idle"
    /\ session' = [session EXCEPT ![r] = s]

\* Request r saves file f and goes on as session s.
Save(r, f, s) ==
    session' = [q \in Requests |->
        IF q = r THEN s
        ELSE IF f \in session[q].files THEN [session[q] EXCEPT !.stale = @ \cup {f}]
        ELSE session[q]]
Step(r, s) == session' = [session EXCEPT ![r] = s]

-----------------------------------------------------------------------------
(***************************************************************************)
(* The supplier's workspace                                                *)
(***************************************************************************)
\* append_supplier_message.
Append(w) ==
    [w EXCEPT !.messages = @ + 1,
              !.status = IF @ = "inquiry_received" THEN "response_collecting" ELSE @]

\* handle_m_side_submit_supplier_response: the workspace is loaded for the message.
SubmitResponse(r, s) ==
    /\ supplier[s].messages < MaxMessages
    /\ Begin(r, [Idle EXCEPT !.pc = "append", !.files = {s}, !.of = s,
                             !.supplier = Append(supplier[s])])
    /\ UNCHANGED <<buyer, supplier, order, newest, announced>>

AppendMessage(r) ==
    /\ session[r].pc = "append"
    /\ supplier' = [supplier EXCEPT ![session[r].of] = session[r].supplier]
    /\ Save(r, session[r].of, [Idle EXCEPT !.pc = "load", !.of = session[r].of])
    /\ UNCHANGED <<buyer, order, newest, announced>>

\* build_response_packet_from_messages loads it again and reads an offer, or a
\* refusal, from all the messages.
LoadMessages(r) ==
    /\ session[r].pc = "load"
    /\ \E can \in Answers :
          LET s == session[r].of IN
          Step(r, [Idle EXCEPT !.pc = "packet", !.files = {s}, !.of = s,
                               !.supplier = [supplier[s] EXCEPT
                                   !.packet = [of |-> supplier[s].messages, can |-> can],
                                   !.status = "response_draft_ready"]])
    /\ UNCHANGED <<buyer, supplier, order, newest, announced>>

SavePacket(r) ==
    /\ session[r].pc = "packet"
    /\ supplier' = [supplier EXCEPT ![session[r].of] = session[r].supplier]
    /\ Save(r, session[r].of, Idle)
    /\ UNCHANGED <<buyer, order, newest, announced>>

-----------------------------------------------------------------------------
(***************************************************************************)
(* The buyer's workspace                                                   *)
(***************************************************************************)
Writing(w) == [Idle EXCEPT !.pc = "save", !.files = {Workspace}, !.buyer = w]

\* Mutant of WithResponse: the filter keeps the supplier's responses, not the others'.
WithResponseOnly(w, s, offer) ==
    [w EXCEPT !.response = [q \in Suppliers |-> IF q = s THEN offer ELSE NoOffer]]

\* The supplier's earlier response is replaced.
WithResponse(w, s, offer) ==
    [w EXCEPT !.response[s] = offer,
              !.status = IF @ \in {"inquiry_drafted", "requirement_structured"}
                         THEN "collecting_responses" ELSE @]

\* push_supplier_response_to_b_side and intake_supplier_response.
PushResponse(r, s) ==
    /\ supplier[s].packet # NoOffer
    /\ Begin(r, Writing(WithResponse(buyer, s, supplier[s].packet)))
    /\ UNCHANGED <<buyer, supplier, order, newest, announced>>

PathsOf(w) == {[of |-> s, offer |-> w.response[s]] : s \in {q \in Suppliers : w.response[q].can}}

\* Mutant of Simulated: a workspace with a selection keeps its status.
SimulatedKeeping(w, best) ==
    [w EXCEPT !.paths = PathsOf(w), !.selected = best,
              !.status = IF @ = "supplier_selected" THEN @ ELSE "feasibility_complete"]

\* The report on the responses of w; `best` is the path it ranks first.
Simulated(w, best) ==
    [w EXCEPT !.paths = PathsOf(w), !.selected = best, !.status = "feasibility_complete"]

\* run_feasibility_simulation, which asks the lead-time service about each response.
RunSimulation(r) ==
    /\ \E best \in IF PathsOf(buyer) = {} THEN {None} ELSE PathsOf(buyer) :
          Begin(r, Writing(Simulated(buyer, best)))
    /\ UNCHANGED <<buyer, supplier, order, newest, announced>>

\* _handle_b_side_followup: more words of the buyer about the requirement.
FollowUp(r) ==
    /\ Begin(r, Writing([buyer EXCEPT !.status = "requirement_structured"]))
    /\ UNCHANGED <<buyer, supplier, order, newest, announced>>

SaveBuyer(r) ==
    /\ session[r].pc = "save"
    /\ buyer' = session[r].buyer
    /\ Save(r, Workspace, Idle)
    /\ UNCHANGED <<supplier, order, newest, announced>>

-----------------------------------------------------------------------------
(***************************************************************************)
(* Selecting a path                                                        *)
(***************************************************************************)
\* create_order_execution_from_selected_path: the path is looked up in the report.
\* Nothing asks whether the workspace has an order already.
SelectPath(r, path) ==
    /\ path \in buyer.paths
    /\ Begin(r, [Writing([buyer EXCEPT !.selected = path, !.status = "supplier_selected"])
                 EXCEPT !.pc = "order", !.path = path])
    /\ UNCHANGED <<buyer, supplier, order, newest, announced>>

NewOrder(path) ==
    [status |-> "order_acknowledgement_pending", path |-> path, confirmed |-> FALSE]

SaveOrder(r, o) ==
    /\ session[r].pc = "order"
    /\ order[o] = None
    /\ order' = [order EXCEPT ![o] = NewOrder(session[r].path)]
    /\ Step(r, [session[r] EXCEPT !.pc = "plan", !.order = o, !.files = @ \cup {o}])
    /\ UNCHANGED <<buyer, supplier, newest, announced>>

Selecting(r) ==
    [session[r] EXCEPT !.pc = "select", !.files = @ \cap {Workspace}, !.stale = @ \cap {Workspace}]

\* create_post_confirmation_execution writes tasks, milestones and the plan.  If it
\* raises, the order goes on without a plan.
CreatePlan(r) ==
    /\ session[r].pc = "plan"
    /\ \/ /\ newest' = session[r].order
          /\ Step(r, [session[r] EXCEPT !.pc = "planned"])
       \/ /\ newest' = newest
          /\ Step(r, Selecting(r))
    /\ UNCHANGED <<buyer, supplier, order, announced>>

\* The order is saved again, with the ids of its plan: as it was created.
SavePlanned(r) ==
    /\ session[r].pc = "planned"
    /\ order' = [order EXCEPT ![session[r].order] = NewOrder(session[r].path)]
    /\ Save(r, session[r].order, Selecting(r))
    /\ UNCHANGED <<buyer, supplier, newest, announced>>

\* The workspace as loaded at the start, now with its selection.
SaveSelection(r) ==
    /\ session[r].pc = "select"
    /\ buyer' = session[r].buyer
    /\ Save(r, Workspace, [Idle EXCEPT !.pc = "notify", !.path = session[r].path,
                                       !.order = session[r].order])
    /\ UNCHANGED <<supplier, order, newest, announced>>

\* Mutant of SupplierWorkspaces: any workspace of this procurement.
SupplierWorkspacesAny(s) == Suppliers

\* The workspaces of supplier s for this procurement.
SupplierWorkspaces(s) == {s}

\* update_m_workspace_status loads the supplier's workspace and saves its status.  One
\* that is being written is left out of the list, and is then not marked.
LoadSelected(r) ==
    /\ session[r].pc = "notify"
    /\ \E s \in SupplierWorkspaces(session[r].path.of) :
          Step(r, [session[r] EXCEPT
              !.pc = "mark", !.files = {s}, !.of = s,
              !.supplier = [supplier[s] EXCEPT !.status = "selected_by_buyer"]])
    /\ UNCHANGED <<buyer, supplier, order, newest, announced>>

Overlooked(r) ==
    /\ session[r].pc = "notify"
    /\ \E q \in Requests : session[r].path.of \in session[q].files
    /\ announced' = announced \cup {session[r].order}
    /\ Step(r, Idle)
    /\ UNCHANGED <<buyer, supplier, order, newest>>

MarkSelected(r) ==
    /\ session[r].pc = "mark"
    /\ supplier' = [supplier EXCEPT ![session[r].of] = session[r].supplier]
    /\ announced' = announced \cup {session[r].order}
    /\ Save(r, session[r].of, Idle)
    /\ UNCHANGED <<buyer, order, newest>>

-----------------------------------------------------------------------------
(***************************************************************************)
(* The order                                                               *)
(***************************************************************************)
\* acknowledge_order completes a milestone and sets the status, whatever it is.
Acknowledged(row) == [row EXCEPT !.status = "order_acknowledged", !.confirmed = TRUE]

\* Mutant of Produced: the milestone is looked at instead of the status.
ProducedOnceConfirmed(row) ==
    IF row.confirmed THEN [row EXCEPT !.status = "in_production"] ELSE row

\* submit_production_update.
Produced(row) ==
    IF row.status = "order_acknowledged" THEN [row EXCEPT !.status = "in_production"] ELSE row

\* Mutant of Inspected: the status is set without looking at it.
InspectedAnyway(row) == [row EXCEPT !.status = "qc_pending"]

\* submit_qc_update with a passed inspection.
Inspected(row) ==
    IF row.status = "in_production" THEN [row EXCEPT !.status = "qc_pending"] ELSE row

\* submit_logistics_update sets either status, whatever it is.
Shipped(row) == [row EXCEPT !.status = "shipped"]
Delivered(row) == [row EXCEPT !.status = "buyer_signoff_pending"]

\* A message about an order whose id is known; other contents change no status.
ReceiveMessage(r, o) ==
    /\ o \in announced
    /\ \E row \in {Acknowledged(order[o]), Produced(order[o]), Inspected(order[o]),
                   Shipped(order[o]), Delivered(order[o])} :
          Begin(r, [Idle EXCEPT !.pc = "write", !.files = {o}, !.order = o, !.row = row])
    /\ UNCHANGED <<buyer, supplier, order, newest, announced>>

\* receive_buyer_signoff, confirmed: the order named, or else the one of the plan
\* written last.
SignOff(r, o) ==
    /\ o \in announced \cup {newest}
    /\ order[o].status # "ORDER_CLOSED"
    /\ Begin(r, [Idle EXCEPT !.pc = "write", !.files = {o}, !.order = o,
                             !.row = [order[o] EXCEPT !.status = "ORDER_CLOSED"]])
    /\ UNCHANGED <<buyer, supplier, order, newest, announced>>

SaveUpdate(r) ==
    /\ session[r].pc = "write"
    /\ order' = [order EXCEPT ![session[r].order] = session[r].row]
    /\ Save(r, session[r].order, Idle)
    /\ UNCHANGED <<buyer, supplier, newest, announced>>

\* The request dies, or raises on a file another one is writing.
Abort(r) ==
    /\ session[r].pc # "idle"
    /\ Step(r, Idle)
    /\ UNCHANGED <<buyer, supplier, order, newest, announced>>

-----------------------------------------------------------------------------
Init ==
    /\ buyer = [status |-> "inquiry_drafted", response |-> [s \in Suppliers |-> NoOffer],
                paths |-> {}, selected |-> None]
    /\ supplier = [s \in Suppliers |->
           [status |-> "inquiry_received", messages |-> 0, packet |-> NoOffer]]
    /\ order = [o \in Orders |-> None]
    /\ newest = None
    /\ session = [r \in Requests |-> Idle]
    /\ announced = {}

Next ==
    \E r \in Requests :
        \/ \E s \in Suppliers : SubmitResponse(r, s) \/ PushResponse(r, s)
        \/ AppendMessage(r) \/ LoadMessages(r) \/ SavePacket(r)
        \/ RunSimulation(r) \/ FollowUp(r) \/ SaveBuyer(r)
        \/ \E path \in buyer.paths : SelectPath(r, path)
        \/ \E o \in Orders : SaveOrder(r, o) \/ ReceiveMessage(r, o) \/ SignOff(r, o)
        \/ CreatePlan(r) \/ SavePlanned(r) \/ SaveSelection(r)
        \/ LoadSelected(r) \/ Overlooked(r) \/ MarkSelected(r)
        \/ SaveUpdate(r) \/ Abort(r)

Spec == Init /\ [][Next]_vars

-----------------------------------------------------------------------------
TypeOK ==
    /\ buyer \in Buyer
    /\ supplier \in [Suppliers -> Supplier]
    /\ order \in [Orders -> Order \cup {None}]
    /\ newest \in Orders \cup {None}
    /\ session \in [Requests -> Session]
    /\ announced \in SUBSET Orders

\* A workspace that shows a supplier as selected has an order for exactly the path it
\* shows, whichever requests overlap or die: the order is saved first, and every
\* request writes back status, report and selection as it loaded them together.
SelectedMeansOrdered ==
    buyer.status = "supplier_selected" =>
        /\ buyer.selected \in buyer.paths
        /\ \E o \in Orders : order[o] # None /\ order[o].path = buyer.selected

\* A supplier whose workspace says it was selected has an order, although that
\* workspace is written after the buyer's, and by the supplier's own messages too.
SelectedSupplierHasOrder ==
    \A s \in Suppliers : supplier[s].status = "selected_by_buyer" =>
        \E o \in Orders : order[o] # None /\ order[o].path.of = s

\* An order is in production or inspected only if its supplier acknowledged it, even
\* when messages overwrite each other's updates.
ProductionMeansAcknowledged ==
    \A o \in Orders :
        order[o] # None /\ order[o].status \in {"in_production", "qc_pending"}
            => order[o].confirmed

\* A supplier's message and a response attached to the buyer's workspace outlast all
\* later messages, simulations, selections and follow-ups, except that a request which
\* loaded the file before it was saved by another one writes its own copy over it.
OverwrittenBy(f) ==
    \E r \in Requests : f \in session[r].stale /\ f \notin session'[r].files

ResponsesAreKept ==
    [][\A s \in Suppliers :
          /\ supplier'[s].messages < supplier[s].messages => OverwrittenBy(s)
          /\ buyer.response[s] # NoOffer /\ buyer'.response[s] = NoOffer
                 => OverwrittenBy(Workspace)]_vars

\* An order that was closed is reopened by a repeated acknowledgement, a late logistics
\* message, or a request that read it before, and by nothing else.
ReopenedByMessageOnly ==
    [][\A o \in Orders :
          order[o] # None /\ order[o].status = "ORDER_CLOSED" =>
              \/ order'[o].status \in
                    {"ORDER_CLOSED", "order_acknowledged", "shipped", "buyer_signoff_pending"}
              \/ OverwrittenBy(o)]_vars
=============================================================================
