------------------------ MODULE OrderExecutionProofs ------------------------
(***************************************************************************)
(* The two components that keep their state in JSON files.                 *)
(*                                                                         *)
(* OrderExecution, for any numbers of requests, suppliers and orders.      *)
(* What a file shows must be true of the copies that requests are about to *)
(* write as well, since any of them may become the file.  Two things make  *)
(* that possible: an order on file stays, for the path it was made for, so *)
(* a copy that names a path with an order goes on doing so; and a copy is  *)
(* compared with the file it was taken from only as long as nobody has     *)
(* saved that file, which `stale` says.                                    *)
(*                                                                         *)
(* Conversations, from the second half on, for any numbers of handlers,    *)
(* conversations, projects and drafts: what one event has read stays true  *)
(* while others run, unless they overlap with it, which `overlapped` says. *)
(***************************************************************************)
EXTENDS OrderExecution, Conversations, TLAPS

Closed == "ORDER_CLOSED"
Reopening == {Closed, "order_acknowledged", "shipped", "buyer_signoff_pending"}

Has(o, path) == o \in Orders /\ order[o] # None /\ order[o].path = path
Ordered(path) == \E o \in Orders : Has(o, path)

BuyerOK(w) == w.status = "supplier_selected" => w.selected \in w.paths /\ Ordered(w.selected)
SupplierOK(s, w) ==
    w.status = "selected_by_buyer" => \E o \in Orders : order[o] # None /\ order[o].path.of = s
RowOK(row) ==
    row.status \in {"order_acknowledged", "in_production", "qc_pending"} => row.confirmed

\* What a copy keeps of the file it was taken from.
KeepsMessages(s, w) == w.messages >= supplier[s].messages
KeepsResponses(w) == \A s \in Suppliers : buyer.response[s] # NoOffer => w.response[s] # NoOffer
KeepsClosed(o, row) == order[o].status = Closed => row.status \in Reopening

HoldsSupplier(x) ==
    /\ x.of \in Suppliers
    /\ x.supplier \in Supplier
    /\ SupplierOK(x.of, x.supplier)
    /\ x.of \in x.files
    /\ x.of \notin x.stale => KeepsMessages(x.of, x.supplier)

HoldsBuyer(x) ==
    /\ x.buyer \in Buyer
    /\ Workspace \in x.files
    /\ Workspace \notin x.stale => KeepsResponses(x.buyer)

\* A selection on its way to the workspace.
HoldsSelection(x) ==
    /\ x.path \in Path
    /\ x.buyer.selected = x.path
    /\ x.path \in x.buyer.paths

HoldsNewOrder(x) ==
    /\ x.order \in x.files
    /\ x.order \notin x.stale => order[x.order].status # Closed

HoldsRow(x) ==
    /\ x.order \in Orders
    /\ order[x.order] # None
    /\ x.row \in Order
    /\ x.row.path = order[x.order].path
    /\ RowOK(x.row)
    /\ x.order \in x.files
    /\ x.order \notin x.stale => KeepsClosed(x.order, x.row)

\* What a request in session x may rely on.
SessionOK(x) ==
    /\ x.stale \subseteq x.files
    /\ x.pc \in {"append", "packet", "mark"} => HoldsSupplier(x)
    /\ x.pc = "load" => x.of \in Suppliers
    /\ x.pc \in {"save", "order", "plan", "planned", "select"} => HoldsBuyer(x)
    /\ x.pc = "save" => BuyerOK(x.buyer)
    /\ x.pc \in {"order", "plan", "planned", "select"} => HoldsSelection(x)
    /\ x.pc = "order" => x.files = {Workspace}
    /\ x.pc = "notify" => x.files = {}
    /\ x.pc \in {"plan", "planned", "select", "notify", "mark"} =>
          x.path \in Path /\ Has(x.order, x.path)
    /\ x.pc \in {"plan", "planned"} => HoldsNewOrder(x)
    /\ x.pc = "write" => HoldsRow(x)

FilesOK ==
    /\ BuyerOK(buyer)
    /\ \A s \in Suppliers : SupplierOK(s, supplier[s])
    /\ \A o \in Orders : order[o] # None => RowOK(order[o])
    /\ \A o \in announced \cup {newest} : o # None => o \in Orders /\ order[o] # None

IInv == TypeOK /\ FilesOK /\ \A r \in Requests : SessionOK(session[r])

FilesType ==
    /\ buyer \in Buyer
    /\ supplier \in [Suppliers -> Supplier]
    /\ order \in [Orders -> Order \cup {None}]
    /\ newest \in Orders \cup {None}
    /\ announced \in SUBSET Orders

LEMMA InitIInv == Init => IInv
BY OrderExecutionAssumption DEF Init, IInv, TypeOK, FilesOK, SessionOK, Idle, Session, Buyer, Supplier,
   BuyerOK, SupplierOK, NoOffer, Offer, Count, Files

-----------------------------------------------------------------------------
(***************************************************************************)
(* A step of one request, as the others see it                             *)
(***************************************************************************)
Grows == \A o \in Orders : order[o] # None => order'[o] # None /\ order'[o].path = order[o].path

\* Only f is saved, if anything; a new order does not count.
Only(f) ==
    /\ buyer' = buyer \/ f = Workspace
    /\ \A s \in Suppliers : supplier'[s] = supplier[s] \/ s = f
    /\ \A o \in Orders : order'[o] = order[o] \/ o = f \/ order[o] = None

LEMMA StepIsSave ==
    ASSUME IInv, NEW r \in Requests, NEW s, Step(r, s)
    PROVE  Save(r, None, s)
BY OrderExecutionAssumption DEF IInv, TypeOK, Step, Save, Session

\* What another request relies on, it may go on relying on.
LEMMA OthersOK ==
    ASSUME IInv, NEW r \in Requests, NEW f \in Files \cup {None}, NEW s, Save(r, f, s),
           Only(f), Grows, NEW q \in Requests, q # r
    PROVE  session'[q] \in Session /\ SessionOK(session[q])'
<1> DEFINE x == session[q]
<1>1. x \in Session /\ SessionOK(x) /\ (f = None => f \notin x.files)
    BY OrderExecutionAssumption DEF IInv, TypeOK, Session
<1>2. session'[q] = IF f \in x.files THEN [x EXCEPT !.stale = @ \cup {f}] ELSE x
    BY DEF Save
<1>3. PICK y : y = session'[q]
    OBVIOUS
<1>4. y \in Session
    BY <1>1, <1>2, <1>3 DEF Session
<1>5. /\ y.pc = x.pc /\ y.files = x.files /\ y.of = x.of /\ y.supplier = x.supplier
      /\ y.path = x.path /\ y.buyer = x.buyer /\ y.order = x.order /\ y.row = x.row
      /\ y.stale = IF f \in x.files THEN x.stale \cup {f} ELSE x.stale
    BY <1>1, <1>2, <1>3 DEF Session
<1>6. \A o \in Orders : order[o] # None => order'[o] # None /\ order'[o].path = order[o].path
    BY DEF Grows
<1>7. HoldsSupplier(x) => HoldsSupplier(y)'
    BY <1>1, <1>5, <1>6 DEF HoldsSupplier, SupplierOK, KeepsMessages, Only
<1>8. HoldsBuyer(x) => HoldsBuyer(y)'
    BY <1>1, <1>5 DEF HoldsBuyer, KeepsResponses, Only
<1>9. BuyerOK(x.buyer) => BuyerOK(y.buyer)'
    BY <1>1, <1>5, <1>6 DEF BuyerOK, Ordered, Has
<1>10. HoldsSelection(x) => HoldsSelection(y)'
    BY <1>5 DEF HoldsSelection
<1>11. Has(x.order, x.path) => Has(y.order, y.path)'
    BY <1>5, <1>6 DEF Has
<1>12. Has(x.order, x.path) /\ HoldsNewOrder(x) => HoldsNewOrder(y)'
    BY <1>5 DEF Has, HoldsNewOrder, Only
<1>13. HoldsRow(x) => HoldsRow(y)'
    BY <1>5, <1>6 DEF HoldsRow, KeepsClosed, Only
<1>14. y.stale \subseteq y.files
    BY <1>1, <1>5 DEF SessionOK
<1>15. SessionOK(y)'
    BY <1>1, <1>5, <1>7, <1>8, <1>9, <1>10, <1>11, <1>12, <1>13, <1>14 DEF SessionOK
<1> QED
    BY <1>3, <1>4, <1>15

LEMMA StepIInv ==
    ASSUME IInv, NEW r \in Requests, NEW f \in Files \cup {None}, NEW s \in Session,
           Save(r, f, s), Only(f), Grows, FilesType', FilesOK', SessionOK(s)'
    PROVE  IInv'
<1>1. session'[r] = s
    BY DEF Save
<1>2. \A q \in Requests : q # r => session'[q] \in Session /\ SessionOK(session[q])'
    BY OthersOK
<1>3. \A q \in Requests : session'[q] \in Session /\ SessionOK(session[q])'
    BY <1>1, <1>2
<1>4. session' \in [Requests -> Session]
    BY <1>3 DEF Save
<1> QED
    BY <1>3, <1>4 DEF IInv, TypeOK, FilesType

\* A step that saves nothing.
LEMMA ReadIInv ==
    ASSUME IInv, NEW r \in Requests, NEW s \in Session, Step(r, s), SessionOK(s),
           UNCHANGED <<buyer, supplier, order>>,
           newest' \in Orders \cup {None}, announced' \in SUBSET Orders,
           \A o \in announced' \cup {newest'} : o # None => o \in Orders /\ order[o] # None
    PROVE  IInv'
<1>1. Save(r, None, s)
    BY StepIsSave
<1>2. Only(None) /\ Grows
    BY DEF Only, Grows
<1>3. FilesType' /\ FilesOK'
    BY DEF IInv, TypeOK, FilesType, FilesOK, BuyerOK, SupplierOK, Ordered, Has
<1>4. SessionOK(s)'
    BY DEF SessionOK, HoldsSupplier, SupplierOK, KeepsMessages, HoldsBuyer, KeepsResponses, BuyerOK,
       Ordered, Has, HoldsSelection, HoldsNewOrder, HoldsRow, KeepsClosed
<1> QED
    BY <1>1, <1>2, <1>3, <1>4, StepIInv

\* Most steps leave `newest` and `announced` alone too.
LEMMA BeginIInv ==
    ASSUME IInv, NEW r \in Requests, NEW s \in Session, Step(r, s), SessionOK(s),
           UNCHANGED <<buyer, supplier, order, newest, announced>>
    PROVE  IInv'
<1>1. /\ newest' \in Orders \cup {None} /\ announced' \in SUBSET Orders
      /\ \A o \in announced' \cup {newest'} : o # None => o \in Orders /\ order[o] # None
    BY DEF IInv, TypeOK, FilesOK
<1> QED
    BY <1>1, ReadIInv

LEMMA IdleOK == Idle \in Session /\ SessionOK(Idle)
BY DEF Idle, Session, SessionOK

\* What request r relies on.
LEMMA Relies ==
    ASSUME IInv, NEW r \in Requests
    PROVE  session[r] \in Session /\ SessionOK(session[r])
BY DEF IInv, TypeOK

LEMMA AnnouncedExist ==
    ASSUME IInv
    PROVE  announced \in SUBSET Orders /\ \A o \in announced : order[o] # None
BY OrderExecutionAssumption DEF IInv, TypeOK, FilesOK, Files

-----------------------------------------------------------------------------
(***************************************************************************)
(* The supplier's workspace                                                *)
(***************************************************************************)
LEMMA SubmitResponseIInv ==
    ASSUME IInv, NEW r \in Requests, NEW s \in Suppliers, SubmitResponse(r, s)
    PROVE  IInv'
<1>1. PICK x : x = [Idle EXCEPT !.pc = "append", !.files = {s}, !.of = s,
                                !.supplier = Append(supplier[s])]
    OBVIOUS
<1>2. PICK w : w = supplier[s]
    OBVIOUS
<1>3. w \in Supplier /\ w.messages < MaxMessages /\ SupplierOK(s, w)
    BY <1>2 DEF SubmitResponse, IInv, TypeOK, FilesOK
<1>4. /\ w.status \in {"inquiry_received", "response_collecting", "response_draft_ready",
                       "selected_by_buyer"}
      /\ w.messages \in Nat /\ w.messages + 1 \in Count /\ w.packet \in Offer
    BY <1>3, OrderExecutionAssumption DEF Supplier, Count
<1>5. PICK v : v = Append(w)
    OBVIOUS
<1>6. /\ v.messages = w.messages + 1 /\ v \in Supplier
      /\ v.status = "selected_by_buyer" => w.status = "selected_by_buyer"
    BY <1>3, <1>4, <1>5 DEF Append, Supplier
<1>7. SupplierOK(s, v) /\ KeepsMessages(s, v)
    BY <1>2, <1>3, <1>4, <1>6 DEF SupplierOK, KeepsMessages
<1>8. x \in Session
    BY <1>1, <1>2, <1>5, <1>6 DEF Idle, Session, Files
<1>9. SessionOK(x)
    BY <1>1, <1>2, <1>5, <1>6, <1>7 DEF Idle, SessionOK, HoldsSupplier
<1>10. Step(r, x)
    BY <1>1 DEF SubmitResponse, Begin, Step
<1> QED
    BY <1>8, <1>9, <1>10, BeginIInv DEF SubmitResponse

\* A supplier's workspace is saved as the session holds it.
LEMMA SupplierSaveIInv ==
    ASSUME IInv, NEW r \in Requests, NEW x \in Session, SessionOK(x), HoldsSupplier(session[r]),
           supplier' = [supplier EXCEPT ![session[r].of] = session[r].supplier],
           Save(r, session[r].of, x), x.files = {},
           UNCHANGED <<buyer, order, newest>>,
           announced' \in SUBSET Orders,
           \A o \in announced' : order[o] # None
    PROVE  IInv'
<1>1. session[r].of \in Files \cup {None}
    BY DEF HoldsSupplier, Files
<1>2. Only(session[r].of) /\ Grows
    BY DEF Only, Grows, IInv, TypeOK
<1>3. FilesType'
    BY DEF IInv, TypeOK, FilesType, HoldsSupplier
<1>4. FilesOK'
  <2>1. \A s \in Suppliers : SupplierOK(s, supplier'[s])
      BY DEF IInv, TypeOK, FilesOK, HoldsSupplier
  <2> QED
      BY <2>1, <1>3 DEF IInv, FilesOK, FilesType, SupplierOK, BuyerOK, Ordered, Has
<1>5. SessionOK(x)'
    BY DEF SessionOK, HoldsSupplier, SupplierOK, HoldsBuyer, BuyerOK, KeepsResponses,
       Ordered, Has, HoldsSelection, HoldsNewOrder, HoldsRow, KeepsClosed
<1> QED
    BY <1>1, <1>2, <1>3, <1>4, <1>5, StepIInv

LEMMA AppendMessageIInv ==
    ASSUME IInv, NEW r \in Requests, AppendMessage(r)
    PROVE  IInv'
<1>1. PICK x : x = [Idle EXCEPT !.pc = "load", !.of = session[r].of]
    OBVIOUS
<1>2. HoldsSupplier(session[r])
    BY Relies DEF AppendMessage, SessionOK
<1>3. x \in Session /\ SessionOK(x) /\ x.files = {}
    BY <1>1, <1>2 DEF Idle, Session, SessionOK, HoldsSupplier
<1>4. announced' \in SUBSET Orders /\ \A o \in announced' : order[o] # None
    BY AnnouncedExist DEF AppendMessage
<1> QED
    BY <1>1, <1>2, <1>3, <1>4, SupplierSaveIInv DEF AppendMessage

LEMMA LoadMessagesIInv ==
    ASSUME IInv, NEW r \in Requests, LoadMessages(r)
    PROVE  IInv'
<1>1. PICK can \in Answers :
          Step(r, [Idle EXCEPT !.pc = "packet", !.files = {session[r].of}, !.of = session[r].of,
                               !.supplier = [supplier[session[r].of] EXCEPT
                                   !.packet = [of |-> supplier[session[r].of].messages, can |-> can],
                                   !.status = "response_draft_ready"]])
    BY DEF LoadMessages
<1>2. PICK s : s = session[r].of
    OBVIOUS
<1>3. s \in Suppliers
    BY <1>2, Relies DEF LoadMessages, SessionOK
<1>4. PICK w : w = [supplier[s] EXCEPT !.packet = [of |-> supplier[s].messages, can |-> can],
                                       !.status = "response_draft_ready"]
    OBVIOUS
<1>5. w \in Supplier /\ w.status = "response_draft_ready" /\ w.messages = supplier[s].messages
  <2>1. supplier[s] \in Supplier
      BY <1>3 DEF IInv, TypeOK
  <2>2. [of |-> supplier[s].messages, can |-> can] \in Offer
      BY <2>1, OrderExecutionAssumption DEF Supplier, Offer
  <2> QED
      BY <1>4, <2>1, <2>2 DEF Supplier
<1>6. PICK x : x = [Idle EXCEPT !.pc = "packet", !.files = {s}, !.of = s, !.supplier = w]
    OBVIOUS
<1>7. x \in Session
    BY <1>3, <1>5, <1>6 DEF Idle, Session, Files
<1>8. supplier[s].messages >= supplier[s].messages
    BY <1>3, OrderExecutionAssumption DEF IInv, TypeOK, Supplier, Count
<1>9. SessionOK(x)
  <2>1. /\ x.pc = "packet" /\ x.of = s /\ x.supplier = w
        /\ x.files = {s} /\ x.stale = {}
      BY <1>6 DEF Idle
  <2>2. SupplierOK(s, w) /\ KeepsMessages(s, w)
      BY <1>5, <1>8 DEF SupplierOK, KeepsMessages
  <2>3. HoldsSupplier(x)
      BY <1>3, <1>5, <2>1, <2>2 DEF HoldsSupplier
  <2> QED
      BY <2>1, <2>3 DEF SessionOK
<1>10. Step(r, x)
    BY <1>1, <1>2, <1>4, <1>6
<1> QED
    BY <1>7, <1>9, <1>10, BeginIInv DEF LoadMessages

LEMMA SavePacketIInv ==
    ASSUME IInv, NEW r \in Requests, SavePacket(r)
    PROVE  IInv'
<1>1. HoldsSupplier(session[r])
    BY Relies DEF SavePacket, SessionOK
<1>2. Idle.files = {}
    BY DEF Idle
<1>3. announced' \in SUBSET Orders /\ \A o \in announced' : order[o] # None
    BY AnnouncedExist DEF SavePacket
<1> QED
    BY <1>1, <1>2, <1>3, IdleOK, SupplierSaveIInv DEF SavePacket

-----------------------------------------------------------------------------
(***************************************************************************)
(* The buyer's workspace                                                   *)
(***************************************************************************)
\* A request is about to write w.
LEMMA WritingIInv ==
    ASSUME IInv, NEW r \in Requests, NEW w \in Buyer, Begin(r, Writing(w)),
           BuyerOK(w), KeepsResponses(w),
           UNCHANGED <<buyer, supplier, order, newest, announced>>
    PROVE  IInv'
<1>1. PICK x : x = Writing(w)
    OBVIOUS
<1>2. x \in Session
    BY <1>1 DEF Writing, Idle, Session, Files
<1>3. SessionOK(x)
    BY <1>1 DEF Writing, Idle, SessionOK, HoldsBuyer
<1>4. Step(r, x)
    BY <1>1 DEF Begin, Step
<1> QED
    BY <1>2, <1>3, <1>4, BeginIInv

LEMMA BuyerIsBuyer == ASSUME IInv PROVE buyer \in Buyer /\ BuyerOK(buyer)
BY DEF IInv, TypeOK, FilesOK

LEMMA PushResponseIInv ==
    ASSUME IInv, NEW r \in Requests, NEW s \in Suppliers, PushResponse(r, s)
    PROVE  IInv'
<1>1. PICK w, offer : w = buyer /\ offer = supplier[s].packet
    OBVIOUS
<1>2. w \in Buyer /\ BuyerOK(w) /\ offer \in Offer /\ offer # NoOffer
    BY <1>1, BuyerIsBuyer DEF PushResponse, IInv, TypeOK, Supplier
<1>3. PICK v : v = WithResponse(w, s, offer)
    OBVIOUS
<1>4. /\ v \in Buyer
      /\ v.paths = w.paths /\ v.selected = w.selected
      /\ v.status = "supplier_selected" => w.status = "supplier_selected"
      /\ \A q \in Suppliers : v.response[q] = IF q = s THEN offer ELSE w.response[q]
    BY <1>2, <1>3 DEF WithResponse, Buyer
<1>5. BuyerOK(v) /\ KeepsResponses(v)
    BY <1>1, <1>2, <1>4 DEF BuyerOK, KeepsResponses
<1>6. Begin(r, Writing(v))
    BY <1>1, <1>3 DEF PushResponse
<1> QED
    BY <1>4, <1>5, <1>6, WritingIInv DEF PushResponse

LEMMA PathsType == ASSUME NEW w \in Buyer PROVE PathsOf(w) \in SUBSET Path
BY DEF PathsOf, Path, Buyer

LEMMA RunSimulationIInv ==
    ASSUME IInv, NEW r \in Requests, RunSimulation(r)
    PROVE  IInv'
<1>1. PICK best \in IF PathsOf(buyer) = {} THEN {None} ELSE PathsOf(buyer) :
          Begin(r, Writing(Simulated(buyer, best)))
    BY DEF RunSimulation
<1>2. PICK w : w = buyer
    OBVIOUS
<1>3. w \in Buyer /\ PathsOf(w) \in SUBSET Path /\ best \in Path \cup {None}
    BY <1>1, <1>2, BuyerIsBuyer, PathsType
<1>4. PICK v : v = Simulated(w, best)
    OBVIOUS
<1>5. v \in Buyer /\ v.status = "feasibility_complete" /\ v.response = w.response
    BY <1>3, <1>4 DEF Simulated, Buyer
<1>6. BuyerOK(v) /\ KeepsResponses(v)
    BY <1>2, <1>5 DEF BuyerOK, KeepsResponses
<1>7. Begin(r, Writing(v))
    BY <1>1, <1>2, <1>4
<1> QED
    BY <1>5, <1>6, <1>7, WritingIInv DEF RunSimulation

LEMMA FollowUpIInv ==
    ASSUME IInv, NEW r \in Requests, FollowUp(r)
    PROVE  IInv'
<1>1. PICK v : v = [buyer EXCEPT !.status = "requirement_structured"]
    OBVIOUS
<1>2. v \in Buyer /\ v.status = "requirement_structured" /\ v.response = buyer.response
    BY <1>1, BuyerIsBuyer DEF Buyer
<1>3. BuyerOK(v) /\ KeepsResponses(v)
    BY <1>2 DEF BuyerOK, KeepsResponses
<1>4. Begin(r, Writing(v))
    BY <1>1 DEF FollowUp
<1> QED
    BY <1>2, <1>3, <1>4, WritingIInv DEF FollowUp

\* The buyer's workspace is saved as the session holds it.
LEMMA BuyerSaveIInv ==
    ASSUME IInv, NEW r \in Requests, NEW x \in Session, SessionOK(x),
           session[r].buyer \in Buyer, BuyerOK(session[r].buyer),
           buyer' = session[r].buyer, Save(r, Workspace, x), x.files = {},
           UNCHANGED <<supplier, order, newest, announced>>
    PROVE  IInv'
<1>1. Workspace \in Files \cup {None}
    BY DEF Files
<1>2. Only(Workspace) /\ Grows
    BY DEF Only, Grows
<1>3. FilesType'
    BY DEF IInv, TypeOK, FilesType
<1>4. FilesOK'
    BY DEF IInv, FilesOK, SupplierOK, BuyerOK, Ordered, Has
<1>5. SessionOK(x)'
    BY DEF SessionOK, HoldsSupplier, SupplierOK, KeepsMessages, HoldsBuyer, BuyerOK,
       Ordered, Has, HoldsSelection, HoldsNewOrder, HoldsRow, KeepsClosed
<1> QED
    BY <1>1, <1>2, <1>3, <1>4, <1>5, StepIInv

LEMMA SaveBuyerIInv ==
    ASSUME IInv, NEW r \in Requests, SaveBuyer(r)
    PROVE  IInv'
<1>1. session[r].buyer \in Buyer /\ BuyerOK(session[r].buyer)
    BY Relies DEF SaveBuyer, SessionOK, HoldsBuyer
<1>2. Idle.files = {}
    BY DEF Idle
<1> QED
    BY <1>1, <1>2, IdleOK, BuyerSaveIInv DEF SaveBuyer

-----------------------------------------------------------------------------
(***************************************************************************)
(* Selecting a path                                                        *)
(***************************************************************************)
LEMMA SelectPathIInv ==
    ASSUME IInv, NEW r \in Requests, NEW path \in buyer.paths, SelectPath(r, path)
    PROVE  IInv'
<1>1. PICK w : w = [buyer EXCEPT !.selected = path, !.status = "supplier_selected"]
    OBVIOUS
<1>2. /\ w \in Buyer /\ path \in Path
      /\ w.selected = path /\ path \in w.paths /\ w.response = buyer.response
    BY <1>1, BuyerIsBuyer DEF Buyer
<1>3. PICK x : x = [Writing(w) EXCEPT !.pc = "order", !.path = path]
    OBVIOUS
<1>4. /\ x \in Session
      /\ x.pc = "order" /\ x.path = path /\ x.buyer = w
      /\ x.files = {Workspace} /\ x.stale = {}
    BY <1>2, <1>3 DEF Writing, Idle, Session, Files
<1>5. SessionOK(x)
    BY <1>2, <1>4 DEF SessionOK, HoldsBuyer, HoldsSelection, KeepsResponses
<1>6. Step(r, x)
    BY <1>1, <1>3 DEF SelectPath, Begin, Step
<1> QED
    BY <1>4, <1>5, <1>6, BeginIInv DEF SelectPath

LEMMA NewOrderType ==
    ASSUME NEW path \in Path
    PROVE  /\ NewOrder(path) \in Order
           /\ NewOrder(path).path = path
           /\ NewOrder(path).status = "order_acknowledgement_pending"
           /\ NewOrder(path) # None
           /\ RowOK(NewOrder(path))
<1>1. PICK row : row = NewOrder(path)
    OBVIOUS
<1>2. row = [status |-> "order_acknowledgement_pending", path |-> path, confirmed |-> FALSE]
    BY <1>1 DEF NewOrder
<1>3. row \in Order /\ row.path = path /\ row.status = "order_acknowledgement_pending"
    BY <1>2 DEF Order
<1>4. row # None /\ RowOK(row)
    BY <1>3, NoneIsNoOrder DEF RowOK
<1> QED
    BY <1>1, <1>3, <1>4

LEMMA SaveOrderIInv ==
    ASSUME IInv, NEW r \in Requests, NEW o \in Orders, SaveOrder(r, o)
    PROVE  IInv'
<1>1. PICK x : x = session[r]
    OBVIOUS
<1>2. /\ x \in Session /\ x.pc = "order" /\ x.path \in Path /\ x.files = {Workspace}
      /\ HoldsBuyer(x) /\ HoldsSelection(x) /\ x.stale \subseteq {Workspace}
    BY <1>1, Relies DEF SaveOrder, SessionOK, HoldsSelection
<1>3. PICK row : row = NewOrder(x.path)
    OBVIOUS
<1>4. /\ row \in Order /\ row.path = x.path /\ row # None /\ RowOK(row)
      /\ row.status = "order_acknowledgement_pending"
    BY <1>2, <1>3, NewOrderType
<1>5. PICK y : y = [x EXCEPT !.pc = "plan", !.order = o, !.files = @ \cup {o}]
    OBVIOUS
<1>6. /\ y \in Session /\ y.pc = "plan" /\ y.order = o /\ y.path = x.path /\ y.buyer = x.buyer
      /\ y.files = {Workspace, o} /\ y.stale = x.stale
    BY <1>2, <1>5 DEF Session, Files
<1>7. order[o] = None /\ order' = [order EXCEPT ![o] = row]
    BY <1>1, <1>3 DEF SaveOrder
<1>8. /\ order'[o] = row
      /\ \A q \in Orders : q # o => order'[q] = order[q]
    BY <1>7 DEF IInv, TypeOK
<1>9. UNCHANGED <<buyer, supplier, newest, announced>>
    BY DEF SaveOrder
<1>10. Save(r, None, y)
    BY <1>1, <1>5, StepIsSave DEF SaveOrder
<1>11. Only(None) /\ Grows
    BY <1>7, <1>8, <1>9 DEF Only, Grows
<1>12. FilesType'
    BY <1>4, <1>7, <1>9 DEF IInv, TypeOK, FilesType
<1>13. FilesOK'
  <2>1. BuyerOK(buyer)'
      BY <1>7, <1>8, <1>9 DEF IInv, FilesOK, BuyerOK, Ordered, Has
  <2>2. \A s \in Suppliers : SupplierOK(s, supplier[s])'
      BY <1>7, <1>8, <1>9 DEF IInv, FilesOK, SupplierOK
  <2>3. \A q \in Orders : order'[q] # None => RowOK(order'[q])
      BY <1>4, <1>8 DEF IInv, FilesOK
  <2>4. \A q \in announced' \cup {newest'} : q # None => q \in Orders /\ order'[q] # None
      BY <1>4, <1>8, <1>9 DEF IInv, FilesOK
  <2> QED
      BY <2>1, <2>2, <2>3, <2>4 DEF FilesOK, RowOK
<1>14. SessionOK(y)'
  <2>1. HoldsBuyer(y)'
      BY <1>2, <1>6, <1>9 DEF HoldsBuyer, KeepsResponses
  <2>2. HoldsSelection(y)'
      BY <1>2, <1>6 DEF HoldsSelection
  <2>3. Has(y.order, y.path)' /\ HoldsNewOrder(y)'
      BY <1>4, <1>6, <1>8 DEF Has, HoldsNewOrder, Closed
  <2> QED
      BY <2>1, <2>2, <2>3, <1>2, <1>6 DEF SessionOK
<1> QED
    BY <1>6, <1>9, <1>10, <1>11, <1>12, <1>13, <1>14, StepIInv

\* What is left to do once the order is on file.
LEMMA SelectingType ==
    ASSUME IInv, NEW r \in Requests, session[r].pc \in {"plan", "planned"}
    PROVE  Selecting(r) \in Session /\ SessionOK(Selecting(r))
<1>1. PICK x : x = session[r]
    OBVIOUS
<1>2. /\ x \in Session /\ x.pc \in {"plan", "planned"} /\ x.path \in Path
      /\ x.stale \subseteq x.files
      /\ HoldsBuyer(x) /\ HoldsSelection(x) /\ Has(x.order, x.path)
    BY <1>1, Relies DEF SessionOK, HoldsSelection
<1>3. PICK y : y = Selecting(r)
    OBVIOUS
<1>4. /\ y \in Session /\ y.pc = "select" /\ y.path = x.path /\ y.buyer = x.buyer
      /\ y.order = x.order
      /\ y.files = x.files \cap {Workspace} /\ y.stale = x.stale \cap {Workspace}
    BY <1>1, <1>2, <1>3 DEF Selecting, Session
<1>5. HoldsBuyer(y) /\ HoldsSelection(y) /\ Has(y.order, y.path)
    BY <1>2, <1>4 DEF HoldsBuyer, HoldsSelection, Has
<1> QED
    BY <1>2, <1>3, <1>4, <1>5 DEF SessionOK

LEMMA CreatePlanIInv ==
    ASSUME IInv, NEW r \in Requests, CreatePlan(r)
    PROVE  IInv'
<1>1. PICK x : x = session[r]
    OBVIOUS
<1>2. x \in Session /\ SessionOK(x) /\ x.pc = "plan"
    BY <1>1, Relies DEF CreatePlan
<1>3. x.order \in Orders /\ order[x.order] # None
    BY <1>2 DEF SessionOK, Has
<1>4. CASE newest' = x.order /\ Step(r, [x EXCEPT !.pc = "planned"])
  <2>1. PICK y : y = [x EXCEPT !.pc = "planned"]
      OBVIOUS
  <2>2. y \in Session /\ SessionOK(y)
      BY <1>2, <2>1 DEF Session, SessionOK, HoldsBuyer, HoldsSelection, HoldsNewOrder
  <2>3. /\ newest' \in Orders \cup {None} /\ announced' \in SUBSET Orders
        /\ \A o \in announced' \cup {newest'} : o # None => o \in Orders /\ order[o] # None
      BY <1>3, <1>4 DEF CreatePlan, IInv, TypeOK, FilesOK
  <2> QED
      BY <1>4, <2>1, <2>2, <2>3, ReadIInv DEF CreatePlan
<1>5. CASE newest' = newest /\ Step(r, Selecting(r))
    BY <1>1, <1>2, <1>5, SelectingType, BeginIInv DEF CreatePlan
<1> QED
    BY <1>1, <1>4, <1>5 DEF CreatePlan

\* An order is saved for the path it had, by a request that then holds no order.
LEMMA OrderSaveIInv ==
    ASSUME IInv, NEW r \in Requests, NEW x \in Session, SessionOK(x),
           NEW o \in Orders, order[o] # None, NEW row \in Order, row.path = order[o].path,
           RowOK(row), order' = [order EXCEPT ![o] = row], Save(r, o, x),
           x.pc \in {"idle", "select"},
           UNCHANGED <<buyer, supplier, newest, announced>>
    PROVE  IInv'
<1>1. /\ order'[o] = row /\ row # None
      /\ \A q \in Orders : q # o => order'[q] = order[q]
    BY NoneIsNoOrder DEF IInv, TypeOK
<1>2. o \in Files \cup {None}
    BY DEF Files
<1>3. Only(o) /\ Grows
    BY <1>1 DEF Only, Grows
<1>4. FilesType'
    BY DEF IInv, TypeOK, FilesType
<1>5. FilesOK'
  <2>1. BuyerOK(buyer)'
      BY <1>1 DEF IInv, FilesOK, BuyerOK, Ordered, Has
  <2>2. \A s \in Suppliers : SupplierOK(s, supplier[s])'
      BY <1>1 DEF IInv, FilesOK, SupplierOK
  <2>3. \A q \in Orders : order'[q] # None => RowOK(order'[q])
      BY <1>1 DEF IInv, FilesOK
  <2>4. \A q \in announced' \cup {newest'} : q # None => q \in Orders /\ order'[q] # None
      BY <1>1 DEF IInv, FilesOK
  <2> QED
      BY <2>1, <2>2, <2>3, <2>4 DEF FilesOK, RowOK
<1>6. SessionOK(x)'
    BY <1>1 DEF SessionOK, HoldsBuyer, KeepsResponses, HoldsSelection, Has
<1> QED
    BY <1>2, <1>3, <1>4, <1>5, <1>6, StepIInv

LEMMA SavePlannedIInv ==
    ASSUME IInv, NEW r \in Requests, SavePlanned(r)
    PROVE  IInv'
<1>1. PICK x, o, y : x = session[r] /\ o = session[r].order /\ y = Selecting(r)
    OBVIOUS
<1>2. /\ x \in Session /\ x.path \in Path /\ x.order = o /\ Has(o, x.path) /\ o \in Orders
      /\ y \in Session /\ SessionOK(y)
    BY <1>1, Relies, SelectingType DEF SavePlanned, SessionOK, Has
<1>3. PICK row : row = NewOrder(x.path)
    OBVIOUS
<1>4. row \in Order /\ row.path = x.path /\ row # None /\ RowOK(row)
    BY <1>2, <1>3, NewOrderType
<1>5. /\ order' = [order EXCEPT ![o] = row]
      /\ UNCHANGED <<buyer, supplier, newest, announced>>
    BY <1>1, <1>3 DEF SavePlanned
<1>6. y.pc \in {"idle", "select"} /\ order[o] # None /\ row.path = order[o].path
    BY <1>1, <1>2, <1>4 DEF Selecting, Session, Has
<1> QED
    BY <1>1, <1>2, <1>4, <1>5, <1>6, OrderSaveIInv DEF SavePlanned

LEMMA SaveSelectionIInv ==
    ASSUME IInv, NEW r \in Requests, SaveSelection(r)
    PROVE  IInv'
<1>1. PICK x : x = session[r]
    OBVIOUS
<1>2. /\ x \in Session /\ x.buyer \in Buyer /\ Has(x.order, x.path) /\ x.path \in Path
      /\ HoldsSelection(x)
    BY <1>1, Relies DEF SaveSelection, SessionOK, HoldsBuyer
<1>3. BuyerOK(x.buyer)
    BY <1>2 DEF HoldsSelection, BuyerOK, Ordered, Has
<1>4. PICK y : y = [Idle EXCEPT !.pc = "notify", !.path = x.path, !.order = x.order]
    OBVIOUS
<1>5. y \in Session /\ y.files = {}
    BY <1>2, <1>4 DEF Idle, Session, Has
<1>6. SessionOK(y)
    BY <1>2, <1>4 DEF Idle, SessionOK, Has
<1> QED
    BY <1>1, <1>2, <1>3, <1>4, <1>5, <1>6, BuyerSaveIInv DEF SaveSelection

LEMMA LoadSelectedIInv ==
    ASSUME IInv, NEW r \in Requests, LoadSelected(r)
    PROVE  IInv'
<1>1. PICK x, s : x = session[r] /\ s = session[r].path.of
    OBVIOUS
<1>2. /\ x \in Session /\ x.pc = "notify" /\ SessionOK(x)
      /\ s \in Suppliers /\ x.path.of = s /\ Has(x.order, x.path)
    BY <1>1, Relies DEF LoadSelected, SessionOK, Path
<1>3. PICK w : w = [supplier[s] EXCEPT !.status = "selected_by_buyer"]
    OBVIOUS
<1>4. w \in Supplier /\ w.messages = supplier[s].messages
    BY <1>2, <1>3 DEF IInv, TypeOK, Supplier
<1>5. SupplierOK(s, w) /\ KeepsMessages(s, w)
  <2>1. supplier[s].messages \in Nat
      BY <1>2, OrderExecutionAssumption DEF IInv, TypeOK, Supplier, Count
  <2> QED
      BY <1>2, <1>4, <2>1 DEF SupplierOK, KeepsMessages, Has
<1>6. PICK y : y = [x EXCEPT !.pc = "mark", !.files = {s}, !.of = s, !.supplier = w]
    OBVIOUS
<1>7. y \in Session
    BY <1>2, <1>4, <1>6 DEF Session, Files
<1>8. SessionOK(y)
    BY <1>2, <1>4, <1>5, <1>6 DEF Session, SessionOK, HoldsSupplier
<1>9. Step(r, y)
    BY <1>1, <1>3, <1>6 DEF LoadSelected, SupplierWorkspaces
<1> QED
    BY <1>7, <1>8, <1>9, BeginIInv DEF LoadSelected

LEMMA OverlookedIInv ==
    ASSUME IInv, NEW r \in Requests, Overlooked(r)
    PROVE  IInv'
<1>1. Has(session[r].order, session[r].path)
    BY Relies DEF Overlooked, SessionOK
<1>2. /\ newest' \in Orders \cup {None} /\ announced' \in SUBSET Orders
      /\ \A o \in announced' \cup {newest'} : o # None => o \in Orders /\ order[o] # None
    BY <1>1 DEF Overlooked, Has, IInv, TypeOK, FilesOK
<1> QED
    BY <1>2, IdleOK, ReadIInv DEF Overlooked

LEMMA MarkSelectedIInv ==
    ASSUME IInv, NEW r \in Requests, MarkSelected(r)
    PROVE  IInv'
<1>1. HoldsSupplier(session[r]) /\ Has(session[r].order, session[r].path)
    BY Relies DEF MarkSelected, SessionOK
<1>2. announced' \in SUBSET Orders /\ \A o \in announced' : order[o] # None
    BY <1>1, AnnouncedExist DEF MarkSelected, Has
<1>3. Idle.files = {}
    BY DEF Idle
<1> QED
    BY <1>1, <1>2, <1>3, IdleOK, SupplierSaveIInv DEF MarkSelected

-----------------------------------------------------------------------------
(***************************************************************************)
(* The order                                                               *)
(***************************************************************************)
\* A request is about to write a row it made from the order's.
LEMMA UpdatingIInv ==
    ASSUME IInv, NEW r \in Requests, NEW o \in Orders, order[o] # None,
           NEW row \in Order, row.path = order[o].path, RowOK(row), KeepsClosed(o, row),
           Begin(r, [Idle EXCEPT !.pc = "write", !.files = {o}, !.order = o, !.row = row]),
           UNCHANGED <<buyer, supplier, order, newest, announced>>
    PROVE  IInv'
<1>1. PICK x : x = [Idle EXCEPT !.pc = "write", !.files = {o}, !.order = o, !.row = row]
    OBVIOUS
<1>2. x \in Session
    BY <1>1 DEF Idle, Session, Files
<1>3. SessionOK(x)
    BY <1>1 DEF Idle, SessionOK, HoldsRow
<1>4. Step(r, x)
    BY <1>1 DEF Begin, Step
<1> QED
    BY <1>2, <1>3, <1>4, BeginIInv

\* What the messages of a supplier make of a row.
LEMMA MessageEffect ==
    ASSUME NEW old \in Order, RowOK(old),
           NEW row \in {Acknowledged(old), Produced(old), Inspected(old), Shipped(old),
                        Delivered(old)}
    PROVE  /\ row \in Order /\ row.path = old.path /\ RowOK(row)
           /\ old.status = Closed => row.status \in Reopening
<1>1. CASE row = Acknowledged(old)
    BY <1>1 DEF Acknowledged, Order, RowOK, Reopening
<1>2. CASE row = Produced(old)
    BY <1>2 DEF Produced, Order, RowOK, Reopening, Closed
<1>3. CASE row = Inspected(old)
    BY <1>3 DEF Inspected, Order, RowOK, Reopening, Closed
<1>4. CASE row = Shipped(old)
    BY <1>4 DEF Shipped, Order, RowOK, Reopening
<1>5. CASE row = Delivered(old)
    BY <1>5 DEF Delivered, Order, RowOK, Reopening
<1> QED
    BY <1>1, <1>2, <1>3, <1>4, <1>5

LEMMA ReceiveMessageIInv ==
    ASSUME IInv, NEW r \in Requests, NEW o \in Orders, ReceiveMessage(r, o)
    PROVE  IInv'
<1>1. PICK old : old = order[o]
    OBVIOUS
<1>2. old # None /\ old \in Order /\ RowOK(old)
    BY <1>1, AnnouncedExist DEF ReceiveMessage, IInv, TypeOK, FilesOK
<1>3. PICK row \in {Acknowledged(old), Produced(old), Inspected(old), Shipped(old),
                    Delivered(old)} :
          Begin(r, [Idle EXCEPT !.pc = "write", !.files = {o}, !.order = o, !.row = row])
    BY <1>1 DEF ReceiveMessage
<1>4. row \in Order /\ row.path = order[o].path /\ RowOK(row) /\ KeepsClosed(o, row)
    BY <1>1, <1>2, MessageEffect DEF KeepsClosed
<1> QED
    BY <1>1, <1>2, <1>3, <1>4, UpdatingIInv DEF ReceiveMessage

LEMMA SignOffIInv ==
    ASSUME IInv, NEW r \in Requests, NEW o \in Orders, SignOff(r, o)
    PROVE  IInv'
<1>1. PICK old, row : old = order[o] /\ row = [old EXCEPT !.status = "ORDER_CLOSED"]
    OBVIOUS
<1>2. o # None
    BY OrderExecutionAssumption DEF Files
<1>3. old # None /\ old \in Order
    BY <1>1, <1>2 DEF SignOff, IInv, TypeOK, FilesOK
<1>4. row \in Order /\ row.path = old.path /\ row.status = "ORDER_CLOSED"
    BY <1>1, <1>3 DEF Order
<1>5. RowOK(row) /\ KeepsClosed(o, row)
    BY <1>4 DEF RowOK, KeepsClosed, Reopening, Closed
<1>6. Begin(r, [Idle EXCEPT !.pc = "write", !.files = {o}, !.order = o, !.row = row])
    BY <1>1 DEF SignOff
<1> QED
    BY <1>1, <1>3, <1>4, <1>5, <1>6, UpdatingIInv DEF SignOff

LEMMA SaveUpdateIInv ==
    ASSUME IInv, NEW r \in Requests, SaveUpdate(r)
    PROVE  IInv'
<1>1. PICK o, row : o = session[r].order /\ row = session[r].row
    OBVIOUS
<1>2. o \in Orders /\ order[o] # None /\ row \in Order /\ row.path = order[o].path /\ RowOK(row)
    BY <1>1, Relies DEF SaveUpdate, SessionOK, HoldsRow
<1>3. Idle.pc \in {"idle", "select"}
    BY DEF Idle
<1> QED
    BY <1>1, <1>2, <1>3, IdleOK, OrderSaveIInv DEF SaveUpdate

LEMMA NextIInv == IInv /\ [Next]_vars => IInv'
<1> SUFFICES ASSUME IInv, [Next]_vars PROVE IInv'
    OBVIOUS
<1>1. CASE UNCHANGED vars
  <2>1. UNCHANGED <<buyer, supplier, order, newest, session, announced>>
      BY <1>1 DEF vars
  <2> QED
      BY <2>1 DEF IInv, TypeOK, FilesOK, SessionOK, BuyerOK, SupplierOK, RowOK, Ordered, Has,
         HoldsSupplier, HoldsBuyer, HoldsSelection, HoldsNewOrder, HoldsRow, KeepsMessages,
         KeepsResponses, KeepsClosed
<1>2. ASSUME NEW r \in Requests, NEW s \in Suppliers, SubmitResponse(r, s) \/ PushResponse(r, s)
      PROVE  IInv'
    BY <1>2, SubmitResponseIInv, PushResponseIInv
<1>3. ASSUME NEW r \in Requests, AppendMessage(r) \/ LoadMessages(r) \/ SavePacket(r)
      PROVE  IInv'
    BY <1>3, AppendMessageIInv, LoadMessagesIInv, SavePacketIInv
<1>4. ASSUME NEW r \in Requests, RunSimulation(r) \/ FollowUp(r) \/ SaveBuyer(r)
      PROVE  IInv'
    BY <1>4, RunSimulationIInv, FollowUpIInv, SaveBuyerIInv
<1>5. ASSUME NEW r \in Requests, NEW path \in buyer.paths, SelectPath(r, path) PROVE IInv'
    BY <1>5, SelectPathIInv
<1>6. ASSUME NEW r \in Requests, NEW o \in Orders,
             SaveOrder(r, o) \/ ReceiveMessage(r, o) \/ SignOff(r, o)
      PROVE  IInv'
    BY <1>6, SaveOrderIInv, ReceiveMessageIInv, SignOffIInv
<1>7. ASSUME NEW r \in Requests, CreatePlan(r) \/ SavePlanned(r) \/ SaveSelection(r)
      PROVE  IInv'
    BY <1>7, CreatePlanIInv, SavePlannedIInv, SaveSelectionIInv
<1>8. ASSUME NEW r \in Requests, LoadSelected(r) \/ Overlooked(r) \/ MarkSelected(r)
      PROVE  IInv'
    BY <1>8, LoadSelectedIInv, OverlookedIInv, MarkSelectedIInv
<1>9. ASSUME NEW r \in Requests, SaveUpdate(r) PROVE IInv'
    BY <1>9, SaveUpdateIInv
<1>10. ASSUME NEW r \in Requests, Abort(r) PROVE IInv'
    BY <1>10, IdleOK, BeginIInv DEF Abort
<1> QED
    BY <1>1, <1>2, <1>3, <1>4, <1>5, <1>6, <1>7, <1>8, <1>9, <1>10, Zenon DEF Next

LEMMA SpecIInv == Spec => []IInv
BY InitIInv, NextIInv, PTL DEF Spec

-----------------------------------------------------------------------------
(***************************************************************************)
(* Theorems                                                                *)
(***************************************************************************)
\* Files and copies hold the values the code allows.
THEOREM TypeCorrect == Spec => []TypeOK
<1>1. IInv => TypeOK
    BY DEF IInv
<1> QED
    BY <1>1, SpecIInv, PTL

\* A selection the buyer's workspace shows has an order for exactly that path, whichever
\* requests overlap, overwrite each other or die.
THEOREM SelectionsAreOrdered == Spec => []SelectedMeansOrdered
<1>1. IInv => SelectedMeansOrdered
    BY DEF IInv, FilesOK, BuyerOK, Ordered, Has, SelectedMeansOrdered
<1> QED
    BY <1>1, SpecIInv, PTL

\* A supplier shown as selected has an order.
THEOREM SelectedSuppliersAreOrdered == Spec => []SelectedSupplierHasOrder
<1>1. IInv => SelectedSupplierHasOrder
    BY DEF IInv, FilesOK, SupplierOK, SelectedSupplierHasOrder
<1> QED
    BY <1>1, SpecIInv, PTL

\* An order in production or inspected was acknowledged.
THEOREM ProductionIsAcknowledged == Spec => []ProductionMeansAcknowledged
<1>1. IInv => ProductionMeansAcknowledged
    BY DEF IInv, FilesOK, RowOK, ProductionMeansAcknowledged
<1> QED
    BY <1>1, SpecIInv, PTL

-----------------------------------------------------------------------------
(***************************************************************************)
(* What a step may never do                                                *)
(***************************************************************************)
\* The steps that save each of the files.
LEMMA SavesSupplier ==
    ASSUME [Next]_vars, supplier' # supplier
    PROVE  \E r \in Requests : AppendMessage(r) \/ SavePacket(r) \/ MarkSelected(r)
<1>1. CASE UNCHANGED vars
    BY <1>1 DEF vars
<1>2. CASE Next
    BY <1>2, Zenon
       DEF Next, SubmitResponse, PushResponse, LoadMessages, RunSimulation, FollowUp,
           SaveBuyer, SelectPath, SaveOrder, ReceiveMessage, SignOff, CreatePlan,
           SavePlanned, SaveSelection, LoadSelected, Overlooked, SaveUpdate, Abort
<1> QED
    BY <1>1, <1>2

LEMMA SavesBuyer ==
    ASSUME [Next]_vars, buyer' # buyer
    PROVE  \E r \in Requests : SaveBuyer(r) \/ SaveSelection(r)
<1>1. CASE UNCHANGED vars
    BY <1>1 DEF vars
<1>2. CASE Next
    BY <1>2, Zenon
       DEF Next, SubmitResponse, PushResponse, AppendMessage, LoadMessages, SavePacket,
           RunSimulation, FollowUp, SelectPath, SaveOrder, ReceiveMessage, SignOff,
           CreatePlan, SavePlanned, LoadSelected, Overlooked, MarkSelected,
           SaveUpdate, Abort
<1> QED
    BY <1>1, <1>2

LEMMA SavesOrder ==
    ASSUME [Next]_vars, order' # order
    PROVE  \E r \in Requests :
               \/ \E o \in Orders : SaveOrder(r, o)
               \/ SavePlanned(r)
               \/ SaveUpdate(r)
<1>1. CASE UNCHANGED vars
    BY <1>1 DEF vars
<1>2. CASE Next
    BY <1>2, Zenon
       DEF Next, SubmitResponse, PushResponse, AppendMessage, LoadMessages, SavePacket,
           RunSimulation, FollowUp, SaveBuyer, SelectPath, ReceiveMessage, SignOff,
           CreatePlan, SaveSelection, LoadSelected, Overlooked, MarkSelected, Abort
<1> QED
    BY <1>1, <1>2

LEMMA SaveEffect == ASSUME NEW r \in Requests, NEW f, NEW s, Save(r, f, s) PROVE session'[r] = s
BY DEF Save

LEMMA IdleFiles ==
    /\ Idle.files = {}
    /\ \A o, path : [Idle EXCEPT !.pc = "notify", !.path = path, !.order = o].files = {}
    /\ \A s : [Idle EXCEPT !.pc = "load", !.of = s].files = {}
BY DEF Idle

LEMMA MessagesStep ==
    ASSUME IInv, [Next]_vars, NEW s \in Suppliers,
           supplier'[s].messages < supplier[s].messages
    PROVE  OverwrittenBy(s)
<1>1. supplier[s].messages \in Nat
    BY OrderExecutionAssumption DEF IInv, TypeOK, Supplier, Count
<1>2. supplier' # supplier
    BY <1>1
<1>3. PICK r \in Requests : AppendMessage(r) \/ SavePacket(r) \/ MarkSelected(r)
    BY <1>2, SavesSupplier
<1>4. PICK x : x = session[r]
    OBVIOUS
<1>5. HoldsSupplier(x) /\ x.stale \subseteq x.files
    BY <1>3, <1>4, Relies DEF AppendMessage, SavePacket, MarkSelected, SessionOK
<1>6. supplier' = [supplier EXCEPT ![x.of] = x.supplier] /\ session'[r].files = {}
  <2>1. CASE AppendMessage(r)
      BY <2>1, <1>4, SaveEffect, IdleFiles DEF AppendMessage
  <2>2. CASE SavePacket(r) \/ MarkSelected(r)
      BY <2>2, <1>4, SaveEffect, IdleFiles DEF SavePacket, MarkSelected
  <2> QED
      BY <2>1, <2>2, <1>3
<1>7. s = x.of /\ supplier'[s] = x.supplier
    BY <1>1, <1>5, <1>6 DEF IInv, TypeOK, HoldsSupplier
<1>8. x.supplier.messages \in Nat
    BY <1>5, OrderExecutionAssumption DEF HoldsSupplier, Supplier, Count
<1>9. s \in x.stale
    BY <1>1, <1>5, <1>7, <1>8 DEF HoldsSupplier, KeepsMessages
<1> QED
    BY <1>4, <1>6, <1>9 DEF OverwrittenBy

LEMMA ResponsesStep ==
    ASSUME IInv, [Next]_vars, NEW s \in Suppliers,
           buyer.response[s] # NoOffer, buyer'.response[s] = NoOffer
    PROVE  OverwrittenBy(Workspace)
<1>1. PICK r \in Requests : SaveBuyer(r) \/ SaveSelection(r)
    BY SavesBuyer
<1>2. PICK x : x = session[r]
    OBVIOUS
<1>3. HoldsBuyer(x)
    BY <1>1, <1>2, Relies DEF SaveBuyer, SaveSelection, SessionOK
<1>4. buyer' = x.buyer /\ session'[r].files = {}
    BY <1>1, <1>2, SaveEffect, IdleFiles DEF SaveBuyer, SaveSelection
<1>5. Workspace \in x.stale
    BY <1>3, <1>4 DEF HoldsBuyer, KeepsResponses
<1> QED
    BY <1>2, <1>4, <1>5 DEF OverwrittenBy

LEMMA ReopenedStep ==
    ASSUME IInv, [Next]_vars, NEW o \in Orders, order[o] # None, order[o].status = "ORDER_CLOSED",
           order'[o].status \notin Reopening
    PROVE  OverwrittenBy(o)
<1>1. order' # order
    BY DEF Reopening, Closed
<1>2. PICK r \in Requests :
          \/ \E q \in Orders : SaveOrder(r, q)
          \/ SavePlanned(r)
          \/ SaveUpdate(r)
    BY <1>1, SavesOrder
<1>3. PICK x : x = session[r]
    OBVIOUS
<1>4. x \in Session /\ SessionOK(x)
    BY <1>3, Relies
<1>5. ASSUME NEW q \in Orders, SaveOrder(r, q) PROVE FALSE
  <2>1. q # o /\ order'[o] = order[o]
      BY <1>5 DEF SaveOrder, IInv, TypeOK
  <2> QED
      BY <2>1 DEF Reopening, Closed
<1>6. CASE SavePlanned(r)
  <2>1. Has(x.order, x.path) /\ HoldsNewOrder(x)
      BY <1>3, <1>4, <1>6 DEF SavePlanned, SessionOK
  <2>2. x.order = o
      BY <1>3, <1>6, <2>1 DEF SavePlanned, IInv, TypeOK, Has, Reopening, Closed
  <2>3. o \in x.stale
      BY <2>1, <2>2 DEF HoldsNewOrder, Closed
  <2>4. session'[r].files \subseteq {Workspace}
      BY <1>3, <1>4, <1>6 DEF SavePlanned, Save, Selecting, Session
  <2> QED
      BY <1>3, <2>3, <2>4, OrderExecutionAssumption DEF OverwrittenBy
<1>7. CASE SaveUpdate(r)
  <2>1. HoldsRow(x)
      BY <1>3, <1>4, <1>7 DEF SaveUpdate, SessionOK
  <2>2. x.order = o /\ order'[o] = x.row
      BY <1>3, <1>7, <2>1 DEF SaveUpdate, IInv, TypeOK, HoldsRow, Reopening, Closed
  <2>3. o \in x.stale
      BY <2>1, <2>2 DEF HoldsRow, KeepsClosed, Closed
  <2>4. session'[r].files = {}
      BY <1>7 DEF SaveUpdate, Save, Idle
  <2> QED
      BY <1>3, <2>3, <2>4 DEF OverwrittenBy
<1> QED
    BY <1>2, <1>5, <1>6, <1>7

\* Messages and responses outlast every later step but that of a request that loaded
\* their file before somebody else saved it.
THEOREM ResponsesStay == Spec => ResponsesAreKept
<1>1. IInv /\ [Next]_vars =>
          [\A s \in Suppliers :
              /\ supplier'[s].messages < supplier[s].messages => OverwrittenBy(s)
              /\ buyer.response[s] # NoOffer /\ buyer'.response[s] = NoOffer
                     => OverwrittenBy(Workspace)]_vars
    BY MessagesStep, ResponsesStep
<1> QED
    BY <1>1, SpecIInv, PTL DEF Spec, ResponsesAreKept

\* A closed order is reopened by a listed message or an overwriting request only.
THEOREM OnlyMessagesReopen == Spec => ReopenedByMessageOnly
<1>1. IInv /\ [Next]_vars =>
          [\A o \in Orders :
              order[o] # None /\ order[o].status = "ORDER_CLOSED" =>
                  \/ order'[o].status \in
                        {"ORDER_CLOSED", "order_acknowledged", "shipped", "buyer_signoff_pending"}
                  \/ OverwrittenBy(o)]_vars
    BY ReopenedStep DEF Reopening, Closed
<1> QED
    BY <1>1, SpecIInv, PTL DEF Spec, ReopenedByMessageOnly

-----------------------------------------------------------------------------
(***************************************************************************)
(* Conversations                                                           *)
(***************************************************************************)
Busy(r) == event[r].pc # "idle"
Bound(p) == \E b \in bindings : b.project = p

\* What an event holds at each point of its handler.
HoldsOK(x) ==
    /\ x.pc # "idle" => x.conv \in Convs
    /\ x.pc \in {"bind", "save", "draft", "approving", "rejecting"} => x.project \in started
    /\ x.pc \in {"idle", "workspace"} => x.project = Null
    /\ x.pc \in {"save", "draft"} => Bound(x.project)
    /\ x.pc \notin {"approving", "rejecting"} => x.todo = {}
    /\ x.pc # "approving" => x.outbound = {}
    /\ \A d \in x.todo \cup x.outbound :
          draft[d].status # "ABSENT" /\ draft[d].project = x.project
EventsOK == \A r \in Handlers : HoldsOK(event[r])

\* Two events of one conversation, or of one project, are known to overlap.
Apart ==
    \A q, r \in Handlers : q # r /\ Busy(q) /\ Busy(r) =>
        /\ event[q].conv = event[r].conv => event[q].conv \in overlapped
        /\ event[q].project = event[r].project /\ event[q].project # Null
              => event[q].project \in overlapped

\* A conversation that is being bound has no binding yet.
BindsFirst ==
    \A r \in Handlers :
        event[r].pc \in {"workspace", "bind"} /\ event[r].conv \notin overlapped =>
            \A b \in bindings : b.conv # event[r].conv

\* A follow-up about to save its workspace knows every field on file.
SavesMerged ==
    \A r \in Handlers :
        event[r].pc = "save" /\ event[r].project \notin overlapped =>
            known[event[r].project] \subseteq event[r].gives

\* Until events of its project overlap, a draft's status tells whether it was sent, and
\* who may still send it.
StatusTells ==
    \A d \in Drafts : draft[d].project \notin overlapped =>
        /\ draft[d].status = "approved" => sent[d] \in {0, 1}
        /\ draft[d].status # "approved" => sent[d] = 0
        /\ \A r \in Handlers :
              /\ d \in event[r].todo => draft[d].status = "pending_approval"
              /\ d \in event[r].outbound => draft[d].status = "approved" /\ sent[d] = 0

DraftsBound ==
    \A d \in Drafts :
        /\ draft[d].status = "ABSENT" => draft[d].project = Null
        /\ draft[d].status # "ABSENT" => draft[d].project \in Projects /\ Bound(draft[d].project)

ConvInv ==
    /\ ConvTypeOK
    /\ EventsOK
    /\ Apart
    /\ BindsFirst
    /\ SavesMerged
    /\ StatusTells
    /\ DraftsBound
    /\ \A b \in bindings : b.project \in started
    /\ OneBinding
    /\ ApprovedIsDispatched

LEMMA IdleEventOK == IdleEvent \in Event /\ HoldsOK(IdleEvent)
  BY DEF IdleEvent, Event, HoldsOK

LEMMA InitConvInv == ConvInit => ConvInv
<1> SUFFICES ASSUME ConvInit PROVE ConvInv
  OBVIOUS
<1> USE DEF ConvInit
<1>1. \A r \in Handlers : event[r] = IdleEvent
  OBVIOUS
<1>2. IdleEvent.pc = "idle" /\ IdleEvent.todo = {} /\ IdleEvent.outbound = {}
  BY DEF IdleEvent
<1>3. \A d \in Drafts : draft[d] = NoDraft
  OBVIOUS
<1>4. NoDraft \in DraftRow /\ NoDraft.status = "ABSENT" /\ NoDraft.project = Null
  BY DEF NoDraft, DraftRow
<1>5. ConvTypeOK
  BY <1>4, IdleEventOK DEF ConvTypeOK
<1>6. EventsOK
  BY <1>1, IdleEventOK DEF EventsOK
<1>7. Apart /\ BindsFirst /\ SavesMerged
  BY <1>1, <1>2 DEF Apart, BindsFirst, SavesMerged, Busy
<1>8. StatusTells
  <2>1. \A d \in Drafts : sent[d] = 0
    OBVIOUS
  <2> QED  BY <1>1, <1>2, <1>3, <1>4, <2>1 DEF StatusTells
<1>9. DraftsBound
  BY <1>3, <1>4 DEF DraftsBound
<1>10. OneBinding /\ \A b \in bindings : b.project \in started
  BY DEF OneBinding
<1>11. ApprovedIsDispatched
  BY <1>3, <1>4 DEF ApprovedIsDispatched
<1> QED  BY <1>5, <1>6, <1>7, <1>8, <1>9, <1>10, <1>11 DEF ConvInv

\* Bindings and projects stay, and so does a draft's project: what any event holds.
Stays ==
    /\ bindings \subseteq bindings'
    /\ started \subseteq started'
    /\ overlapped \subseteq overlapped'
    /\ \A d \in Drafts : draft[d].status # "ABSENT" =>
          draft'[d].status # "ABSENT" /\ draft'[d].project = draft[d].project

LEMMA EventsStep ==
  ASSUME ConvInv, Stays, NEW r \in Handlers, NEW s \in Event, HoldsOK(s)',
         event' = [event EXCEPT ![r] = s]
  PROVE  EventsOK'
<1> SUFFICES ASSUME NEW q \in Handlers PROVE HoldsOK(event[q])'
  BY DEF EventsOK
<1>1. event \in [Handlers -> Event]
  BY DEF ConvInv, ConvTypeOK
<1>2. CASE q = r
  <2>1. event'[q] = s
    BY <1>1, <1>2
  <2> QED  BY <2>1 DEF HoldsOK
<1>3. CASE q # r
  <2> PICK x \in Event : x = event[q]
    BY <1>1
  <2>1. event'[q] = x
    BY <1>1, <1>3
  <2>2. HoldsOK(x)
    BY DEF ConvInv, EventsOK
  <2>3. x.todo \subseteq Drafts /\ x.outbound \subseteq Drafts
    BY DEF Event
  <2>4. HoldsOK(x)'
    BY <2>2, <2>3 DEF HoldsOK, Stays, Bound
  <2> QED  BY <2>1, <2>4 DEF HoldsOK
<1> QED  BY <1>2, <1>3

\* Events come to overlap only when one begins or gets its project.
LEMMA ApartStep ==
  ASSUME ConvInv, Stays, NEW r \in Handlers, NEW s \in Event,
         event' = [event EXCEPT ![r] = s],
         \/ s.pc = "idle"
         \/ Busy(r) /\ s.conv = event[r].conv /\ s.project = event[r].project
  PROVE  Apart'
<1>1. event \in [Handlers -> Event]
  BY DEF ConvInv, ConvTypeOK
<1>2. \A q \in Handlers : event'[q] = IF q = r THEN s ELSE event[q]
  BY <1>1
<1>3. Apart
  BY DEF ConvInv
<1> QED  BY <1>2, <1>3 DEF Apart, Busy, Stays

LEMMA BoundStep == ASSUME ConvInv, Stays, NEW p, Bound(p) PROVE Bound(p)'
  BY DEF Stays, Bound

\* What is found of a conversation is a binding of it, or that there is none.
LEMMA Found ==
  ASSUME ConvInv, NEW c \in Convs, NEW b \in FindBinding(c)
  PROVE  /\ b = Null => \A x \in bindings : x.conv # c
         /\ b # Null => b \in bindings /\ b.project \in started
<1>1. Null \notin bindings
  BY NullIsNoBinding DEF ConvInv, ConvTypeOK
<1>2. bindings \subseteq Binding
  BY DEF ConvInv, ConvTypeOK
<1> QED  BY <1>1, <1>2 DEF FindBinding, ConvInv

\* Every event begins with what it found; the others with its conversation or its
\* project overlap with it from now on.
LEMMA BeginEventInv ==
  ASSUME ConvInv, NEW r \in Handlers, NEW s \in Event, BeginEvent(r, s),
         UNCHANGED <<bindings, started, known, draft, sent, died>>,
         s.pc # "idle", HoldsOK(s), s.outbound = {},
         s.pc \in {"workspace", "bind"} => \A b \in bindings : b.conv # s.conv,
         s.pc = "save" => known[s.project] \subseteq s.gives,
         \A d \in s.todo : draft[d].status = "pending_approval"
  PROVE  ConvInv'
<1>1. event \in [Handlers -> Event]
  BY DEF ConvInv, ConvTypeOK
<1>2. event' = [event EXCEPT ![r] = s] /\ event[r].pc = "idle"
  BY DEF BeginEvent
<1>3. \A q \in Handlers : event'[q] = IF q = r THEN s ELSE event[q]
  BY <1>1, <1>2
<1>4. s.conv \in Convs /\ s.project \in Projects \cup {Null}
  BY DEF HoldsOK, Event
<1>5. overlapped \subseteq overlapped' /\ overlapped' \subseteq overlapped \cup {s.conv} \cup ({s.project} \ {Null})
  BY DEF BeginEvent
<1>6. Stays
  BY <1>5 DEF Stays
<1>7. ConvTypeOK'
  BY <1>2, <1>4, <1>5 DEF ConvInv, ConvTypeOK
<1>8. EventsOK'
  <2>1. HoldsOK(s)'
    BY DEF HoldsOK, Bound
  <2> QED  BY <1>2, <1>6, <2>1, EventsStep
<1>9. Apart'
  <2>1. ASSUME NEW q \in Handlers, q # r, event[q].pc # "idle"
        PROVE  /\ event[q].conv = s.conv => s.conv \in overlapped'
               /\ event[q].project = s.project /\ s.project # Null => s.project \in overlapped'
    BY <2>1 DEF BeginEvent
  <2>2. Apart
    BY DEF ConvInv
  <2> QED  BY <1>3, <1>5, <2>1, <2>2 DEF Apart, Busy
<1>10. BindsFirst' /\ SavesMerged'
  BY <1>3, <1>5 DEF ConvInv, BindsFirst, SavesMerged
<1>11. StatusTells'
  <2> SUFFICES ASSUME NEW d \in Drafts, draft[d].project \notin overlapped'
               PROVE  /\ draft[d].status = "approved" => sent[d] \in {0, 1}
                      /\ draft[d].status # "approved" => sent[d] = 0
                      /\ \A q \in Handlers :
                            /\ d \in event'[q].todo => draft[d].status = "pending_approval"
                            /\ d \in event'[q].outbound => draft[d].status = "approved" /\ sent[d] = 0
    BY DEF StatusTells
  <2> QED  BY <1>3, <1>5 DEF ConvInv, StatusTells
<1>12. DraftsBound' /\ (\A b \in bindings : b.project \in started)'
  BY DEF ConvInv, DraftsBound, Bound
<1>13. OneBinding'
  BY <1>5 DEF ConvInv, OneBinding
<1>14. ApprovedIsDispatched'
  <2>1. event[r].outbound = {}
    BY <1>2 DEF ConvInv, EventsOK, HoldsOK
  <2> QED  BY <1>3, <2>1 DEF ConvInv, ApprovedIsDispatched
<1> QED  BY <1>7, <1>8, <1>9, <1>10, <1>11, <1>12, <1>13, <1>14 DEF ConvInv

LEMMA ReviewInv ==
  ASSUME ConvInv, NEW r \in Handlers, NEW m \in Messages, NEW c \in Convs,
         NEW b \in FindBinding(c), NEW named \in started \cup {Null},
         Review(r, m, c, b, named)
  PROVE  ConvInv'
<1> DEFINE p == ProjectOf(b, named)
<1>1. p # Null
  BY DEF Review
<1>2. p \in started /\ started \subseteq Projects
  BY <1>1, Found DEF ProjectOf, ConvInv, ConvTypeOK
<1> HIDE DEF p
<1>3. PICK found \in PendingSeen(r, p) \ {{}} :
         BeginEvent(r, [IdleEvent EXCEPT
              !.pc = IF m.approves THEN "approving" ELSE "rejecting",
              !.conv = c, !.project = p, !.todo = found])
  BY DEF Review, p
<1>4. found \subseteq Pending(p)
  BY DEF PendingSeen
<1>5. PICK s : s = [IdleEvent EXCEPT
              !.pc = IF m.approves THEN "approving" ELSE "rejecting",
              !.conv = c, !.project = p, !.todo = found]
  OBVIOUS
<1>6. /\ s.pc \in {"approving", "rejecting"} /\ s.conv = c /\ s.project = p
      /\ s.todo = found /\ s.outbound = {}
  BY <1>5 DEF IdleEvent
<1>7. s \in Event
  BY <1>2, <1>4, <1>5 DEF IdleEvent, Event, Pending
<1>8. HoldsOK(s)
  BY <1>2, <1>4, <1>6 DEF HoldsOK, Pending
<1>9. \A d \in s.todo : draft[d].status = "pending_approval"
  BY <1>4, <1>6 DEF Pending
<1> QED  BY <1>3, <1>5, <1>6, <1>7, <1>8, <1>9, BeginEventInv DEF Review

LEMMA StartProjectInv ==
  ASSUME ConvInv, NEW r \in Handlers, NEW m \in Messages, NEW c \in Convs,
         NEW b \in FindBinding(c), NEW named \in started \cup {Null},
         StartProject(r, m, c, b, named)
  PROVE  ConvInv'
<1>1. PICK s : s = [IdleEvent EXCEPT !.pc = "workspace", !.conv = c, !.gives = m.gives,
                                     !.mentions = m.mentions]
  OBVIOUS
<1>2. BeginEvent(r, s)
  BY <1>1 DEF StartProject
<1>3. s.pc = "workspace" /\ s.conv = c /\ s.project = Null /\ s.todo = {} /\ s.outbound = {}
  BY <1>1 DEF IdleEvent
<1>4. s \in Event
  BY <1>1, MessagesAreMessages DEF IdleEvent, Event, Message
<1>5. HoldsOK(s)
  BY <1>3 DEF HoldsOK
<1>6. \A x \in bindings : x.conv # s.conv
  BY <1>3, Found DEF StartProject, Continues
<1> QED  BY <1>2, <1>3, <1>4, <1>5, <1>6, BeginEventInv DEF StartProject

LEMMA FollowUpMessageInv ==
  ASSUME ConvInv, NEW r \in Handlers, NEW m \in Messages, NEW c \in Convs,
         NEW b \in FindBinding(c), NEW named \in started \cup {Null},
         FollowUpMessage(r, m, c, b, named)
  PROVE  ConvInv'
<1>1. PICK s : s = [IdleEvent EXCEPT !.pc = "save", !.conv = c, !.project = b.project,
                                     !.gives = MergedFields(known[b.project], m),
                                     !.mentions = m.mentions]
  OBVIOUS
<1>2. BeginEvent(r, s)
  BY <1>1 DEF FollowUpMessage
<1>3. /\ s.pc = "save" /\ s.conv = c /\ s.project = b.project /\ s.todo = {} /\ s.outbound = {}
      /\ s.gives = known[b.project] \cup m.gives
  BY <1>1 DEF IdleEvent, MergedFields
<1>4. b \in bindings /\ b.project \in started /\ started \subseteq Projects
  BY Found DEF FollowUpMessage, Continues, ConvInv, ConvTypeOK
<1>5. known[b.project] \subseteq Fields
  BY <1>4 DEF ConvInv, ConvTypeOK
<1>6. s \in Event
  BY <1>1, <1>4, <1>5, MessagesAreMessages DEF IdleEvent, Event, Message, MergedFields
<1>7. HoldsOK(s)
  BY <1>3, <1>4 DEF HoldsOK, Bound
<1> QED  BY <1>2, <1>3, <1>6, <1>7, BeginEventInv DEF FollowUpMessage

LEMMA SupplierReplyInv ==
  ASSUME ConvInv, NEW r \in Handlers, NEW m \in Messages, NEW c \in Convs,
         NEW b \in FindBinding(c), NEW named \in started \cup {Null},
         SupplierReply(r, m, c, b, named)
  PROVE  ConvInv'
<1>1. PICK s : s = [IdleEvent EXCEPT !.pc = "bind", !.conv = c, !.project = named,
                                     !.mode = "m_side"]
  OBVIOUS
<1>2. BeginEvent(r, s)
  BY <1>1 DEF SupplierReply
<1>3. s.pc = "bind" /\ s.conv = c /\ s.project = named /\ s.todo = {} /\ s.outbound = {}
  BY <1>1 DEF IdleEvent
<1>4. named \in started /\ started \subseteq Projects
  BY DEF SupplierReply, ConvInv, ConvTypeOK
<1>5. s \in Event
  BY <1>1, <1>4 DEF IdleEvent, Event
<1>6. HoldsOK(s)
  BY <1>3, <1>4 DEF HoldsOK
<1>7. \A x \in bindings : x.conv # s.conv
  BY <1>3, Found DEF SupplierReply
<1> QED  BY <1>2, <1>3, <1>5, <1>6, <1>7, BeginEventInv DEF SupplierReply

LEMMA ReceiveInv ==
  ASSUME ConvInv, NEW r \in Handlers, NEW m \in Messages, NEW c \in Convs, Receive(r, m, c)
  PROVE  ConvInv'
  BY ReviewInv, StartProjectInv, FollowUpMessageInv, SupplierReplyInv DEF Receive

\* What the invariant says of the copies a handler holds and of the files, action by action.
LEMMA HeldType ==
  ASSUME ConvInv, NEW r \in Handlers
  PROVE  /\ event \in [Handlers -> Event]
         /\ event[r] \in Event
         /\ HoldsOK(event[r])
         /\ started \subseteq Projects
  BY DEF ConvInv, ConvTypeOK, EventsOK

LEMMA CreateWorkspaceInv ==
  ASSUME ConvInv, NEW r \in Handlers, NEW p \in Projects, CreateWorkspace(r, p)
  PROVE  ConvInv'
<1> PICK x \in Event : x = event[r]
  BY HeldType
<1>1. PICK s : s = [x EXCEPT !.pc = "bind", !.project = p]
  OBVIOUS
<1>2. /\ event' = [event EXCEPT ![r] = s]
      /\ \A q \in Handlers : event'[q] = IF q = r THEN s ELSE event[q]
  BY <1>1, HeldType DEF CreateWorkspace
<1>3. s \in Event
  BY <1>1 DEF Event
<1>4. /\ x.pc = "workspace" /\ HoldsOK(x) /\ x.todo = {} /\ x.outbound = {}
      /\ s.pc = "bind" /\ s.conv = x.conv /\ s.project = p
      /\ s.todo = {} /\ s.outbound = {}
  BY <1>1, HeldType DEF CreateWorkspace, HoldsOK, Event
<1>5. Stays
  BY DEF CreateWorkspace, Stays
<1>6. p \notin started /\ started' = started \cup {p} /\ started \subseteq Projects
  BY HeldType DEF CreateWorkspace
<1>7. ConvTypeOK'
  <2>1. known' \in [Projects -> SUBSET Fields]
    BY DEF CreateWorkspace, ConvInv, ConvTypeOK, Event
  <2>2. event' \in [Handlers -> Event]
    BY <1>2, <1>3, HeldType
  <2> QED  BY <1>6, <2>1, <2>2 DEF CreateWorkspace, ConvInv, ConvTypeOK
<1>8. EventsOK'
  <2>1. HoldsOK(s)'
    BY <1>4, <1>6 DEF HoldsOK
  <2> QED  BY <1>2, <1>3, <1>5, <2>1, EventsStep
<1>9. Apart'
  <2>1. ASSUME NEW q \in Handlers PROVE event[q].project # p
    <3>1. Null # p
      BY ConversationsAssumption
    <3>2. event[q].project \in started \cup {Null}
      BY HeldType DEF Event, HoldsOK
    <3> QED  BY <1>6, <3>1, <3>2
  <2>2. \A q \in Handlers : Busy(q)' <=> Busy(q)
    BY <1>2, <1>4 DEF Busy
  <2>3. \A q \in Handlers : event'[q].conv = event[q].conv
    BY <1>2, <1>4
  <2>4. \A q, t \in Handlers :
           q # t /\ event'[q].project = event'[t].project => event'[q].project = event[q].project
                                                           /\ event[q].project = event[t].project
    BY <1>2, <1>4, <2>1
  <2>5. Apart /\ overlapped' = overlapped
    BY DEF CreateWorkspace, ConvInv
  <2> QED  BY <2>2, <2>3, <2>4, <2>5 DEF Apart
<1>10. BindsFirst'
  <2>1. \A q \in Handlers : /\ event'[q].conv = event[q].conv
                            /\ event'[q].pc \in {"workspace", "bind"}
                                  => event[q].pc \in {"workspace", "bind"}
    BY <1>2, <1>4
  <2>2. UNCHANGED <<bindings, overlapped>>
    BY DEF CreateWorkspace
  <2> QED  BY <2>1, <2>2 DEF ConvInv, BindsFirst
<1>11. SavesMerged'
  <2>1. ASSUME NEW q \in Handlers, event'[q].pc = "save"
        PROVE  q # r /\ known'[event[q].project] = known[event[q].project]
    <3>1. q # r /\ event[q].pc = "save"
      BY <1>2, <1>4, <2>1
    <3>2. event[q].project \in started
      BY <3>1, HeldType DEF HoldsOK
    <3> QED  BY <1>6, <3>1, <3>2 DEF CreateWorkspace, ConvInv, ConvTypeOK
  <2> QED  BY <1>2, <2>1 DEF CreateWorkspace, ConvInv, SavesMerged
<1>12. StatusTells'
  BY <1>2, <1>4 DEF CreateWorkspace, ConvInv, StatusTells
<1>13. DraftsBound' /\ (\A b \in bindings : b.project \in started)' /\ OneBinding'
  BY <1>6 DEF CreateWorkspace, ConvInv, DraftsBound, Bound, OneBinding
<1>14. ApprovedIsDispatched'
  BY <1>2, <1>4 DEF CreateWorkspace, ConvInv, ApprovedIsDispatched
<1> QED  BY <1>7, <1>8, <1>9, <1>10, <1>11, <1>12, <1>13, <1>14 DEF ConvInv

\* A handler that has no draft in hand leaves the drafts' statuses as they are.
LEMMA EmptyHanded ==
  ASSUME ConvInv, Stays, NEW r \in Handlers, NEW s \in Event, event' = [event EXCEPT ![r] = s],
         UNCHANGED <<draft, sent, died>>, s.todo = {}, s.outbound = {}, event[r].outbound = {}
  PROVE  StatusTells' /\ ApprovedIsDispatched'
<1>1. \A q \in Handlers : event'[q] = IF q = r THEN s ELSE event[q]
  BY HeldType
<1>2. StatusTells'
  BY <1>1 DEF Stays, ConvInv, StatusTells
<1>3. ApprovedIsDispatched'
  BY <1>1 DEF ConvInv, ApprovedIsDispatched
<1> QED  BY <1>2, <1>3

\* What is missing decides whether a draft follows.
LEMMA DraftingStep ==
  ASSUME ConvInv, NEW r \in Handlers, NEW values, Drafting(r, values)
  PROVE  \E s \in Event : /\ event' = [event EXCEPT ![r] = s]
                          /\ s = IdleEvent \/ s = [event[r] EXCEPT !.pc = "draft"]
  BY HeldType, IdleEventOK DEF Drafting, FinishEvent, Event

LEMMA Drafted ==
  ASSUME NEW x \in Event, x.todo = {}, x.outbound = {},
         NEW s, s = IdleEvent \/ s = [x EXCEPT !.pc = "draft"]
  PROVE  /\ s.todo = {} /\ s.outbound = {}
         /\ \/ s.pc = "idle"
            \/ s.pc = "draft" /\ s.conv = x.conv /\ s.project = x.project
  BY DEF IdleEvent, Event

LEMMA CreateBindingInv ==
  ASSUME ConvInv, NEW r \in Handlers, CreateBinding(r)
  PROVE  ConvInv'
<1> PICK x \in Event : x = event[r]
  BY HeldType
<1>1. PICK s \in Event : /\ event' = [event EXCEPT ![r] = s]
                         /\ s = IdleEvent \/ s = [x EXCEPT !.pc = "draft"]
  BY DraftingStep, IdleEventOK DEF CreateBinding, FinishEvent
<1>2. \A q \in Handlers : event'[q] = IF q = r THEN s ELSE event[q]
  BY <1>1, HeldType
<1>3. x.pc = "bind" /\ x.conv \in Convs /\ x.project \in started /\ x.todo = {} /\ x.outbound = {}
  BY HeldType DEF CreateBinding, HoldsOK
<1>4. PICK new : new = [conv |-> x.conv, project |-> x.project, mode |-> x.mode]
  OBVIOUS
<1>5. bindings' = bindings \cup {new} /\ new.conv = x.conv /\ new.project = x.project
  BY <1>4 DEF CreateBinding
<1>6. /\ s.todo = {} /\ s.outbound = {}
      /\ \/ s.pc = "idle"
         \/ s.pc = "draft" /\ s.conv = x.conv /\ s.project = x.project
  BY <1>1, <1>3, Drafted
<1>7. Stays
  BY <1>5 DEF CreateBinding, Stays
<1>8. ConvTypeOK'
  <2>1. new \in Binding
    BY <1>3, <1>4, HeldType DEF Binding, Event
  <2>2. event' \in [Handlers -> Event]
    BY <1>1, HeldType
  <2> QED  BY <1>5, <2>1, <2>2 DEF CreateBinding, ConvInv, ConvTypeOK
<1>9. EventsOK'
  <2>1. HoldsOK(s)'
    <3>1. CASE s = IdleEvent
      BY <3>1 DEF IdleEvent, HoldsOK
    <3>2. CASE s.pc = "draft" /\ s.conv = x.conv /\ s.project = x.project
      BY <1>3, <1>5, <1>6, <3>2 DEF CreateBinding, HoldsOK, Bound
    <3> QED  BY <1>1, <3>1, <3>2 DEF Event
  <2> QED  BY <1>1, <1>7, <2>1, EventsStep
<1>10. Apart'
  BY <1>1, <1>3, <1>6, <1>7, ApartStep DEF Busy
<1>11. BindsFirst'
  <2>1. ASSUME NEW q \in Handlers, event'[q].pc \in {"workspace", "bind"},
               event'[q].conv \notin overlapped
        PROVE  \A b \in bindings' : b.conv # event'[q].conv
    <3>1. q # r /\ event'[q] = event[q]
      BY <1>2, <1>6, <2>1
    <3>2. event[q].conv # x.conv
      BY <1>3, <2>1, <3>1 DEF ConvInv, Apart, Busy
    <3> QED  BY <1>5, <2>1, <3>1, <3>2 DEF ConvInv, BindsFirst
  <2> QED  BY <2>1 DEF CreateBinding, BindsFirst
<1>12. SavesMerged'
  BY <1>2, <1>6 DEF CreateBinding, ConvInv, SavesMerged
<1>13. StatusTells' /\ ApprovedIsDispatched'
  BY <1>1, <1>3, <1>6, <1>7, EmptyHanded DEF CreateBinding
<1>14. DraftsBound'
  BY <1>7, BoundStep DEF CreateBinding, ConvInv, DraftsBound
<1>15. (\A b \in bindings : b.project \in started)'
  BY <1>3, <1>5 DEF CreateBinding, ConvInv
<1>16. OneBinding'
  <2>1. x.conv \notin overlapped => \A b \in bindings : b.conv # x.conv
    BY <1>3 DEF ConvInv, BindsFirst
  <2> QED  BY <1>5, <2>1 DEF CreateBinding, ConvInv, OneBinding
<1> QED  BY <1>8, <1>9, <1>10, <1>11, <1>12, <1>13, <1>14, <1>15, <1>16 DEF ConvInv

LEMMA SaveWorkspaceInv ==
  ASSUME ConvInv, NEW r \in Handlers, SaveWorkspace(r)
  PROVE  ConvInv'
<1> PICK x \in Event : x = event[r]
  BY HeldType
<1>1. PICK s \in Event : /\ event' = [event EXCEPT ![r] = s]
                         /\ s = IdleEvent \/ s = [x EXCEPT !.pc = "draft"]
  BY DraftingStep DEF SaveWorkspace
<1>2. \A q \in Handlers : event'[q] = IF q = r THEN s ELSE event[q]
  BY <1>1, HeldType
<1>3. /\ x.pc = "save" /\ x.conv \in Convs /\ x.project \in started /\ x.todo = {} /\ x.outbound = {}
      /\ Bound(x.project)
  BY HeldType DEF SaveWorkspace, HoldsOK
<1>4. /\ s.todo = {} /\ s.outbound = {}
      /\ \/ s.pc = "idle"
         \/ s.pc = "draft" /\ s.conv = x.conv /\ s.project = x.project
  BY <1>1, <1>3, Drafted
<1>5. Stays
  BY DEF SaveWorkspace, Stays
<1>6. ConvTypeOK'
  <2>1. known' \in [Projects -> SUBSET Fields]
    BY DEF SaveWorkspace, ConvInv, ConvTypeOK, Event
  <2>2. event' \in [Handlers -> Event]
    BY <1>1, HeldType
  <2> QED  BY <2>1, <2>2 DEF SaveWorkspace, ConvInv, ConvTypeOK
<1>7. EventsOK'
  <2>1. HoldsOK(s)'
    <3>1. CASE s = IdleEvent
      BY <3>1 DEF IdleEvent, HoldsOK
    <3>2. CASE s.pc = "draft" /\ s.conv = x.conv /\ s.project = x.project
      BY <1>3, <1>4, <3>2 DEF SaveWorkspace, HoldsOK, Bound
    <3> QED  BY <1>1, <3>1, <3>2 DEF Event
  <2> QED  BY <1>1, <1>5, <2>1, EventsStep
<1>8. Apart'
  BY <1>1, <1>3, <1>4, <1>5, ApartStep DEF Busy
<1>9. BindsFirst'
  BY <1>2, <1>4 DEF SaveWorkspace, ConvInv, BindsFirst
<1>10. SavesMerged'
  <2>1. ASSUME NEW q \in Handlers, event'[q].pc = "save", event'[q].project \notin overlapped
        PROVE  known'[event'[q].project] \subseteq event'[q].gives
    <3>1. q # r /\ event'[q] = event[q]
      BY <1>2, <1>4, <2>1
    <3>2. event[q].project # x.project
      <4>1. x.project # Null
        BY <1>3, HeldType, ConversationsAssumption
      <4> QED  BY <1>3, <2>1, <3>1, <4>1 DEF ConvInv, Apart, Busy
    <3>3. event[q].project \in Projects
      BY <2>1, <3>1, HeldType DEF HoldsOK
    <3>4. known'[event[q].project] = known[event[q].project]
      BY <3>2, <3>3 DEF SaveWorkspace, ConvInv, ConvTypeOK
    <3> QED  BY <2>1, <3>1, <3>4 DEF ConvInv, SavesMerged
  <2> QED  BY <2>1 DEF SaveWorkspace, SavesMerged
<1>11. StatusTells' /\ ApprovedIsDispatched'
  BY <1>1, <1>3, <1>4, <1>5, EmptyHanded DEF SaveWorkspace
<1>12. DraftsBound' /\ (\A b \in bindings : b.project \in started)' /\ OneBinding'
  BY DEF SaveWorkspace, ConvInv, DraftsBound, Bound, OneBinding
<1> QED  BY <1>6, <1>7, <1>8, <1>9, <1>10, <1>11, <1>12 DEF ConvInv

\* Two handlers that have a draft in hand, or its project, overlap.
LEMMA HandsApart ==
  ASSUME ConvInv, NEW q \in Handlers, NEW r \in Handlers, q # r, NEW d \in Drafts,
         d \in event[q].todo \cup event[q].outbound,
         Busy(r), event[r].project = draft[d].project
  PROVE  draft[d].project \in overlapped
<1>1. event[q].project = draft[d].project
  BY HeldType DEF HoldsOK
<1>2. Busy(q)
  BY HeldType DEF HoldsOK, Busy
<1>3. event[q].project # Null
  BY <1>1, HeldType, ConversationsAssumption DEF HoldsOK
<1> QED  BY <1>1, <1>2, <1>3 DEF ConvInv, Apart

LEMMA CreateDraftInv ==
  ASSUME ConvInv, NEW r \in Handlers, NEW d \in Drafts, CreateDraft(r, d)
  PROVE  ConvInv'
<1> PICK x \in Event : x = event[r]
  BY HeldType
<1>1. x.pc = "draft" /\ HoldsOK(x) /\ x.todo = {} /\ x.outbound = {}
  BY HeldType DEF CreateDraft, HoldsOK
<1>2. x.project \in started /\ Bound(x.project)
  BY <1>1 DEF HoldsOK
<1>3. PICK row : row = [status |-> "pending_approval", project |-> x.project]
  OBVIOUS
<1>4. /\ row \in DraftRow /\ row.status = "pending_approval" /\ row.project = x.project
      /\ row.project \in Projects
  BY <1>2, <1>3, HeldType DEF DraftRow
<1>5. draft' = [draft EXCEPT ![d] = row] /\ draft[d].status = "ABSENT"
  BY <1>3 DEF CreateDraft
<1>6. \A e \in Drafts : draft'[e] = IF e = d THEN row ELSE draft[e]
  BY <1>5 DEF ConvInv, ConvTypeOK
<1>7. /\ event' = [event EXCEPT ![r] = IdleEvent]
      /\ \A q \in Handlers : event'[q] = IF q = r THEN IdleEvent ELSE event[q]
  BY HeldType DEF CreateDraft, FinishEvent
<1>8. /\ IdleEvent.pc = "idle" /\ IdleEvent.todo = {} /\ IdleEvent.outbound = {}
      /\ IdleEvent \in Event
  BY IdleEventOK DEF IdleEvent
<1>9. UNCHANGED <<bindings, started, known, sent, overlapped, died>>
  BY DEF CreateDraft
<1>10. Stays
  BY <1>5, <1>6, <1>9 DEF Stays
<1>11. \A q \in Handlers : d \notin event[q].todo /\ d \notin event[q].outbound
  BY <1>5, HeldType DEF HoldsOK
<1>12. ConvTypeOK'
  BY <1>4, <1>5, <1>7, <1>8, <1>9 DEF ConvInv, ConvTypeOK
<1>13. EventsOK'
  <2>1. HoldsOK(IdleEvent)'
    BY DEF IdleEvent, HoldsOK
  <2> QED  BY <1>7, <1>8, <1>10, <2>1, EventsStep
<1>14. Apart'
  BY <1>7, <1>8, <1>10, ApartStep
<1>15. BindsFirst' /\ SavesMerged'
  BY <1>7, <1>8, <1>9 DEF ConvInv, BindsFirst, SavesMerged
<1>16. StatusTells'
  <2>1. draft[d].project \notin overlapped
    BY <1>5, ConversationsAssumption DEF ConvInv, ConvTypeOK, DraftsBound
  <2>2. sent[d] = 0
    BY <1>5, <2>1 DEF ConvInv, StatusTells
  <2>3. StatusTells /\ overlapped' = overlapped /\ sent' = sent
    BY <1>9 DEF ConvInv
  <2> QED  BY <1>4, <1>6, <1>7, <1>8, <1>11, <2>2, <2>3 DEF StatusTells
<1>17. DraftsBound'
  <2>1. \A p : Bound(p)' <=> Bound(p)
    BY <1>9 DEF Bound
  <2> QED  BY <1>2, <1>4, <1>6, <2>1 DEF ConvInv, DraftsBound
<1>18. (\A b \in bindings : b.project \in started)' /\ OneBinding'
  BY <1>9 DEF ConvInv, OneBinding
<1>19. ApprovedIsDispatched'
  BY <1>1, <1>4, <1>6, <1>7, <1>9 DEF ConvInv, ApprovedIsDispatched
<1> QED  BY <1>12, <1>13, <1>14, <1>15, <1>16, <1>17, <1>18, <1>19 DEF ConvInv

\* What reviewing a draft leaves of its project, and of everybody else's hands.
LEMMA ReviewedStep ==
  ASSUME ConvInv, NEW r \in Handlers, NEW d \in Drafts, d \in event[r].todo,
         NEW s \in Event, event' = [event EXCEPT ![r] = s],
         \/ s = IdleEvent
         \/ /\ s.pc = event[r].pc /\ s.conv = event[r].conv /\ s.project = event[r].project
            /\ s.todo \cup s.outbound \subseteq event[r].todo \cup event[r].outbound
            /\ event[r].pc # "approving" => s.outbound = {},
         NEW status \in {"approved", "rejected"},
         draft' = [draft EXCEPT ![d].status = status],
         UNCHANGED <<bindings, started, known, sent, overlapped, died>>
  PROVE  /\ \A e \in Drafts : /\ draft'[e].project = draft[e].project
                              /\ draft'[e].status = IF e = d THEN status ELSE draft[e].status
         /\ Stays /\ ConvTypeOK' /\ EventsOK' /\ Apart' /\ BindsFirst' /\ SavesMerged' /\ DraftsBound'
         /\ (\A b \in bindings : b.project \in started)' /\ OneBinding'
<1> PICK x \in Event : x = event[r]
  BY HeldType
<1>1. \A q \in Handlers : event'[q] = IF q = r THEN s ELSE event[q]
  BY HeldType
<1>2. x.pc \in {"approving", "rejecting"} /\ HoldsOK(x) /\ draft[d].status # "ABSENT"
  BY HeldType DEF HoldsOK
<1>3. \A e \in Drafts : draft[e] \in DraftRow
  BY DEF ConvInv, ConvTypeOK
<1>4. /\ draft' \in [Drafts -> DraftRow]
      /\ \A e \in Drafts : /\ draft'[e].project = draft[e].project
                           /\ draft'[e].status = IF e = d THEN status ELSE draft[e].status
  BY <1>3 DEF ConvInv, ConvTypeOK, DraftRow
<1>5. Stays
  BY <1>2, <1>4 DEF Stays
<1>6. ConvTypeOK'
  BY <1>4 DEF ConvInv, ConvTypeOK
<1>7. EventsOK'
  <2>1. CASE s = IdleEvent
    <3>1. HoldsOK(IdleEvent)'
      BY DEF IdleEvent, HoldsOK
    <3> QED  BY <1>5, <2>1, <3>1, EventsStep
  <2>2. CASE /\ s.pc = x.pc /\ s.conv = x.conv /\ s.project = x.project
             /\ s.todo \cup s.outbound \subseteq x.todo \cup x.outbound
             /\ x.pc # "approving" => s.outbound = {}
    <3>1. s.todo \cup s.outbound \subseteq Drafts
      BY DEF Event
    <3>2. HoldsOK(s)'
      BY <1>2, <1>4, <2>2, <3>1 DEF HoldsOK
    <3> QED  BY <1>5, <3>2, EventsStep
  <2> QED  BY <2>1, <2>2
<1>8. \/ s.pc = "idle"
      \/ s.conv = x.conv /\ s.project = x.project
  BY DEF IdleEvent
<1>9. Apart'
  BY <1>2, <1>5, <1>8, ApartStep DEF Busy
<1>10. s.pc \notin {"workspace", "bind", "save"}
  BY <1>2 DEF IdleEvent
<1>11. BindsFirst' /\ SavesMerged'
  BY <1>1, <1>10 DEF ConvInv, BindsFirst, SavesMerged
<1>12. DraftsBound'
  BY <1>2, <1>4 DEF ConvInv, DraftsBound, Bound
<1>13. (\A b \in bindings : b.project \in started)' /\ OneBinding'
  BY DEF ConvInv, OneBinding
<1> QED  BY <1>4, <1>5, <1>6, <1>7, <1>9, <1>11, <1>12, <1>13

LEMMA ApproveDraftInv ==
  ASSUME ConvInv, NEW r \in Handlers, NEW d \in Drafts, ApproveDraft(r, d)
  PROVE  ConvInv'
<1> PICK x \in Event : x = event[r]
  BY HeldType
<1>1. PICK s : s = [x EXCEPT !.todo = @ \ {d}, !.outbound = @ \cup {d}]
  OBVIOUS
<1>2. event' = [event EXCEPT ![r] = s] /\ x.pc = "approving" /\ d \in x.todo
  BY <1>1 DEF ApproveDraft
<1>3. /\ s \in Event /\ s.pc = x.pc /\ s.conv = x.conv /\ s.project = x.project
      /\ s.todo = x.todo \ {d} /\ s.outbound = x.outbound \cup {d}
  BY <1>1 DEF Event
<1>4. \A q \in Handlers : event'[q] = IF q = r THEN s ELSE event[q]
  BY <1>2, HeldType
<1>5. /\ draft' = [draft EXCEPT ![d].status = "approved"]
      /\ UNCHANGED <<bindings, started, known, sent, overlapped, died>>
  BY DEF ApproveDraft
<1>6. s.todo \cup s.outbound \subseteq x.todo \cup x.outbound
  BY <1>2, <1>3
<1>7. /\ \A e \in Drafts : /\ draft'[e].project = draft[e].project
                           /\ draft'[e].status = IF e = d THEN "approved" ELSE draft[e].status
      /\ ConvTypeOK' /\ EventsOK' /\ Apart' /\ BindsFirst' /\ SavesMerged' /\ DraftsBound'
      /\ (\A b \in bindings : b.project \in started)' /\ OneBinding'
  BY <1>2, <1>3, <1>5, <1>6, ReviewedStep
<1>8. StatusTells'
  <2>1. draft[d].project \notin overlapped => draft[d].status = "pending_approval" /\ sent[d] = 0
    BY <1>2 DEF ConvInv, StatusTells
  <2>2. ASSUME NEW q \in Handlers, q # r, draft[d].project \notin overlapped
        PROVE  d \notin event[q].todo \cup event[q].outbound
    <3>1. Busy(r) /\ event[r].project = draft[d].project
      BY <1>2, HeldType DEF Busy, HoldsOK
    <3> QED  BY <2>2, <3>1, HandsApart
  <2>3. ASSUME NEW e \in Drafts, draft[e].project \notin overlapped
        PROVE  /\ draft'[e].status = "approved" => sent[e] \in {0, 1}
               /\ draft'[e].status # "approved" => sent[e] = 0
               /\ \A q \in Handlers :
                     /\ e \in event'[q].todo => draft'[e].status = "pending_approval"
                     /\ e \in event'[q].outbound => draft'[e].status = "approved" /\ sent[e] = 0
    <3>1. CASE e = d
      BY <1>3, <1>4, <1>7, <2>1, <2>2, <2>3, <3>1
    <3>2. CASE e # d
      BY <1>3, <1>4, <1>7, <2>3, <3>2 DEF ConvInv, StatusTells
    <3> QED  BY <3>1, <3>2
  <2> QED  BY <1>5, <1>7, <2>3 DEF StatusTells
<1>9. ApprovedIsDispatched'
  BY <1>3, <1>4, <1>5, <1>7 DEF ConvInv, ApprovedIsDispatched
<1> QED  BY <1>7, <1>8, <1>9 DEF ConvInv

LEMMA RejectDraftInv ==
  ASSUME ConvInv, NEW r \in Handlers, NEW d \in Drafts, RejectDraft(r, d)
  PROVE  ConvInv'
<1> PICK x \in Event : x = event[r]
  BY HeldType
<1>1. PICK s : s = IF x.todo = {d} THEN IdleEvent ELSE [x EXCEPT !.todo = @ \ {d}]
  OBVIOUS
<1>2. event' = [event EXCEPT ![r] = s] /\ x.pc = "rejecting" /\ d \in x.todo /\ x.outbound = {}
  BY <1>1, HeldType DEF RejectDraft, FinishEvent, HoldsOK
<1>3. /\ s \in Event /\ s.todo = x.todo \ {d} /\ s.outbound = {}
      /\ \/ s = IdleEvent
         \/ s.pc = x.pc /\ s.conv = x.conv /\ s.project = x.project
  <2>1. CASE x.todo = {d}
    BY <1>1, <2>1, IdleEventOK DEF IdleEvent
  <2>2. CASE x.todo # {d}
    BY <1>1, <1>2, <2>2 DEF Event
  <2> QED  BY <2>1, <2>2
<1>4. \A q \in Handlers : event'[q] = IF q = r THEN s ELSE event[q]
  BY <1>2, HeldType
<1>5. /\ draft' = [draft EXCEPT ![d].status = "rejected"]
      /\ UNCHANGED <<bindings, started, known, sent, overlapped, died>>
  BY DEF RejectDraft
<1>6. s.todo \cup s.outbound \subseteq x.todo \cup x.outbound
  BY <1>2, <1>3
<1>7. /\ \A e \in Drafts : /\ draft'[e].project = draft[e].project
                           /\ draft'[e].status = IF e = d THEN "rejected" ELSE draft[e].status
      /\ ConvTypeOK' /\ EventsOK' /\ Apart' /\ BindsFirst' /\ SavesMerged' /\ DraftsBound'
      /\ (\A b \in bindings : b.project \in started)' /\ OneBinding'
  BY <1>2, <1>3, <1>5, <1>6, ReviewedStep
<1>8. StatusTells'
  <2>1. draft[d].project \notin overlapped => draft[d].status = "pending_approval" /\ sent[d] = 0
    BY <1>2 DEF ConvInv, StatusTells
  <2>2. ASSUME NEW q \in Handlers, q # r, draft[d].project \notin overlapped
        PROVE  d \notin event[q].todo \cup event[q].outbound
    <3>1. Busy(r) /\ event[r].project = draft[d].project
      BY <1>2, HeldType DEF Busy, HoldsOK
    <3> QED  BY <2>2, <3>1, HandsApart
  <2>3. ASSUME NEW e \in Drafts, draft[e].project \notin overlapped
        PROVE  /\ draft'[e].status = "approved" => sent[e] \in {0, 1}
               /\ draft'[e].status # "approved" => sent[e] = 0
               /\ \A q \in Handlers :
                     /\ e \in event'[q].todo => draft'[e].status = "pending_approval"
                     /\ e \in event'[q].outbound => draft'[e].status = "approved" /\ sent[e] = 0
    <3>1. CASE e = d
      BY <1>3, <1>4, <1>2, <1>7, <2>1, <2>2, <2>3, <3>1
    <3>2. CASE e # d
      BY <1>3, <1>4, <1>7, <2>3, <3>2 DEF ConvInv, StatusTells
    <3> QED  BY <3>1, <3>2
  <2> QED  BY <1>5, <1>7, <2>3 DEF StatusTells
<1>9. ApprovedIsDispatched'
  BY <1>2, <1>3, <1>4, <1>5, <1>7 DEF ConvInv, ApprovedIsDispatched
<1> QED  BY <1>7, <1>8, <1>9 DEF ConvInv

\* A request that ends, with its answer or without one, lets go of what it held.
LEMMA FinishStep ==
  ASSUME ConvInv, NEW r \in Handlers, FinishEvent(r),
         UNCHANGED <<bindings, started, known, draft, overlapped>>
  PROVE  /\ \A q \in Handlers : event'[q] = IF q = r THEN IdleEvent ELSE event[q]
         /\ event' \in [Handlers -> Event]
         /\ EventsOK' /\ Apart' /\ BindsFirst' /\ SavesMerged' /\ DraftsBound'
         /\ (\A b \in bindings : b.project \in started)' /\ OneBinding'
<1>1. event' = [event EXCEPT ![r] = IdleEvent]
  BY DEF FinishEvent
<1>2. /\ \A q \in Handlers : event'[q] = IF q = r THEN IdleEvent ELSE event[q]
      /\ event' \in [Handlers -> Event]
  BY <1>1, HeldType, IdleEventOK
<1>3. Stays
  BY DEF Stays
<1>4. IdleEvent.pc = "idle" /\ IdleEvent \in Event /\ HoldsOK(IdleEvent)'
  BY IdleEventOK DEF IdleEvent, HoldsOK
<1>5. EventsOK' /\ Apart'
  BY <1>1, <1>3, <1>4, EventsStep, ApartStep
<1>6. BindsFirst' /\ SavesMerged'
  BY <1>2, <1>4 DEF ConvInv, BindsFirst, SavesMerged
<1>7. DraftsBound' /\ (\A b \in bindings : b.project \in started)' /\ OneBinding'
  BY DEF ConvInv, DraftsBound, Bound, OneBinding
<1> QED  BY <1>2, <1>5, <1>6, <1>7

LEMMA DispatchInv ==
  ASSUME ConvInv, NEW r \in Handlers, Dispatch(r)
  PROVE  ConvInv'
<1>1. FinishEvent(r) /\ UNCHANGED <<bindings, started, known, draft, overlapped, died>>
  BY DEF Dispatch
<1>2. /\ \A q \in Handlers : event'[q] = IF q = r THEN IdleEvent ELSE event[q]
      /\ event' \in [Handlers -> Event]
      /\ EventsOK' /\ Apart' /\ BindsFirst' /\ SavesMerged' /\ DraftsBound'
      /\ (\A b \in bindings : b.project \in started)' /\ OneBinding'
  BY <1>1, FinishStep
<1>3. \A d \in Drafts : sent[d] \in Nat
  BY DEF ConvInv, ConvTypeOK
<1>4. /\ sent' \in [Drafts -> Nat]
      /\ \A d \in Drafts : sent'[d] = IF d \in event[r].outbound THEN sent[d] + 1 ELSE sent[d]
  BY <1>3 DEF Dispatch
<1>5. ConvTypeOK'
  BY <1>1, <1>2, <1>4 DEF ConvInv, ConvTypeOK
<1>6. IdleEvent.todo = {} /\ IdleEvent.outbound = {}
  BY DEF IdleEvent
<1>7. StatusTells'
  <2> SUFFICES ASSUME NEW d \in Drafts, draft[d].project \notin overlapped
               PROVE  /\ draft[d].status = "approved" => sent'[d] \in {0, 1}
                      /\ draft[d].status # "approved" => sent'[d] = 0
                      /\ \A q \in Handlers :
                            /\ d \in event'[q].todo => draft[d].status = "pending_approval"
                            /\ d \in event'[q].outbound
                                  => draft[d].status = "approved" /\ sent'[d] = 0
    BY <1>1 DEF StatusTells
  <2>1. /\ draft[d].status = "approved" => sent[d] \in {0, 1}
        /\ draft[d].status # "approved" => sent[d] = 0
        /\ \A q \in Handlers :
              /\ d \in event[q].todo => draft[d].status = "pending_approval"
              /\ d \in event[q].outbound => draft[d].status = "approved" /\ sent[d] = 0
    BY DEF ConvInv, StatusTells
  <2>2. CASE d \in event[r].outbound
    <3>1. Busy(r) /\ event[r].project = draft[d].project
      BY <2>2, HeldType DEF Dispatch, Busy, HoldsOK
    <3>2. \A q \in Handlers : q # r => d \notin event[q].todo \cup event[q].outbound
      BY <3>1, HandsApart
    <3>3. draft[d].status = "approved" /\ sent[d] = 0 /\ sent'[d] = 1
      BY <1>4, <2>1, <2>2
    <3> QED  BY <1>2, <1>6, <3>2, <3>3
  <2>3. CASE d \notin event[r].outbound
    BY <1>2, <1>4, <1>6, <2>1, <2>3
  <2> QED  BY <2>2, <2>3
<1>8. ApprovedIsDispatched'
  <2> SUFFICES ASSUME NEW d \in Drafts, draft[d].status = "approved"
               PROVE  sent'[d] > 0 \/ d \in died \/ \E q \in Handlers : d \in event'[q].outbound
    BY <1>1 DEF ApprovedIsDispatched
  <2>1. sent[d] > 0 \/ d \in died \/ \E q \in Handlers : d \in event[q].outbound
    BY DEF ConvInv, ApprovedIsDispatched
  <2> QED  BY <1>2, <1>3, <1>4, <2>1
<1> QED  BY <1>2, <1>5, <1>7, <1>8 DEF ConvInv

LEMMA EventDiesInv ==
  ASSUME ConvInv, NEW r \in Handlers, EventDies(r)
  PROVE  ConvInv'
<1>1. FinishEvent(r) /\ UNCHANGED <<bindings, started, known, draft, sent, overlapped>>
  BY DEF EventDies
<1>2. /\ \A q \in Handlers : event'[q] = IF q = r THEN IdleEvent ELSE event[q]
      /\ event' \in [Handlers -> Event]
      /\ EventsOK' /\ Apart' /\ BindsFirst' /\ SavesMerged' /\ DraftsBound'
      /\ (\A b \in bindings : b.project \in started)' /\ OneBinding'
  BY <1>1, FinishStep
<1>3. died' = died \cup event[r].outbound /\ event[r].outbound \subseteq Drafts
  BY HeldType DEF EventDies, Event
<1>4. ConvTypeOK'
  BY <1>1, <1>2, <1>3 DEF ConvInv, ConvTypeOK
<1>5. IdleEvent.todo = {} /\ IdleEvent.outbound = {}
  BY DEF IdleEvent
<1>6. StatusTells'
  BY <1>1, <1>2, <1>5 DEF ConvInv, StatusTells
<1>7. ApprovedIsDispatched'
  BY <1>1, <1>2, <1>3 DEF ConvInv, ApprovedIsDispatched
<1> QED  BY <1>2, <1>4, <1>6, <1>7 DEF ConvInv

LEMMA ConvNextInv == ConvInv /\ [ConvNext]_convVars => ConvInv'
<1> SUFFICES ASSUME ConvInv, [ConvNext]_convVars PROVE ConvInv'
  OBVIOUS
<1>1. CASE UNCHANGED convVars
  <2>1. /\ ConvTypeOK' /\ EventsOK' /\ Apart' /\ BindsFirst' /\ SavesMerged'
        /\ StatusTells' /\ DraftsBound' /\ OneBinding' /\ ApprovedIsDispatched'
        /\ (\A b \in bindings : b.project \in started)'
    BY <1>1 DEF convVars, ConvInv, ConvTypeOK, EventsOK, HoldsOK, Bound, Apart, Busy, BindsFirst,
                SavesMerged, StatusTells, DraftsBound, OneBinding, ApprovedIsDispatched
  <2> QED  BY <2>1 DEF ConvInv
<1>2. CASE ConvNext
  <2> PICK r \in Handlers :
         \/ \E m \in Messages, c \in Convs : Receive(r, m, c)
         \/ \E p \in Projects : CreateWorkspace(r, p)
         \/ CreateBinding(r)
         \/ SaveWorkspace(r)
         \/ \E d \in Drafts : CreateDraft(r, d) \/ ApproveDraft(r, d) \/ RejectDraft(r, d)
         \/ Dispatch(r)
         \/ EventDies(r)
    BY <1>2 DEF ConvNext
  <2> QED  BY ReceiveInv, CreateWorkspaceInv, CreateBindingInv, SaveWorkspaceInv,
              CreateDraftInv, ApproveDraftInv, RejectDraftInv, DispatchInv, EventDiesInv
<1> QED  BY <1>1, <1>2

LEMMA SpecConvInv == ConvSpec => []ConvInv
<1>1. ConvInit => ConvInv
  BY InitConvInv
<1>2. ConvInv /\ [ConvNext]_convVars => ConvInv'
  BY ConvNextInv
<1> QED  BY <1>1, <1>2, PTL DEF ConvSpec

\* Everything adapt_openclaw_event keeps has its type.
THEOREM ConvTypeCorrect == ConvSpec => []ConvTypeOK
<1>1. ConvInv => ConvTypeOK
  BY DEF ConvInv
<1> QED  BY <1>1, SpecConvInv, PTL

\* Until two events overlap in a conversation, it has one project: find_binding cannot
\* come back with another one for a later message.
THEOREM ConversationHasOneBinding == ConvSpec => []OneBinding
<1>1. ConvInv => OneBinding
  BY DEF ConvInv
<1> QED  BY <1>1, SpecConvInv, PTL

\* Wherever a request dies, create_binding was done before create_draft: every draft on
\* file is of a project that a conversation is bound to.
THEOREM EveryDraftIsReachable == ConvSpec => []DraftsAreReachable
<1>1. ConvInv => DraftsAreReachable
  BY DEF ConvInv, DraftsBound, Bound, DraftsAreReachable
<1> QED  BY <1>1, SpecConvInv, PTL

\* Until two events of a project overlap, _handle_approval hands each of its drafts to
\* OpenClaw at most once, and none that was rejected.
THEOREM DraftIsDispatchedOnce == ConvSpec => []DispatchedOnce
<1>1. ConvInv => DispatchedOnce
  <2> SUFFICES ASSUME ConvInv, NEW d \in Drafts, draft[d].project \notin overlapped
               PROVE  sent[d] <= IF draft[d].status = "rejected" THEN 0 ELSE 1
    BY DEF DispatchedOnce
  <2>1. /\ draft[d].status = "approved" => sent[d] \in {0, 1}
        /\ draft[d].status # "approved" => sent[d] = 0
    BY DEF ConvInv, StatusTells
  <2> QED  BY <2>1
<1> QED  BY <1>1, SpecConvInv, PTL

\* However events overlap, a draft that approve_draft marked approved was handed over, or
\* is in the answer of a request that still runs or that died.
THEOREM NoApprovalIsForgotten == ConvSpec => []ApprovedIsDispatched
<1>1. ConvInv => ApprovedIsDispatched
  BY DEF ConvInv
<1> QED  BY <1>1, SpecConvInv, PTL

\* Until two events of a project overlap, what save_b_workspace writes back has every
\* field that was on file.
THEOREM RequirementsGrow == ConvSpec => FieldsAreKept
<1>1. ConvInv /\ [ConvNext]_convVars =>
        [\A p \in started : p \notin overlapped' => known[p] \subseteq known'[p]]_convVars
  <2> SUFFICES ASSUME ConvInv, ConvNext, NEW p \in started, p \notin overlapped'
               PROVE  known[p] \subseteq known'[p]
    OBVIOUS
  <2>1. p \in Projects /\ known \in [Projects -> SUBSET Fields]
    BY HeldType DEF ConvInv, ConvTypeOK
  <2>2. CASE UNCHANGED known
    BY <2>2
  <2>3. ASSUME NEW r \in Handlers, NEW q \in Projects, CreateWorkspace(r, q)
        PROVE  known[p] \subseteq known'[p]
    BY <2>1, <2>3 DEF CreateWorkspace
  <2>4. ASSUME NEW r \in Handlers, SaveWorkspace(r)
        PROVE  known[p] \subseteq known'[p]
    <3>1. overlapped' = overlapped /\ event[r].pc = "save"
      BY <2>4 DEF SaveWorkspace
    <3>2. event[r].project \notin overlapped => known[event[r].project] \subseteq event[r].gives
      BY <3>1 DEF ConvInv, SavesMerged
    <3> QED  BY <2>1, <2>4, <3>1, <3>2 DEF SaveWorkspace
  <2>5. ASSUME NEW r \in Handlers, NEW m \in Messages, NEW c \in Convs, Receive(r, m, c)
        PROVE  UNCHANGED known
    BY <2>5 DEF Receive, Review, StartProject, FollowUpMessage, SupplierReply
  <2>6. ASSUME NEW r \in Handlers,
               \/ CreateBinding(r)
               \/ \E d \in Drafts : CreateDraft(r, d) \/ ApproveDraft(r, d) \/ RejectDraft(r, d)
               \/ Dispatch(r)
               \/ EventDies(r)
        PROVE  UNCHANGED known
    BY <2>6 DEF CreateBinding, CreateDraft, ApproveDraft, RejectDraft, Dispatch, EventDies
  <2> QED  BY <2>2, <2>3, <2>4, <2>5, <2>6 DEF ConvNext
<1> QED  BY <1>1, SpecConvInv, PTL DEF ConvSpec, FieldsAreKept
=============================================================================
