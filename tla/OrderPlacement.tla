--------------------------- MODULE OrderPlacement ---------------------------
(***************************************************************************)
(* Placing an order: POST /projects/{id}/orders/from-approved-option, with *)
(* what it stands on, the approval gate that approved the decision packet  *)
(* and the dynamic form it freezes a version of (POST and PATCH            *)
(* /dynamic-forms, /dynamic-forms/{id}/lock).                              *)
(*                                                                         *)
(* Module ApprovalGate is the gate, and its steps are steps here; what is  *)
(* named alike is told apart by Clerk and Placement.  The orders are those *)
(* of one project, which has at most one form.  The form's row is read     *)
(* without a lock, here too, and every request commits what it chose from  *)
(* the rows it had read.                                                   *)
(***************************************************************************)
EXTENDS ApprovalGate

CONSTANTS
    Clerks,        \* slots in which form and order requests are served
    Orders,        \* ids of Order rows
    MaxVersion     \* bound on the form's version numbers

ASSUME OrderPlacementAssumption == MaxVersion \in Nat \ {0}

VARIABLES
    form,          \* committed DynamicOrderForm row; version 0 if there is none
    rows,          \* numbers of DynamicOrderFormVersion rows by version_number
    order,         \* committed Order rows
    clerk,         \* what each form or order request has read, and where it is
    overlapped     \* history: two form or order requests have been served at once

gate == vars
placementVars == <<gate, form, rows, order, clerk, overlapped>>

Versions == 1..MaxVersion
OrderRow == [packet : Packets \cup {None}, option : Options \cup {None},
             version : 0..MaxVersion, number : Nat]
NoOrder == [packet |-> None, option |-> None, version |-> 0, number |-> 0]

Clerk == [pc : {"idle", "update", "chosen", "numbered"}, version : 0..MaxVersion,
          is_locked : BOOLEAN, packet : Packets \cup {None}, option : Options \cup {None},
          number : Nat]
IdleClerk == [pc |-> "idle", version |-> 0, is_locked |-> FALSE, packet |-> None,
              option |-> None, number |-> 0]

Placed == {d \in Orders : order[d] # NoOrder}
IsLatest(n) == rows[n] > 0 /\ \A m \in Versions : rows[m] > 0 => m <= n
ClerkBegins(c, read) ==
    /\ clerk[c].pc = "idle"
    /\ clerk' = [clerk EXCEPT ![c] = read]
    /\ overlapped' = (overlapped \/ \E e \in Clerks : clerk[e].pc # "idle")
ClerkFinishes(c) == clerk' = [clerk EXCEPT ![c] = IdleClerk] /\ UNCHANGED overlapped

-----------------------------------------------------------------------------
\* create_dynamic_form_from_inquiry; project_id is unique among forms.
CreateForm ==
    /\ form.current_version = 0
    /\ form' = [current_version |-> 1, is_locked |-> FALSE]
    /\ rows' = [rows EXCEPT ![1] = 1]
    /\ UNCHANGED <<gate, order, clerk, overlapped>>

LockForm ==
    /\ form.current_version > 0
    /\ form' = [form EXCEPT !.is_locked = TRUE]
    /\ UNCHANGED <<gate, rows, order, clerk, overlapped>>

\* Mutant of UpdateRead: the form's lock is not looked at.
UpdateReadUnchecked(c) ==
    /\ form.current_version > 0
    /\ \E n \in Versions \ {MaxVersion} :
          /\ IsLatest(n)
          /\ ClerkBegins(c, [IdleClerk EXCEPT !.pc = "update", !.version = n + 1])
    /\ UNCHANGED <<gate, form, rows, order>>

\* Mutant of UpdateRead: the new version takes the number of the latest.
UpdateReadSameNumber(c) ==
    /\ form.current_version > 0
    /\ ~form.is_locked
    /\ \E n \in Versions \ {MaxVersion} :
          /\ IsLatest(n)
          /\ ClerkBegins(c, [IdleClerk EXCEPT !.pc = "update", !.version = n])
    /\ UNCHANGED <<gate, form, rows, order>>

\* update_form_fields: the lock is checked, the number after the latest is chosen.
\* Bound: no number beyond MaxVersion.
UpdateRead(c) ==
    /\ form.current_version > 0
    /\ ~form.is_locked
    /\ \E n \in Versions \ {MaxVersion} :
          /\ IsLatest(n)
          /\ ClerkBegins(c, [IdleClerk EXCEPT !.pc = "update", !.version = n + 1])
    /\ UNCHANGED <<gate, form, rows, order>>

UpdateCommit(c) ==
    LET n == clerk[c].version IN
    /\ clerk[c].pc = "update"
    /\ rows' = [rows EXCEPT ![n] = @ + 1]
    /\ form' = [form EXCEPT !.current_version = n]
    /\ ClerkFinishes(c)
    /\ UNCHANGED <<gate, order>>

-----------------------------------------------------------------------------
\* Mutant of ChooseOption: the packet's approval is not checked.
ChooseOptionUnapproved(c, p, o) ==
    /\ packet[p].status # "ABSENT"
    /\ form.current_version > 0 => rows[form.current_version] = 1
    /\ ClerkBegins(c, [IdleClerk EXCEPT !.pc = "chosen", !.packet = p, !.option = o,
           !.version = form.current_version, !.is_locked = form.is_locked])
    /\ UNCHANGED <<gate, form, rows, order>>

\* create_order_from_approved_option reads the packet, whatever option of it the
\* client names, and the current version of the form if there is one.  Two rows of
\* that number make scalar_one_or_none raise: no order can be placed.
ChooseOption(c, p, o) ==
    /\ packet[p].status = "APPROVED"
    /\ form.current_version > 0 => rows[form.current_version] = 1
    /\ ClerkBegins(c, [IdleClerk EXCEPT !.pc = "chosen", !.packet = p, !.option = o,
           !.version = form.current_version, !.is_locked = form.is_locked])
    /\ UNCHANGED <<gate, form, rows, order>>

\* _next_order_seq.
NumberOrder(c) ==
    /\ clerk[c].pc = "chosen"
    /\ clerk' = [clerk EXCEPT ![c].pc = "numbered", ![c].number = Cardinality(Placed) + 1]
    /\ UNCHANGED <<gate, form, rows, order, overlapped>>

\* order_number is unique: an order numbered like one committed meanwhile is
\* refused, and its request ends like an aborted one.
PlaceOrder(c, d) ==
    /\ clerk[c].pc = "numbered"
    /\ d \notin Placed
    /\ \A e \in Placed : order[e].number # clerk[c].number
    /\ order' = [order EXCEPT ![d] = [packet |-> clerk[c].packet, option |-> clerk[c].option,
                                      version |-> clerk[c].version, number |-> clerk[c].number]]
    /\ form' = IF clerk[c].version > 0 /\ ~clerk[c].is_locked
               THEN [form EXCEPT !.is_locked = TRUE] ELSE form
    /\ ClerkFinishes(c)
    /\ UNCHANGED <<gate, rows>>

\* The request fails or dies before its commit.
ClerkAborts(c) ==
    /\ clerk[c].pc # "idle"
    /\ ClerkFinishes(c)
    /\ UNCHANGED <<gate, form, rows, order>>

-----------------------------------------------------------------------------
PlacementInit ==
    /\ Init
    /\ form = [current_version |-> 0, is_locked |-> FALSE]
    /\ rows = [n \in Versions |-> 0]
    /\ order = [d \in Orders |-> NoOrder]
    /\ clerk = [c \in Clerks |-> IdleClerk]
    /\ overlapped = FALSE

GateStep == Next /\ UNCHANGED <<form, rows, order, clerk, overlapped>>

PlacementNext ==
    \/ GateStep
    \/ CreateForm
    \/ LockForm
    \/ \E c \in Clerks :
          \/ UpdateRead(c) \/ UpdateCommit(c) \/ NumberOrder(c) \/ ClerkAborts(c)
          \/ \E p \in Packets, o \in Options : ChooseOption(c, p, o)
          \/ \E d \in Orders : PlaceOrder(c, d)

PlacementSpec == PlacementInit /\ [][PlacementNext]_placementVars

-----------------------------------------------------------------------------
(***************************************************************************)
(* Properties that hold however requests interleave                        *)
(***************************************************************************)
\* Rows and sessions hold the values the schema and the handlers allow.
PlacementTypeOK ==
    /\ form \in [current_version : 0..MaxVersion, is_locked : BOOLEAN]
    /\ rows \in [Versions -> Nat]
    /\ order \in [Orders -> OrderRow]
    /\ clerk \in [Clerks -> Clerk]
    /\ overlapped \in BOOLEAN

\* The docstring of create_order_from_approved_option: "an approved packet is
\* therefore proof of prior human approval".  Behind every order there is an approval
\* of its packet that a human gave and that was spent on it.
OrderMeansApproval ==
    \A d \in Placed : \E a \in Approvals : SpentFor(a, order[d].packet)

(***************************************************************************)
(* Properties that hold as long as no two form or order requests overlap   *)
(***************************************************************************)
\* The form's current version is its latest, and no two versions have one number: the
\* lookup of the current version finds one row.
CurrentIsLatest ==
    ~overlapped =>
        /\ form.current_version > 0 => IsLatest(form.current_version)
        /\ \A n \in Versions : rows[n] <= 1

\* "Form is locked after order confirmation." (api/routes/dynamic_forms.py): nothing
\* adds a version to a form an order has frozen, so the order keeps referring to the
\* form's current version.
OrderedFormIsFinal ==
    ~overlapped =>
        \A d \in Placed : order[d].version > 0 => order[d].version = form.current_version
=============================================================================
