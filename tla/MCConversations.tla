-------------------------- MODULE MCConversations ---------------------------
(***************************************************************************)
(* Model checking of Conversations: two events at a time, in two           *)
(* conversations that may be bound to one project or to two, and room for  *)
(* one draft.  The messages are the ones the handlers tell apart.          *)
(***************************************************************************)
EXTENDS Conversations, TLC

Words(approves, refuses, offers, gives, mentions) ==
    [approves |-> approves, refuses |-> refuses, offers |-> offers, mode |-> "auto",
     gives |-> gives, mentions |-> mentions]

Inquiry == Words(FALSE, FALSE, FALSE, Basic, {})
Completion == Words(FALSE, FALSE, FALSE, Specs, {})
Question == Words(FALSE, FALSE, FALSE, {}, Specs)
Confirmation == Words(TRUE, FALSE, FALSE, {}, {})
Refusal == Words(FALSE, TRUE, FALSE, {}, {})
Offer == Words(FALSE, FALSE, TRUE, {}, {})

SampleMessages ==
    {Inquiry, Completion, Question, Confirmation, Refusal, Offer}

Symmetry == Permutations(Handlers) \cup Permutations(Convs) \cup Permutations(Projects)
            \cup Permutations(Drafts)
=============================================================================
