----------------------- MODULE SupplierResponsesProofs -----------------------
(***************************************************************************)
(* What the recording of suppliers' responses guarantees for any number of *)
(* suppliers and responses: overlapping requests never show an RFQ as      *)
(* answered on too few responses; as long as none overlap, the status      *)
(* agrees with their number and moves along VALID_TRANSITIONS.             *)
(***************************************************************************)
EXTENDS SupplierResponses, FiniteSetTheorems, TLAPS

Recorded1 == Cardinality(Recorded) + 1

\* A request knows its supplier, and if it is about to show the RFQ as answered, its
\* own response will make the number up.
ChoiceOK(r) ==
    /\ session[r].pc # "idle" => session[r].participant \in Participants
    /\ session[r].pc = "counted" /\ session[r].next # session[r].seen
         /\ session[r].next \in {"RECEIVED", "COMPLETE_RESPONSE"} =>
               Recorded1 >= Cardinality(Recipients)

IInv ==
    /\ TypeOK
    /\ \A r \in Requests : ChoiceOK(r)
    /\ AnsweredMeansEnough
    /\ RespondedMeansRecorded

-----------------------------------------------------------------------------
\* The numbers compared are natural numbers.
LEMMA CountsAreNat == Cardinality(Recorded) \in Nat /\ Cardinality(Recipients) \in Nat
<1>1. Recorded \subseteq Responses
    BY DEF Recorded
<1> QED
    BY <1>1, SupplierResponsesAssumption, FS_Subset, FS_CardinalityType

\* Committing a response adds one to their number.
LEMMA CommitCounts ==
    ASSUME IInv, NEW r \in Requests, NEW i \in Responses, Commit(r, i)
    PROVE  Cardinality(Recorded)' = Recorded1
<1>1. session[r].participant # None
    BY SupplierResponsesAssumption DEF IInv, ChoiceOK, Commit
<1>2. Recorded' = Recorded \cup {i} /\ i \notin Recorded
    BY <1>1 DEF IInv, TypeOK, Commit, Recorded
<1>3. IsFiniteSet(Recorded)
  <2>1. Recorded \subseteq Responses
      BY DEF Recorded
  <2> QED
      BY <2>1, SupplierResponsesAssumption, FS_Subset
<1>4. Cardinality(Recorded \cup {i}) = Cardinality(Recorded) + 1
    BY <1>2, <1>3, FS_AddElement
<1> QED
    BY <1>2, <1>4 DEF Recorded1

\* Every other step leaves the responses as they are.
LEMMA OthersKeepResponses ==
    ASSUME [Next]_vars, ~\E r \in Requests, i \in Responses : Commit(r, i)
    PROVE  response' = response /\ Recorded' = Recorded
<1>1. response' = response
    BY DEF Next, vars, Send, Read, FindRecipient, Mark, Count, Abort
<1> QED
    BY <1>1 DEF Recorded

\* Nothing is recorded at first.
LEMMA InitIInv == Init => IInv
<1> SUFFICES ASSUME Init PROVE IInv
    OBVIOUS
<1>1. TypeOK
    BY DEF Init, TypeOK, RfqStates, Session, IdleSession
<1>2. AnsweredMeansEnough /\ RespondedMeansRecorded
    BY DEF Init, AnsweredMeansEnough, RespondedMeansRecorded
<1>3. \A r \in Requests : ChoiceOK(r)
    BY DEF Init, IdleSession, ChoiceOK
<1> QED
    BY <1>1, <1>2, <1>3 DEF IInv

\* The status chosen is an RFQ status.
LEMMA StatusAfterType ==
    ASSUME NEW seen \in RfqStates, NEW enough
    PROVE  StatusAfter(seen, enough) \in RfqStates
BY DEF StatusAfter, RfqStates

\* Every step keeps rows and sessions of their types.
LEMMA NextTypeOK == IInv /\ [Next]_vars => TypeOK'
<1> SUFFICES ASSUME IInv, [Next]_vars PROVE TypeOK'
    OBVIOUS
<1>0. TypeOK /\ \A r \in Requests : ChoiceOK(r)
    BY DEF IInv
<1>1. CASE Send
    BY <1>0, <1>1 DEF TypeOK, Send, RfqStates
<1>2. ASSUME NEW r \in Requests, NEW p \in Participants, Read(r, p) PROVE TypeOK'
  <2>1. session'[r] \in Session
      BY <1>0, <1>2 DEF TypeOK, Read, Session, IdleSession, RfqStates
  <2> QED
      BY <1>0, <1>2, <2>1 DEF TypeOK, Read
<1>3. ASSUME NEW r \in Requests, FindRecipient(r) \/ Mark(r) PROVE TypeOK'
    BY <1>0, <1>3 DEF TypeOK, FindRecipient, Mark, Session
<1>4. ASSUME NEW r \in Requests, Count(r) PROVE TypeOK'
  <2> DEFINE next == StatusAfter(session[r].seen, EnoughWith(Cardinality(Recorded) + 1))
  <2>1. PICK old \in Session : old = session[r]
      BY <1>0 DEF TypeOK
  <2>2. next \in RfqStates
      BY <2>1, StatusAfterType DEF Session
  <2>3. session' = [session EXCEPT ![r] = [old EXCEPT !.pc = "counted", !.next = next]]
      BY <1>4, <2>1 DEF Count
  <2> HIDE DEF next
  <2>4. [old EXCEPT !.pc = "counted", !.next = next] \in Session
      BY <2>2 DEF Session
  <2> QED
      BY <1>0, <1>4, <2>3, <2>4 DEF TypeOK, Count
<1>5. ASSUME NEW r \in Requests, NEW i \in Responses, Commit(r, i) PROVE TypeOK'
  <2>1. session[r].participant \in Participants /\ session[r].next \in RfqStates
      BY <1>0, <1>5 DEF Commit, ChoiceOK, TypeOK, Session
  <2>2. session' \in [Requests -> Session]
      BY <1>0, <1>5 DEF TypeOK, Commit, Finish, Session, IdleSession, RfqStates
  <2>3. lock' \in [Recipients -> Requests \cup {None}]
      BY <1>0, <1>5 DEF TypeOK, Commit, Unlock
  <2> QED
      BY <1>0, <1>5, <2>1, <2>2, <2>3 DEF TypeOK, Commit
<1>6. ASSUME NEW r \in Requests, Abort(r) PROVE TypeOK'
    BY <1>0, <1>6 DEF TypeOK, Abort, Finish, Unlock, Session, IdleSession, RfqStates
<1>7. CASE UNCHANGED vars
    BY <1>0, <1>7 DEF TypeOK, vars
<1> QED
    BY <1>1, <1>2, <1>3, <1>4, <1>5, <1>6, <1>7 DEF Next

\* Every step keeps the choices of the requests sound: other requests only add
\* responses.
LEMMA NextChoiceOK == IInv /\ [Next]_vars => \A r \in Requests : ChoiceOK(r)'
<1> SUFFICES ASSUME IInv, [Next]_vars, NEW q \in Requests PROVE ChoiceOK(q)'
    OBVIOUS
<1>0. TypeOK /\ ChoiceOK(q)
    BY DEF IInv
<1>1. Recorded1' >= Recorded1
  <2>1. ASSUME NEW r \in Requests, NEW i \in Responses, Commit(r, i) PROVE Recorded1' >= Recorded1
      BY <2>1, CommitCounts, CountsAreNat DEF Recorded1
  <2>2. ASSUME ~\E r \in Requests, i \in Responses : Commit(r, i) PROVE Recorded1' >= Recorded1
    <3>1. Recorded1' = Recorded1
        BY <2>2, OthersKeepResponses DEF Recorded1
    <3> QED
        BY <3>1, CountsAreNat DEF Recorded1
  <2> QED
      BY <2>1, <2>2
<1>2. CASE session'[q] = session[q]
  <2>1. Recorded1 >= Cardinality(Recipients) => Recorded1' >= Cardinality(Recipients)
    <3>1. Recorded1 \in Nat /\ Recorded1' \in Nat
      <4>1. (Cardinality(Recorded) \in Nat)'
          BY CountsAreNat, PTL
      <4> QED
          BY <4>1, CountsAreNat DEF Recorded1
    <3> QED
        BY <1>1, <3>1, CountsAreNat
  <2> QED
      BY <1>0, <1>2, <2>1 DEF ChoiceOK
<1>3. CASE session'[q] = IdleSession
    BY <1>3 DEF ChoiceOK, IdleSession
<1>4. ASSUME NEW p \in Participants, Read(q, p) PROVE ChoiceOK(q)'
    BY <1>0, <1>4 DEF TypeOK, Read, ChoiceOK, IdleSession
<1>5. ASSUME FindRecipient(q) \/ Mark(q) PROVE ChoiceOK(q)'
    BY <1>0, <1>5 DEF TypeOK, FindRecipient, Mark, ChoiceOK, Session
<1>6. ASSUME Count(q) PROVE ChoiceOK(q)'
  <2>1. /\ session[q].participant \in Participants
        /\ session'[q].participant = session[q].participant /\ session'[q].seen = session[q].seen
        /\ session'[q].next = StatusAfter(session[q].seen, EnoughWith(Recorded1))
        /\ Recorded' = Recorded
      BY <1>0, <1>6 DEF TypeOK, Count, ChoiceOK, Session, Recorded, Recorded1
  <2>2. /\ StatusAfter(session[q].seen, EnoughWith(Recorded1)) # session[q].seen
        /\ StatusAfter(session[q].seen, EnoughWith(Recorded1)) \in {"RECEIVED", "COMPLETE_RESPONSE"}
        => EnoughWith(Recorded1)
      BY DEF StatusAfter
  <2>3. session'[q].next # session'[q].seen /\ session'[q].next \in {"RECEIVED", "COMPLETE_RESPONSE"}
           => Recorded1 >= Cardinality(Recipients)
      BY <2>1, <2>2 DEF EnoughWith
  <2> QED
      BY <2>1, <2>3 DEF ChoiceOK, Recorded1
<1> QED
  <2>1. ASSUME NEW r \in Requests, r # q,
               FindRecipient(r) \/ Mark(r) \/ Count(r) \/ \E p \in Participants : Read(r, p)
        PROVE  session'[q] = session[q]
      BY <1>0, <2>1 DEF FindRecipient, Mark, Count, Read, TypeOK
  <2>2. ASSUME NEW r \in Requests, Finish(r)
        PROVE  session'[q] = session[q] \/ session'[q] = IdleSession
      BY <1>0, <2>2 DEF Finish, TypeOK
  <2> QED
      BY <1>2, <1>3, <1>4, <1>5, <1>6, <2>1, <2>2 DEF Next, vars, Send, Abort, Commit

\* Every step keeps what is shown of the RFQ and its recipients covered by responses.
LEMMA NextRecorded == IInv /\ [Next]_vars => AnsweredMeansEnough' /\ RespondedMeansRecorded'
<1> SUFFICES ASSUME IInv, [Next]_vars PROVE AnsweredMeansEnough' /\ RespondedMeansRecorded'
    OBVIOUS
<1>0. TypeOK /\ AnsweredMeansEnough /\ RespondedMeansRecorded
    BY DEF IInv
<1>1. ASSUME NEW r \in Requests, NEW i \in Responses, Commit(r, i)
      PROVE  AnsweredMeansEnough' /\ RespondedMeansRecorded'
  <2>1. ChoiceOK(r) /\ session[r].pc = "counted"
      BY <1>1 DEF IInv, Commit
  <2>2. Cardinality(Recorded)' = Recorded1
      BY <1>1, CommitCounts
  <2>3. \/ status' = status
        \/ status' = session[r].next /\ session[r].next # session[r].seen
      BY <1>1 DEF Commit
  <2>4. Recorded1 >= Cardinality(Recorded)
      BY CountsAreNat DEF Recorded1
  <2>5. AnsweredMeansEnough'
      BY <1>0, <2>1, <2>2, <2>3, <2>4, CountsAreNat DEF AnsweredMeansEnough, ChoiceOK, Recorded1
  <2>6. RespondedMeansRecorded'
    <3> SUFFICES ASSUME NEW p \in Recipients, recipient'[p] = "RESPONDED"
                 PROVE  \E j \in Responses : response'[j] = p
        BY DEF RespondedMeansRecorded
    <3>1. CASE recipient[p] = "RESPONDED"
      <4>1. PICK j \in Responses : response[j] = p
          BY <1>0, <3>1 DEF RespondedMeansRecorded
      <4>2. p # None
          BY SupplierResponsesAssumption
      <4> QED
          BY <1>0, <1>1, <4>1, <4>2 DEF Commit, TypeOK
    <3>2. CASE recipient[p] # "RESPONDED"
        BY <1>0, <1>1, <3>2 DEF Commit, TypeOK
    <3> QED
        BY <3>1, <3>2
  <2> QED
      BY <2>5, <2>6
<1>2. ASSUME ~\E r \in Requests, i \in Responses : Commit(r, i)
      PROVE  AnsweredMeansEnough' /\ RespondedMeansRecorded'
  <2>1. response' = response /\ Recorded' = Recorded
      BY <1>2, OthersKeepResponses
  <2>2. \/ status' = status /\ recipient' = recipient
        \/ status' = "SENT" /\ recipient' = [p \in Recipients |-> "SENT"]
      BY <1>2 DEF Next, vars, Send, Read, FindRecipient, Mark, Count, Abort
  <2> QED
      BY <1>0, <2>1, <2>2 DEF AnsweredMeansEnough, RespondedMeansRecorded
<1> QED
    BY <1>1, <1>2

\* The invariant is inductive.
LEMMA Inductive == Spec => []IInv
<1>1. IInv /\ [Next]_vars => IInv'
    BY NextTypeOK, NextChoiceOK, NextRecorded DEF IInv
<1> QED
    BY <1>1, InitIInv, PTL DEF Spec

\* Rows and sessions hold the values the schema and the handlers allow.
THEOREM TypeCorrect == Spec => []TypeOK
<1>1. IInv => TypeOK
    BY DEF IInv
<1> QED
    BY <1>1, Inductive, PTL

\* However many responses overlap, an RFQ is not shown as answered on too few.
THEOREM AnswersSuffice == Spec => []AnsweredMeansEnough
<1>1. IInv => AnsweredMeansEnough
    BY DEF IInv
<1> QED
    BY <1>1, Inductive, PTL

\* However many responses overlap or fail, a recipient that shows as having responded
\* has a response on record.
THEOREM RespondentsAreOnRecord == Spec => []RespondedMeansRecorded
<1>1. IInv => RespondedMeansRecorded
    BY DEF IInv
<1> QED
    BY <1>1, Inductive, PTL

-----------------------------------------------------------------------------
(***************************************************************************)
(* As long as no two responses have overlapped                             *)
(***************************************************************************)
\* The status read still stands, unless the RFQ has been sent meanwhile, and so does
\* the choice made from the count.
Fresh(r) ==
    /\ session[r].pc # "idle" =>
          \/ session[r].seen = status
          \/ session[r].seen = "PENDING_APPROVAL" /\ status = "SENT"
    /\ session[r].pc = "counted" =>
          session[r].next = StatusAfter(session[r].seen, EnoughWith(Recorded1))

OneAtATime == \A r, s \in Requests : session[r].pc # "idle" /\ session[s].pc # "idle" => r = s

SerialOK == ~overlapped => OneAtATime /\ (\A r \in Requests : Fresh(r)) /\ StatusMatchesCount

SerialInv == IInv /\ SerialOK

\* A step of one request.
StepOf(r) ==
    \/ \E p \in Participants : Read(r, p)
    \/ FindRecipient(r) \/ Mark(r) \/ Count(r) \/ Abort(r)
    \/ \E i \in Responses : Commit(r, i)

\* An overlap is never forgotten.
LEMMA OverlapIsKept == TypeOK /\ [Next]_vars /\ overlapped => overlapped'
BY DEF TypeOK, Next, vars, Send, Read, FindRecipient, Mark, Count, Commit, Abort

\* Without overlap, a request that takes a step finds every other one idle and leaves
\* it so.
LEMMA OthersIdle ==
    ASSUME SerialInv, NEW r \in Requests, StepOf(r), ~overlapped', NEW q \in Requests, q # r
    PROVE  session'[q] = session[q] /\ session[q].pc = "idle"
<1>0. TypeOK /\ ~overlapped /\ OneAtATime
  <2>1. [Next]_vars
      BY DEF StepOf, Next
  <2> QED
      BY <2>1, OverlapIsKept DEF SerialInv, IInv, SerialOK
<1>1. ASSUME NEW p \in Participants, Read(r, p) PROVE session[q].pc = "idle"
    BY <1>1 DEF Read
<1>2. ASSUME session[r].pc # "idle" PROVE session[q].pc = "idle"
    BY <1>0, <1>2 DEF OneAtATime
<1>3. session[q].pc = "idle"
    BY <1>1, <1>2 DEF StepOf, FindRecipient, Mark, Count, Abort, Commit
<1>4. session'[q] = session[q]
    BY <1>0 DEF StepOf, Read, FindRecipient, Mark, Count, Abort, Commit, Finish, TypeOK
<1> QED
    BY <1>3, <1>4

\* Hence only the request that took the step has to be looked at.
LEMMA OnlyTheActor ==
    ASSUME SerialInv, NEW r \in Requests, StepOf(r), ~overlapped', Fresh(r)'
    PROVE  OneAtATime' /\ \A q \in Requests : Fresh(q)'
<1>1. \A q \in Requests : q # r => session'[q].pc = "idle"
    BY OthersIdle
<1>2. OneAtATime'
    BY <1>1 DEF OneAtATime
<1>3. ASSUME NEW q \in Requests PROVE Fresh(q)'
  <2>1. CASE q = r
      BY <2>1
  <2>2. CASE q # r
      BY <1>1, <2>2 DEF Fresh
  <2> QED
      BY <2>1, <2>2
<1> QED
    BY <1>2, <1>3

\* What a commit that overlaps with no other writes.
LEMMA SerialCommit ==
    ASSUME SerialInv, ~overlapped, NEW r \in Requests, NEW i \in Responses, Commit(r, i)
    PROVE  /\ Fresh(r)' /\ StatusMatchesCount'
           /\ status' # status => status' \in ValidTransitions(status)
<1>0. IInv /\ TypeOK /\ Fresh(r) /\ StatusMatchesCount
    BY DEF SerialInv, IInv, SerialOK
<1>1. Cardinality(Recorded)' = Recorded1
    BY <1>0, CommitCounts
<1>2. /\ session[r].pc = "counted" /\ session'[r] = IdleSession
      /\ status' = IF session[r].next = session[r].seen THEN status ELSE session[r].next
    BY <1>0 DEF Commit, Finish, TypeOK
<1>3. /\ session[r].next = StatusAfter(session[r].seen, EnoughWith(Recorded1))
      /\ \/ session[r].seen = status
         \/ session[r].seen = "PENDING_APPROVAL" /\ status = "SENT"
    BY <1>0, <1>2 DEF Fresh
<1>4. EnoughWith(Recorded1) <=> ~(Recorded1 < Cardinality(Recipients))
    BY CountsAreNat DEF EnoughWith, Recorded1
<1>5. StatusMatchesCount'
  <2>1. status' = "PARTIAL_RESPONSE" => Recorded1 < Cardinality(Recipients)
    <3>1. CASE status = "SENT" /\ session[r].seen = "PENDING_APPROVAL"
        BY <1>2, <1>3, <3>1 DEF StatusAfter
    <3>2. CASE session[r].seen = status
        BY <1>2, <1>3, <1>4, <3>2 DEF StatusAfter
    <3> QED
        BY <1>3, <3>1, <3>2
  <2> QED
      BY <1>1, <2>1 DEF StatusMatchesCount
<1>6. ASSUME status' # status PROVE status' \in ValidTransitions(status)
  <2>1. \/ status = "SENT" /\ status' \in {"RECEIVED", "PARTIAL_RESPONSE"}
        \/ status \in {"RECEIVED", "PARTIAL_RESPONSE"} /\ status' = "COMPLETE_RESPONSE"
      BY <1>2, <1>3, <1>6 DEF StatusAfter
  <2> QED
      BY <2>1 DEF ValidTransitions
<1>7. Fresh(r)'
    BY <1>2 DEF Fresh, IdleSession
<1> QED
    BY <1>5, <1>6, <1>7

\* A step before the commit leaves the status alone and its own reads fresh.
LEMMA SerialStep ==
    ASSUME SerialInv, ~overlapped, NEW r \in Requests, StepOf(r),
           ~\E i \in Responses : Commit(r, i)
    PROVE  status' = status /\ Fresh(r)'
<1>0. TypeOK /\ Fresh(r)
    BY DEF SerialInv, IInv, SerialOK
<1>1. Recorded' = Recorded /\ Recorded1' = Recorded1
  <2>1. response' = response
      BY DEF StepOf, Read, FindRecipient, Mark, Count, Abort
  <2> QED
      BY <2>1 DEF Recorded, Recorded1
<1>2. ASSUME NEW p \in Participants, Read(r, p) PROVE status' = status /\ Fresh(r)'
    BY <1>0, <1>2 DEF Read, TypeOK, Fresh, IdleSession
<1>3. CASE FindRecipient(r) \/ Mark(r)
  <2>1. /\ status' = status /\ session'[r].pc \in {"found", "marked"} /\ session[r].pc # "idle"
        /\ session'[r].seen = session[r].seen
      BY <1>0, <1>3 DEF FindRecipient, Mark, TypeOK, Session
  <2> QED
      BY <1>0, <2>1 DEF Fresh
<1>4. CASE Count(r)
  <2>1. /\ status' = status /\ session[r].pc = "marked"
        /\ session'[r].seen = session[r].seen
        /\ session'[r].next = StatusAfter(session[r].seen, EnoughWith(Recorded1))
      BY <1>0, <1>4 DEF Count, TypeOK, Session, Recorded1
  <2>2. StatusAfter(session[r].seen, EnoughWith(Recorded1))'
           = StatusAfter(session[r].seen, EnoughWith(Recorded1))
      BY <1>1, <2>1 DEF EnoughWith
  <2> QED
      BY <1>0, <2>1, <2>2 DEF Fresh
<1>5. CASE Abort(r)
  <2>1. status' = status /\ session'[r] = IdleSession
      BY <1>0, <1>5 DEF Abort, Finish, TypeOK
  <2> QED
      BY <2>1 DEF Fresh, IdleSession
<1> QED
    BY <1>2, <1>3, <1>4, <1>5 DEF StepOf

\* Sending leaves every choice fresh: only a request that saw PENDING_APPROVAL is
\* under way.
LEMMA SerialSend ==
    ASSUME SerialInv, ~overlapped, Send
    PROVE  /\ SerialOK'
           /\ status' \in ValidTransitions(status)
<1>0. OneAtATime /\ \A r \in Requests : Fresh(r)
    BY DEF SerialInv, SerialOK
<1>1. session' = session /\ status = "PENDING_APPROVAL" /\ status' = "SENT" /\ Recorded1' = Recorded1
    BY DEF Send, Recorded1, Recorded
<1>2. ASSUME NEW r \in Requests PROVE Fresh(r)'
  <2>1. Fresh(r)
      BY <1>0
  <2> QED
      BY <1>1, <2>1 DEF Fresh, EnoughWith
<1>3. OneAtATime'
    BY <1>0, <1>1 DEF OneAtATime
<1>4. StatusMatchesCount'
    BY <1>1 DEF StatusMatchesCount
<1>5. status' \in ValidTransitions(status)
    BY <1>1 DEF ValidTransitions
<1> QED
    BY <1>2, <1>3, <1>4, <1>5 DEF SerialOK

\* As long as no responses overlap, no response comes between a count and the commit
\* it leads to.
LEMMA NextSerial ==
    SerialInv /\ [Next]_vars =>
        SerialOK' /\ (~overlapped /\ status' # status => status' \in ValidTransitions(status))
<1> SUFFICES ASSUME SerialInv, [Next]_vars
             PROVE  /\ SerialOK'
                    /\ ~overlapped /\ status' # status => status' \in ValidTransitions(status)
    OBVIOUS
<1>0. TypeOK
    BY DEF SerialInv, IInv
<1>1. CASE overlapped
    BY <1>0, <1>1, OverlapIsKept DEF SerialOK
<1>2. CASE ~overlapped /\ Send
    BY <1>2, SerialSend
<1>3. ASSUME ~overlapped, NEW r \in Requests, StepOf(r)
      PROVE  /\ SerialOK'
             /\ status' # status => status' \in ValidTransitions(status)
  <2>1. Fresh(r)' /\ (status' # status => status' \in ValidTransitions(status))
      BY <1>3, SerialCommit, SerialStep
  <2>2. StatusMatchesCount'
    <3>1. CASE \E i \in Responses : Commit(r, i)
        BY <1>3, <3>1, SerialCommit
    <3>2. CASE ~\E i \in Responses : Commit(r, i)
      <4>1. status' = status
          BY <1>3, <3>2, SerialStep
      <4>2. Recorded' = Recorded
          BY <1>3, <3>2 DEF StepOf, Read, FindRecipient, Mark, Count, Abort, Recorded
      <4> QED
          BY <1>3, <4>1, <4>2 DEF SerialInv, SerialOK, StatusMatchesCount
    <3> QED
        BY <3>1, <3>2
  <2>3. ~overlapped' => OneAtATime' /\ \A q \in Requests : Fresh(q)'
      BY <1>3, <2>1, OnlyTheActor
  <2> QED
      BY <2>1, <2>2, <2>3 DEF SerialOK
<1>4. CASE UNCHANGED vars
  <2>1. ASSUME NEW r \in Requests, Fresh(r) PROVE Fresh(r)'
      BY <1>4, <2>1 DEF vars, Fresh, EnoughWith, Recorded1, Recorded
  <2>2. OneAtATime => OneAtATime'
      BY <1>4 DEF vars, OneAtATime
  <2>3. StatusMatchesCount => StatusMatchesCount'
      BY <1>4 DEF vars, StatusMatchesCount, Recorded
  <2>4. overlapped' = overlapped /\ status' = status
      BY <1>4 DEF vars
  <2> QED
      BY <2>1, <2>2, <2>3, <2>4 DEF SerialInv, SerialOK
<1> QED
    BY <1>1, <1>2, <1>3, <1>4 DEF Next, StepOf

\* The strengthened invariant is inductive.
LEMMA SerialInductive == Spec => []SerialInv
<1>1. Init => SerialInv
    BY InitIInv DEF Init, SerialInv, SerialOK, OneAtATime, StatusMatchesCount, Fresh, IdleSession
<1>2. SerialInv /\ [Next]_vars => SerialInv'
    BY NextTypeOK, NextChoiceOK, NextRecorded, NextSerial DEF SerialInv, IInv
<1> QED
    BY <1>1, <1>2, PTL DEF Spec

\* Responses that do not overlap leave the RFQ's status in agreement with their number.
THEOREM SerialStatus == Spec => []StatusMatchesCount
<1>1. SerialInv => StatusMatchesCount
    BY DEF SerialInv, SerialOK, StatusMatchesCount
<1> QED
    BY <1>1, SerialInductive, PTL

\* Responses that do not overlap move the RFQ along VALID_TRANSITIONS only.
THEOREM SerialTransitions == Spec => StatusFollowsTransitions
<1>1. SerialInv /\ [Next]_vars => [~overlapped => status' \in ValidTransitions(status)]_status
    BY NextSerial
<1> QED
    BY <1>1, SerialInductive, PTL DEF Spec, StatusFollowsTransitions
=============================================================================
