------------------------- MODULE QualityLedgerProofs -------------------------
(***************************************************************************)
(* What the quality ledger guarantees for any number of participants,      *)
(* incidents, alerts and overlapping requests: that no alert is raised on  *)
(* too few incidents; and for a participant whose own inspections do not   *)
(* overlap, that the threshold always raises one and never a second active *)
(* one.                                                                    *)
(***************************************************************************)
EXTENDS QualityLedger, FiniteSetTheorems, TLAPS

\* A request that has counted knows of no more incidents than the ledger will show
\* once its own is committed, and raises an alert only at the threshold.
CountOK(r) ==
    /\ session[r].pc # "idle" =>
          /\ session[r].participant \in Participants
          /\ session[r].count <= Cardinality(FiledAgainst(session[r].participant)) + 1
    /\ session[r].pc = "raise" => Due(session[r].count)

AlertOK(a) ==
    alert[a].status # "ABSENT" =>
        /\ alert[a].participant \in Participants
        /\ alert[a].quality_issue_count >= REPLACEMENT_THRESHOLD
        /\ alert[a].quality_issue_count <= Cardinality(FiledAgainst(alert[a].participant))

IInv ==
    /\ TypeOK
    /\ \A r \in Requests : CountOK(r)
    /\ \A a \in Alerts : AlertOK(a)

-----------------------------------------------------------------------------
\* The number of incidents filed against a participant is a natural number.
LEMMA FiledIsFinite ==
    \A p : IsFiniteSet(FiledAgainst(p)) /\ Cardinality(FiledAgainst(p)) \in Nat
<1> TAKE p
<1>1. FiledAgainst(p) \subseteq Incidents
    BY DEF FiledAgainst
<1>2. IsFiniteSet(FiledAgainst(p))
    BY <1>1, QualityLedgerAssumption, FS_Subset
<1> QED
    BY <1>2, FS_CardinalityType

\* So it is after a step.
LEMMA CardinalityPrimeType == \A p : Cardinality(FiledAgainst(p))' \in Nat
<1> TAKE p
<1>1. FiledAgainst(p)' \subseteq Incidents
    BY DEF FiledAgainst
<1>2. IsFiniteSet(FiledAgainst(p)')
    BY <1>1, QualityLedgerAssumption, FS_Subset
<1>3. Cardinality(FiledAgainst(p)') \in Nat
    BY <1>2, FS_CardinalityType
<1> QED
    BY <1>3

\* Filing an incident adds one to its participant's number and to no other's.
LEMMA FilingCounts ==
    ASSUME TypeOK, NEW i \in Incidents, NEW p \in Participants, incident[i] = None,
           incident' = [incident EXCEPT ![i] = p], NEW q \in Participants
    PROVE  Cardinality(FiledAgainst(q))' = Cardinality(FiledAgainst(q)) + (IF q = p THEN 1 ELSE 0)
<1>1. CASE q = p
  <2>1. FiledAgainst(q)' = FiledAgainst(q) \cup {i} /\ i \notin FiledAgainst(q)
      BY <1>1, QualityLedgerAssumption DEF TypeOK, FiledAgainst
  <2>2. Cardinality(FiledAgainst(q) \cup {i}) = Cardinality(FiledAgainst(q)) + 1
      BY <2>1, FiledIsFinite, FS_AddElement
  <2> QED
      BY <1>1, <2>1, <2>2
<1>2. CASE q # p
  <2>1. FiledAgainst(q)' = FiledAgainst(q)
      BY <1>2, QualityLedgerAssumption DEF TypeOK, FiledAgainst
  <2>2. Cardinality(FiledAgainst(q))' = Cardinality(FiledAgainst(q))
      BY <2>1
  <2> QED
      BY <1>2, <2>2, FiledIsFinite
<1> QED
    BY <1>1, <1>2

\* No step takes an incident back.
LEMMA LedgerGrows ==
    ASSUME IInv, [Next]_vars, NEW q \in Participants
    PROVE  Cardinality(FiledAgainst(q))' >= Cardinality(FiledAgainst(q))
<1>1. CASE incident' = incident
    BY <1>1, FiledIsFinite DEF FiledAgainst
<1>2. ASSUME NEW r \in Requests, NEW i \in Incidents, FileIncident(r, i), session[r].pc # "idle"
      PROVE  Cardinality(FiledAgainst(q))' >= Cardinality(FiledAgainst(q))
  <2>1. PICK p \in Participants : p = session[r].participant
      BY <1>2 DEF IInv, CountOK
  <2>2. incident[i] = None /\ incident' = [incident EXCEPT ![i] = p] /\ TypeOK
      BY <1>2, <2>1 DEF FileIncident, IInv
  <2>3. Cardinality(FiledAgainst(q))' = Cardinality(FiledAgainst(q)) + (IF q = p THEN 1 ELSE 0)
      BY <2>2, FilingCounts
  <2> QED
      BY <2>3, FiledIsFinite
<1> QED
    BY <1>1, <1>2 DEF Next, vars, FileAndCount, CheckAlert, CheckAlertFails, Abort, Commit,
       CommitWithAlert, Review

\* The ledger starts empty.
LEMMA InitIInv == Init => IInv
<1> SUFFICES ASSUME Init PROVE IInv
    OBVIOUS
<1>1. TypeOK
    BY DEF Init, TypeOK, NoAlert, AlertRow, AlertStatus, IdleSession, Session
<1> QED
    BY <1>1 DEF Init, IInv, CountOK, AlertOK, NoAlert, IdleSession

\* Every step keeps rows and sessions of their types.
LEMMA NextTypeOK == IInv /\ [Next]_vars => TypeOK'
<1> SUFFICES ASSUME IInv, [Next]_vars PROVE TypeOK'
    OBVIOUS
<1>0. TypeOK /\ \A r \in Requests : CountOK(r)
    BY DEF IInv
<1>1. ASSUME NEW r \in Requests, NEW p \in Participants, FileAndCount(r, p) PROVE TypeOK'
  <2>1. Cardinality(FiledAgainst(p)) + 1 \in Nat
      BY FiledIsFinite
  <2> QED
      BY <1>0, <1>1, <2>1 DEF TypeOK, FileAndCount, Overlap, Session
<1>2. ASSUME NEW r \in Requests, CheckAlert(r) PROVE TypeOK'
    BY <1>0, <1>2 DEF TypeOK, CheckAlert, Goto, Session
<1>3. ASSUME NEW r \in Requests, CheckAlertFails(r) \/ Abort(r) PROVE TypeOK'
    BY <1>0, <1>3 DEF TypeOK, CheckAlertFails, Abort, Finish, Session, IdleSession
<1>4. ASSUME NEW r \in Requests, NEW i \in Incidents, Commit(r, i) PROVE TypeOK'
  <2>1. session[r].participant \in Participants
      BY <1>0, <1>4 DEF CountOK, Commit
  <2>2. session' \in [Requests -> Session]
      BY <1>0, <1>4 DEF TypeOK, Commit, FileIncident, Finish, Session, IdleSession
  <2>3. incident' \in [Incidents -> Participants \cup {None}]
      BY <1>0, <1>4, <2>1 DEF TypeOK, Commit, FileIncident
  <2> QED
      BY <1>0, <1>4, <2>2, <2>3 DEF TypeOK, Commit
<1>5. ASSUME NEW r \in Requests, NEW i \in Incidents, NEW a \in Alerts, CommitWithAlert(r, i, a)
      PROVE  TypeOK'
  <2>1. session[r].participant \in Participants /\ session[r].count \in Nat
      BY <1>0, <1>5 DEF TypeOK, CountOK, CommitWithAlert, Session
  <2>2. session' \in [Requests -> Session]
      BY <1>0, <1>5 DEF TypeOK, CommitWithAlert, FileIncident, Finish, Session, IdleSession
  <2>3. incident' \in [Incidents -> Participants \cup {None}]
      BY <1>0, <1>5, <2>1 DEF TypeOK, CommitWithAlert, FileIncident
  <2>4. alert' \in [Alerts -> AlertRow]
      BY <1>0, <1>5, <2>1 DEF TypeOK, CommitWithAlert, AlertRow, AlertStatus
  <2> QED
      BY <1>0, <1>5, <2>2, <2>3, <2>4 DEF TypeOK, CommitWithAlert
<1>6. ASSUME NEW a \in Alerts, NEW decision \in {"REPLACED", "DISMISSED"}, Review(a, decision)
      PROVE  TypeOK'
    BY <1>0, <1>6 DEF TypeOK, Review, AlertRow, AlertStatus
<1>7. CASE UNCHANGED vars
    BY <1>0, <1>7 DEF TypeOK, vars
<1> QED
    BY <1>1, <1>2, <1>3, <1>4, <1>5, <1>6, <1>7 DEF Next

\* What a request files is on record as the one incident more it had counted.
LEMMA CommitRecordsCount ==
    ASSUME IInv, NEW r \in Requests, NEW i \in Incidents, FileIncident(r, i),
           NEW p \in Participants, p = session[r].participant, session[r].pc # "idle"
    PROVE  session[r].count <= Cardinality(FiledAgainst(p))'
<1>1. incident[i] = None /\ incident' = [incident EXCEPT ![i] = p] /\ TypeOK
    BY DEF FileIncident, IInv
<1>2. Cardinality(FiledAgainst(p))' = Cardinality(FiledAgainst(p)) + 1
    BY <1>1, FilingCounts
<1>3. session[r].count <= Cardinality(FiledAgainst(p)) + 1
    BY DEF IInv, CountOK
<1> QED
    BY <1>2, <1>3

\* Every step keeps what the requests have counted within what will be on record.
LEMMA NextCountOK == IInv /\ [Next]_vars => \A r \in Requests : CountOK(r)'
<1> SUFFICES ASSUME IInv, [Next]_vars, NEW q \in Requests PROVE CountOK(q)'
    OBVIOUS
<1>0. TypeOK /\ CountOK(q)
    BY DEF IInv
<1>1. CASE session'[q] = session[q]
  <2>1. CASE session[q].pc = "idle"
      BY <1>1, <2>1 DEF CountOK
  <2>2. CASE session[q].pc # "idle"
    <3>1. PICK p \in Participants : p = session[q].participant
        BY <1>0, <2>2 DEF CountOK
    <3>2. Cardinality(FiledAgainst(p))' >= Cardinality(FiledAgainst(p))
        BY LedgerGrows
    <3>3. session[q].count <= Cardinality(FiledAgainst(p)) + 1 /\ session[q].count \in Nat
        BY <1>0, <2>2, <3>1 DEF CountOK, TypeOK, Session
    <3>4. session[q].count <= Cardinality(FiledAgainst(p))' + 1
        BY <3>2, <3>3, FiledIsFinite, CardinalityPrimeType
    <3>5. p = session'[q].participant /\ session'[q].count = session[q].count
        BY <1>1, <3>1
    <3>6. Cardinality(FiledAgainst(session[q].participant))' = Cardinality(FiledAgainst(p))'
        BY <3>5
    <3> QED
        BY <1>0, <1>1, <3>1, <3>4, <3>6 DEF CountOK, Due
  <2> QED
      BY <2>1, <2>2
<1>2. CASE session'[q] = IdleSession
    BY <1>2 DEF CountOK, IdleSession
<1>3. ASSUME NEW p \in Participants, FileAndCount(q, p) PROVE CountOK(q)'
  <2>1. /\ session'[q].participant = p /\ session'[q].pc = "counted"
        /\ session'[q].count = Cardinality(FiledAgainst(p)) + 1
        /\ incident' = incident
      BY <1>0, <1>3 DEF FileAndCount, TypeOK
  <2>2. FiledAgainst(session[q].participant)' = FiledAgainst(p)
      BY <2>1 DEF FiledAgainst
  <2> QED
      BY <2>1, <2>2, FiledIsFinite DEF CountOK
<1>4. ASSUME CheckAlert(q) PROVE CountOK(q)'
  <2>1. /\ session'[q] = [session[q] EXCEPT !.pc = session'[q].pc]
        /\ session[q].pc = "counted" /\ incident' = incident
        /\ session'[q].pc = "raise" => Due(session[q].count)
      BY <1>0, <1>4 DEF CheckAlert, Goto, TypeOK, Session
  <2>2. session'[q].participant = session[q].participant /\ session'[q].count = session[q].count
      BY <1>0, <1>4 DEF CheckAlert, Goto, TypeOK, Session
  <2>3. FiledAgainst(session[q].participant)' = FiledAgainst(session[q].participant)
      BY <2>1, <2>2 DEF FiledAgainst
  <2> QED
      BY <1>0, <2>1, <2>2, <2>3 DEF CountOK, Due
<1> QED
  <2>1. ASSUME NEW r \in Requests, CheckAlert(r) \/ \E p \in Participants : FileAndCount(r, p), r # q
        PROVE  session'[q] = session[q]
      BY <1>0, <2>1 DEF CheckAlert, FileAndCount, Goto, TypeOK
  <2>2. ASSUME NEW r \in Requests, Finish(r)
        PROVE  session'[q] = session[q] \/ session'[q] = IdleSession
      BY <1>0, <2>2 DEF Finish, TypeOK
  <2> QED
      BY <1>1, <1>2, <1>3, <1>4, <2>1, <2>2
      DEF Next, vars, CheckAlertFails, Abort, Commit, CommitWithAlert, FileIncident, Review

\* Every step keeps the alerts within the incidents on record.
LEMMA NextAlertOK == IInv /\ [Next]_vars => \A a \in Alerts : AlertOK(a)'
<1> SUFFICES ASSUME IInv, [Next]_vars, NEW b \in Alerts PROVE AlertOK(b)'
    OBVIOUS
<1>0. TypeOK /\ AlertOK(b)
    BY DEF IInv
<1>1. ASSUME /\ alert'[b].participant = alert[b].participant
             /\ alert'[b].quality_issue_count = alert[b].quality_issue_count
             /\ alert[b].status = "ABSENT" => alert'[b].status = "ABSENT"
      PROVE  AlertOK(b)'
  <2>1. CASE alert[b].status = "ABSENT"
      BY <1>1, <2>1 DEF AlertOK
  <2>2. CASE alert[b].status # "ABSENT"
    <3>1. PICK p \in Participants : p = alert[b].participant
        BY <1>0, <2>2 DEF AlertOK
    <3>2. Cardinality(FiledAgainst(p))' >= Cardinality(FiledAgainst(p))
        BY LedgerGrows
    <3>3. /\ alert[b].quality_issue_count <= Cardinality(FiledAgainst(p))
          /\ alert[b].quality_issue_count >= REPLACEMENT_THRESHOLD
          /\ alert[b].quality_issue_count \in Nat
        BY <1>0, <2>2, <3>1 DEF AlertOK, TypeOK, AlertRow
    <3>4. alert[b].quality_issue_count <= Cardinality(FiledAgainst(p))'
        BY <3>2, <3>3, FiledIsFinite, CardinalityPrimeType
    <3>5. p = alert'[b].participant
        BY <1>1, <3>1
    <3>6. Cardinality(FiledAgainst(alert[b].participant))' = Cardinality(FiledAgainst(p))'
        BY <3>5
    <3> QED
        BY <1>1, <3>3, <3>4, <3>5, <3>6 DEF AlertOK
  <2> QED
      BY <2>1, <2>2
<1>2. ASSUME NEW r \in Requests, NEW i \in Incidents, CommitWithAlert(r, i, b) PROVE AlertOK(b)'
  <2>1. PICK p \in Participants : p = session[r].participant
      BY <1>2 DEF IInv, CountOK, CommitWithAlert
  <2>2. session[r].count <= Cardinality(FiledAgainst(p))'
      BY <1>2, <2>1, CommitRecordsCount DEF CommitWithAlert
  <2>3. session[r].count >= REPLACEMENT_THRESHOLD
      BY <1>2 DEF IInv, CountOK, CommitWithAlert, Due
  <2>4. alert'[b].participant = p /\ alert'[b].quality_issue_count = session[r].count
      BY <1>0, <1>2, <2>1 DEF CommitWithAlert, TypeOK
  <2>5. Cardinality(FiledAgainst(alert[b].participant))' = Cardinality(FiledAgainst(p))'
      BY <2>4
  <2> QED
      BY <2>2, <2>3, <2>4, <2>5 DEF AlertOK
<1>3. ASSUME NEW r \in Requests, NEW i \in Incidents, NEW a \in Alerts \ {b},
             CommitWithAlert(r, i, a)
      PROVE  AlertOK(b)'
  <2>1. alert'[b] = alert[b]
      BY <1>0, <1>3 DEF CommitWithAlert, TypeOK
  <2> QED
      BY <1>1, <2>1
<1>4. ASSUME NEW a \in Alerts, NEW decision \in {"REPLACED", "DISMISSED"}, Review(a, decision)
      PROVE  AlertOK(b)'
  <2>1. /\ alert'[b].participant = alert[b].participant
        /\ alert'[b].quality_issue_count = alert[b].quality_issue_count
        /\ alert[b].status = "ABSENT" => alert'[b] = alert[b]
      BY <1>0, <1>4 DEF Review, TypeOK, AlertRow
  <2> QED
      BY <1>1, <2>1
<1>5. CASE alert' = alert
    BY <1>1, <1>5
<1> QED
    BY <1>2, <1>3, <1>4, <1>5 DEF Next, vars, FileAndCount, CheckAlert, CheckAlertFails, Abort, Commit

\* The invariant is inductive.
LEMMA Inductive == Spec => []IInv
<1>1. IInv /\ [Next]_vars => IInv'
    BY NextTypeOK, NextCountOK, NextAlertOK DEF IInv
<1> QED
    BY <1>1, InitIInv, PTL DEF Spec

\* Rows and sessions hold the values the schema and the handlers allow.
THEOREM TypeCorrect == Spec => []TypeOK
<1>1. IInv => TypeOK
    BY DEF IInv
<1> QED
    BY <1>1, Inductive, PTL

\* However many inspections overlap, an alert is backed by as many incidents on
\* record as it says, and by no fewer than the threshold.
THEOREM AlertsAreNeverPremature == Spec => []AlertsAreJustified
<1>1. IInv => AlertsAreJustified
    BY DEF IInv, AlertOK, AlertsAreJustified
<1> QED
    BY <1>1, Inductive, PTL

-----------------------------------------------------------------------------
(***************************************************************************)
(* Participants whose own inspections have not overlapped                  *)
(***************************************************************************)
Busy(r, p) == session[r].pc # "idle" /\ session[r].participant = p

\* The count is exact, and what the request found about alerts is still so.
Exact(r, p) ==
    /\ session[r].count = Cardinality(FiledAgainst(p)) + 1
    /\ session[r].pc = "raise" => ActiveAlerts(p) = {}
    /\ session[r].pc = "done" /\ Due(session[r].count) => WasAlerted(p)

OneAtATime(p) == \A r, s \in Requests : Busy(r, p) /\ Busy(s, p) => r = s

Ledger(p) ==
    /\ Cardinality(FiledAgainst(p)) >= REPLACEMENT_THRESHOLD => WasAlerted(p)
    /\ \A a, b \in ActiveAlerts(p) : a = b

SerialOK(p) ==
    p \notin overlapped =>
        /\ OneAtATime(p)
        /\ \A r \in Requests : Busy(r, p) => Exact(r, p)
        /\ Ledger(p)

SerialInv == IInv /\ \A p \in Participants : SerialOK(p)

\* A step that files nothing against p, raises no alert against p and moves no request
\* on p's behalf keeps p's part of the invariant.
LEMMA SerialFrame ==
    ASSUME NEW p \in Participants, SerialOK(p), overlapped \subseteq overlapped',
           FiledAgainst(p)' = FiledAgainst(p), ActiveAlerts(p)' \subseteq ActiveAlerts(p),
           WasAlerted(p) => WasAlerted(p)',
           \A r \in Requests : session'[r] = session[r] \/ ~Busy(r, p)'
    PROVE  SerialOK(p)'
<1> SUFFICES ASSUME p \notin overlapped' PROVE OneAtATime(p)' /\ Ledger(p)' /\ 
                    \A r \in Requests : Busy(r, p)' => Exact(r, p)'
    BY DEF SerialOK
<1>0. OneAtATime(p) /\ Ledger(p) /\ \A r \in Requests : Busy(r, p) => Exact(r, p)
    BY DEF SerialOK
<1>1. Cardinality(FiledAgainst(p))' = Cardinality(FiledAgainst(p))
    OBVIOUS
<1>2. \A r \in Requests : Busy(r, p)' => Busy(r, p) /\ session'[r] = session[r]
    BY DEF Busy
<1>3. OneAtATime(p)'
    BY <1>0, <1>2 DEF OneAtATime
<1>4. Ledger(p)'
    BY <1>0, <1>1 DEF Ledger
<1>5. ASSUME NEW r \in Requests, Busy(r, p)' PROVE Exact(r, p)'
  <2>1. Exact(r, p) /\ session'[r] = session[r]
      BY <1>0, <1>2, <1>5
  <2> QED
      BY <1>1, <2>1 DEF Exact, Due
<1> QED
    BY <1>3, <1>4, <1>5

\* Reviewing never removes an alert or makes one active again.
LEMMA ReviewKeepsAlerts ==
    ASSUME TypeOK, NEW p \in Participants, NEW a \in Alerts,
           NEW decision \in {"REPLACED", "DISMISSED"}, Review(a, decision)
    PROVE  ActiveAlerts(p)' \subseteq ActiveAlerts(p) /\ (WasAlerted(p) => WasAlerted(p)')
BY DEF TypeOK, AlertRow, Review, ActiveAlerts, WasAlerted

\* Counting while no other inspection of p's is under way is exact.
LEMMA SerialCount ==
    ASSUME SerialInv, NEW p \in Participants, NEW r \in Requests, FileAndCount(r, p)
    PROVE  SerialOK(p)'
<1> SUFFICES ASSUME p \notin overlapped' PROVE OneAtATime(p)' /\ Ledger(p)' /\ 
                    \A q \in Requests : Busy(q, p)' => Exact(q, p)'
    BY DEF SerialOK
<1>0. TypeOK /\ SerialOK(p)
    BY DEF SerialInv, IInv
<1>1. p \notin overlapped /\ \A q \in Requests : ~Busy(q, p)
    BY DEF FileAndCount, Overlap, Busy
<1>2. /\ session'[r].participant = p /\ session'[r].pc = "counted"
      /\ session'[r].count = Cardinality(FiledAgainst(p)) + 1
      /\ \A q \in Requests \ {r} : session'[q] = session[q]
      /\ incident' = incident /\ alert' = alert
    BY <1>0 DEF FileAndCount, TypeOK
<1>3. \A q \in Requests : Busy(q, p)' => q = r
    BY <1>1, <1>2 DEF Busy
<1>4. FiledAgainst(p)' = FiledAgainst(p) /\ ActiveAlerts(p)' = ActiveAlerts(p)
      /\ (WasAlerted(p)' <=> WasAlerted(p))
    BY <1>2 DEF FiledAgainst, ActiveAlerts, WasAlerted
<1>5. Cardinality(FiledAgainst(p))' = Cardinality(FiledAgainst(p))
    BY <1>4
<1>6. Ledger(p)'
    BY <1>0, <1>1, <1>4, <1>5 DEF SerialOK, Ledger
<1>7. Exact(r, p)'
    BY <1>2, <1>5 DEF Exact
<1> QED
    BY <1>3, <1>6, <1>7 DEF OneAtATime

\* So is the look for an alert.
LEMMA SerialCheck ==
    ASSUME SerialInv, NEW p \in Participants, NEW r \in Requests, CheckAlert(r),
           session[r].participant = p
    PROVE  SerialOK(p)'
<1> SUFFICES ASSUME p \notin overlapped' PROVE OneAtATime(p)' /\ Ledger(p)' /\ 
                    \A q \in Requests : Busy(q, p)' => Exact(q, p)'
    BY DEF SerialOK
<1>0. TypeOK /\ OneAtATime(p) /\ Ledger(p) /\ Busy(r, p) /\ Exact(r, p)
  <2>1. p \notin overlapped /\ Busy(r, p) /\ TypeOK
      BY DEF CheckAlert, Busy, SerialInv, IInv
  <2> QED
      BY <2>1 DEF SerialInv, SerialOK
<1>1. /\ session'[r].participant = p /\ session'[r].count = session[r].count
      /\ session'[r].pc = IF Due(session[r].count) /\ ActiveAlerts(p) = {} THEN "raise" ELSE "done"
      /\ \A q \in Requests \ {r} : session'[q] = session[q]
      /\ incident' = incident /\ alert' = alert
    BY <1>0 DEF CheckAlert, Goto, TypeOK, Session
<1>2. \A q \in Requests : Busy(q, p)' => q = r
    BY <1>0, <1>1 DEF Busy, OneAtATime
<1>3. FiledAgainst(p)' = FiledAgainst(p) /\ ActiveAlerts(p)' = ActiveAlerts(p)
      /\ (WasAlerted(p)' <=> WasAlerted(p))
    BY <1>1 DEF FiledAgainst, ActiveAlerts, WasAlerted
<1>4. Cardinality(FiledAgainst(p))' = Cardinality(FiledAgainst(p))
    BY <1>3
<1>5. Ledger(p)'
    BY <1>0, <1>3, <1>4 DEF Ledger
<1>6. ActiveAlerts(p) # {} => WasAlerted(p)
    BY DEF ActiveAlerts, WasAlerted
<1>7. Exact(r, p)'
    BY <1>0, <1>1, <1>3, <1>4, <1>6 DEF Exact, Due
<1> QED
    BY <1>2, <1>5, <1>7 DEF OneAtATime

\* When the incident is filed, p's number becomes what was counted, and no request is
\* left that counts on the old one.
LEMMA SerialFile ==
    ASSUME SerialInv, NEW p \in Participants, p \notin overlapped, NEW r \in Requests,
           NEW i \in Incidents, FileIncident(r, i), Busy(r, p)
    PROVE  /\ Exact(r, p) /\ Ledger(p)
           /\ Cardinality(FiledAgainst(p))' = session[r].count
           /\ \A q \in Requests : ~Busy(q, p)'
<1>0. TypeOK /\ OneAtATime(p) /\ Ledger(p) /\ Exact(r, p)
    BY DEF SerialInv, IInv, SerialOK
<1>1. incident[i] = None /\ incident' = [incident EXCEPT ![i] = p]
    BY DEF FileIncident, Busy
<1>2. Cardinality(FiledAgainst(p))' = Cardinality(FiledAgainst(p)) + 1
    BY <1>0, <1>1, FilingCounts
<1>3. \A q \in Requests : ~Busy(q, p)'
  <2>1. session'[r] = IdleSession /\ \A q \in Requests \ {r} : session'[q] = session[q]
      BY <1>0 DEF FileIncident, Finish, TypeOK
  <2> QED
      BY <1>0, <2>1 DEF Busy, OneAtATime, IdleSession
<1> QED
    BY <1>0, <1>2, <1>3 DEF Exact

LEMMA SerialCommit ==
    ASSUME SerialInv, NEW p \in Participants, NEW r \in Requests, NEW i \in Incidents,
           Commit(r, i), session[r].participant = p
    PROVE  SerialOK(p)'
<1> SUFFICES ASSUME p \notin overlapped' PROVE OneAtATime(p)' /\ Ledger(p)' /\ 
                    \A q \in Requests : Busy(q, p)' => Exact(q, p)'
    BY DEF SerialOK
<1>0. /\ p \notin overlapped /\ FileIncident(r, i) /\ Busy(r, p) /\ alert' = alert
      /\ session[r].pc = "done"
    BY DEF Commit, Busy
<1>1. /\ Exact(r, p) /\ Ledger(p) /\ Cardinality(FiledAgainst(p))' = session[r].count
      /\ \A q \in Requests : ~Busy(q, p)'
    BY <1>0, SerialFile
<1>2. ActiveAlerts(p)' = ActiveAlerts(p) /\ (WasAlerted(p)' <=> WasAlerted(p))
    BY <1>0 DEF ActiveAlerts, WasAlerted
<1>3. Ledger(p)'
    BY <1>0, <1>1, <1>2 DEF Ledger, Exact, Due
<1> QED
    BY <1>1, <1>3 DEF OneAtATime

LEMMA SerialCommitWithAlert ==
    ASSUME SerialInv, NEW p \in Participants, NEW r \in Requests, NEW i \in Incidents,
           NEW a \in Alerts, CommitWithAlert(r, i, a), session[r].participant = p
    PROVE  SerialOK(p)'
<1> SUFFICES ASSUME p \notin overlapped' PROVE OneAtATime(p)' /\ Ledger(p)' /\ 
                    \A q \in Requests : Busy(q, p)' => Exact(q, p)'
    BY DEF SerialOK
<1>0. /\ p \notin overlapped /\ FileIncident(r, i) /\ Busy(r, p) /\ session[r].pc = "raise"
      /\ TypeOK
    BY DEF CommitWithAlert, Busy, SerialInv, IInv
<1>1. Exact(r, p) /\ \A q \in Requests : ~Busy(q, p)'
    BY <1>0, SerialFile
<1>2. /\ alert'[a].status = "PENDING_REVIEW" /\ alert'[a].participant = p
      /\ \A b \in Alerts \ {a} : alert'[b] = alert[b]
    BY <1>0 DEF CommitWithAlert, TypeOK
<1>3. WasAlerted(p)'
    BY <1>2 DEF WasAlerted
<1>4. ActiveAlerts(p)' \subseteq {a}
    BY <1>0, <1>1, <1>2 DEF Exact, ActiveAlerts
<1> QED
    BY <1>1, <1>3, <1>4 DEF OneAtATime, Ledger

\* An incident filed against another participant, with or without an alert, does not
\* concern p.
LEMMA SerialOther ==
    ASSUME SerialInv, NEW p \in Participants, NEW r \in Requests, NEW i \in Incidents,
           \/ Commit(r, i)
           \/ \E a \in Alerts : CommitWithAlert(r, i, a),
           session[r].participant # p
    PROVE  SerialOK(p)'
<1>0. TypeOK /\ SerialOK(p) /\ session[r].participant \in Participants
    BY DEF SerialInv, IInv, CountOK, Commit, CommitWithAlert
<1>1. FiledAgainst(p)' = FiledAgainst(p)
    BY <1>0, QualityLedgerAssumption
    DEF Commit, CommitWithAlert, FileIncident, FiledAgainst, TypeOK
<1>2. ActiveAlerts(p)' \subseteq ActiveAlerts(p)
    BY <1>0 DEF Commit, CommitWithAlert, ActiveAlerts, TypeOK
<1>3. WasAlerted(p) => WasAlerted(p)'
    BY <1>0 DEF Commit, CommitWithAlert, WasAlerted, TypeOK
<1>4. \A q \in Requests : session'[q] = session[q] \/ ~Busy(q, p)'
    BY <1>0 DEF Commit, CommitWithAlert, FileIncident, Finish, TypeOK, Busy, IdleSession
<1>5. overlapped' = overlapped
    BY DEF Commit, CommitWithAlert
<1> QED
    BY <1>0, <1>1, <1>2, <1>3, <1>4, <1>5, SerialFrame

\* Every step keeps p's part of the invariant.
LEMMA NextSerial == SerialInv /\ [Next]_vars => \A p \in Participants : SerialOK(p)'
<1> SUFFICES ASSUME SerialInv, [Next]_vars, NEW p \in Participants PROVE SerialOK(p)'
    OBVIOUS
<1>0. TypeOK /\ SerialOK(p)
    BY DEF SerialInv, IInv
<1>1. ASSUME incident' = incident, alert' = alert, overlapped \subseteq overlapped',
             \A r \in Requests : session'[r] = session[r] \/ ~Busy(r, p)'
      PROVE  SerialOK(p)'
  <2>1. /\ FiledAgainst(p)' = FiledAgainst(p) /\ ActiveAlerts(p)' = ActiveAlerts(p)
        /\ WasAlerted(p) => WasAlerted(p)'
      BY <1>1 DEF FiledAgainst, ActiveAlerts, WasAlerted
  <2> QED
      BY <1>0, <1>1, <2>1, SerialFrame
<1>2. ASSUME NEW r \in Requests, NEW q \in Participants, FileAndCount(r, q) PROVE SerialOK(p)'
  <2>1. CASE q = p
      BY <1>2, <2>1, SerialCount
  <2>2. CASE q # p
    <3>1. incident' = incident /\ alert' = alert /\ overlapped \subseteq overlapped'
        BY <1>2 DEF FileAndCount, Overlap
    <3>2. \A s \in Requests : session'[s] = session[s] \/ ~Busy(s, p)'
        BY <1>0, <1>2, <2>2 DEF FileAndCount, TypeOK, Busy
    <3> QED
        BY <1>1, <3>1, <3>2
  <2> QED
      BY <2>1, <2>2
<1>3. ASSUME NEW r \in Requests, CheckAlert(r) PROVE SerialOK(p)'
  <2>1. CASE session[r].participant = p
      BY <1>3, <2>1, SerialCheck
  <2>2. CASE session[r].participant # p
    <3>1. incident' = incident /\ alert' = alert /\ overlapped' = overlapped
        BY <1>3 DEF CheckAlert
    <3>2. \A s \in Requests : session'[s] = session[s] \/ ~Busy(s, p)'
        BY <1>0, <1>3, <2>2 DEF CheckAlert, Goto, TypeOK, Session, Busy
    <3> QED
        BY <1>1, <3>1, <3>2
  <2> QED
      BY <2>1, <2>2
<1>4. ASSUME NEW r \in Requests, CheckAlertFails(r) \/ Abort(r) PROVE SerialOK(p)'
  <2>1. incident' = incident /\ alert' = alert /\ overlapped' = overlapped
      BY <1>4 DEF CheckAlertFails, Abort
  <2>2. \A s \in Requests : session'[s] = session[s] \/ ~Busy(s, p)'
      BY <1>0, <1>4 DEF CheckAlertFails, Abort, Finish, TypeOK, Busy, IdleSession
  <2> QED
      BY <1>1, <2>1, <2>2
<1>5. ASSUME NEW r \in Requests, NEW i \in Incidents,
             Commit(r, i) \/ \E a \in Alerts : CommitWithAlert(r, i, a)
      PROVE  SerialOK(p)'
    BY <1>5, SerialCommit, SerialCommitWithAlert, SerialOther
<1>6. ASSUME NEW a \in Alerts, NEW decision \in {"REPLACED", "DISMISSED"}, Review(a, decision)
      PROVE  SerialOK(p)'
  <2>1. incident' = incident /\ session' = session /\ overlapped' = overlapped
      BY <1>6 DEF Review
  <2>2. FiledAgainst(p)' = FiledAgainst(p)
      BY <2>1 DEF FiledAgainst
  <2>3. ActiveAlerts(p)' \subseteq ActiveAlerts(p) /\ (WasAlerted(p) => WasAlerted(p)')
      BY <1>0, <1>6, ReviewKeepsAlerts
  <2> QED
      BY <1>0, <2>1, <2>2, <2>3, SerialFrame
<1>7. CASE UNCHANGED vars
  <2>1. incident' = incident /\ alert' = alert /\ session' = session /\ overlapped' = overlapped
      BY <1>7 DEF vars
  <2> QED
      BY <1>1, <2>1
<1> QED
    BY <1>2, <1>3, <1>4, <1>5, <1>6, <1>7 DEF Next

\* The strengthened invariant is inductive.
LEMMA SerialInductive == Spec => []SerialInv
<1>1. Init => SerialInv
  <2> SUFFICES ASSUME Init, NEW p \in Participants PROVE SerialOK(p)
      BY InitIInv DEF SerialInv
  <2>1. \A r \in Requests : ~Busy(r, p)
      BY DEF Init, Busy, IdleSession
  <2>2. FiledAgainst(p) = {} /\ ActiveAlerts(p) = {}
      BY QualityLedgerAssumption DEF Init, FiledAgainst, ActiveAlerts, NoAlert
  <2>3. Cardinality(FiledAgainst(p)) = 0
      BY <2>2, FS_EmptySet
  <2>4. Ledger(p)
      BY <2>2, <2>3, QualityLedgerAssumption DEF Ledger
  <2> QED
      BY <2>1, <2>4 DEF SerialOK, OneAtATime
<1>2. SerialInv /\ [Next]_vars => SerialInv'
    BY NextTypeOK, NextCountOK, NextAlertOK, NextSerial DEF SerialInv, IInv
<1> QED
    BY <1>1, <1>2, PTL DEF Spec

\* For a participant whose inspections do not overlap, the third incident always
\* leaves an alert on record.
THEOREM ThresholdRaisesAlert == Spec => []ThirdIncidentAlerts
<1>1. SerialInv => ThirdIncidentAlerts
    BY DEF SerialInv, SerialOK, Ledger, ThirdIncidentAlerts
<1> QED
    BY <1>1, SerialInductive, PTL

\* Such a participant never has two active alerts.
THEOREM NoSecondActiveAlert == Spec => []AtMostOneActiveAlert
<1>1. SerialInv => AtMostOneActiveAlert
    BY DEF SerialInv, SerialOK, Ledger, AtMostOneActiveAlert
<1> QED
    BY <1>1, SerialInductive, PTL
=============================================================================
