---------------------------- MODULE QualityLedger ----------------------------
(***************************************************************************)
(* The quality ledger: a failed inspection files a QualityIncident against *)
(* the participant held responsible, and the third incident raises a       *)
(* ReplacementAlert for a human to review.                                 *)
(*                                                                         *)
(* create_quality_incident runs inside the transaction of record_qc_result *)
(* (InspectCommit of OrderLifecycle).  Inspections that both move the same *)
(* order wait for each other on its row; the ones here are of different    *)
(* orders, so nothing makes them wait.  Each one counts the incidents      *)
(* committed so far and its own, then looks for an alert, then commits.    *)
(***************************************************************************)
EXTENDS Naturals, FiniteSets

CONSTANTS
    Requests,      \* slots in which inspections are recorded, one at a time each
    Participants,
    Incidents,     \* ids of QualityIncident rows
    Alerts,        \* ids of ReplacementAlert rows
    REPLACEMENT_THRESHOLD,
    None

ASSUME QualityLedgerAssumption ==
    /\ None \notin Requests \cup Participants
    /\ REPLACEMENT_THRESHOLD \in Nat \ {0}
    /\ IsFiniteSet(Incidents)

VARIABLES
    incident,      \* the participant an incident is filed against, None if no row
    alert,         \* committed ReplacementAlert rows
    session,       \* what each request has filed and counted, and where it is
    overlapped     \* history: participants two of whose inspections have overlapped

vars == <<incident, alert, session, overlapped>>

AlertStatus == {"ABSENT", "PENDING_REVIEW", "REPLACED", "DISMISSED"}
AlertRow == [status : AlertStatus, participant : Participants \cup {None},
             quality_issue_count : Nat]
NoAlert == [status |-> "ABSENT", participant |-> None, quality_issue_count |-> 0]

Session == [pc : {"idle", "counted", "raise", "done"}, participant : Participants \cup {None},
            count : Nat]
IdleSession == [pc |-> "idle", participant |-> None, count |-> 0]

FiledAgainst(p) == {i \in Incidents : incident[i] = p}
ActiveAlerts(p) == {a \in Alerts : alert[a].status = "PENDING_REVIEW" /\ alert[a].participant = p}

Goto(r, pc) == session' = [session EXCEPT ![r].pc = pc]
Finish(r) == session' = [session EXCEPT ![r] = IdleSession]
Overlap(p) ==
    overlapped' = IF \E r \in Requests : session[r].pc # "idle" /\ session[r].participant = p
                  THEN overlapped \cup {p} ELSE overlapped

-----------------------------------------------------------------------------
\* Mutant of FileAndCount: the incidents of every participant are counted.
FileAndCountAll(r, p) ==
    /\ session[r].pc = "idle"
    /\ session' = [session EXCEPT ![r] =
           [pc |-> "counted", participant |-> p,
            count |-> Cardinality({i \in Incidents : incident[i] # None}) + 1]]
    /\ Overlap(p)
    /\ UNCHANGED <<incident, alert>>

\* The incident is inserted, which only this transaction can see yet, and the
\* participant's incidents are counted.
FileAndCount(r, p) ==
    /\ session[r].pc = "idle"
    /\ session' = [session EXCEPT ![r] =
           [pc |-> "counted", participant |-> p, count |-> Cardinality(FiledAgainst(p)) + 1]]
    /\ Overlap(p)
    /\ UNCHANGED <<incident, alert>>

\* Mutant of Due: the threshold has to be exceeded.
DueLate(count) == count > REPLACEMENT_THRESHOLD

Due(count) == count >= REPLACEMENT_THRESHOLD

\* Mutant of CheckAlert: an alert already raised is not looked for.
CheckAlertBlind(r) ==
    /\ session[r].pc = "counted"
    /\ Goto(r, IF Due(session[r].count) THEN "raise" ELSE "done")
    /\ UNCHANGED <<incident, alert, overlapped>>

\* check_and_trigger_replacement_alert: scalar_one_or_none finds no active alert, or
\* the one there is.
CheckAlert(r) ==
    LET active == ActiveAlerts(session[r].participant) IN
    /\ session[r].pc = "counted"
    /\ Due(session[r].count) => Cardinality(active) <= 1
    /\ Goto(r, IF Due(session[r].count) /\ active = {} THEN "raise" ELSE "done")
    /\ UNCHANGED <<incident, alert, overlapped>>

\* scalar_one_or_none finds several active alerts and raises MultipleResultsFound:
\* the inspection, its record and its incident are rolled back.
CheckAlertFails(r) ==
    /\ session[r].pc = "counted"
    /\ Due(session[r].count)
    /\ Cardinality(ActiveAlerts(session[r].participant)) > 1
    /\ Finish(r)
    /\ UNCHANGED <<incident, alert, overlapped>>

FileIncident(r, i) ==
    /\ incident[i] = None
    /\ incident' = [incident EXCEPT ![i] = session[r].participant]
    /\ Finish(r)

Commit(r, i) ==
    /\ session[r].pc = "done"
    /\ FileIncident(r, i)
    /\ UNCHANGED <<alert, overlapped>>

CommitWithAlert(r, i, a) ==
    /\ session[r].pc = "raise"
    /\ FileIncident(r, i)
    /\ alert[a].status = "ABSENT"
    /\ alert' = [alert EXCEPT ![a] =
           [status |-> "PENDING_REVIEW", participant |-> session[r].participant,
            quality_issue_count |-> session[r].count]]
    /\ UNCHANGED overlapped

\* review_replacement_alert sets the decision whatever the status was.
Review(a, decision) ==
    /\ alert[a].status # "ABSENT"
    /\ alert' = [alert EXCEPT ![a].status = decision]
    /\ UNCHANGED <<incident, session, overlapped>>

\* The request dies before its commit.
Abort(r) ==
    /\ session[r].pc # "idle"
    /\ Finish(r)
    /\ UNCHANGED <<incident, alert, overlapped>>

-----------------------------------------------------------------------------
Init ==
    /\ incident = [i \in Incidents |-> None]
    /\ alert = [a \in Alerts |-> NoAlert]
    /\ session = [r \in Requests |-> IdleSession]
    /\ overlapped = {}

Next ==
    \/ \E r \in Requests :
          \/ \E p \in Participants : FileAndCount(r, p)
          \/ CheckAlert(r) \/ CheckAlertFails(r) \/ Abort(r)
          \/ \E i \in Incidents : Commit(r, i)
          \/ \E i \in Incidents, a \in Alerts : CommitWithAlert(r, i, a)
    \/ \E a \in Alerts, decision \in {"REPLACED", "DISMISSED"} : Review(a, decision)

Spec == Init /\ [][Next]_vars

-----------------------------------------------------------------------------
(***************************************************************************)
(* Properties that hold however inspections overlap                        *)
(***************************************************************************)
\* Rows and sessions hold the values the schema and the handlers allow.
TypeOK ==
    /\ incident \in [Incidents -> Participants \cup {None}]
    /\ alert \in [Alerts -> AlertRow]
    /\ session \in [Requests -> Session]
    /\ overlapped \subseteq Participants

\* An alert is never raised on less than the ledger shows: its count has reached
\* the threshold and as many incidents of that participant are on record, however
\* inspections overlap (create_quality_incident counts, a later commit writes).
AlertsAreJustified ==
    \A a \in Alerts : alert[a].status # "ABSENT" =>
        /\ alert[a].quality_issue_count >= REPLACEMENT_THRESHOLD
        /\ alert[a].quality_issue_count <= Cardinality(FiledAgainst(alert[a].participant))

(***************************************************************************)
(* Properties of participants whose own inspections have not overlapped,   *)
(* whatever happens to the others                                          *)
(***************************************************************************)
WasAlerted(p) == \E a \in Alerts : alert[a].status # "ABSENT" /\ alert[a].participant = p

\* The third incident against a participant leaves an alert on record, also when
\* earlier alerts were reviewed or earlier inspections failed.
ThirdIncidentAlerts ==
    \A p \in Participants \ overlapped :
        Cardinality(FiledAgainst(p)) >= REPLACEMENT_THRESHOLD => WasAlerted(p)

\* check_and_trigger_replacement_alert creates an alert if there is "no active
\* alert": no participant has two of them to review at once.
AtMostOneActiveAlert ==
    \A p \in Participants \ overlapped : \A a, b \in ActiveAlerts(p) : a = b
=============================================================================
