---------------------------- MODULE AlertWorkflow ----------------------------
(***************************************************************************)
(* The alert and incident handlers of backend/app/routers/alerts.py and    *)
(* backend/app/routers/incidents.py over the tables alerts and incidents,  *)
(* and the two detectors that replace the metadata of an alert they count  *)
(* again (services/polling.py, routers/field_measurements.py).             *)
(*                                                                         *)
(* One request is one database session (database.get_db): a SELECT of the  *)
(* rows it acts on, one or two flushes, a commit.  PostgreSQL runs at READ *)
(* COMMITTED, so other requests may commit between the SELECT and the      *)
(* flush; a flush takes row locks that are held until the commit.  A       *)
(* request whose only write is one row locks it and commits in one step:   *)
(* nobody can see the difference.  The requests that write several rows    *)
(* (link, resolve incident, delete incident) hold locks between two steps. *)
(*                                                                         *)
(* Data is abstracted to what the properties tell apart: an entry of a     *)
(* JSON list is the request that appended it, so a list is a set of        *)
(* requests, and the incident a request creates is named by that request.  *)
(***************************************************************************)
EXTENDS Naturals, Sequences, FiniteSets

CONSTANTS
  Alert,          \* ids of the alerts rows
  Seed,           \* ids of the incidents that exist from the start
  Request,        \* HTTP requests; each runs one handler once
  PatchedStatus,  \* alert statuses a PATCH request may carry (other text fails its flush)
  PatchedState,   \* incident statuses a PATCH request may carry
  Gone,           \* the row does not exist
  NoIncident,     \* alerts.incident_id IS NULL
  NoCall          \* the request has not arrived yet

AlertStatus == {"open", "acknowledged", "escalated", "resolved", "dismissed"}
IncidentStatus == {"open", "investigating", "mitigated", "resolved", "closed"}

ASSUME StatusAssumption ==
  /\ PatchedStatus \subseteq AlertStatus
  /\ PatchedState \subseteq IncidentStatus

ASSUME IdAssumption ==
  /\ Alert \cap (Seed \cup Request) = {}
  /\ Seed \cap Request = {}
  /\ NoIncident \notin Seed \cup Request

Incident == Seed \cup Request

AlertRow == [status: AlertStatus,
             incident: Incident \cup {NoIncident},
             history: SUBSET Request]

\* A task is the request that added it with its "completed" flag.
IncidentRow == [status: IncidentStatus,
                timeline: SUBSET Request,
                notes: SUBSET Request,
                tasks: SUBSET (Request \X BOOLEAN)]

AlertOps == {"acknowledge_alert", "escalate_alert", "resolve_alert",
             "delete_alert", "create_incident_from_alert", "count_occurrence"}
IncidentOps == {"assign_incident", "add_incident_note", "add_incident_event",
                "add_incident_task", "resolve_incident", "delete_incident"}

AlertCalls == [op: AlertOps, alert: Alert]
PatchAlertCalls ==
       [op: {"update_alert"}, alert: Alert, column: {"status"}, value: PatchedStatus]
  \cup [op: {"update_alert"}, alert: Alert, column: {"incident"},
        value: Seed \cup {NoIncident}]
IncidentCalls ==
       [op: IncidentOps, incident: Seed]
  \cup [op: {"update_incident"}, incident: Seed, value: PatchedState]
  \cup [op: {"update_incident_task"}, incident: Seed, task: Request]
LinkCalls == [op: {"link_alert_to_incident"}, incident: Seed, alert: Alert]

Calls == AlertCalls \cup PatchAlertCalls \cup IncidentCalls \cup LinkCalls
           \cup {[op |-> "create_incident"]}

Answers == {"ok", "refused", "failed"}

VARIABLES
  alerts,     \* the committed alerts rows
  incidents,  \* the committed incidents rows
  activity,   \* requests whose activity event is committed
  req,        \* what each request's session holds
  locked,     \* row locks each open transaction holds
  log         \* the requests in the order they committed

vars == <<alerts, incidents, activity, req, locked, log>>

(***************************************************************************)
(* The session of a request: pc, its call, the rows as loaded (alert,      *)
(* incident), the linked alerts as selected, and how many requests had     *)
(* committed when it made its first SELECT.                                *)
(***************************************************************************)
Phase == {"idle", "loading", "loaded", "selected", "locked", "ok", "refused", "failed"}

NoAlerts == [a \in Alert |-> Gone]

Session == [pc: Phase, call: Calls \cup {NoCall},
            alert: AlertRow \cup {Gone}, incident: IncidentRow \cup {Gone},
            linked: [Alert -> AlertRow \cup {Gone}], began: Nat]

Fresh == [pc |-> "idle", call |-> NoCall, alert |-> Gone, incident |-> Gone,
          linked |-> NoAlerts, began |-> 0]

\* The alerts there are to begin with: raised, patched onto an incident, or linked to one.
Raised == {row \in [status: {"open", "escalated"}, incident: Seed \cup {NoIncident},
                    history: {{}}] : row.status = "escalated" => row.incident # NoIncident}

Init ==
  /\ alerts \in [Alert -> Raised]
  /\ incidents = [i \in Incident |->
                    IF i \in Seed THEN [status |-> "open", timeline |-> {},
                                        notes |-> {}, tasks |-> {}]
                                  ELSE Gone]
  /\ activity = {}
  /\ req = [r \in Request |-> Fresh]
  /\ locked = [r \in Request |-> {}]
  /\ log = <<>>

Answered(r) == req[r].pc \in Answers

At(r, pc, op) == req[r].pc = pc /\ req[r].call # NoCall /\ req[r].call.op = op

\* The session is closed: what it had loaded is dropped.
Close(session, outcome) ==
  [session EXCEPT !.pc = outcome, !.alert = Gone, !.incident = Gone, !.linked = NoAlerts]

\* get_db after the handler returned: the transaction commits, its locks go.
Commit(r) ==
  /\ req' = [req EXCEPT ![r] = Close(@, "ok")]
  /\ locked' = [locked EXCEPT ![r] = {}]
  /\ log' = Append(log, r)

\* A failed flush: get_db rolls back and re-raises, nothing of the request stays.
Rollback(r) ==
  /\ req' = [req EXCEPT ![r] = Close(@, "failed")]
  /\ locked' = [locked EXCEPT ![r] = {}]
  /\ UNCHANGED <<alerts, incidents, activity, log>>

Free(r, row) == \A q \in Request \ {r} : row \notin locked[q]

\* mutant: the UPDATE carries every column of the loaded row
UpdateEveryColumn(current, seen, new) == new

(***************************************************************************)
(* The ORM's UPDATE writes only the columns whose new value differs from   *)
(* the loaded one; the others keep whatever is committed by then.          *)
(***************************************************************************)
Update(current, seen, new) ==
  [c \in DOMAIN current |-> IF new[c] = seen[c] THEN current[c] ELSE new[c]]

-----------------------------------------------------------------------------
(* First SELECT of a request: get_scoped_alert, get_scoped_incident, and   *)
(* the answers given without writing: 404, 409 and "created": False.       *)

Row(call, field, table) ==
  IF field \in DOMAIN call THEN table[call[field]] ELSE Gone

\* The statuses a detector's SELECT takes for active; it inserts an alert beside any other.
ActiveStatus == {"open", "acknowledged", "escalated"}

\* mutant: escalate_alert forgets to check the status
RefusedUnlessEscalated(call, alert, incident) ==
  \/ "alert" \in DOMAIN call /\ alert = Gone /\ call.op # "link_alert_to_incident"
  \/ "incident" \in DOMAIN call /\ incident = Gone
  \/ /\ call.op = "acknowledge_alert"
     /\ alert.status = "resolved"
  \/ /\ call.op = "create_incident_from_alert"
     /\ alert.incident # NoIncident
  \/ /\ call.op = "count_occurrence"
     /\ alert.status \notin ActiveStatus
  \/ /\ call.op = "update_incident_task"
     /\ \A done \in BOOLEAN : <<call.task, done>> \notin incident.tasks

Refused(call, alert, incident) ==
  \/ "alert" \in DOMAIN call /\ alert = Gone /\ call.op # "link_alert_to_incident"
  \/ "incident" \in DOMAIN call /\ incident = Gone
  \/ /\ call.op \in {"acknowledge_alert", "escalate_alert"}
     /\ alert.status = "resolved"
  \/ /\ call.op = "create_incident_from_alert"
     /\ alert.incident # NoIncident
  \/ /\ call.op = "count_occurrence"
     /\ alert.status \notin ActiveStatus
  \/ /\ call.op = "update_incident_task"
     /\ \A done \in BOOLEAN : <<call.task, done>> \notin incident.tasks

\* link_alert_to_incident selects its alert in a second statement.
Load(r, call) ==
  LET alert == IF call.op = "link_alert_to_incident" THEN Gone ELSE Row(call, "alert", alerts)
      incident == Row(call, "incident", incidents)
  IN /\ req[r].pc = "idle"
     /\ req' = [req EXCEPT ![r] =
          IF Refused(call, alert, incident)
          THEN [Fresh EXCEPT !.pc = "refused", !.call = call, !.began = Len(log)]
          ELSE [Fresh EXCEPT !.pc = IF call.op = "link_alert_to_incident"
                                    THEN "loading" ELSE "loaded",
                             !.call = call, !.alert = alert, !.incident = incident,
                             !.began = Len(log)]]
     /\ UNCHANGED <<alerts, incidents, activity, locked, log>>

LoadLinkedAlert(r) ==
  /\ req[r].pc = "loading"
  /\ LET alert == alerts[req[r].call.alert]
     IN req' = [req EXCEPT ![r] = IF alert = Gone THEN Close(@, "refused")
                                  ELSE [@ EXCEPT !.pc = "loaded", !.alert = alert]]
  /\ UNCHANGED <<alerts, incidents, activity, locked, log>>

-----------------------------------------------------------------------------
(* Handlers that write one alert.                                          *)

\* mutant: append_alert_event starts the history afresh
AppendToNothing(entries, r) == {r}

\* append_alert_event, append_timeline: a copy of the loaded list plus one entry
AppendEvent(entries, r) == entries \cup {r}

Moved(row, status, r) ==
  [row EXCEPT !.status = status, !.history = AppendEvent(@, r)]

\* alerts.incident_id is a foreign key
References(row) ==
  row.incident \in {NoIncident} \cup {i \in Incident : incidents[i] # Gone}

WriteAlert(r, op, seen, new) ==
  LET a == req[r].call.alert
      row == Update(alerts[a], seen, new)
  IN /\ At(r, "loaded", op)
     /\ Free(r, a)
     /\ alerts[a] # Gone
     /\ References(row)
     /\ alerts' = [alerts EXCEPT ![a] = row]
     /\ UNCHANGED incidents
     /\ Commit(r)

AcknowledgeAlert(r) ==
  /\ WriteAlert(r, "acknowledge_alert", req[r].alert, Moved(req[r].alert, "acknowledged", r))
  /\ activity' = activity \cup {r}

EscalateAlert(r) ==
  /\ WriteAlert(r, "escalate_alert", req[r].alert, Moved(req[r].alert, "escalated", r))
  /\ activity' = activity \cup {r}

ResolveAlert(r) ==
  /\ WriteAlert(r, "resolve_alert", req[r].alert, Moved(req[r].alert, "resolved", r))
  /\ activity' = activity \cup {r}

\* A patched incident_id is text, which never equals the loaded UUID: it is always written.
Compared(r) ==
  IF req[r].call.column = "incident" /\ req[r].call.value # NoIncident
  THEN [req[r].alert EXCEPT !.incident = NoIncident] ELSE req[r].alert

UpdateAlert(r) ==
  /\ WriteAlert(r, "update_alert", Compared(r),
                [req[r].alert EXCEPT ![req[r].call.column] = req[r].call.value])
  /\ UNCHANGED activity

(***************************************************************************)
(* A radio poll or a field measurement that finds its alert active assigns *)
(* it a new source_metadata, without lifecycle_history.  If the metadata   *)
(* it loaded holds no history, the new one may equal it and is then not    *)
(* in the UPDATE.  The counters and the poll's activity are left out.      *)
(***************************************************************************)
CountOccurrence(r) ==
  LET a == req[r].call.alert
  IN /\ At(r, "loaded", "count_occurrence")
     /\ Free(r, a)
     /\ alerts[a] # Gone
     /\ \E kept \in {{}, alerts[a].history} :
          /\ kept = {} \/ req[r].alert.history = {}
          /\ alerts' = [alerts EXCEPT ![a].history = kept]
     /\ UNCHANGED <<incidents, activity>>
     /\ Commit(r)

\* Deleting a row that is already gone only makes the ORM warn.
DeleteAlert(r) ==
  /\ At(r, "loaded", "delete_alert")
  /\ Free(r, req[r].call.alert)
  /\ alerts' = [alerts EXCEPT ![req[r].call.alert] = Gone]
  /\ UNCHANGED <<incidents, activity>>
  /\ Commit(r)

CreateIncidentFromAlert(r) ==
  LET a == req[r].call.alert
      new == [Moved(req[r].alert, "escalated", r) EXCEPT !.incident = r]
  IN /\ At(r, "loaded", "create_incident_from_alert")
     /\ Free(r, a)
     /\ alerts[a] # Gone
     /\ incidents' = [incidents EXCEPT ![r] = [status |-> "open", timeline |-> {r},
                                               notes |-> {}, tasks |-> {}]]
     /\ alerts' = [alerts EXCEPT ![a] = Update(@, req[r].alert, new)]
     /\ UNCHANGED activity
     /\ Commit(r)

-----------------------------------------------------------------------------
(* Handlers that write one incident.                                       *)

WriteIncident(r, op, seen, new) ==
  LET i == req[r].call.incident
  IN /\ At(r, "loaded", op)
     /\ Free(r, i)
     /\ incidents[i] # Gone
     /\ incidents' = [incidents EXCEPT ![i] =
          Update(@, seen, [new EXCEPT !.timeline = AppendEvent(@, r)])]
     /\ UNCHANGED <<alerts, activity>>
     /\ Commit(r)

CreateIncident(r) ==
  /\ At(r, "loaded", "create_incident")
  /\ incidents' = [incidents EXCEPT ![r] = [status |-> "open", timeline |-> {r},
                                            notes |-> {}, tasks |-> {}]]
  /\ activity' = activity \cup {r}
  /\ UNCHANGED alerts
  /\ Commit(r)

UpdateIncident(r) ==
  WriteIncident(r, "update_incident", req[r].incident,
                [req[r].incident EXCEPT !.status = req[r].call.value])

AssignIncident(r) ==
  WriteIncident(r, "assign_incident", req[r].incident,
                [req[r].incident EXCEPT !.status =
                   IF @ = "open" THEN "investigating" ELSE @])

AddIncidentNote(r) ==
  WriteIncident(r, "add_incident_note", req[r].incident,
                [req[r].incident EXCEPT !.notes = AppendEvent(@, r)])

AddIncidentEvent(r) ==
  WriteIncident(r, "add_incident_event", req[r].incident, req[r].incident)

AddIncidentTask(r) ==
  WriteIncident(r, "add_incident_task", req[r].incident,
                [req[r].incident EXCEPT !.tasks = @ \cup {<<r, FALSE>>}])

(***************************************************************************)
(* The handler ticks the task inside the loaded list (list() copies the    *)
(* list, not the dicts), so the loaded value and the new one are equal and *)
(* the UPDATE leaves the tasks column out; the timeline is written.        *)
(***************************************************************************)
UpdateIncidentTask(r) ==
  LET t == req[r].call.task
      ticked == [req[r].incident EXCEPT !.tasks = (@ \ {<<t, FALSE>>}) \cup {<<t, TRUE>>}]
  IN WriteIncident(r, "update_incident_task", ticked, ticked)

-----------------------------------------------------------------------------
(* Handlers that write several rows, under locks held between their steps. *)

TakeLocks(r, rows, linked) ==
  /\ \A row \in rows : Free(r, row)
  /\ locked' = [locked EXCEPT ![r] = @ \cup rows]
  /\ req' = [req EXCEPT ![r].pc = "locked", ![r].linked = linked]
  /\ UNCHANGED <<alerts, incidents, activity, log>>

\* mutant: linking leaves the incident's row alone (no timeline entry)
LinkLocksNothing(r) ==
  /\ At(r, "loaded", "link_alert_to_incident")
  /\ incidents[req[r].call.incident] # Gone
  /\ TakeLocks(r, {}, NoAlerts)

\* link_alert_to_incident: the flush updates the incident, then the alert.
LinkLocksIncident(r) ==
  /\ At(r, "loaded", "link_alert_to_incident")
  /\ incidents[req[r].call.incident] # Gone
  /\ TakeLocks(r, {req[r].call.incident}, NoAlerts)

LinkedRow(r) ==
  [req[r].alert EXCEPT !.incident = req[r].call.incident, !.status = "escalated"]

\* An alert loaded as escalated and linked already is not written.
ToLink(r) == {a \in {req[r].call.alert} : LinkedRow(r) # req[r].alert}

LinkAlertToIncident(r) ==
  LET i == req[r].call.incident
  IN /\ At(r, "locked", "link_alert_to_incident")
     /\ \A a \in ToLink(r) : Free(r, a) /\ alerts[a] # Gone
     /\ alerts' = [a \in Alert |-> IF a \in ToLink(r)
                                   THEN Update(alerts[a], req[r].alert, LinkedRow(r))
                                   ELSE alerts[a]]
     /\ incidents' = [incidents EXCEPT ![i] =
          Update(@, req[r].incident,
                 [req[r].incident EXCEPT !.timeline = AppendEvent(@, r)])]
     /\ UNCHANGED activity
     /\ Commit(r)

LinkedTo(i) ==
  [a \in Alert |-> IF alerts[a] # Gone /\ alerts[a].incident = i
                   THEN alerts[a] ELSE Gone]

Rows(linked) == {a \in Alert : linked[a] # Gone}

\* mutant: the incident is committed before its alerts are resolved
ResolveCommitsIncidentFirst(r) ==
  LET i == req[r].call.incident
  IN /\ At(r, "loaded", "resolve_incident")
     /\ incidents[i] # Gone
     /\ Free(r, i)
     /\ incidents' = [incidents EXCEPT ![i].timeline = AppendEvent(@, r)]
     /\ locked' = [locked EXCEPT ![r] = {i}]
     /\ req' = [req EXCEPT ![r].pc = "locked", ![r].linked = LinkedTo(i)]
     /\ UNCHANGED <<alerts, activity, log>>

(***************************************************************************)
(* resolve_incident: the activity event's flush updates and locks the      *)
(* incident, then the linked alerts are selected.                          *)
(***************************************************************************)
ResolveLocksIncident(r) ==
  /\ At(r, "loaded", "resolve_incident")
  /\ incidents[req[r].call.incident] # Gone
  /\ TakeLocks(r, {req[r].call.incident}, LinkedTo(req[r].call.incident))

\* Alerts selected as resolved do not change, so the second flush skips them.
ToResolve(r) == {a \in Rows(req[r].linked) : req[r].linked[a].status # "resolved"}

(***************************************************************************)
(* An UPDATE of one row that is gone fails.  Several rows go to the driver *)
(* as one executemany, which reports no reliable row count: the missing    *)
(* ones may fail the flush or be skipped.                                  *)
(***************************************************************************)
MayUpdate(rows) == (\A a \in rows : alerts[a] # Gone) \/ Cardinality(rows) > 1

ResolveIncident(r) ==
  LET i == req[r].call.incident
      new == [req[r].incident EXCEPT !.status = "resolved",
                                     !.timeline = AppendEvent(@, r)]
  IN /\ At(r, "locked", "resolve_incident")
     /\ \A a \in ToResolve(r) : Free(r, a)
     /\ MayUpdate(ToResolve(r))
     /\ alerts' = [a \in Alert |-> IF a \in ToResolve(r) /\ alerts[a] # Gone
                                   THEN [alerts[a] EXCEPT !.status = "resolved"]
                                   ELSE alerts[a]]
     /\ incidents' = [incidents EXCEPT ![i] = Update(@, req[r].incident, new)]
     /\ activity' = activity \cup {r}
     /\ Commit(r)

(***************************************************************************)
(* delete_incident: the flush at commit selects the incident's alerts,     *)
(* sets their incident_id to NULL, then deletes the incident.              *)
(***************************************************************************)
DeleteSelectsAlerts(r) ==
  /\ At(r, "loaded", "delete_incident")
  /\ req' = [req EXCEPT ![r].pc = "selected",
                        ![r].linked = LinkedTo(req[r].call.incident)]
  /\ UNCHANGED <<alerts, incidents, activity, locked, log>>

DeleteUnlinksAlerts(r) ==
  /\ At(r, "selected", "delete_incident")
  /\ MayUpdate(Rows(req[r].linked))
  /\ TakeLocks(r, Rows(req[r].linked), req[r].linked)

DeleteIncident(r) ==
  LET i == req[r].call.incident
      unlinked == Rows(req[r].linked)
  IN /\ At(r, "locked", "delete_incident")
     /\ Free(r, i)
     /\ \A a \in Alert \ unlinked : alerts[a] # Gone => alerts[a].incident # i
     /\ alerts' = [a \in Alert |-> IF a \in unlinked /\ alerts[a] # Gone
                                   THEN [alerts[a] EXCEPT !.incident = NoIncident]
                                   ELSE alerts[a]]
     /\ incidents' = [incidents EXCEPT ![i] = Gone]
     /\ UNCHANGED activity
     /\ Commit(r)

-----------------------------------------------------------------------------
(* Failed flushes.                                                         *)

SingleRowOps == {"acknowledge_alert", "escalate_alert", "resolve_alert",
                 "update_alert", "create_incident_from_alert", "count_occurrence"}

(***************************************************************************)
(* The row to update, or the incident it refers to, is gone; or the alert  *)
(* to delete is named by a response action, whose foreign key has no       *)
(* ON DELETE.                                                              *)
(***************************************************************************)
FlushFails(r) ==
  /\ \/ /\ req[r].pc = "loaded"
        /\ req[r].call.op \in SingleRowOps
        /\ Free(r, req[r].call.alert)
        /\ \/ alerts[req[r].call.alert] = Gone
           \/ /\ req[r].call.op = "update_alert"
              /\ req[r].call.column = "incident"
              /\ ~ References([incident |-> req[r].call.value])
     \/ /\ At(r, "loaded", "delete_alert")
        /\ Free(r, req[r].call.alert)
        /\ alerts[req[r].call.alert] # Gone
     \/ /\ req[r].pc = "loaded"
        /\ "incident" \in DOMAIN req[r].call
        /\ req[r].call.op # "delete_incident"
        /\ incidents[req[r].call.incident] = Gone
     \/ /\ At(r, "locked", "link_alert_to_incident")
        /\ \E a \in ToLink(r) : alerts[a] = Gone
     \/ /\ At(r, "locked", "resolve_incident")
        /\ \E a \in ToResolve(r) : alerts[a] = Gone
     \/ /\ At(r, "selected", "delete_incident")
        /\ \E a \in Rows(req[r].linked) : alerts[a] = Gone
     \/ /\ At(r, "locked", "delete_incident")
        /\ Free(r, req[r].call.incident)
        /\ \E a \in Alert \ Rows(req[r].linked) :
             alerts[a] # Gone /\ alerts[a].incident = req[r].call.incident
  /\ Rollback(r)

\* The row locks a request that already holds some waits for.
Wants(r) ==
  CASE At(r, "locked", "link_alert_to_incident") -> ToLink(r)
    [] At(r, "locked", "resolve_incident") -> ToResolve(r)
    [] At(r, "locked", "delete_incident") -> {req[r].call.incident}
    [] OTHER -> {}

WaitsFor(r, q) == Wants(r) \cap locked[q] # {}

\* r waits, through any number of others, for itself.
InLockCycle(r) ==
  \A S \in SUBSET Request :
    (\A q \in S \cup {r} : \A p \in Request \ {q} : WaitsFor(q, p) => p \in S) => r \in S

\* PostgreSQL ends a lock cycle by failing one of its transactions.
DeadlockVictim(r) == InLockCycle(r) /\ Rollback(r)

-----------------------------------------------------------------------------
Step(r) ==
  \/ LoadLinkedAlert(r)
  \/ AcknowledgeAlert(r) \/ EscalateAlert(r) \/ ResolveAlert(r)
  \/ UpdateAlert(r) \/ DeleteAlert(r) \/ CreateIncidentFromAlert(r)
  \/ CountOccurrence(r)
  \/ CreateIncident(r) \/ UpdateIncident(r) \/ AssignIncident(r)
  \/ AddIncidentNote(r) \/ AddIncidentEvent(r)
  \/ AddIncidentTask(r) \/ UpdateIncidentTask(r)
  \/ LinkLocksIncident(r) \/ LinkAlertToIncident(r)
  \/ ResolveLocksIncident(r) \/ ResolveIncident(r)
  \/ DeleteSelectsAlerts(r) \/ DeleteUnlinksAlerts(r) \/ DeleteIncident(r)
  \/ FlushFails(r) \/ DeadlockVictim(r)

\* Every request has been answered; the model ends.
Finished == (\A r \in Request : Answered(r)) /\ UNCHANGED vars

Next ==
  \/ \E r \in Request, call \in Calls : Load(r, call)
  \/ \E r \in Request : Step(r)
  \/ Finished

Spec == Init /\ [][Next]_vars

-----------------------------------------------------------------------------
(* Properties.                                                             *)

\* Every variable keeps its shape.
TypeOK ==
  /\ alerts \in [Alert -> AlertRow \cup {Gone}]
  /\ incidents \in [Incident -> IncidentRow \cup {Gone}]
  /\ activity \subseteq Request
  /\ \A r \in Request :
       /\ DOMAIN req[r] = DOMAIN Fresh
       /\ req[r].pc \in Phase
       /\ req[r].call \in Calls \cup {NoCall}
       /\ req[r].alert \in AlertRow \cup {Gone}
       /\ req[r].incident \in IncidentRow \cup {Gone}
       /\ \A a \in Alert : req[r].linked[a] \in AlertRow \cup {Gone}
       /\ req[r].began \in Nat
  /\ locked \in [Request -> SUBSET (Alert \cup Incident)]
  /\ log \in Seq(Request)

Committed == {log[k] : k \in DOMAIN log}
Op(r) == req[r].call.op

\* Row locks belong to transactions that are still open, and no row has two holders.
LocksAreOwned ==
  \A r \in Request :
    /\ locked[r] # {} => req[r].pc = "locked"
    /\ \A q \in Request \ {r} : locked[r] \cap locked[q] = {}

(***************************************************************************)
(* All or nothing: whatever a request leaves in the tables (an event, a    *)
(* note, a task, an incident, a link to it, an activity row), it leaves    *)
(* only if it committed; an activity row never outlives a rollback, nor    *)
(* does a lock.                                                            *)
(***************************************************************************)
AllOrNothing ==
  /\ TypeOK
  /\ LocksAreOwned
  /\ activity \subseteq Committed
  /\ \A a \in Alert : alerts[a] # Gone =>
       /\ alerts[a].history \subseteq Committed
       /\ alerts[a].incident \in {NoIncident} \cup Seed \cup Committed
  /\ \A i \in Incident : incidents[i] # Gone =>
       /\ i \in Seed \cup Committed
       /\ incidents[i].timeline \cup incidents[i].notes \subseteq Committed
       /\ \A task \in incidents[i].tasks : task[1] \in Committed
       /\ incidents[i].status = "resolved" =>
            \E r \in Committed : Op(r) \in {"resolve_incident", "update_incident"}

HistoryOps == {"acknowledge_alert", "escalate_alert", "resolve_alert",
               "create_incident_from_alert"}
TimelineOps == {"assign_incident", "add_incident_note", "add_incident_event",
                "add_incident_task", "update_incident_task", "update_incident",
                "resolve_incident", "link_alert_to_incident"}

Position(r) == CHOOSE k \in DOMAIN log : log[k] = r

\* q read before p committed, and committed after it.
Overran(q, p) ==
  /\ q \in Committed
  /\ req[q].began < Position(p)
  /\ Position(p) < Position(q)

\* The detector q counted the alert again after p committed.
Recounted(q, p) ==
  /\ q \in Committed
  /\ Op(q) = "count_occurrence"
  /\ Position(p) < Position(q)

(***************************************************************************)
(* The audit lists (lifecycle_history, timeline_events) are rewritten      *)
(* whole, so concurrent requests can lose entries; and the history is a    *)
(* key of the metadata the detectors replace.  They are lost in no other   *)
(* way: an incident's entry is missing only if a request of the same row   *)
(* that had read it earlier committed after it, an alert's entry only if   *)
(* such a request did or a detector counted the alert again afterwards.    *)
(* Operators' requests that follow one another never lose an entry.        *)
(***************************************************************************)
AuditLossNeedsOverwrite ==
  \A p \in Committed :
    /\ /\ Op(p) \in HistoryOps
       /\ alerts[req[p].call.alert] # Gone
       /\ p \notin alerts[req[p].call.alert].history
       => \E q \in Request : /\ \/ Overran(q, p) /\ Op(q) \in HistoryOps
                                \/ Recounted(q, p)
                             /\ req[q].call.alert = req[p].call.alert
    /\ /\ Op(p) \in TimelineOps
       /\ incidents[req[p].call.incident] # Gone
       /\ p \notin incidents[req[p].call.incident].timeline
       => \E q \in Request : /\ Overran(q, p)
                             /\ Op(q) \in TimelineOps
                             /\ req[q].call.incident = req[p].call.incident

\* The columns of an alerts row a handler assigns.
AlertColumns(call) ==
  CASE call.op \in HistoryOps \ {"create_incident_from_alert"} -> {"status", "history"}
    [] call.op = "create_incident_from_alert" -> {"status", "history", "incident"}
    [] call.op = "update_alert" -> {call.column}
    [] call.op = "count_occurrence" -> {"history"}
    [] call.op = "link_alert_to_incident" -> {"status", "incident"}
    [] call.op = "resolve_incident" -> {"status"}
    [] call.op = "delete_incident" -> {"incident"}
    [] OTHER -> {}

IncidentColumns(call) ==
  CASE call.op \in {"assign_incident", "update_incident", "resolve_incident"}
         -> {"status", "timeline"}
    [] call.op = "add_incident_note" -> {"notes", "timeline"}
    [] call.op = "add_incident_task" -> {"tasks", "timeline"}
    [] call.op \in {"add_incident_event", "update_incident_task",
                    "link_alert_to_incident"} -> {"timeline"}
    [] OTHER -> {}

Differ(table, c, id) ==
  table[id] # Gone /\ table'[id] # Gone /\ table[id][c] # table'[id][c]

(***************************************************************************)
(* However stale the row a request loaded, its commit changes no column    *)
(* its handler does not assign: an acknowledgement racing a link keeps the *)
(* link, a note racing a resolution keeps the incident resolved.           *)
(***************************************************************************)
OtherColumnsSurvive ==
  [][\A r \in Request : log' = Append(log, r) =>
       /\ \A a \in Alert, c \in {"status", "incident", "history"} :
            Differ(alerts, c, a) => c \in AlertColumns(req[r].call)
       /\ \A i \in Incident, c \in {"status", "timeline", "notes", "tasks"} :
            Differ(incidents, c, i) => c \in IncidentColumns(req[r].call)]_vars

(***************************************************************************)
(* When an incident's resolution commits, an alert still linked to it that *)
(* is not resolved was put there, since the resolution began, by a PATCH,  *)
(* an acknowledge or an escalate, or moved by a link to another incident:  *)
(* never by a link to this one, which the lock on its row orders before or *)
(* after.                                                                  *)
(***************************************************************************)
ResolutionCoversLinkedAlerts ==
  [][\A r \in Request : log' = Append(log, r) /\ Op(r) = "resolve_incident" =>
       \A a \in Alert :
         alerts'[a] # Gone /\ alerts'[a].incident = req[r].call.incident
           /\ alerts'[a].status # "resolved"
         => \E k \in (req[r].began + 1) .. Len(log) :
              /\ \/ Op(log[k]) \in {"update_alert", "acknowledge_alert", "escalate_alert"}
                 \/ /\ Op(log[k]) = "link_alert_to_incident"
                    /\ req[log[k]].call.incident # req[r].call.incident
              /\ req[log[k]].call.alert = a]_vars

(***************************************************************************)
(* acknowledge_alert and escalate_alert refuse a resolved alert, but judge *)
(* the row as they loaded it: one of them reopens a resolved alert only if *)
(* the alert was resolved after it had looked.                             *)
(***************************************************************************)
ReopenedOnlyByOverlap ==
  [][\A r \in Request, a \in Alert :
       /\ log' = Append(log, r)
       /\ Op(r) \in {"acknowledge_alert", "escalate_alert"}
       /\ alerts[a] # Gone /\ alerts[a].status = "resolved"
       /\ alerts'[a].status # "resolved"
       => \E k \in (req[r].began + 1) .. Len(log) :
            Op(log[k]) \in {"resolve_alert", "update_alert", "resolve_incident"}]_vars

(***************************************************************************)
(* A task update that is answered with success is stored.                  *)
(***************************************************************************)
TaskUpdateIsStored ==
  [][\A r \in Request : log' = Append(log, r) /\ Op(r) = "update_incident_task" =>
       <<req[r].call.task, TRUE>> \in incidents'[req[r].call.incident].tasks]_vars
=============================================================================
