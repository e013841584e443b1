-------------------------- MODULE AlertWorkflowProofs --------------------------
(***************************************************************************)
(* Proofs about AlertWorkflow, for any sets of alerts, incidents and       *)
(* requests.  A step of a request either only moves its session or commits *)
(* (StepIsQuietOrCommits); what a commit may do to a row is collected once *)
(* in CommitEffect, and every theorem below is proved from that.           *)
(***************************************************************************)
EXTENDS AlertWorkflow, TLAPS

AlertWriters == AlertOps \cup {"update_alert"}
IncidentWriters == IncidentOps \cup {"update_incident", "update_incident_task",
                                     "link_alert_to_incident"}

\* Rows in which only the requests of C have left something.
AlertBy(C) == [status: AlertStatus, incident: {NoIncident} \cup Seed \cup C,
               history: SUBSET C]
IncidentBy(C) == [status: IncidentStatus, timeline: SUBSET C, notes: SUBSET C,
                  tasks: SUBSET (C \X BOOLEAN)]
SessionBy(C) == [pc: Phase, call: Calls \cup {NoCall},
                 alert: AlertBy(C) \cup {Gone}, incident: IncidentBy(C) \cup {Gone},
                 linked: [Alert -> AlertRow \cup {Gone}], began: Nat]

-----------------------------------------------------------------------------
(* The operators of the model.                                             *)

\* What a call of each handler carries.
LEMMA CallShape ==
  ASSUME NEW c \in Calls
  PROVE  /\ c.op \in AlertWriters \cup IncidentWriters \cup {"create_incident"}
         /\ c.op \in AlertWriters \cup {"link_alert_to_incident"} <=> "alert" \in DOMAIN c
         /\ "alert" \in DOMAIN c => c.alert \in Alert
         /\ c.op \in IncidentWriters <=> "incident" \in DOMAIN c
         /\ "incident" \in DOMAIN c => c.incident \in Seed
         /\ c.op = "update_alert" =>
              \/ c.column = "status" /\ c.value \in AlertStatus
              \/ c.column = "incident" /\ c.value \in Seed \cup {NoIncident}
         /\ c.op = "update_incident" => c.value \in IncidentStatus
         /\ c.op = "update_incident_task" => c.task \in Request
<1>1. CASE c \in AlertCalls
  BY <1>1 DEF AlertCalls, AlertOps, AlertWriters, IncidentWriters, IncidentOps
<1>2. CASE c \in PatchAlertCalls
  BY <1>2, StatusAssumption
  DEF PatchAlertCalls, AlertOps, AlertWriters, IncidentWriters, IncidentOps
<1>3. CASE c \in IncidentCalls
  BY <1>3, StatusAssumption
  DEF IncidentCalls, AlertOps, AlertWriters, IncidentWriters, IncidentOps
<1>4. CASE c \in LinkCalls
  BY <1>4 DEF LinkCalls, AlertOps, AlertWriters, IncidentWriters, IncidentOps
<1>5. CASE c = [op |-> "create_incident"]
  BY <1>5 DEF AlertOps, AlertWriters, IncidentWriters, IncidentOps
<1> QED BY <1>1, <1>2, <1>3, <1>4, <1>5 DEF Calls

\* The UPDATE of an alert: a column is written if the new value is not the loaded one.
LEMMA UpdateOfAlert ==
  ASSUME NEW C, NEW current \in AlertBy(C), NEW seen, NEW new \in AlertBy(C)
  PROVE  /\ Update(current, seen, new) \in AlertBy(C)
         /\ Update(current, seen, new).status =
              IF new.status = seen.status THEN current.status ELSE new.status
         /\ Update(current, seen, new).incident =
              IF new.incident = seen.incident THEN current.incident ELSE new.incident
         /\ Update(current, seen, new).history =
              IF new.history = seen.history THEN current.history ELSE new.history
<1> DEFINE u == Update(current, seen, new)
<1>1. DOMAIN current = {"status", "incident", "history"}
  BY DEF AlertBy
<1>2. \A c \in {"status", "incident", "history"} :
        u[c] = IF new[c] = seen[c] THEN current[c] ELSE new[c]
  BY <1>1 DEF Update
<1>3. u = [status |-> u["status"], incident |-> u["incident"], history |-> u["history"]]
  BY <1>1 DEF Update
<1>4. /\ u["status"] \in AlertStatus
      /\ u["incident"] \in {NoIncident} \cup Seed \cup C
      /\ u["history"] \in SUBSET C
  BY <1>2 DEF AlertBy
<1>5. u \in AlertBy(C)
  <2> HIDE DEF u
  <2> QED BY <1>3, <1>4 DEF AlertBy
<1> QED BY <1>2, <1>5

\* The UPDATE of an incident.
LEMMA UpdateOfIncident ==
  ASSUME NEW C, NEW current \in IncidentBy(C), NEW seen, NEW new \in IncidentBy(C)
  PROVE  /\ Update(current, seen, new) \in IncidentBy(C)
         /\ Update(current, seen, new).status =
              IF new.status = seen.status THEN current.status ELSE new.status
         /\ Update(current, seen, new).timeline =
              IF new.timeline = seen.timeline THEN current.timeline ELSE new.timeline
         /\ Update(current, seen, new).notes =
              IF new.notes = seen.notes THEN current.notes ELSE new.notes
         /\ Update(current, seen, new).tasks =
              IF new.tasks = seen.tasks THEN current.tasks ELSE new.tasks
<1> DEFINE u == Update(current, seen, new)
<1>1. DOMAIN current = {"status", "timeline", "notes", "tasks"}
  BY DEF IncidentBy
<1>2. \A c \in {"status", "timeline", "notes", "tasks"} :
        u[c] = IF new[c] = seen[c] THEN current[c] ELSE new[c]
  BY <1>1 DEF Update
<1>3. u = [status |-> u["status"], timeline |-> u["timeline"], notes |-> u["notes"],
           tasks |-> u["tasks"]]
  BY <1>1 DEF Update
<1>4. /\ u["status"] \in IncidentStatus
      /\ u["timeline"] \in SUBSET C
      /\ u["notes"] \in SUBSET C
      /\ u["tasks"] \in SUBSET (C \X BOOLEAN)
  BY <1>2 DEF IncidentBy
<1>5. u \in IncidentBy(C)
  <2> HIDE DEF u
  <2> QED BY <1>3, <1>4 DEF IncidentBy
<1> QED BY <1>2, <1>5

\* More requests may leave more.
LEMMA ByGrows ==
  ASSUME NEW C, NEW D, C \subseteq D
  PROVE  AlertBy(C) \subseteq AlertBy(D) /\ IncidentBy(C) \subseteq IncidentBy(D)
<1>1. AlertBy(C) \subseteq AlertBy(D)
  BY DEF AlertBy
<1>2. IncidentBy(C) \subseteq IncidentBy(D)
  BY DEF IncidentBy
<1> QED BY <1>1, <1>2

\* The alert row a handler assigns when it moves it to status.
LEMMA MovedRow ==
  ASSUME NEW C, NEW row \in AlertBy(C), NEW status \in AlertStatus, NEW r
  PROVE  /\ Moved(row, status, r) \in AlertBy(C \cup {r})
         /\ Moved(row, status, r).status = status
         /\ Moved(row, status, r).incident = row.incident
         /\ Moved(row, status, r).history = row.history \cup {r}
<1>1. row \in AlertBy(C \cup {r})
  BY ByGrows
<1> DEFINE history == row.history \cup {r}
<1>2. history \in SUBSET (C \cup {r})
  BY DEF AlertBy
<1> HIDE DEF history
<1>3. /\ [row EXCEPT !.status = status, !.history = history] \in AlertBy(C \cup {r})
      /\ [row EXCEPT !.status = status, !.history = history].status = status
      /\ [row EXCEPT !.status = status, !.history = history].history = history
      /\ [row EXCEPT !.status = status, !.history = history].incident = row.incident
  BY <1>1, <1>2 DEF AlertBy
<1> QED BY <1>3 DEF Moved, AppendEvent, history

\* A commit adds the request to the log, at its end.
LEMMA LogGrows ==
  ASSUME log \in Seq(Request), NEW r \in Request, log' = Append(log, r)
  PROVE  /\ log' \in Seq(Request) /\ Len(log') = Len(log) + 1
         /\ Len(log) \in Nat
         /\ DOMAIN log' = DOMAIN log \cup {Len(log) + 1}
         /\ DOMAIN log = 1..Len(log)
         /\ log'[Len(log) + 1] = r
         /\ \A k \in DOMAIN log : log'[k] = log[k]
         /\ Committed' = Committed \cup {r}
         /\ log' # log
<1>1. /\ log' \in Seq(Request) /\ Len(log') = Len(log) + 1
      /\ Len(log) \in Nat
      /\ DOMAIN log = 1..Len(log) /\ DOMAIN log' = 1..Len(log)+1
      /\ log'[Len(log) + 1] = r
      /\ \A k \in 1..Len(log) : log'[k] = log[k]
  OBVIOUS
<1>2. DOMAIN log' = DOMAIN log \cup {Len(log) + 1}
  BY <1>1
<1>3. Committed' = Committed \cup {r}
  BY <1>1, <1>2 DEF Committed
<1>4. Len(log') # Len(log)
  <2>1. Len(log) \in Nat /\ Len(log') = Len(log) + 1
    BY <1>1
  <2> QED BY <2>1
<1> QED BY <1>1, <1>2, <1>3, <1>4

-----------------------------------------------------------------------------
(* The inductive invariant.                                                *)

Open == {"loading", "loaded", "selected", "locked"}

\* The tables hold only what committed requests left there.
TablesByCommitted ==
  /\ alerts \in [Alert -> AlertBy(Committed) \cup {Gone}]
  /\ incidents \in [Incident -> IncidentBy(Committed) \cup {Gone}]
  /\ \A i \in Request : incidents[i] # Gone => i \in Committed
  /\ activity \subseteq Committed
  /\ \A i \in Incident : incidents[i] # Gone /\ incidents[i].status = "resolved" =>
       \E r \in Committed : Op(r) \in {"resolve_incident", "update_incident"}

\* What an open session s has loaded before it writes.
Loaded(s, C) ==
  /\ s.pc \in Open => s.call \in Calls
  /\ s.pc = "loading" => s.call.op = "link_alert_to_incident"
  /\ s.pc \in Open \ {"loading"} /\ s.call.op \in AlertWriters \cup {"link_alert_to_incident"} =>
       s.alert \in AlertBy(C)
  /\ s.pc \in Open /\ s.call.op \in IncidentWriters => s.incident \in IncidentBy(C)
  /\ s.pc \in Open /\ s.call.op = "create_incident_from_alert" =>
       s.alert.incident = NoIncident
  /\ s.pc \in Open /\ s.call.op = "update_incident_task" =>
       \E done \in BOOLEAN : <<s.call.task, done>> \in s.incident.tasks

Sessions ==
  /\ log \in Seq(Request)
  /\ \A j, k \in DOMAIN log : log[j] = log[k] => j = k
  /\ req \in [Request -> SessionBy(Committed)]
  /\ \A r \in Committed : req[r].pc = "ok"
  /\ \A r \in Request : Loaded(req[r], Committed)

\* A lock on an incident's row keeps the row.
Locks ==
  /\ locked \in [Request -> SUBSET (Alert \cup Incident)]
  /\ LocksAreOwned
  /\ \A r \in Request : \A i \in locked[r] \cap Incident : incidents[i] # Gone
  /\ \A r \in Request :
       req[r].pc = "locked" /\ Op(r) \in {"link_alert_to_incident", "resolve_incident"}
         => req[r].call.incident \in locked[r]

IInv == TablesByCommitted /\ Sessions /\ Locks

-----------------------------------------------------------------------------
(* What a step does, as far as the properties can tell.                    *)

\* The session s comes from a first SELECT made now.
ReadNow(r, s) ==
  /\ req[r].pc = "idle" /\ s.pc \in {"loading", "loaded"} /\ s.began = Len(log)
  /\ s.call.op \in AlertWriters => s.alert = alerts[s.call.alert] /\ s.alert # Gone
  /\ s.call.op \in {"acknowledge_alert", "escalate_alert"} => s.alert.status # "resolved"
  /\ s.call.op \in IncidentWriters =>
       s.incident = incidents[s.call.incident] /\ s.incident # Gone

\* The session s goes on with what r read before.
KeptReading(r, s) ==
  /\ req[r].pc \in Open /\ s.call = req[r].call /\ s.began = req[r].began
  /\ s.incident = req[r].incident
  /\ s.pc = "loaded" => req[r].pc = "loading"
  /\ s.pc = "locked" /\ s.call.op = "resolve_incident" =>
       req[r].pc = "loaded" /\ s.linked = LinkedTo(s.call.incident)

QuietEffect(r) ==
  /\ UNCHANGED <<alerts, incidents, activity, log>>
  /\ req[r].pc \notin Answers
  /\ \E s \in SessionBy(Committed), rows \in SUBSET (Alert \cup Incident) :
       /\ req' = [req EXCEPT ![r] = s]
       /\ locked' = [locked EXCEPT ![r] = rows]
       /\ s.pc \in Open => ReadNow(r, s) \/ KeptReading(r, s)
       /\ Loaded(s, Committed)
       /\ rows # {} => s.pc = "locked"
       /\ \A row \in rows : Free(r, row)
       /\ \A i \in rows \cap Incident : incidents[i] # Gone
       /\ s.pc = "locked" /\ s.call.op \in {"link_alert_to_incident", "resolve_incident"} =>
            s.call.incident \in rows

AlertColumn == {"status", "incident", "history"}
IncidentColumn == {"status", "timeline", "notes", "tasks"}

AlertEffect(r) ==
  /\ alerts' \in [Alert -> AlertBy(Committed \cup {r}) \cup {Gone}]
  /\ Op(r) \in AlertWriters =>
       \A a \in Alert \ {req[r].call.alert} : alerts'[a] = alerts[a]
  /\ \A a \in Alert : alerts'[a] # Gone =>
       /\ alerts[a] # Gone
       /\ \A c \in AlertColumn :
            alerts'[a][c] # alerts[a][c] => c \in AlertColumns(req[r].call)
       /\ ~(Op(r) = "count_occurrence" /\ req[r].call.alert = a) =>
            alerts'[a].history = IF Op(r) \in HistoryOps /\ req[r].call.alert = a
                                 THEN req[r].alert.history \cup {r} ELSE alerts[a].history
       /\ alerts'[a].status = "resolved" /\ alerts[a].status # "resolved" =>
            Op(r) \in {"resolve_alert", "update_alert", "resolve_incident"}
       /\ \A i \in Seed : alerts'[a].incident = i /\ alerts'[a].status # "resolved" =>
            \/ alerts[a].incident = i /\ alerts[a].status # "resolved"
            \/ /\ Op(r) \in {"update_alert", "acknowledge_alert", "escalate_alert"}
               /\ req[r].call.alert = a
            \/ /\ At(r, "locked", "link_alert_to_incident")
               /\ req[r].call.alert = a
       /\ Op(r) = "resolve_incident" /\ alerts'[a].status # "resolved" =>
            a \notin ToResolve(r) /\ alerts'[a] = alerts[a]

IncidentEffect(r) ==
  /\ incidents' \in [Incident -> IncidentBy(Committed \cup {r}) \cup {Gone}]
  /\ \A i \in Incident :
       /\ incidents'[i] = Gone /\ incidents[i] # Gone => Free(r, i)
       /\ incidents'[i] # Gone =>
            /\ incidents[i] # Gone \/ (i = r /\ incidents'[i].status = "open")
            /\ incidents'[i].status = "resolved" /\ incidents[i].status # "resolved" =>
                 Op(r) \in {"resolve_incident", "update_incident"}
       /\ incidents'[i] # Gone /\ incidents[i] # Gone =>
            /\ \A c \in IncidentColumn :
                 incidents'[i][c] # incidents[i][c] => c \in IncidentColumns(req[r].call)
            /\ incidents'[i].timeline = IF Op(r) \in TimelineOps /\ req[r].call.incident = i
                                        THEN req[r].incident.timeline \cup {r}
                                        ELSE incidents[i].timeline

CommitEffect(r) ==
  /\ Commit(r)
  /\ req[r].pc \in {"loaded", "locked"} /\ req[r].call \in Calls
  /\ Op(r) = "resolve_incident" => req[r].pc = "locked"
  /\ Op(r) \in AlertWriters => req[r].pc = "loaded"
  /\ activity' \subseteq activity \cup {r}
  /\ AlertEffect(r)
  /\ IncidentEffect(r)

-----------------------------------------------------------------------------
(* Commits that write one alert.                                           *)

LEMMA OpenSession ==
  ASSUME IInv, NEW r \in Request, req[r].pc \in Open
  PROVE  /\ r \notin Committed /\ Committed \subseteq Request
         /\ req[r] \in SessionBy(Committed)
         /\ req[r].call \in Calls
         /\ Loaded(req[r], Committed)
<1>1. Committed \subseteq Request
  BY DEF IInv, Sessions, Committed
<1>2. r \notin Committed
  BY DEF IInv, Sessions, Open
<1> QED BY <1>1, <1>2 DEF IInv, Sessions, Loaded

\* Committed rows are rows a commit of r may leave.
LEMMA RowsMayStay ==
  ASSUME IInv, NEW r \in Request
  PROVE  /\ alerts \in [Alert -> AlertBy(Committed \cup {r}) \cup {Gone}]
         /\ incidents \in [Incident -> IncidentBy(Committed \cup {r}) \cup {Gone}]
<1>1. AlertBy(Committed) \subseteq AlertBy(Committed \cup {r})
  BY ByGrows
<1>2. IncidentBy(Committed) \subseteq IncidentBy(Committed \cup {r})
  BY ByGrows
<1> QED BY <1>1, <1>2 DEF IInv, TablesByCommitted

\* acknowledge_alert, escalate_alert and resolve_alert.
LEMMA MoveCommits ==
  ASSUME IInv, NEW r \in Request, NEW op, NEW status,
         <<op, status>> \in {<<"acknowledge_alert", "acknowledged">>,
                            <<"escalate_alert", "escalated">>,
                            <<"resolve_alert", "resolved">>},
         WriteAlert(r, op, req[r].alert, Moved(req[r].alert, status, r)),
         activity' = activity \cup {r}
  PROVE  CommitEffect(r)
<1> DEFINE a == req[r].call.alert
           seen == req[r].alert
           new == Moved(seen, status, r)
<1>1. /\ req[r].pc = "loaded" /\ req[r].call.op = op
      /\ op \in HistoryOps /\ op \in AlertOps /\ op # "create_incident_from_alert"
      /\ op \notin IncidentWriters /\ op \notin TimelineOps
      /\ op = "resolve_alert" <=> status = "resolved"
      /\ op # "resolve_incident"
      /\ op \in {"acknowledge_alert", "escalate_alert", "resolve_alert"}
      /\ status \in AlertStatus
  BY DEF WriteAlert, At, HistoryOps, AlertOps, IncidentWriters, TimelineOps, IncidentOps,
         AlertStatus
<1>2. /\ r \notin Committed /\ req[r].call \in Calls
      /\ a \in Alert /\ seen \in AlertBy(Committed)
  BY <1>1, OpenSession, CallShape DEF Loaded, Open, AlertWriters
<1>3. /\ new \in AlertBy(Committed \cup {r})
      /\ new.status = status /\ new.incident = seen.incident
      /\ new.history = seen.history \cup {r} /\ new.history # seen.history
  <2>1. /\ new \in AlertBy(Committed \cup {r})
        /\ new.status = status /\ new.incident = seen.incident
        /\ new.history = seen.history \cup {r}
    <3>1. seen \in AlertBy(Committed) /\ status \in AlertStatus
      BY <1>1, <1>2
    <3> HIDE DEF seen
    <3>2. ASSUME NEW row \in AlertBy(Committed), NEW moved, moved = Moved(row, status, r)
          PROVE  /\ moved \in AlertBy(Committed \cup {r})
                 /\ moved.status = status /\ moved.incident = row.incident
                 /\ moved.history = row.history \cup {r}
      BY <3>1, <3>2, MovedRow
    <3> QED BY <3>1, <3>2
  <2>2. seen.history \subseteq Committed
    BY <1>2 DEF AlertBy
  <2> QED BY <1>2, <2>1, <2>2
<1>4. /\ alerts[a] # Gone /\ incidents' = incidents /\ Commit(r)
      /\ alerts' = [alerts EXCEPT ![a] = Update(alerts[a], seen, new)]
  BY DEF WriteAlert
<1>5. /\ alerts' \in [Alert -> AlertBy(Committed \cup {r}) \cup {Gone}]
      /\ \A b \in Alert \ {a} : alerts'[b] = alerts[b]
      /\ alerts'[a].status \in {alerts[a].status, status}
      /\ alerts'[a].incident = alerts[a].incident
      /\ alerts'[a].history = seen.history \cup {r}
  <2> HIDE DEF new, a
  <2> DEFINE u == Update(alerts[a], seen, new)
  <2>1. alerts \in [Alert -> AlertBy(Committed \cup {r}) \cup {Gone}]
    BY RowsMayStay
  <2>2. alerts[a] \in AlertBy(Committed \cup {r}) /\ new \in AlertBy(Committed \cup {r})
    BY <2>1, <1>2, <1>3, <1>4
  <2>3. /\ u \in AlertBy(Committed \cup {r})
        /\ u.status = IF new.status = seen.status THEN alerts[a].status ELSE new.status
        /\ u.incident = IF new.incident = seen.incident
                        THEN alerts[a].incident ELSE new.incident
        /\ u.history = IF new.history = seen.history THEN alerts[a].history ELSE new.history
    <3> HIDE DEF seen
    <3> QED BY <2>2, UpdateOfAlert
  <2>4. alerts' = [alerts EXCEPT ![a] = u]
    BY <1>2, <1>3, <1>4
  <2> HIDE DEF u
  <2> QED BY <1>2, <1>3, <2>1, <2>3, <2>4
<1>6. /\ {"status", "history"} = AlertColumns(req[r].call)
      /\ Op(r) = op
  BY <1>1 DEF AlertColumns, HistoryOps, Op
<1>7. AlertEffect(r)
  BY <1>1, <1>4, <1>5, <1>6, ZenonT(40) DEF AlertEffect, AlertColumn, AlertWriters
<1>8. IncidentEffect(r)
  BY <1>1, <1>4, <1>6, RowsMayStay DEF IncidentEffect
<1> QED BY <1>1, <1>2, <1>4, <1>6, <1>7, <1>8 DEF CommitEffect

LEMMA UpdateAlertCommits ==
  ASSUME IInv, NEW r \in Request, UpdateAlert(r)
  PROVE  CommitEffect(r)
<1> DEFINE c == req[r].call
           a == c.alert
           seen == req[r].alert
           compared == Compared(r)
           new == [seen EXCEPT ![c.column] = c.value]
<1>1. /\ req[r].pc = "loaded" /\ c.op = "update_alert"
      /\ "update_alert" \notin HistoryOps /\ "update_alert" \notin IncidentWriters
      /\ "update_alert" \notin TimelineOps /\ "update_alert" \in AlertWriters
      /\ "update_alert" \notin {"resolve_incident", "resolve_alert"}
  BY DEF UpdateAlert, WriteAlert, At, HistoryOps, AlertWriters, IncidentWriters,
         TimelineOps, IncidentOps
<1>2. /\ r \notin Committed /\ c \in Calls /\ a \in Alert /\ seen \in AlertBy(Committed)
      /\ \/ c.column = "status" /\ c.value \in AlertStatus
         \/ c.column = "incident" /\ c.value \in Seed \cup {NoIncident}
  BY <1>1, OpenSession, CallShape DEF Loaded, Open, AlertWriters
<1>3. /\ alerts[a] # Gone /\ incidents' = incidents /\ activity' = activity /\ Commit(r)
      /\ alerts' = [alerts EXCEPT ![a] = Update(alerts[a], compared, new)]
  BY DEF UpdateAlert, WriteAlert
<1>4. Op(r) = "update_alert" /\ AlertColumns(c) = {c.column}
  BY <1>1 DEF AlertColumns, HistoryOps, Op
<1>5. /\ new \in AlertBy(Committed \cup {r})
      /\ new.history = seen.history
      /\ \/ c.column = "status" /\ new.incident = seen.incident
         \/ c.column = "incident" /\ new.status = seen.status
  <2>1. seen \in AlertBy(Committed \cup {r})
    BY <1>2, ByGrows
  <2> HIDE DEF seen, c
  <2>2. CASE c.column = "status" /\ c.value \in AlertStatus
    BY <2>1, <2>2 DEF AlertBy
  <2>3. CASE c.column = "incident" /\ c.value \in Seed \cup {NoIncident}
    BY <2>1, <2>3 DEF AlertBy
  <2> QED BY <1>2, <2>2, <2>3
<1>5a. /\ compared.history = seen.history /\ compared.status = seen.status
       /\ c.column = "status" => compared.incident = seen.incident
  <2>1. \/ compared = seen
        \/ c.column = "incident" /\ compared = [seen EXCEPT !.incident = NoIncident]
    BY DEF Compared
  <2> HIDE DEF compared, seen, c
  <2> QED BY <1>2, <2>1 DEF AlertBy
<1>6. /\ alerts' \in [Alert -> AlertBy(Committed \cup {r}) \cup {Gone}]
      /\ \A b \in Alert \ {a} : alerts'[b] = alerts[b]
      /\ alerts'[a].history = alerts[a].history
      /\ \/ c.column = "status" /\ alerts'[a].incident = alerts[a].incident
         \/ c.column = "incident" /\ alerts'[a].status = alerts[a].status
  <2> HIDE DEF new, a, compared
  <2> DEFINE u == Update(alerts[a], compared, new)
  <2>1. alerts \in [Alert -> AlertBy(Committed \cup {r}) \cup {Gone}]
    BY RowsMayStay
  <2>2. alerts[a] \in AlertBy(Committed \cup {r}) /\ new \in AlertBy(Committed \cup {r})
    BY <2>1, <1>2, <1>3, <1>5
  <2>3. /\ u \in AlertBy(Committed \cup {r})
        /\ u.status = IF new.status = compared.status THEN alerts[a].status ELSE new.status
        /\ u.incident = IF new.incident = compared.incident
                        THEN alerts[a].incident ELSE new.incident
        /\ u.history = IF new.history = compared.history THEN alerts[a].history ELSE new.history
    <3> HIDE DEF seen
    <3> QED BY <2>2, UpdateOfAlert
  <2>4. alerts' = [alerts EXCEPT ![a] = u]
    BY <1>2, <1>3, <1>5
  <2> HIDE DEF u
  <2> QED BY <1>2, <1>5, <1>5a, <2>1, <2>3, <2>4
<1>7. AlertEffect(r)
  BY <1>1, <1>3, <1>4, <1>6 DEF AlertEffect, AlertColumn
<1>8. IncidentEffect(r)
  BY <1>1, <1>3, <1>4, RowsMayStay DEF IncidentEffect
<1> QED BY <1>1, <1>2, <1>3, <1>4, <1>7, <1>8 DEF CommitEffect

LEMMA CountOccurrenceCommits ==
  ASSUME IInv, NEW r \in Request, CountOccurrence(r)
  PROVE  CommitEffect(r)
<1> DEFINE a == req[r].call.alert
<1>1. /\ req[r].pc = "loaded" /\ Op(r) = "count_occurrence"
      /\ "count_occurrence" \notin HistoryOps /\ "count_occurrence" \notin IncidentWriters
      /\ "count_occurrence" \notin TimelineOps /\ "count_occurrence" \in AlertWriters
      /\ "count_occurrence" # "resolve_incident"
  BY DEF CountOccurrence, At, HistoryOps, AlertWriters, AlertOps, IncidentWriters,
         TimelineOps, IncidentOps, Op
<1>2. req[r].call \in Calls /\ a \in Alert
  BY <1>1, OpenSession, CallShape DEF Open, Op
<1>3. /\ alerts[a] # Gone /\ incidents' = incidents /\ activity' = activity /\ Commit(r)
      /\ \E kept \in {{}, alerts[a].history} :
           alerts' = [alerts EXCEPT ![a] = [@ EXCEPT !.history = kept]]
  BY DEF CountOccurrence
<1>4. AlertColumns(req[r].call) = {"history"}
  BY <1>1 DEF AlertColumns, HistoryOps, Op
<1>5. /\ alerts' \in [Alert -> AlertBy(Committed \cup {r}) \cup {Gone}]
      /\ \A b \in Alert \ {a} : alerts'[b] = alerts[b]
      /\ alerts'[a].status = alerts[a].status
      /\ alerts'[a].incident = alerts[a].incident
  <2>1. alerts \in [Alert -> AlertBy(Committed \cup {r}) \cup {Gone}]
    BY RowsMayStay
  <2> HIDE DEF a
  <2>2. alerts[a] \in AlertBy(Committed \cup {r})
    BY <1>2, <1>3, <2>1
  <2>3. PICK kept \in {{}, alerts[a].history} :
               alerts' = [alerts EXCEPT ![a] = [@ EXCEPT !.history = kept]]
    BY <1>3
  <2> DEFINE row == [alerts[a] EXCEPT !.history = kept]
  <2>4. /\ row \in AlertBy(Committed \cup {r})
        /\ row.status = alerts[a].status /\ row.incident = alerts[a].incident
    BY <2>2 DEF AlertBy
  <2>5. alerts' = [alerts EXCEPT ![a] = row]
    BY <2>3
  <2> HIDE DEF row
  <2> QED BY <1>2, <2>1, <2>4, <2>5
<1>6. AlertEffect(r)
  BY <1>1, <1>3, <1>4, <1>5 DEF AlertEffect, AlertColumn
<1>7. IncidentEffect(r)
  BY <1>1, <1>3, RowsMayStay DEF IncidentEffect
<1> QED BY <1>1, <1>2, <1>3, <1>6, <1>7 DEF CommitEffect

LEMMA DeleteAlertCommits ==
  ASSUME IInv, NEW r \in Request, DeleteAlert(r)
  PROVE  CommitEffect(r)
<1> DEFINE a == req[r].call.alert
<1>1. /\ req[r].pc = "loaded" /\ Op(r) = "delete_alert"
      /\ "delete_alert" \notin HistoryOps /\ "delete_alert" \notin IncidentWriters
      /\ "delete_alert" \notin TimelineOps /\ "delete_alert" \in AlertWriters
      /\ "delete_alert" # "resolve_incident"
  BY DEF DeleteAlert, At, HistoryOps, AlertWriters, AlertOps, IncidentWriters,
         TimelineOps, IncidentOps, Op
<1>2. req[r].call \in Calls /\ a \in Alert
  BY <1>1, OpenSession, CallShape DEF Open, Op
<1>3. /\ incidents' = incidents /\ activity' = activity /\ Commit(r)
      /\ alerts' = [alerts EXCEPT ![a] = Gone]
  BY DEF DeleteAlert
<1>4. /\ alerts' \in [Alert -> AlertBy(Committed \cup {r}) \cup {Gone}]
      /\ \A b \in Alert : alerts'[b] # Gone => alerts'[b] = alerts[b]
      /\ \A b \in Alert \ {a} : alerts'[b] = alerts[b]
  BY <1>2, <1>3, RowsMayStay
<1>5. AlertEffect(r)
  BY <1>1, <1>4 DEF AlertEffect
<1>6. IncidentEffect(r)
  BY <1>1, <1>3, RowsMayStay DEF IncidentEffect
<1> QED BY <1>1, <1>2, <1>3, <1>5, <1>6 DEF CommitEffect

LEMMA CreateFromAlertCommits ==
  ASSUME IInv, NEW r \in Request, CreateIncidentFromAlert(r)
  PROVE  CommitEffect(r)
<1> DEFINE a == req[r].call.alert
           seen == req[r].alert
           moved == Moved(seen, "escalated", r)
           new == [moved EXCEPT !.incident = r]
           op == "create_incident_from_alert"
           row == [status |-> "open", timeline |-> {r}, notes |-> {}, tasks |-> {}]
<1>1. /\ req[r].pc = "loaded" /\ Op(r) = op
      /\ op \in HistoryOps /\ op \notin IncidentWriters /\ op \in AlertWriters
      /\ op \notin TimelineOps
      /\ op \notin {"resolve_incident", "acknowledge_alert", "escalate_alert", "update_alert"}
  BY DEF CreateIncidentFromAlert, At, HistoryOps, AlertWriters, AlertOps, IncidentWriters,
         TimelineOps, IncidentOps, Op
<1>2. /\ r \notin Committed /\ req[r].call \in Calls /\ a \in Alert
      /\ seen \in AlertBy(Committed) /\ seen.incident = NoIncident
  BY <1>1, OpenSession, CallShape DEF Loaded, Open, AlertWriters, Op
<1>3. /\ alerts[a] # Gone /\ Commit(r) /\ activity' = activity
      /\ alerts' = [alerts EXCEPT ![a] = Update(alerts[a], seen, new)]
      /\ incidents' = [incidents EXCEPT ![r] = row]
  BY DEF CreateIncidentFromAlert
<1>4. AlertColumns(req[r].call) = {"status", "history", "incident"}
  BY <1>1 DEF AlertColumns, HistoryOps, Op
<1>5. /\ new \in AlertBy(Committed \cup {r})
      /\ new.status = "escalated" /\ new.incident = r
      /\ new.history = seen.history \cup {r} /\ new.history # seen.history
  <2> HIDE DEF seen
  <2>1. /\ moved \in AlertBy(Committed \cup {r}) /\ moved.status = "escalated"
        /\ moved.history = seen.history \cup {r}
    BY <1>2, MovedRow, SMTT(20) DEF AlertStatus
  <2>2. seen.history \subseteq Committed
    BY <1>2 DEF AlertBy
  <2> HIDE DEF moved
  <2>3. /\ new \in AlertBy(Committed \cup {r}) /\ new.status = moved.status
        /\ new.incident = r /\ new.history = moved.history
    BY <2>1 DEF AlertBy
  <2> QED BY <1>2, <2>1, <2>2, <2>3
<1>6. /\ alerts' \in [Alert -> AlertBy(Committed \cup {r}) \cup {Gone}]
      /\ \A b \in Alert \ {a} : alerts'[b] = alerts[b]
      /\ alerts'[a].status \in {alerts[a].status, "escalated"}
      /\ alerts'[a].incident = r
      /\ alerts'[a].history = seen.history \cup {r}
  <2> HIDE DEF new, a
  <2> DEFINE u == Update(alerts[a], seen, new)
  <2>1. alerts \in [Alert -> AlertBy(Committed \cup {r}) \cup {Gone}]
    BY RowsMayStay
  <2>2. alerts[a] \in AlertBy(Committed \cup {r}) /\ new \in AlertBy(Committed \cup {r})
    BY <2>1, <1>2, <1>3, <1>5
  <2>3. /\ u \in AlertBy(Committed \cup {r})
        /\ u.status = IF new.status = seen.status THEN alerts[a].status ELSE new.status
        /\ u.incident = IF new.incident = seen.incident
                        THEN alerts[a].incident ELSE new.incident
        /\ u.history = IF new.history = seen.history THEN alerts[a].history ELSE new.history
    <3> HIDE DEF seen
    <3> QED BY <2>2, UpdateOfAlert
  <2>4. alerts' = [alerts EXCEPT ![a] = u]
    BY <1>2, <1>3, <1>5
  <2> HIDE DEF u
  <2>5. r # NoIncident
    BY IdAssumption
  <2> QED BY <1>2, <1>5, <2>1, <2>3, <2>4, <2>5
<1>7. AlertEffect(r)
  <2>1. \A i \in Seed : i # r
    BY IdAssumption
  <2> HIDE DEF seen, a
  <2> QED BY <1>1, <1>2, <1>3, <1>4, <1>6, <2>1, ZenonT(40) DEF AlertEffect, AlertColumn, a, seen
<1>8. IncidentEffect(r)
  <2>1. incidents[r] = Gone
    BY <1>2 DEF IInv, TablesByCommitted
  <2>2. row \in IncidentBy(Committed \cup {r}) /\ row.status = "open"
    BY DEF IncidentBy, IncidentStatus
  <2> HIDE DEF row
  <2>3. /\ incidents' \in [Incident -> IncidentBy(Committed \cup {r}) \cup {Gone}]
        /\ \A i \in Incident \ {r} : incidents'[i] = incidents[i]
        /\ incidents'[r].status = "open"
    BY <1>3, <2>2, RowsMayStay DEF Incident
  <2> QED BY <1>1, <2>1, <2>3 DEF IncidentEffect
<1> QED BY <1>1, <1>2, <1>3, <1>7, <1>8 DEF CommitEffect

-----------------------------------------------------------------------------
(* Commits that write one incident.                                        *)

\* A row with one more timeline entry, and what an UPDATE makes of it.
LEMMA TimelineWritten ==
  ASSUME NEW C, NEW r, r \notin C, NEW current \in IncidentBy(C \cup {r}),
         NEW seen, seen.timeline \in SUBSET C,
         NEW new \in IncidentBy(C \cup {r}), new.timeline = seen.timeline \cup {r}
  PROVE  /\ Update(current, seen, new) \in IncidentBy(C \cup {r})
         /\ Update(current, seen, new).timeline = seen.timeline \cup {r}
         /\ Update(current, seen, new).status =
              IF new.status = seen.status THEN current.status ELSE new.status
         /\ Update(current, seen, new).notes =
              IF new.notes = seen.notes THEN current.notes ELSE new.notes
         /\ Update(current, seen, new).tasks =
              IF new.tasks = seen.tasks THEN current.tasks ELSE new.tasks
<1>1. new.timeline # seen.timeline
  OBVIOUS
<1> QED BY <1>1, UpdateOfIncident

\* A handler that assigns the columns in which new differs from seen.
LEMMA WriteIncidentCommits ==
  ASSUME IInv, NEW r \in Request, NEW op, NEW seen, NEW new,
         WriteIncident(r, op, seen, new),
         op \in {"update_incident", "assign_incident", "add_incident_note",
                "add_incident_event", "add_incident_task", "update_incident_task"},
         new \in IncidentBy(Committed \cup {r}),
         seen.timeline = req[r].incident.timeline,
         new.timeline = seen.timeline,
         new.status # seen.status =>
           \/ op = "update_incident"
           \/ op = "assign_incident" /\ new.status # "resolved",
         new.notes # seen.notes => op = "add_incident_note",
         new.tasks # seen.tasks => op = "add_incident_task"
  PROVE  CommitEffect(r)
<1> DEFINE i == req[r].call.incident
           timeline == seen.timeline \cup {r}
           next == [new EXCEPT !.timeline = timeline]
           u == Update(incidents[i], seen, next)
<1>1. /\ req[r].pc = "loaded" /\ Op(r) = op
      /\ op \in IncidentWriters /\ op \in TimelineOps
      /\ op \notin AlertWriters /\ op \notin HistoryOps /\ op # "resolve_incident"
  BY DEF WriteIncident, At, Op, IncidentWriters, IncidentOps, TimelineOps, AlertWriters,
         AlertOps, HistoryOps
<1>2. /\ r \notin Committed /\ req[r].call \in Calls /\ i \in Seed
      /\ req[r].incident \in IncidentBy(Committed)
  BY <1>1, OpenSession, CallShape DEF Loaded, Open, Op
<1>3. /\ incidents[i] # Gone /\ alerts' = alerts /\ activity' = activity /\ Commit(r)
      /\ incidents' = [incidents EXCEPT ![i] = u]
  BY DEF WriteIncident, AppendEvent
<1>4. incidents \in [Incident -> IncidentBy(Committed \cup {r}) \cup {Gone}] /\ i \in Incident
  BY <1>2, RowsMayStay DEF Incident
<1>5. /\ u \in IncidentBy(Committed \cup {r})
      /\ u.timeline = seen.timeline \cup {r}
      /\ u.status = IF new.status = seen.status THEN incidents[i].status ELSE new.status
      /\ u.notes = IF new.notes = seen.notes THEN incidents[i].notes ELSE new.notes
      /\ u.tasks = IF new.tasks = seen.tasks THEN incidents[i].tasks ELSE new.tasks
  <2>1. incidents[i] \in IncidentBy(Committed \cup {r})
    BY <1>3, <1>4
  <2>2. seen.timeline \in SUBSET Committed
    BY <1>2 DEF IncidentBy
  <2>3. timeline \in SUBSET (Committed \cup {r})
    BY <2>2
  <2> HIDE DEF timeline
  <2>4. /\ next \in IncidentBy(Committed \cup {r}) /\ next.timeline = timeline
        /\ next.status = new.status /\ next.notes = new.notes /\ next.tasks = new.tasks
    BY <2>3 DEF IncidentBy
  <2>5. next.timeline = seen.timeline \cup {r}
    BY <2>4 DEF timeline
  <2> HIDE DEF next, i
  <2>6. /\ u \in IncidentBy(Committed \cup {r})
        /\ u.timeline = seen.timeline \cup {r}
        /\ u.status = IF next.status = seen.status THEN incidents[i].status ELSE next.status
        /\ u.notes = IF next.notes = seen.notes THEN incidents[i].notes ELSE next.notes
        /\ u.tasks = IF next.tasks = seen.tasks THEN incidents[i].tasks ELSE next.tasks
    BY <1>2, <2>1, <2>2, <2>4, <2>5, TimelineWritten
  <2> HIDE DEF u
  <2> QED BY <2>4, <2>6
<1>6. /\ "timeline" \in IncidentColumns(req[r].call)
      /\ op \in {"update_incident", "assign_incident"} => "status" \in IncidentColumns(req[r].call)
      /\ op = "add_incident_note" => "notes" \in IncidentColumns(req[r].call)
      /\ op = "add_incident_task" => "tasks" \in IncidentColumns(req[r].call)
  BY <1>1 DEF IncidentColumns, Op
<1>7. AlertEffect(r)
  BY <1>1, <1>3, RowsMayStay DEF AlertEffect
<1>8. IncidentEffect(r)
  <2> HIDE DEF u, i
  <2>1. /\ incidents' \in [Incident -> IncidentBy(Committed \cup {r}) \cup {Gone}]
        /\ \A j \in Incident \ {i} : incidents'[j] = incidents[j]
        /\ incidents'[i] = u
    BY <1>3, <1>4, <1>5
  <2>2. i = req[r].call.incident
    BY DEF i
  <2>3. \A c \in IncidentColumn : u[c] # incidents[i][c] => c \in IncidentColumns(req[r].call)
    BY <1>5, <1>6 DEF IncidentColumn
  <2>4. u.status = "resolved" /\ incidents[i].status # "resolved" => op = "update_incident"
    BY <1>5
  <2>5. Free(r, i)
    BY DEF i, WriteIncident
  <2> QED BY <1>1, <1>3, <1>5, <2>1, <2>2, <2>3, <2>4, <2>5 DEF IncidentEffect
<1> QED BY <1>1, <1>2, <1>3, <1>7, <1>8 DEF CommitEffect

LEMMA IncidentWritersCommit ==
  ASSUME IInv, NEW r \in Request,
         \/ UpdateIncident(r) \/ AssignIncident(r) \/ AddIncidentNote(r)
         \/ AddIncidentEvent(r) \/ AddIncidentTask(r) \/ UpdateIncidentTask(r)
  PROVE  CommitEffect(r)
<1> DEFINE seen == req[r].incident
           C == Committed \cup {r}
<1>1. /\ req[r].pc = "loaded" /\ Op(r) \in IncidentWriters
  BY DEF UpdateIncident, AssignIncident, AddIncidentNote, AddIncidentEvent, AddIncidentTask,
         UpdateIncidentTask, WriteIncident, At, Op, IncidentWriters, IncidentOps
<1>2. /\ req[r].call \in Calls /\ seen \in IncidentBy(Committed) /\ Committed \subseteq Request
  BY <1>1, OpenSession, CallShape DEF Loaded, Open, Op
<1>3. seen \in IncidentBy(C) /\ r \in C
  BY <1>2, ByGrows
<1>4. CASE UpdateIncident(r)
  <2>1. req[r].call.value \in IncidentStatus
    BY <1>2, <1>4, CallShape DEF UpdateIncident, WriteIncident, At
  <2> DEFINE value == req[r].call.value
             new == [seen EXCEPT !.status = value]
  <2>2. WriteIncident(r, "update_incident", seen, new)
    BY <1>4 DEF UpdateIncident
  <2>3. /\ new \in IncidentBy(C) /\ new.timeline = seen.timeline
        /\ new.notes = seen.notes /\ new.tasks = seen.tasks
    <3> HIDE DEF seen, value, C
    <3> QED BY <1>3, <2>1 DEF IncidentBy, value
  <2> HIDE DEF new
  <2> QED BY <2>2, <2>3, WriteIncidentCommits
<1>5. CASE AssignIncident(r)
  <2> DEFINE status == IF seen.status = "open" THEN "investigating" ELSE seen.status
             new == [seen EXCEPT !.status = status]
  <2>1. status \in IncidentStatus /\ (status # seen.status => status # "resolved")
    <3> HIDE DEF seen
    <3> QED BY <1>2 DEF IncidentBy, IncidentStatus
  <2>2. WriteIncident(r, "assign_incident", seen, new)
    BY <1>5 DEF AssignIncident
  <2> HIDE DEF status
  <2>3. /\ new \in IncidentBy(C) /\ new.timeline = seen.timeline /\ new.status = status
        /\ new.notes = seen.notes /\ new.tasks = seen.tasks
    <3> HIDE DEF seen, C
    <3> QED BY <1>3, <2>1 DEF IncidentBy
  <2> HIDE DEF new
  <2> QED BY <2>1, <2>2, <2>3, WriteIncidentCommits
<1>6. CASE AddIncidentNote(r)
  <2> DEFINE notes == seen.notes \cup {r}
             new == [seen EXCEPT !.notes = notes]
  <2>1. notes \in SUBSET C
    <3> HIDE DEF seen, C
    <3> QED BY <1>3 DEF IncidentBy
  <2>2. WriteIncident(r, "add_incident_note", seen, new)
    BY <1>6 DEF AddIncidentNote, AppendEvent
  <2> HIDE DEF notes
  <2>3. /\ new \in IncidentBy(C) /\ new.timeline = seen.timeline
        /\ new.status = seen.status /\ new.tasks = seen.tasks
    <3> HIDE DEF seen, C
    <3> QED BY <1>3, <2>1 DEF IncidentBy
  <2> HIDE DEF new
  <2> QED BY <2>2, <2>3, WriteIncidentCommits
<1>7. CASE AddIncidentEvent(r)
  <2>1. WriteIncident(r, "add_incident_event", seen, seen)
    BY <1>7 DEF AddIncidentEvent
  <2> QED BY <1>3, <2>1, WriteIncidentCommits
<1>8. CASE AddIncidentTask(r)
  <2> DEFINE tasks == seen.tasks \cup {<<r, FALSE>>}
             new == [seen EXCEPT !.tasks = tasks]
  <2>1. tasks \in SUBSET (C \X BOOLEAN)
    <3>1. seen.tasks \in SUBSET (C \X BOOLEAN) /\ <<r, FALSE>> \in C \X BOOLEAN
      <4> HIDE DEF seen, C
      <4> QED BY <1>3 DEF IncidentBy
    <3> HIDE DEF seen, C
    <3> QED BY <3>1
  <2>2. WriteIncident(r, "add_incident_task", seen, new)
    BY <1>8 DEF AddIncidentTask
  <2> HIDE DEF tasks
  <2>3. /\ new \in IncidentBy(C) /\ new.timeline = seen.timeline
        /\ new.status = seen.status /\ new.notes = seen.notes
    <3> HIDE DEF seen, C
    <3> QED BY <1>3, <2>1 DEF IncidentBy
  <2> HIDE DEF new
  <2> QED BY <2>2, <2>3, WriteIncidentCommits
<1>9. CASE UpdateIncidentTask(r)
  <2> DEFINE t == req[r].call.task
             tasks == (seen.tasks \ {<<t, FALSE>>}) \cup {<<t, TRUE>>}
             new == [seen EXCEPT !.tasks = tasks]
  <2>1. tasks \in SUBSET (C \X BOOLEAN)
    <3>1. \E done \in BOOLEAN : <<t, done>> \in seen.tasks
      BY <1>1, <1>9, OpenSession DEF Loaded, Open, UpdateIncidentTask, WriteIncident, At
    <3>2. seen.tasks \in SUBSET (C \X BOOLEAN)
      <4> HIDE DEF seen, C
      <4> QED BY <1>3 DEF IncidentBy
    <3> HIDE DEF seen, C, t
    <3>3. <<t, TRUE>> \in C \X BOOLEAN
      BY <3>1, <3>2
    <3> QED BY <3>2, <3>3
  <2>2. WriteIncident(r, "update_incident_task", new, new)
    BY <1>9 DEF UpdateIncidentTask
  <2> HIDE DEF tasks
  <2>3. new \in IncidentBy(C) /\ new.timeline = seen.timeline
    <3> HIDE DEF seen, C
    <3> QED BY <1>3, <2>1 DEF IncidentBy
  <2> HIDE DEF new
  <2> QED BY <2>2, <2>3, WriteIncidentCommits
<1> QED BY <1>4, <1>5, <1>6, <1>7, <1>8, <1>9

LEMMA CreateIncidentCommits ==
  ASSUME IInv, NEW r \in Request, CreateIncident(r)
  PROVE  CommitEffect(r)
<1> DEFINE op == "create_incident"
           row == [status |-> "open", timeline |-> {r}, notes |-> {}, tasks |-> {}]
<1>1. /\ req[r].pc = "loaded" /\ Op(r) = op
      /\ op \notin HistoryOps /\ op \notin IncidentWriters /\ op \notin AlertWriters
      /\ op \notin TimelineOps /\ op # "resolve_incident"
  BY DEF CreateIncident, At, HistoryOps, AlertWriters, AlertOps, IncidentWriters,
         TimelineOps, IncidentOps, Op
<1>2. r \notin Committed /\ req[r].call \in Calls
  BY <1>1, OpenSession DEF Open
<1>3. /\ Commit(r) /\ activity' = activity \cup {r} /\ alerts' = alerts
      /\ incidents' = [incidents EXCEPT ![r] = row]
  BY DEF CreateIncident
<1>4. AlertEffect(r)
  BY <1>1, <1>3, RowsMayStay DEF AlertEffect
<1>5. IncidentEffect(r)
  <2>1. incidents[r] = Gone
    BY <1>2 DEF IInv, TablesByCommitted
  <2>2. row \in IncidentBy(Committed \cup {r}) /\ row.status = "open"
    BY DEF IncidentBy, IncidentStatus
  <2> HIDE DEF row
  <2>3. /\ incidents' \in [Incident -> IncidentBy(Committed \cup {r}) \cup {Gone}]
        /\ \A i \in Incident \ {r} : incidents'[i] = incidents[i]
        /\ incidents'[r].status = "open"
    BY <1>3, <2>2, RowsMayStay DEF Incident
  <2> QED BY <1>1, <2>1, <2>3 DEF IncidentEffect
<1> QED BY <1>1, <1>2, <1>3, <1>4, <1>5 DEF CommitEffect

-----------------------------------------------------------------------------
(* Commits that write several rows.                                        *)

\* What link_alert_to_incident and resolve_incident know of the incident they hold.
LEMMA LockedIncident ==
  ASSUME IInv, NEW r \in Request, NEW op \in {"link_alert_to_incident", "resolve_incident"},
         At(r, "locked", op)
  PROVE  /\ r \notin Committed /\ req[r].call \in Calls
         /\ req[r].call.incident \in Seed
         /\ req[r].incident \in IncidentBy(Committed)
         /\ incidents[req[r].call.incident] \in IncidentBy(Committed \cup {r})
         /\ incidents[req[r].call.incident] # Gone
         /\ Free(r, req[r].call.incident)
<1> DEFINE i == req[r].call.incident
<1>1. req[r].pc = "locked" /\ Op(r) = op /\ op \in IncidentWriters
  BY DEF At, Op, IncidentWriters, IncidentOps
<1>2. /\ r \notin Committed /\ req[r].call \in Calls /\ i \in Seed
      /\ req[r].incident \in IncidentBy(Committed)
  BY <1>1, OpenSession, CallShape DEF Loaded, Open, Op
<1>3. i \in locked[r]
  BY DEF IInv, Locks, At, Op
<1>4. incidents[i] # Gone
  BY <1>2, <1>3 DEF IInv, Locks, Incident
<1>5. incidents[i] \in IncidentBy(Committed \cup {r})
  BY <1>2, <1>4, RowsMayStay DEF Incident
<1>6. Free(r, i)
  BY <1>3 DEF IInv, Locks, LocksAreOwned, Free
<1> QED BY <1>2, <1>4, <1>5, <1>6

LEMMA LockedIncidentWritten ==
  ASSUME IInv, NEW r \in Request, NEW op \in {"link_alert_to_incident", "resolve_incident"},
         At(r, "locked", op),
         NEW new \in IncidentBy(Committed \cup {r}),
         new.timeline = req[r].incident.timeline \cup {r},
         new.notes = req[r].incident.notes, new.tasks = req[r].incident.tasks,
         new.status = req[r].incident.status \/ op = "resolve_incident",
         NEW u, u = Update(incidents[req[r].call.incident], req[r].incident, new),
         incidents' = [incidents EXCEPT ![req[r].call.incident] = u]
  PROVE  IncidentEffect(r)
<1> DEFINE i == req[r].call.incident
           seen == req[r].incident
<1>1. /\ r \notin Committed /\ i \in Seed /\ seen \in IncidentBy(Committed)
      /\ incidents[i] \in IncidentBy(Committed \cup {r}) /\ incidents[i] # Gone
      /\ Free(r, i)
  BY LockedIncident
<1>2. seen.timeline \in SUBSET Committed
  BY <1>1 DEF IncidentBy
<1>3. /\ u \in IncidentBy(Committed \cup {r})
      /\ u.timeline = seen.timeline \cup {r}
      /\ u.status = IF new.status = seen.status THEN incidents[i].status ELSE new.status
      /\ u.notes = incidents[i].notes
      /\ u.tasks = incidents[i].tasks
  <2> HIDE DEF i, seen
  <2>1. /\ u = Update(incidents[i], seen, new) /\ new.notes = seen.notes
        /\ new.tasks = seen.tasks /\ new.timeline = seen.timeline \cup {r}
    BY DEF i, seen
  <2> QED BY <1>1, <1>2, <2>1, TimelineWritten
<1>4. /\ Op(r) = op /\ op \in TimelineOps
      /\ "timeline" \in IncidentColumns(req[r].call)
      /\ op = "resolve_incident" => "status" \in IncidentColumns(req[r].call)
  BY DEF At, Op, TimelineOps, IncidentColumns
<1>5. /\ incidents' \in [Incident -> IncidentBy(Committed \cup {r}) \cup {Gone}]
      /\ \A j \in Incident \ {i} : incidents'[j] = incidents[j]
      /\ incidents'[i] = u
  BY <1>1, <1>3, RowsMayStay DEF Incident
<1>6. \A c \in IncidentColumn : u[c] # incidents[i][c] => c \in IncidentColumns(req[r].call)
  BY <1>3, <1>4 DEF IncidentColumn
<1> HIDE DEF i, seen
<1>7. i = req[r].call.incident /\ seen = req[r].incident
  BY DEF i, seen
<1> QED BY <1>1, <1>3, <1>4, <1>5, <1>6, <1>7 DEF IncidentEffect

LEMMA LinkCommits ==
  ASSUME IInv, NEW r \in Request, LinkAlertToIncident(r)
  PROVE  CommitEffect(r)
<1> DEFINE op == "link_alert_to_incident"
           c == req[r].call
           i == c.incident
           seen == req[r].alert
           new == LinkedRow(r)
           timeline == req[r].incident.timeline \cup {r}
           next == [req[r].incident EXCEPT !.timeline = timeline]
           u == Update(incidents[i], req[r].incident, next)
<1>1. /\ At(r, "locked", op) /\ req[r].pc = "locked" /\ Op(r) = op
      /\ op \notin HistoryOps /\ op \notin AlertWriters
      /\ op \notin {"resolve_incident", "update_alert"}
  BY DEF LinkAlertToIncident, At, HistoryOps, AlertWriters, AlertOps, Op
<1>2. /\ r \notin Committed /\ c \in Calls /\ i \in Seed /\ c.alert \in Alert
      /\ seen \in AlertBy(Committed) /\ req[r].incident \in IncidentBy(Committed)
  BY <1>1, OpenSession, CallShape, LockedIncident DEF Loaded, Open, Op
<1>3. /\ Commit(r) /\ activity' = activity
      /\ \A a \in ToLink(r) : alerts[a] # Gone
      /\ alerts' = [a \in Alert |-> IF a \in ToLink(r) THEN Update(alerts[a], seen, new)
                                    ELSE alerts[a]]
      /\ incidents' = [incidents EXCEPT ![i] = u]
  BY DEF LinkAlertToIncident, AppendEvent
<1>4. /\ new \in AlertBy(Committed \cup {r})
      /\ new.status = "escalated" /\ new.incident = i /\ new.history = seen.history
  <2>1. seen \in AlertBy(Committed \cup {r})
    BY <1>2, ByGrows
  <2>2. new = [seen EXCEPT !.incident = i, !.status = "escalated"]
    BY DEF LinkedRow
  <2> HIDE DEF seen, i, new
  <2> QED BY <1>2, <2>1, <2>2 DEF AlertBy, AlertStatus
<1>5. AlertEffect(r)
  <2>1. alerts \in [Alert -> AlertBy(Committed \cup {r}) \cup {Gone}]
    BY RowsMayStay
  <2>2. ToLink(r) \subseteq {c.alert}
    BY DEF ToLink
  <2>3. AlertColumns(c) = {"status", "incident"}
    BY <1>1 DEF AlertColumns, HistoryOps, Op
  <2> HIDE DEF seen, new
  <2>4. ASSUME NEW a \in ToLink(r)
        PROVE  LET v == Update(alerts[a], seen, new)
               IN  /\ v \in AlertBy(Committed \cup {r})
                   /\ v.status \in {alerts[a].status, "escalated"}
                   /\ v.history = alerts[a].history
    <3>1. alerts[a] \in AlertBy(Committed \cup {r})
      BY <1>2, <1>3, <2>1, <2>2
    <3> QED BY <1>4, <3>1, UpdateOfAlert
  <2>5. alerts' \in [Alert -> AlertBy(Committed \cup {r}) \cup {Gone}]
    BY <1>3, <2>1, <2>4
  <2>6. ASSUME NEW a \in Alert, a \notin ToLink(r)
        PROVE  alerts'[a] = alerts[a]
    BY <1>3, <2>6
  <2>7. ASSUME NEW a \in Alert, a \in ToLink(r)
        PROVE  /\ a = c.alert /\ alerts[a] # Gone
               /\ alerts'[a].status \in {alerts[a].status, "escalated"}
               /\ alerts'[a].history = alerts[a].history
    BY <1>3, <2>2, <2>4, <2>7
  <2> QED BY <1>1, <2>3, <2>5, <2>6, <2>7 DEF AlertEffect, AlertColumn
<1>6. IncidentEffect(r)
  <2>1. req[r].incident \in IncidentBy(Committed \cup {r})
    BY <1>2, ByGrows
  <2>2. timeline \in SUBSET (Committed \cup {r})
    BY <1>2 DEF IncidentBy
  <2> HIDE DEF timeline
  <2>3. /\ next \in IncidentBy(Committed \cup {r}) /\ next.timeline = timeline
        /\ next.status = req[r].incident.status /\ next.notes = req[r].incident.notes
        /\ next.tasks = req[r].incident.tasks
    BY <2>1, <2>2 DEF IncidentBy
  <2>4. next.timeline = req[r].incident.timeline \cup {r}
    BY <2>3 DEF timeline
  <2> HIDE DEF next
  <2>5. u = Update(incidents[req[r].call.incident], req[r].incident, next)
    OBVIOUS
  <2> HIDE DEF u
  <2>6. incidents' = [incidents EXCEPT ![req[r].call.incident] = u]
    BY <1>3
  <2> QED BY <1>1, <2>3, <2>4, <2>5, <2>6, LockedIncidentWritten
<1> QED BY <1>1, <1>2, <1>3, <1>5, <1>6 DEF CommitEffect

LEMMA ResolveCommits ==
  ASSUME IInv, NEW r \in Request, ResolveIncident(r)
  PROVE  CommitEffect(r)
<1> DEFINE op == "resolve_incident"
           c == req[r].call
           i == c.incident
           timeline == req[r].incident.timeline \cup {r}
           next == [req[r].incident EXCEPT !.status = "resolved", !.timeline = timeline]
           u == Update(incidents[i], req[r].incident, next)
<1>1. /\ At(r, "locked", op) /\ req[r].pc = "locked" /\ Op(r) = op
      /\ op \notin HistoryOps /\ op \notin AlertWriters
      /\ op \notin {"link_alert_to_incident", "update_alert"}
  BY DEF ResolveIncident, At, HistoryOps, AlertWriters, AlertOps, Op
<1>2. /\ r \notin Committed /\ c \in Calls /\ i \in Seed
      /\ req[r].incident \in IncidentBy(Committed)
  BY <1>1, LockedIncident
<1>3. /\ Commit(r) /\ activity' = activity \cup {r}
      /\ alerts' = [a \in Alert |-> IF a \in ToResolve(r) /\ alerts[a] # Gone
                                    THEN [alerts[a] EXCEPT !.status = "resolved"]
                                    ELSE alerts[a]]
      /\ incidents' = [incidents EXCEPT ![i] = u]
  BY DEF ResolveIncident, AppendEvent
<1>4. AlertEffect(r)
  <2>1. alerts \in [Alert -> AlertBy(Committed \cup {r}) \cup {Gone}]
    BY RowsMayStay
  <2>2. "status" \in AlertColumns(c)
    BY <1>1 DEF AlertColumns, HistoryOps, Op
  <2>3. ASSUME NEW a \in Alert, a \in ToResolve(r), alerts[a] # Gone
        PROVE  /\ alerts'[a] \in AlertBy(Committed \cup {r})
               /\ alerts'[a].status = "resolved"
               /\ alerts'[a].incident = alerts[a].incident
               /\ alerts'[a].history = alerts[a].history
    <3>1. alerts'[a] = [alerts[a] EXCEPT !.status = "resolved"]
      BY <1>3, <2>3
    <3>2. alerts[a] \in AlertBy(Committed \cup {r})
      BY <2>1, <2>3
    <3> QED BY <3>1, <3>2 DEF AlertBy, AlertStatus
  <2>4. ASSUME NEW a \in Alert, ~(a \in ToResolve(r) /\ alerts[a] # Gone)
        PROVE  alerts'[a] = alerts[a]
    BY <1>3, <2>4
  <2>5. alerts' \in [Alert -> AlertBy(Committed \cup {r}) \cup {Gone}]
    <3>1. \A a \in Alert : alerts'[a] \in AlertBy(Committed \cup {r}) \cup {Gone}
      BY <2>1, <2>3, <2>4
    <3> QED BY <1>3, <3>1
  <2> QED BY <1>1, <2>2, <2>3, <2>4, <2>5 DEF AlertEffect, AlertColumn
<1>5. IncidentEffect(r)
  <2>1. req[r].incident \in IncidentBy(Committed \cup {r})
    BY <1>2, ByGrows
  <2>2. timeline \in SUBSET (Committed \cup {r})
    BY <1>2 DEF IncidentBy
  <2> HIDE DEF timeline
  <2>3. /\ next \in IncidentBy(Committed \cup {r}) /\ next.timeline = timeline
        /\ next.notes = req[r].incident.notes /\ next.tasks = req[r].incident.tasks
    BY <2>1, <2>2 DEF IncidentBy, IncidentStatus
  <2>4. next.timeline = req[r].incident.timeline \cup {r}
    BY <2>3 DEF timeline
  <2> HIDE DEF next
  <2>5. u = Update(incidents[req[r].call.incident], req[r].incident, next)
    OBVIOUS
  <2> HIDE DEF u
  <2>6. incidents' = [incidents EXCEPT ![req[r].call.incident] = u]
    BY <1>3
  <2> QED BY <1>1, <2>3, <2>4, <2>5, <2>6, LockedIncidentWritten
<1> QED BY <1>1, <1>2, <1>3, <1>4, <1>5 DEF CommitEffect

LEMMA DeleteIncidentCommits ==
  ASSUME IInv, NEW r \in Request, DeleteIncident(r)
  PROVE  CommitEffect(r)
<1> DEFINE op == "delete_incident"
           c == req[r].call
           i == c.incident
           unlinked == Rows(req[r].linked)
<1>1. /\ req[r].pc = "locked" /\ Op(r) = op
      /\ op \notin HistoryOps /\ op \notin AlertWriters /\ op \in IncidentWriters
      /\ op \notin TimelineOps
      /\ op \notin {"link_alert_to_incident", "update_alert", "resolve_incident"}
  BY DEF DeleteIncident, At, HistoryOps, AlertWriters, AlertOps, IncidentWriters,
         IncidentOps, TimelineOps, Op
<1>2. c \in Calls /\ i \in Seed
  BY <1>1, OpenSession, CallShape DEF Open, Op
<1>3. /\ Commit(r) /\ activity' = activity /\ Free(r, i)
      /\ alerts' = [a \in Alert |-> IF a \in unlinked /\ alerts[a] # Gone
                                    THEN [alerts[a] EXCEPT !.incident = NoIncident]
                                    ELSE alerts[a]]
      /\ incidents' = [incidents EXCEPT ![i] = Gone]
  BY DEF DeleteIncident
<1>4. AlertEffect(r)
  <2>1. alerts \in [Alert -> AlertBy(Committed \cup {r}) \cup {Gone}]
    BY RowsMayStay
  <2>2. "incident" \in AlertColumns(c)
    BY <1>1 DEF AlertColumns, HistoryOps, Op
  <2>3. ASSUME NEW a \in Alert, a \in unlinked, alerts[a] # Gone
        PROVE  /\ alerts'[a] \in AlertBy(Committed \cup {r})
               /\ alerts'[a].status = alerts[a].status
               /\ alerts'[a].incident = NoIncident
               /\ alerts'[a].history = alerts[a].history
    <3>1. alerts'[a] = [alerts[a] EXCEPT !.incident = NoIncident]
      BY <1>3, <2>3
    <3>2. alerts[a] \in AlertBy(Committed \cup {r})
      BY <2>1, <2>3
    <3> QED BY <3>1, <3>2 DEF AlertBy
  <2>4. ASSUME NEW a \in Alert, ~(a \in unlinked /\ alerts[a] # Gone)
        PROVE  alerts'[a] = alerts[a]
    BY <1>3, <2>4
  <2>5. alerts' \in [Alert -> AlertBy(Committed \cup {r}) \cup {Gone}]
    <3>1. \A a \in Alert : alerts'[a] \in AlertBy(Committed \cup {r}) \cup {Gone}
      BY <2>1, <2>3, <2>4
    <3> QED BY <1>3, <3>1
  <2>6. \A j \in Seed : j # NoIncident
    BY IdAssumption
  <2> QED BY <1>1, <2>2, <2>3, <2>4, <2>5, <2>6 DEF AlertEffect, AlertColumn
<1>5. IncidentEffect(r)
  <2>1. /\ incidents' \in [Incident -> IncidentBy(Committed \cup {r}) \cup {Gone}]
        /\ \A j \in Incident : incidents'[j] # Gone => incidents'[j] = incidents[j]
        /\ \A j \in Incident \ {i} : incidents'[j] = incidents[j]
    BY <1>2, <1>3, RowsMayStay DEF Incident
  <2> HIDE DEF i
  <2> QED BY <1>1, <1>3, <2>1 DEF IncidentEffect
<1> QED BY <1>1, <1>2, <1>3, <1>4, <1>5 DEF CommitEffect

-----------------------------------------------------------------------------
(* The other steps.                                                        *)

LEMMA LoadIsQuiet ==
  ASSUME IInv, NEW r \in Request, NEW call \in Calls, Load(r, call)
  PROVE  QuietEffect(r)
<1> DEFINE link == call.op = "link_alert_to_incident"
           alert == IF link THEN Gone ELSE Row(call, "alert", alerts)
           incident == Row(call, "incident", incidents)
           s == IF Refused(call, alert, incident)
                THEN [Fresh EXCEPT !.pc = "refused", !.call = call, !.began = Len(log)]
                ELSE [Fresh EXCEPT !.pc = IF link THEN "loading" ELSE "loaded",
                                   !.call = call, !.alert = alert, !.incident = incident,
                                   !.began = Len(log)]
<1>1. /\ req[r].pc = "idle" /\ req' = [req EXCEPT ![r] = s]
      /\ UNCHANGED <<alerts, incidents, activity, locked, log>>
  BY DEF Load
<1>2. Len(log) \in Nat
  BY DEF IInv, Sessions
<1>3. /\ call.op \in AlertWriters => "alert" \in DOMAIN call /\ alert = alerts[call.alert]
      /\ call.op \in IncidentWriters =>
           "incident" \in DOMAIN call /\ incident = incidents[call.incident]
      /\ "link_alert_to_incident" \notin AlertWriters
      /\ "link_alert_to_incident" \in IncidentWriters
      /\ {"acknowledge_alert", "escalate_alert", "create_incident_from_alert"} \subseteq AlertWriters
      /\ "update_incident_task" \in IncidentWriters
  BY CallShape DEF Row, AlertWriters, AlertOps, IncidentWriters, IncidentOps
<1>4. alert \in AlertBy(Committed) \cup {Gone} /\ incident \in IncidentBy(Committed) \cup {Gone}
  <2>1. "alert" \in DOMAIN call => call.alert \in Alert
    BY CallShape
  <2>2. "incident" \in DOMAIN call => call.incident \in Incident
    BY CallShape DEF Incident
  <2> QED BY <2>1, <2>2 DEF Row, IInv, TablesByCommitted
<1>5. Fresh \in SessionBy(Committed) /\ NoAlerts \in [Alert -> AlertRow \cup {Gone}]
  BY DEF Fresh, NoAlerts, SessionBy, Phase
<1>6. locked' = [locked EXCEPT ![r] = {}]
  BY <1>1 DEF IInv, Locks, LocksAreOwned
<1> HIDE DEF alert, incident
<1>7. s \in SessionBy(Committed) /\ s.call = call /\ s.pc \in {"refused", "loading", "loaded"}
  <2>1. [Fresh EXCEPT !.pc = "refused", !.call = call, !.began = Len(log)] \in SessionBy(Committed)
    BY <1>2, <1>5 DEF SessionBy, Phase
  <2>2. [Fresh EXCEPT !.pc = IF link THEN "loading" ELSE "loaded",
                      !.call = call, !.alert = alert, !.incident = incident,
                      !.began = Len(log)] \in SessionBy(Committed)
    BY <1>2, <1>4, <1>5 DEF SessionBy, Phase
  <2>3. Fresh.call = NoCall /\ DOMAIN Fresh = {"pc", "call", "alert", "incident", "linked", "began"}
    BY DEF Fresh
  <2> QED BY <2>1, <2>2, <2>3
<1>8. CASE Refused(call, alert, incident)
  <2>1. s.pc = "refused"
    BY <1>8 DEF Fresh
  <2> HIDE DEF s
  <2>2. Loaded(s, Committed)
    BY <2>1 DEF Loaded, Open
  <2> QED BY <1>1, <1>6, <1>7, <2>1, <2>2 DEF QuietEffect, Open, Answers
<1>9. CASE ~Refused(call, alert, incident)
  <2>1. /\ s.pc = IF link THEN "loading" ELSE "loaded"
        /\ s.alert = alert /\ s.incident = incident /\ s.began = Len(log)
    BY <1>9 DEF Fresh
  <2> HIDE DEF s
  <2>2. /\ call.op \in AlertWriters => alert # Gone
        /\ call.op \in IncidentWriters => incident # Gone
        /\ call.op \in {"acknowledge_alert", "escalate_alert"} => alert.status # "resolved"
        /\ call.op = "create_incident_from_alert" => alert.incident = NoIncident
        /\ call.op = "update_incident_task" =>
             \E done \in BOOLEAN : <<call.task, done>> \in incident.tasks
    BY <1>3, <1>9 DEF Refused
  <2>3. Loaded(s, Committed)
    BY <1>3, <1>4, <1>7, <2>1, <2>2 DEF Loaded, Open
  <2>4. ReadNow(r, s)
    BY <1>1, <1>3, <1>7, <2>1, <2>2 DEF ReadNow
  <2>5. s.pc # "locked"
    BY <2>1
  <2> QED BY <1>1, <1>6, <1>7, <2>3, <2>4, <2>5 DEF QuietEffect, Answers
<1> QED BY <1>8, <1>9

LEMMA RollbackIsQuiet ==
  ASSUME IInv, NEW r \in Request, req[r].pc \in Open, Rollback(r)
  PROVE  QuietEffect(r)
<1> DEFINE s == Close(req[r], "failed")
<1>1. req[r] \in SessionBy(Committed)
  BY OpenSession
<1>2. s \in SessionBy(Committed) /\ s.pc = "failed"
  BY <1>1 DEF Close, SessionBy, Phase, NoAlerts
<1>3. /\ UNCHANGED <<alerts, incidents, activity, log>>
      /\ req' = [req EXCEPT ![r] = s] /\ locked' = [locked EXCEPT ![r] = {}]
  BY DEF Rollback
<1> HIDE DEF s
<1>4. Loaded(s, Committed)
  BY <1>2 DEF Loaded, Open
<1>5. req[r].pc \notin Answers /\ s.pc \notin Open /\ s.pc # "locked"
  BY <1>2 DEF Open, Answers
<1> DEFINE rows == {}
<1>6. /\ rows \in SUBSET (Alert \cup Incident) /\ rows = {} /\ \A row \in rows : FALSE
      /\ locked' = [locked EXCEPT ![r] = rows]
  BY <1>3
<1> HIDE DEF rows
<1> QED BY <1>2, <1>3, <1>4, <1>5, <1>6 DEF QuietEffect

LEMMA LoadLinkedAlertIsQuiet ==
  ASSUME IInv, NEW r \in Request, LoadLinkedAlert(r)
  PROVE  QuietEffect(r)
<1> DEFINE alert == alerts[req[r].call.alert]
           s == IF alert = Gone THEN Close(req[r], "refused")
                ELSE [req[r] EXCEPT !.pc = "loaded", !.alert = alert]
<1>1. /\ req[r].pc = "loading" /\ req' = [req EXCEPT ![r] = s]
      /\ UNCHANGED <<alerts, incidents, activity, locked, log>>
  BY DEF LoadLinkedAlert
<1>2. /\ req[r] \in SessionBy(Committed) /\ req[r].call \in Calls
      /\ req[r].call.op = "link_alert_to_incident" /\ Loaded(req[r], Committed)
  BY <1>1, OpenSession DEF Loaded, Open
<1>3. alert \in AlertBy(Committed) \cup {Gone}
  BY <1>2, CallShape DEF IInv, TablesByCommitted
<1>4. locked' = [locked EXCEPT ![r] = {}]
  BY <1>1 DEF IInv, Locks, LocksAreOwned
<1> HIDE DEF alert
<1>5. CASE alert = Gone
  <2>1. s \in SessionBy(Committed) /\ s.pc = "refused"
    BY <1>2, <1>5 DEF Close, SessionBy, Phase, NoAlerts
  <2> HIDE DEF s
  <2>2. Loaded(s, Committed)
    BY <2>1 DEF Loaded, Open
  <2> QED BY <1>1, <1>4, <2>1, <2>2 DEF QuietEffect, Open, Answers
<1>6. CASE alert # Gone
  <2>1. /\ s \in SessionBy(Committed) /\ s.pc = "loaded" /\ s.alert = alert
        /\ s.call = req[r].call /\ s.incident = req[r].incident /\ s.began = req[r].began
    BY <1>2, <1>3, <1>6 DEF SessionBy, Phase
  <2> HIDE DEF s
  <2>2. Loaded(s, Committed)
    BY <1>1, <1>2, <1>3, <1>6, <2>1 DEF Loaded, Open, IncidentWriters
  <2>3. KeptReading(r, s)
    BY <1>1, <2>1 DEF KeptReading, Open
  <2> QED BY <1>1, <1>4, <2>1, <2>2, <2>3 DEF QuietEffect, Answers
<1> QED BY <1>5, <1>6

\* A session that goes on to pc with the alerts linked.
LEMMA SessionGoesOn ==
  ASSUME IInv, NEW r \in Request, req[r].pc \in {"loaded", "selected"},
         NEW pc \in {"selected", "locked"}, NEW linked \in [Alert -> AlertRow \cup {Gone}],
         pc = "locked" /\ Op(r) = "resolve_incident" =>
           req[r].pc = "loaded" /\ linked = LinkedTo(req[r].call.incident),
         NEW rows \in SUBSET (Alert \cup Incident),
         rows # {} => pc = "locked",
         \A row \in rows : Free(r, row),
         \A i \in rows \cap Incident : incidents[i] # Gone,
         pc = "locked" /\ Op(r) \in {"link_alert_to_incident", "resolve_incident"} =>
           req[r].call.incident \in rows,
         req' = [req EXCEPT ![r].pc = pc, ![r].linked = linked],
         locked' = [locked EXCEPT ![r] = @ \cup rows],
         UNCHANGED <<alerts, incidents, activity, log>>
  PROVE  QuietEffect(r)
<1> DEFINE s == [req[r] EXCEPT !.pc = pc, !.linked = linked]
<1>1. /\ req[r] \in SessionBy(Committed) /\ Loaded(req[r], Committed)
      /\ req \in [Request -> SessionBy(Committed)]
  BY OpenSession DEF Open, IInv, Sessions
<1>2. /\ s \in SessionBy(Committed) /\ s.pc = pc /\ s.linked = linked
      /\ s.call = req[r].call /\ s.alert = req[r].alert /\ s.incident = req[r].incident
      /\ s.began = req[r].began
  BY <1>1 DEF SessionBy, Phase
<1>3. req' = [req EXCEPT ![r] = s]
  OBVIOUS
<1>4. locked' = [locked EXCEPT ![r] = rows]
  BY DEF IInv, Locks, LocksAreOwned
<1> HIDE DEF s
<1>5. Loaded(s, Committed)
  BY <1>1, <1>2 DEF Loaded, Open
<1>6. KeptReading(r, s)
  BY <1>2 DEF KeptReading, Open, Op
<1> QED BY <1>2, <1>3, <1>4, <1>5, <1>6 DEF QuietEffect, Op, Answers

LEMMA LinkedRowsAreRows ==
  ASSUME IInv, NEW i
  PROVE  LinkedTo(i) \in [Alert -> AlertRow \cup {Gone}]
<1>1. Committed \subseteq Request
  BY DEF IInv, Sessions, Committed
<1>2. AlertBy(Committed) \subseteq AlertRow
  BY <1>1 DEF AlertBy, AlertRow, Incident
<1> QED BY <1>2 DEF LinkedTo, IInv, TablesByCommitted

LEMMA LockingIsQuiet ==
  ASSUME IInv, NEW r \in Request,
         \/ LinkLocksIncident(r) \/ ResolveLocksIncident(r)
         \/ DeleteSelectsAlerts(r) \/ DeleteUnlinksAlerts(r)
  PROVE  QuietEffect(r)
<1> DEFINE i == req[r].call.incident
<1>1. /\ req[r].pc \in {"loaded", "selected"}
      /\ Op(r) \in {"link_alert_to_incident", "resolve_incident", "delete_incident"}
      /\ Op(r) \in IncidentWriters
  BY DEF LinkLocksIncident, ResolveLocksIncident, DeleteSelectsAlerts, DeleteUnlinksAlerts,
         At, Op, IncidentWriters, IncidentOps
<1>2. /\ i \in Seed /\ i \in Incident /\ req[r] \in SessionBy(Committed)
  BY <1>1, OpenSession, CallShape DEF Open, Op, Incident
<1>3. Alert \cap Incident = {}
  BY IdAssumption DEF Incident
<1>4. CASE LinkLocksIncident(r)
  <2>1. /\ Op(r) = "link_alert_to_incident" /\ req[r].pc = "loaded" /\ incidents[i] # Gone
        /\ TakeLocks(r, {i}, NoAlerts)
    BY <1>4 DEF LinkLocksIncident, At, Op
  <2>2. NoAlerts \in [Alert -> AlertRow \cup {Gone}]
    BY DEF NoAlerts
  <2> HIDE DEF i
  <2>3. {i} \in SUBSET (Alert \cup Incident) /\ i = req[r].call.incident
    BY <1>2 DEF i
  <2> QED BY <2>1, <2>2, <2>3, SessionGoesOn, ZenonT(40) DEF TakeLocks
<1>5. CASE ResolveLocksIncident(r)
  <2>1. /\ Op(r) = "resolve_incident" /\ req[r].pc = "loaded" /\ incidents[i] # Gone
        /\ TakeLocks(r, {i}, LinkedTo(i))
    BY <1>5 DEF ResolveLocksIncident, At, Op
  <2> DEFINE linked == LinkedTo(i)
             rows == {i}
  <2>2. linked \in [Alert -> AlertRow \cup {Gone}]
    BY LinkedRowsAreRows
  <2>3. /\ rows \in SUBSET (Alert \cup Incident) /\ req[r].call.incident \in rows
        /\ linked = LinkedTo(req[r].call.incident)
        /\ \A j \in rows \cap Incident : incidents[j] # Gone
    BY <1>2, <2>1
  <2>4. TakeLocks(r, rows, linked)
    BY <2>1
  <2> HIDE DEF linked, rows
  <2> QED BY <2>1, <2>2, <2>3, <2>4, SessionGoesOn DEF TakeLocks
<1>6. CASE DeleteSelectsAlerts(r)
  <2>1. /\ Op(r) = "delete_incident" /\ req[r].pc = "loaded"
        /\ req' = [req EXCEPT ![r].pc = "selected", ![r].linked = LinkedTo(i)]
        /\ UNCHANGED <<alerts, incidents, activity, locked, log>>
    BY <1>6 DEF DeleteSelectsAlerts, At, Op
  <2>2. LinkedTo(i) \in [Alert -> AlertRow \cup {Gone}]
    BY LinkedRowsAreRows
  <2> DEFINE rows == {}
             linked == LinkedTo(i)
  <2>3. /\ locked' = [locked EXCEPT ![r] = @ \cup rows] /\ rows \in SUBSET (Alert \cup Incident)
        /\ \A row \in rows : FALSE
        /\ req' = [req EXCEPT ![r].pc = "selected", ![r].linked = linked]
    BY <2>1 DEF IInv, Locks
  <2> HIDE DEF rows, linked, i
  <2> QED BY <2>1, <2>2, <2>3, SessionGoesOn DEF linked
<1>7. CASE DeleteUnlinksAlerts(r)
  <2> DEFINE rows == Rows(req[r].linked)
  <2>1. /\ Op(r) = "delete_incident" /\ req[r].pc = "selected"
        /\ TakeLocks(r, rows, req[r].linked)
    BY <1>7 DEF DeleteUnlinksAlerts, At, Op
  <2>2. req[r].linked \in [Alert -> AlertRow \cup {Gone}]
    BY <1>2 DEF SessionBy
  <2>3. rows \in SUBSET (Alert \cup Incident) /\ rows \cap Incident = {}
    BY <1>3 DEF Rows
  <2> HIDE DEF rows
  <2> QED BY <2>1, <2>2, <2>3, SessionGoesOn DEF TakeLocks
<1> QED BY <1>4, <1>5, <1>6, <1>7

LEMMA CycleHolder ==
  ASSUME NEW r \in Request, InLockCycle(r)
  PROVE  \E q \in Request \ {r} : WaitsFor(r, q)
<1> SUFFICES ASSUME \A q \in Request \ {r} : ~WaitsFor(r, q) PROVE FALSE
  OBVIOUS
<1>1. \A q \in {} \cup {r} : \A p \in Request \ {q} : WaitsFor(q, p) => p \in {}
  OBVIOUS
<1>2. {} \in SUBSET Request
  OBVIOUS
<1>3. r \in {}
  BY <1>1, <1>2, Zenon DEF InLockCycle
<1> QED BY <1>3

LEMMA FailureIsQuiet ==
  ASSUME IInv, NEW r \in Request, FlushFails(r) \/ DeadlockVictim(r)
  PROVE  QuietEffect(r)
<1>1. Rollback(r)
  BY DEF FlushFails, DeadlockVictim
<1>2. req[r].pc \in Open
  <2>1. CASE FlushFails(r)
    BY <2>1 DEF FlushFails, At, Open
  <2>2. CASE DeadlockVictim(r)
    <3>1. Wants(r) # {}
      BY <2>2, CycleHolder DEF DeadlockVictim, WaitsFor
    <3> QED BY <3>1 DEF Wants, At, Open
  <2> QED BY <2>1, <2>2
<1> QED BY <1>1, <1>2, RollbackIsQuiet

\* A request's step either only moves its session or commits.
LEMMA StepIsQuietOrCommits ==
  ASSUME IInv, NEW r \in Request, Step(r)
  PROVE  QuietEffect(r) \/ CommitEffect(r)
<1>1. CASE AcknowledgeAlert(r)
  BY <1>1, MoveCommits DEF AcknowledgeAlert
<1>2. CASE EscalateAlert(r)
  BY <1>2, MoveCommits DEF EscalateAlert
<1>3. CASE ResolveAlert(r)
  BY <1>3, MoveCommits DEF ResolveAlert
<1> QED BY <1>1, <1>2, <1>3, LoadLinkedAlertIsQuiet, UpdateAlertCommits, DeleteAlertCommits,
           CountOccurrenceCommits,
           CreateFromAlertCommits, CreateIncidentCommits, IncidentWritersCommit,
           LinkCommits, ResolveCommits, DeleteIncidentCommits, LockingIsQuiet, FailureIsQuiet
        DEF Step

-----------------------------------------------------------------------------
(* The invariant holds.                                                    *)

LEMMA InitEstablishes == Init => IInv
<1> SUFFICES ASSUME Init PROVE IInv
  OBVIOUS
<1>1. Committed = {} /\ log \in Seq(Request) /\ DOMAIN log = {}
  BY DEF Init, Committed
<1>2. TablesByCommitted
  <2>1. alerts \in [Alert -> AlertBy(Committed) \cup {Gone}]
    <3>1. Raised \subseteq AlertBy(Committed)
      BY <1>1 DEF Raised, AlertBy, AlertStatus, Incident
    <3> QED BY <3>1 DEF Init
  <2> DEFINE row == [status |-> "open", timeline |-> {}, notes |-> {}, tasks |-> {}]
  <2>2. row \in IncidentBy(Committed) /\ row.status # "resolved"
    BY <1>1 DEF IncidentBy, IncidentStatus
  <2>3. incidents = [i \in Incident |-> IF i \in Seed THEN row ELSE Gone]
    BY DEF Init
  <2> HIDE DEF row
  <2>4. /\ incidents \in [Incident -> IncidentBy(Committed) \cup {Gone}]
        /\ \A i \in Incident : incidents[i] # Gone => incidents[i].status # "resolved"
        /\ \A i \in Request : incidents[i] # Gone => i \in Seed
    BY <2>2, <2>3 DEF Incident
  <2> QED BY <1>1, <2>1, <2>4, IdAssumption DEF TablesByCommitted, Init
<1>3. Sessions
  <2>1. Fresh \in SessionBy(Committed) /\ Fresh.pc = "idle"
    BY DEF Fresh, SessionBy, Phase, NoAlerts
  <2> QED BY <1>1, <2>1 DEF Sessions, Init, Loaded, Open
<1>4. Locks
  BY DEF Init, Locks, LocksAreOwned, At, Fresh
<1> QED BY <1>2, <1>3, <1>4 DEF IInv

LEMMA QuietKeepsInvariant ==
  ASSUME IInv, NEW r \in Request, QuietEffect(r)
  PROVE  IInv'
<1>1. PICK s \in SessionBy(Committed), rows \in SUBSET (Alert \cup Incident) :
        /\ req' = [req EXCEPT ![r] = s]
        /\ locked' = [locked EXCEPT ![r] = rows]
        /\ Loaded(s, Committed)
        /\ rows # {} => s.pc = "locked"
        /\ \A row \in rows : Free(r, row)
        /\ \A i \in rows \cap Incident : incidents[i] # Gone
        /\ s.pc = "locked" /\ s.call.op \in {"link_alert_to_incident", "resolve_incident"} =>
             s.call.incident \in rows
  BY DEF QuietEffect
<1>2. /\ UNCHANGED <<alerts, incidents, activity, log>> /\ Committed' = Committed
      /\ req[r].pc \notin Answers
  BY DEF QuietEffect, Committed
<1>3. /\ r \notin Committed /\ Committed \subseteq Request
      /\ \A q \in Request \ {r} : req'[q] = req[q] /\ locked'[q] = locked[q]
      /\ req'[r] = s /\ locked'[r] = rows
  BY <1>1, <1>2 DEF IInv, Sessions, Locks, Answers, Committed
<1>4. TablesByCommitted'
  <2>1. \A q \in Committed : Op(q)' = Op(q)
    BY <1>3 DEF Op
  <2> QED BY <1>2, <2>1 DEF IInv, TablesByCommitted
<1>5. Sessions'
  <2>1. req' \in [Request -> SessionBy(Committed)]
    BY <1>1 DEF IInv, Sessions
  <2>2. \A q \in Committed : req'[q].pc = "ok"
    BY <1>3 DEF IInv, Sessions
  <2>3. \A q \in Request : Loaded(req'[q], Committed)
    BY <1>1, <1>3 DEF IInv, Sessions
  <2> QED BY <1>2, <2>1, <2>2, <2>3 DEF IInv, Sessions
<1>6. Locks'
  <2>1. locked' \in [Request -> SUBSET (Alert \cup Incident)]
    BY <1>1 DEF IInv, Locks
  <2>2. LocksAreOwned'
    BY <1>1, <1>3 DEF IInv, Locks, LocksAreOwned, Free
  <2>3. \A q \in Request : \A i \in locked'[q] \cap Incident : incidents'[i] # Gone
    BY <1>1, <1>2, <1>3 DEF IInv, Locks
  <2>4. \A q \in Request :
          req'[q].pc = "locked" /\ Op(q)' \in {"link_alert_to_incident", "resolve_incident"}
            => req'[q].call.incident \in locked'[q]
    BY <1>1, <1>3 DEF IInv, Locks, Op
  <2> QED BY <2>1, <2>2, <2>3, <2>4 DEF Locks
<1> QED BY <1>4, <1>5, <1>6 DEF IInv

\* What a commit makes of the sessions, the locks and the log.
LEMMA CommitMoves ==
  ASSUME IInv, NEW r \in Request, CommitEffect(r)
  PROVE  /\ r \notin Committed /\ Committed \subseteq Request
         /\ Committed' = Committed \cup {r}
         /\ log' = Append(log, r)
         /\ req'[r].pc = "ok" /\ req'[r].call = req[r].call /\ req'[r].began = req[r].began
         /\ req'[r] \in SessionBy(Committed)
         /\ DOMAIN req' = Request
         /\ \A q \in Request \ {r} : req'[q] = req[q] /\ locked'[q] = locked[q]
         /\ locked'[r] = {} /\ locked' \in [Request -> SUBSET (Alert \cup Incident)]
<1>1. /\ r \notin Committed /\ Committed \subseteq Request /\ req[r] \in SessionBy(Committed)
  BY OpenSession DEF CommitEffect, Open
<1>2. log' = Append(log, r) /\ log \in Seq(Request)
  BY DEF CommitEffect, Commit, IInv, Sessions
<1>3. Committed' = Committed \cup {r}
  BY <1>2, LogGrows
<1> DEFINE s == Close(req[r], "ok")
<1>4. /\ s \in SessionBy(Committed)
      /\ s.pc = "ok" /\ s.call = req[r].call /\ s.began = req[r].began
  BY <1>1 DEF Close, SessionBy, Phase, NoAlerts
<1>5. req' = [req EXCEPT ![r] = s] /\ locked' = [locked EXCEPT ![r] = {}]
  BY DEF CommitEffect, Commit
<1> HIDE DEF s
<1> QED BY <1>1, <1>2, <1>3, <1>4, <1>5 DEF IInv, Sessions, Locks

LEMMA CommitKeepsInvariant ==
  ASSUME IInv, NEW r \in Request, CommitEffect(r)
  PROVE  IInv'
<1> DEFINE C == Committed \cup {r}
<1>1. /\ r \notin Committed /\ Committed \subseteq Request
      /\ Committed' = C
      /\ log' = Append(log, r)
      /\ req'[r].pc = "ok" /\ req'[r].call = req[r].call
      /\ req'[r] \in SessionBy(Committed)
      /\ \A q \in Request \ {r} : req'[q] = req[q] /\ locked'[q] = locked[q]
      /\ locked'[r] = {} /\ locked' \in [Request -> SUBSET (Alert \cup Incident)]
  BY CommitMoves
<1>2. AlertBy(Committed) \subseteq AlertBy(C) /\ IncidentBy(Committed) \subseteq IncidentBy(C)
  BY ByGrows
<1>3. \A q \in Request : Op(q)' = Op(q)
  BY <1>1 DEF Op
<1>4. TablesByCommitted'
  <2>1. /\ alerts' \in [Alert -> AlertBy(C) \cup {Gone}]
        /\ incidents' \in [Incident -> IncidentBy(C) \cup {Gone}]
    BY DEF CommitEffect, AlertEffect, IncidentEffect
  <2>2. \A i \in Request : incidents'[i] # Gone => i \in C
    BY DEF CommitEffect, IncidentEffect, IInv, TablesByCommitted, Incident
  <2>3. activity' \subseteq C
    BY DEF CommitEffect, IInv, TablesByCommitted
  <2>4. ASSUME NEW i \in Incident, incidents'[i] # Gone, incidents'[i].status = "resolved"
        PROVE  \E q \in C : Op(q)' \in {"resolve_incident", "update_incident"}
    <3>1. CASE incidents[i].status # "resolved"
      BY <1>3, <2>4, <3>1 DEF CommitEffect, IncidentEffect
    <3>2. CASE incidents[i].status = "resolved"
      <4>1. incidents[i] # Gone
        BY <2>4 DEF CommitEffect, IncidentEffect
      <4>2. \E q \in Committed : Op(q) \in {"resolve_incident", "update_incident"}
        BY <3>2, <4>1 DEF IInv, TablesByCommitted
      <4> QED BY <1>1, <1>3, <4>2
    <3> QED BY <3>1, <3>2
  <2> QED BY <1>1, <2>1, <2>2, <2>3, <2>4 DEF TablesByCommitted
<1>5. Sessions'
  <2>1. SessionBy(Committed) \subseteq SessionBy(C)
    BY <1>2 DEF SessionBy
  <2>2. req' \in [Request -> SessionBy(C)]
    <3>1. req' = [req EXCEPT ![r] = Close(@, "ok")] /\ req \in [Request -> SessionBy(Committed)]
      BY DEF CommitEffect, Commit, IInv, Sessions
    <3>2. \A q \in Request : req'[q] \in SessionBy(C)
      BY <1>1, <2>1, <3>1
    <3> QED BY <3>1, <3>2
  <2>3. \A q \in C : req'[q].pc = "ok"
    BY <1>1 DEF IInv, Sessions
  <2>4. ASSUME NEW q \in Request PROVE Loaded(req'[q], C)
    <3>1. CASE q = r
      BY <1>1, <3>1 DEF Loaded, Open
    <3>2. CASE q # r
      <4>1. req'[q] = req[q] /\ Loaded(req[q], Committed)
        BY <1>1, <3>2 DEF IInv, Sessions
      <4> QED BY <1>2, <4>1 DEF Loaded
    <3> QED BY <3>1, <3>2
  <2>5. log' \in Seq(Request) /\ \A j, k \in DOMAIN log' : log'[j] = log'[k] => j = k
    <3>1. log \in Seq(Request)
      BY DEF IInv, Sessions
    <3>2. /\ log' \in Seq(Request)
          /\ DOMAIN log' = DOMAIN log \cup {Len(log) + 1}
          /\ log'[Len(log) + 1] = r
          /\ \A k \in DOMAIN log : log'[k] = log[k]
      BY <1>1, <3>1, LogGrows
    <3>3. \A k \in DOMAIN log : log[k] # r
      BY <1>1 DEF Committed
    <3> QED BY <3>2, <3>3 DEF IInv, Sessions
  <2> QED BY <1>1, <2>2, <2>3, <2>4, <2>5 DEF Sessions
<1>6. Locks'
  <2>1. LocksAreOwned'
    BY <1>1 DEF IInv, Locks, LocksAreOwned
  <2>2. \A q \in Request : \A i \in locked'[q] \cap Incident : incidents'[i] # Gone
    BY <1>1 DEF IInv, Locks, CommitEffect, IncidentEffect, Free
  <2>3. \A q \in Request :
          req'[q].pc = "locked" /\ Op(q)' \in {"link_alert_to_incident", "resolve_incident"}
            => req'[q].call.incident \in locked'[q]
    BY <1>1 DEF IInv, Locks, Op
  <2> QED BY <1>1, <2>1, <2>2, <2>3 DEF Locks
<1> QED BY <1>4, <1>5, <1>6 DEF IInv

\* Every step is one of three: it changes nothing, moves a session, or commits.
LEMMA NextIsQuietOrCommits ==
  ASSUME IInv, [Next]_vars
  PROVE  UNCHANGED vars \/ \E r \in Request : QuietEffect(r) \/ CommitEffect(r)
BY LoadIsQuiet, StepIsQuietOrCommits DEF Next, Finished

LEMMA StepKeepsInvariant == IInv /\ [Next]_vars => IInv'
<1> SUFFICES ASSUME IInv, [Next]_vars PROVE IInv'
  OBVIOUS
<1>1. CASE UNCHANGED vars
  BY <1>1 DEF vars, IInv, TablesByCommitted, Sessions, Locks, LocksAreOwned, Committed, Op, At
<1>2. CASE \E r \in Request : QuietEffect(r) \/ CommitEffect(r)
  BY <1>2, QuietKeepsInvariant, CommitKeepsInvariant
<1> QED BY <1>1, <1>2, NextIsQuietOrCommits

LEMMA Invariance == Spec => []IInv
BY InitEstablishes, StepKeepsInvariant, PTL DEF Spec

(***************************************************************************)
(* Handlers of routers/alerts.py and routers/incidents.py, however many    *)
(* requests interleave: what a request leaves in the tables it leaves only *)
(* if it committed, and no two hold a lock on one row.                     *)
(***************************************************************************)
THEOREM NothingHalfWritten == Spec => []AllOrNothing
<1>1. IInv => AllOrNothing
  <2> SUFFICES ASSUME IInv PROVE AllOrNothing
    OBVIOUS
  <2>1. Committed \subseteq Request
    BY DEF IInv, Sessions, Committed
  <2>2. AlertBy(Committed) \subseteq AlertRow /\ IncidentBy(Committed) \subseteq IncidentRow
    BY <2>1 DEF AlertBy, AlertRow, Incident, IncidentBy, IncidentRow
  <2>3. TypeOK
    <3>1. /\ alerts \in [Alert -> AlertRow \cup {Gone}]
          /\ incidents \in [Incident -> IncidentRow \cup {Gone}]
          /\ activity \subseteq Request
      BY <2>1, <2>2 DEF IInv, TablesByCommitted
    <3>2. ASSUME NEW r \in Request
          PROVE  /\ DOMAIN req[r] = DOMAIN Fresh
                 /\ req[r].pc \in Phase
                 /\ req[r].call \in Calls \cup {NoCall}
                 /\ req[r].alert \in AlertRow \cup {Gone}
                 /\ req[r].incident \in IncidentRow \cup {Gone}
                 /\ \A a \in Alert : req[r].linked[a] \in AlertRow \cup {Gone}
                 /\ req[r].began \in Nat
      <4>1. req[r] \in SessionBy(Committed)
        BY DEF IInv, Sessions
      <4>2. DOMAIN Fresh = {"pc", "call", "alert", "incident", "linked", "began"}
        BY DEF Fresh
      <4> QED BY <2>2, <4>1, <4>2 DEF SessionBy
    <3> QED BY <3>1, <3>2 DEF IInv, Sessions, Locks, TypeOK
  <2>4. ASSUME NEW a \in Alert, alerts[a] # Gone
        PROVE  /\ alerts[a].history \subseteq Committed
               /\ alerts[a].incident \in {NoIncident} \cup Seed \cup Committed
    BY <2>4 DEF IInv, TablesByCommitted, AlertBy
  <2>5. ASSUME NEW i \in Incident, incidents[i] # Gone
        PROVE  /\ i \in Seed \cup Committed
               /\ incidents[i].timeline \cup incidents[i].notes \subseteq Committed
               /\ \A task \in incidents[i].tasks : task[1] \in Committed
    <3>1. incidents[i] \in IncidentBy(Committed)
      BY <2>5 DEF IInv, TablesByCommitted
    <3> QED BY <2>5, <3>1 DEF IInv, TablesByCommitted, IncidentBy, Incident
  <2> QED BY <2>3, <2>4, <2>5 DEF AllOrNothing, IInv, TablesByCommitted, Locks
<1> QED BY <1>1, Invariance, PTL

\* The request that a step adds to the log is the one that commits.
LEMMA LoggedCommit ==
  ASSUME IInv, [Next]_vars, NEW r \in Request, log' = Append(log, r)
  PROVE  CommitEffect(r)
<1>1. log \in Seq(Request)
  BY DEF IInv, Sessions
<1>2. log' # log
  BY <1>1, LogGrows
<1>3. PICK q \in Request : CommitEffect(q)
  BY <1>2, NextIsQuietOrCommits DEF vars, QuietEffect
<1>4. log' = Append(log, q)
  BY <1>3 DEF CommitEffect, Commit
<1>5. q = r
  BY <1>1, <1>4, LogGrows
<1> QED BY <1>3, <1>5

(***************************************************************************)
(* The partial UPDATE of the ORM: however stale the loaded row, a commit   *)
(* changes only columns its handler assigns.                               *)
(***************************************************************************)
THEOREM StaleRowsAreHarmless == Spec => OtherColumnsSurvive
<1>1. ASSUME IInv, [Next]_vars
      PROVE  [\A r \in Request : log' = Append(log, r) =>
                /\ \A a \in Alert, c \in {"status", "incident", "history"} :
                     Differ(alerts, c, a) => c \in AlertColumns(req[r].call)
                /\ \A i \in Incident, c \in {"status", "timeline", "notes", "tasks"} :
                     Differ(incidents, c, i) => c \in IncidentColumns(req[r].call)]_vars
  <2> SUFFICES ASSUME NEW r \in Request, log' = Append(log, r)
               PROVE  /\ \A a \in Alert, c \in {"status", "incident", "history"} :
                           Differ(alerts, c, a) => c \in AlertColumns(req[r].call)
                      /\ \A i \in Incident, c \in {"status", "timeline", "notes", "tasks"} :
                           Differ(incidents, c, i) => c \in IncidentColumns(req[r].call)
    OBVIOUS
  <2>1. CommitEffect(r)
    BY <1>1, LoggedCommit
  <2> QED BY <2>1 DEF CommitEffect, AlertEffect, IncidentEffect, AlertColumn, IncidentColumn, Differ
<1> QED BY <1>1, Invariance, PTL DEF Spec, OtherColumnsSurvive

-----------------------------------------------------------------------------
(* What overlapping requests may do to each other.                         *)

\* A call that may put the alert a where the resolution of i finds it unresolved.
Moves(call, a, i) ==
  /\ \/ call.op \in {"update_alert", "acknowledge_alert", "escalate_alert"}
     \/ call.op = "link_alert_to_incident" /\ call.incident # i
  /\ call.alert = a

\* A call that may resolve an alert.
Resolves(call) == call.op \in {"resolve_alert", "update_alert", "resolve_incident"}

\* Open sessions began in the past, and committed ones have had a call.
Clocked ==
  /\ \A r \in Request : req[r].pc \in Open => req[r].began <= Len(log)
  /\ \A r \in Committed : req[r].call \in Calls

\* An alert loaded as unresolved was resolved by a request that committed since.
ResolvedSinceRead ==
  \A r \in Request :
    /\ req[r].pc = "loaded" /\ Op(r) \in {"acknowledge_alert", "escalate_alert"}
    /\ alerts[req[r].call.alert] # Gone /\ alerts[req[r].call.alert].status = "resolved"
    => \E k \in (req[r].began + 1) .. Len(log) :
         Resolves(req[log[k]].call)

\* A linked alert that a resolution will leave alone is resolved, or moved since.
MovedSinceSelect ==
  \A r \in Request, a \in Alert :
    /\ req[r].pc = "locked" /\ Op(r) = "resolve_incident"
    /\ alerts[a] # Gone /\ alerts[a].incident = req[r].call.incident
    /\ alerts[a].status # "resolved" /\ a \notin ToResolve(r)
    => \E k \in (req[r].began + 1) .. Len(log) : Moves(req[log[k]].call, a, req[r].call.incident)

OverlapInv == IInv /\ Clocked /\ ResolvedSinceRead /\ MovedSinceSelect

\* What a quiet step makes of the sessions.
LEMMA QuietMoves ==
  ASSUME IInv, NEW r \in Request, QuietEffect(r)
  PROVE  /\ r \notin Committed /\ UNCHANGED <<alerts, incidents, activity, log>>
         /\ Committed' = Committed
         /\ req'[r] \in SessionBy(Committed) /\ Loaded(req'[r], Committed)
         /\ req'[r].pc \in Open => ReadNow(r, req'[r]) \/ KeptReading(r, req'[r])
         /\ \A q \in Request \ {r} : req'[q] = req[q]
<1>1. PICK s \in SessionBy(Committed) :
        /\ req' = [req EXCEPT ![r] = s]
        /\ s.pc \in Open => ReadNow(r, s) \/ KeptReading(r, s)
        /\ Loaded(s, Committed)
  BY DEF QuietEffect
<1>2. /\ req'[r] = s
      /\ \A q \in Request \ {r} : req'[q] = req[q]
  BY <1>1 DEF IInv, Sessions
<1>3. /\ UNCHANGED <<alerts, incidents, activity, log>> /\ Committed' = Committed
      /\ req[r].pc \notin Answers
  BY DEF QuietEffect, Committed
<1>4. r \notin Committed
  BY <1>3 DEF IInv, Sessions, Answers
<1> QED BY <1>1, <1>2, <1>3, <1>4

LEMMA InitOverlap == Init => OverlapInv
<1> SUFFICES ASSUME Init PROVE OverlapInv
  OBVIOUS
<1>1. \A r \in Request : req[r] = Fresh
  BY DEF Init
<1>2. Len(log) = 0 /\ Committed = {}
  BY DEF Init, Committed
<1>3. Fresh.pc = "idle" /\ Fresh.began = 0
  BY DEF Fresh
<1> QED BY <1>1, <1>2, <1>3, InitEstablishes
        DEF OverlapInv, Clocked, ResolvedSinceRead, MovedSinceSelect, Open

LEMMA QuietKeepsOverlap ==
  ASSUME OverlapInv, NEW r \in Request, QuietEffect(r)
  PROVE  OverlapInv'
<1>1. IInv /\ IInv'
  BY QuietKeepsInvariant DEF OverlapInv
<1>2. /\ r \notin Committed /\ UNCHANGED <<alerts, incidents, activity, log>>
      /\ Committed' = Committed
      /\ req'[r] \in SessionBy(Committed) /\ Loaded(req'[r], Committed)
      /\ req'[r].pc \in Open => ReadNow(r, req'[r]) \/ KeptReading(r, req'[r])
      /\ \A q \in Request \ {r} : req'[q] = req[q]
  BY <1>1, QuietMoves
<1>3. /\ \A k \in DOMAIN log : log[k] # r /\ log[k] \in Request
      /\ Len(log) \in Nat /\ DOMAIN log = 1..Len(log)
  BY <1>1, <1>2 DEF Committed, IInv, Sessions
<1>4. \A k \in DOMAIN log : req'[log'[k]] = req[log[k]]
  BY <1>2, <1>3
<1>5. \A q \in Request : req[q].began \in Nat /\ req'[q].began \in Nat
  BY <1>1, <1>2 DEF IInv, Sessions, SessionBy
<1>6. Clocked'
  <2>1. ASSUME NEW q \in Request, req'[q].pc \in Open
        PROVE  req'[q].began <= Len(log)
    <3>1. CASE q = r
      BY <1>2, <1>3, <2>1, <3>1 DEF OverlapInv, Clocked, ReadNow, KeptReading
    <3>2. CASE q # r
      BY <1>2, <2>1, <3>2 DEF OverlapInv, Clocked
    <3> QED BY <3>1, <3>2
  <2>2. \A q \in Committed : req'[q].call \in Calls
    <3>1. Committed \subseteq Request
      BY <1>1 DEF Committed, IInv, Sessions
    <3> QED BY <1>2, <3>1 DEF OverlapInv, Clocked
  <2> QED BY <1>2, <2>1, <2>2 DEF Clocked
<1>7. ResolvedSinceRead'
  <2> SUFFICES ASSUME NEW q \in Request, req'[q].pc = "loaded",
                      Op(q)' \in {"acknowledge_alert", "escalate_alert"},
                      alerts[req'[q].call.alert] # Gone,
                      alerts[req'[q].call.alert].status = "resolved"
               PROVE  \E k \in (req'[q].began + 1) .. Len(log) :
                        Resolves(req'[log'[k]].call)
    BY <1>2 DEF ResolvedSinceRead
  <2>1. CASE q = r
    <3>1. ReadNow(r, req'[r]) \/ KeptReading(r, req'[r])
      BY <1>2, <2>1 DEF Open
    <3>2. ~KeptReading(r, req'[r])
      <4>1. KeptReading(r, req'[r]) => req[r].call.op = "link_alert_to_incident"
        BY <1>1, <2>1 DEF KeptReading, IInv, Sessions, Loaded
      <4> QED BY <2>1, <4>1 DEF KeptReading, Op
    <3>3. req'[r].alert.status # "resolved" /\ req'[r].alert = alerts[req'[r].call.alert]
      BY <2>1, <3>1, <3>2 DEF ReadNow, Op, AlertWriters, AlertOps
    <3> QED BY <2>1, <3>3
  <2>2. CASE q # r
    <3>1. req'[q] = req[q] /\ Op(q)' = Op(q)
      BY <1>2, <2>2 DEF Op
    <3>2. PICK k \in (req[q].began + 1) .. Len(log) :
                 Resolves(req[log[k]].call)
      BY <3>1 DEF OverlapInv, ResolvedSinceRead
    <3>3. k \in DOMAIN log
      BY <1>3, <1>5
    <3> QED BY <1>4, <3>1, <3>2, <3>3
  <2> QED BY <2>1, <2>2
<1>8. MovedSinceSelect'
  <2> SUFFICES ASSUME NEW q \in Request, NEW a \in Alert,
                      req'[q].pc = "locked", Op(q)' = "resolve_incident",
                      alerts[a] # Gone, alerts[a].incident = req'[q].call.incident,
                      alerts[a].status # "resolved", a \notin ToResolve(q)'
               PROVE  \E k \in (req'[q].began + 1) .. Len(log) :
                        Moves(req'[log'[k]].call, a, req'[q].call.incident)
    BY <1>2 DEF MovedSinceSelect
  <2>1. CASE q = r
    <3>1. ReadNow(r, req'[r]) \/ KeptReading(r, req'[r])
      BY <1>2, <2>1 DEF Open
    <3>2. req'[r].linked = LinkedTo(req'[r].call.incident)
      BY <2>1, <3>1 DEF ReadNow, KeptReading, Op
    <3>3. req'[r].linked[a] = alerts[a]
      BY <2>1, <3>2 DEF LinkedTo
    <3>4. a \in ToResolve(r)'
      BY <3>3 DEF ToResolve, Rows
    <3> QED BY <2>1, <3>4
  <2>2. CASE q # r
    <3>1. req'[q] = req[q] /\ Op(q)' = Op(q)
      BY <1>2, <2>2 DEF Op
    <3>2. ToResolve(q)' = ToResolve(q)
      BY <3>1 DEF ToResolve, Rows
    <3>3. PICK k \in (req[q].began + 1) .. Len(log) : Moves(req[log[k]].call, a, req[q].call.incident)
      BY <3>1, <3>2 DEF OverlapInv, MovedSinceSelect
    <3>4. k \in DOMAIN log
      BY <1>3, <1>5
    <3> QED BY <1>4, <3>1, <3>3, <3>4
  <2> QED BY <2>1, <2>2
<1> QED BY <1>1, <1>6, <1>7, <1>8 DEF OverlapInv

LEMMA CommitKeepsOverlap ==
  ASSUME OverlapInv, NEW r \in Request, CommitEffect(r)
  PROVE  OverlapInv'
<1>1. IInv /\ IInv'
  BY CommitKeepsInvariant DEF OverlapInv
<1>2. /\ r \notin Committed /\ Committed \subseteq Request
      /\ Committed' = Committed \cup {r}
      /\ log' = Append(log, r)
      /\ req'[r].pc = "ok" /\ req'[r].call = req[r].call
      /\ \A q \in Request \ {r} : req'[q] = req[q] /\ locked'[q] = locked[q]
  BY <1>1, CommitMoves
<1>3. /\ log \in Seq(Request) /\ Len(log') = Len(log) + 1
      /\ Len(log) \in Nat /\ log'[Len(log) + 1] = r /\ DOMAIN log = 1..Len(log)
      /\ \A k \in DOMAIN log : log'[k] = log[k]
  BY <1>1, <1>2, LogGrows DEF IInv, Sessions
<1>4. \A k \in DOMAIN log : log[k] \in Request
  BY <1>3
<1>5. /\ \A q \in Request : Op(q)' = Op(q) /\ req'[q].call = req[q].call
      /\ \A k \in DOMAIN log : req'[log'[k]].call = req[log[k]].call
      /\ req'[log'[Len(log) + 1]].call = req[r].call
  BY <1>2, <1>3, <1>4 DEF Op
<1>6. ASSUME NEW q \in Request, q # r, req'[q].pc \in Open
      PROVE  /\ req'[q] = req[q] /\ req[q].began \in Nat /\ req[q].began <= Len(log)
             /\ Len(log) + 1 \in (req[q].began + 1) .. Len(log')
             /\ \A k \in (req[q].began + 1) .. Len(log) :
                  k \in (req[q].began + 1) .. Len(log') /\ k \in DOMAIN log
  <2>1. req'[q] = req[q]
    BY <1>2, <1>6
  <2>2. req[q].began \in Nat /\ req[q].began <= Len(log)
    BY <1>1, <1>6, <2>1 DEF IInv, Sessions, SessionBy, OverlapInv, Clocked
  <2> QED BY <1>3, <2>1, <2>2
<1>7. Clocked'
  <2>1. ASSUME NEW q \in Request, req'[q].pc \in Open PROVE req'[q].began <= Len(log')
    <3>1. q # r
      BY <1>2, <2>1 DEF Open
    <3>2. req[q].began \in Nat /\ req[q].began <= Len(log) /\ req'[q] = req[q]
      BY <1>6, <2>1, <3>1
    <3> QED BY <1>3, <3>2
  <2>2. req[r].call \in Calls
    BY DEF CommitEffect
  <2> QED BY <1>2, <1>5, <2>1, <2>2 DEF OverlapInv, Clocked
<1>8. ResolvedSinceRead'
  <2> SUFFICES ASSUME NEW q \in Request, req'[q].pc = "loaded",
                      Op(q)' \in {"acknowledge_alert", "escalate_alert"},
                      alerts'[req'[q].call.alert] # Gone,
                      alerts'[req'[q].call.alert].status = "resolved"
               PROVE  \E k \in (req'[q].began + 1) .. Len(log') :
                        Resolves(req'[log'[k]].call)
    BY DEF ResolvedSinceRead
  <2> DEFINE a == req[q].call.alert
  <2>1. q # r /\ req'[q].pc \in Open
    BY <1>2 DEF Open
  <2>2. req'[q] = req[q] /\ Op(q)' = Op(q) /\ a \in Alert
    <3>1. req'[q] = req[q] /\ Op(q)' = Op(q)
      BY <1>5, <1>6, <2>1
    <3>2. req[q].call \in Calls
      BY <1>1, <3>1, <2>1 DEF IInv, Sessions, Loaded
    <3> QED BY <3>1, <3>2, CallShape DEF AlertWriters, AlertOps, Op
  <2>3. /\ alerts[a] # Gone
        /\ alerts[a].status # "resolved" => Resolves(req[r].call)
    BY <2>2 DEF CommitEffect, AlertEffect, Resolves, Op
  <2>4. CASE alerts[a].status # "resolved"
    <3>1. Len(log) + 1 \in (req[q].began + 1) .. Len(log')
      BY <1>6, <2>1
    <3> QED BY <1>5, <2>2, <2>3, <2>4, <3>1
  <2>5. CASE alerts[a].status = "resolved"
    <3>1. PICK k \in (req[q].began + 1) .. Len(log) :
                 Resolves(req[log[k]].call)
      BY <2>2, <2>3, <2>5 DEF OverlapInv, ResolvedSinceRead
    <3>2. k \in (req[q].began + 1) .. Len(log') /\ k \in DOMAIN log
      BY <1>6, <2>1
    <3> QED BY <1>5, <2>2, <3>1, <3>2
  <2> QED BY <2>4, <2>5
<1>9. MovedSinceSelect'
  <2> SUFFICES ASSUME NEW q \in Request, NEW a \in Alert,
                      req'[q].pc = "locked", Op(q)' = "resolve_incident",
                      alerts'[a] # Gone, alerts'[a].incident = req'[q].call.incident,
                      alerts'[a].status # "resolved", a \notin ToResolve(q)'
               PROVE  \E k \in (req'[q].began + 1) .. Len(log') :
                        Moves(req'[log'[k]].call, a, req'[q].call.incident)
    BY DEF MovedSinceSelect
  <2> DEFINE i == req[q].call.incident
  <2>1. q # r /\ req'[q].pc \in Open
    BY <1>2 DEF Open
  <2>2. req'[q] = req[q] /\ Op(q)' = Op(q) /\ ToResolve(q)' = ToResolve(q)
    BY <1>5, <1>6, <2>1 DEF ToResolve, Rows
  <2>3. req[q].pc = "locked" /\ Op(q) = "resolve_incident" /\ i \in Seed
    <3>1. req[q].call \in Calls
      BY <1>1, <2>1, <2>2 DEF IInv, Sessions, Loaded
    <3>2. i \in Seed
      BY <2>2, <3>1, CallShape DEF IncidentWriters, IncidentOps, Op
    <3> QED BY <2>2, <3>2
  <2>4. \/ alerts[a].incident = i /\ alerts[a].status # "resolved"
        \/ Moves(req[r].call, a, i)
    <3>1. \/ alerts[a].incident = i /\ alerts[a].status # "resolved"
          \/ /\ Op(r) \in {"update_alert", "acknowledge_alert", "escalate_alert"}
             /\ req[r].call.alert = a
          \/ /\ At(r, "locked", "link_alert_to_incident")
             /\ req[r].call.alert = a
      BY <2>2, <2>3 DEF CommitEffect, AlertEffect
    <3>2. At(r, "locked", "link_alert_to_incident") => req[r].call.incident # i
      BY <1>1, <2>1, <2>3 DEF IInv, Locks, LocksAreOwned, At, Op
    <3> QED BY <3>1, <3>2 DEF Moves, At, Op
  <2>5. CASE Moves(req[r].call, a, i)
    <3>1. Len(log) + 1 \in (req[q].began + 1) .. Len(log')
      BY <1>6, <2>1
    <3> QED BY <1>5, <2>2, <2>5, <3>1
  <2>6. CASE alerts[a].incident = i /\ alerts[a].status # "resolved"
    <3>1. alerts[a] # Gone
      BY DEF CommitEffect, AlertEffect
    <3>2. PICK k \in (req[q].began + 1) .. Len(log) : Moves(req[log[k]].call, a, i)
      BY <2>2, <2>6, <3>1 DEF OverlapInv, MovedSinceSelect
    <3>3. k \in (req[q].began + 1) .. Len(log') /\ k \in DOMAIN log
      BY <1>6, <2>1
    <3> QED BY <1>5, <2>2, <3>2, <3>3
  <2> QED BY <2>4, <2>5, <2>6
<1> QED BY <1>1, <1>7, <1>8, <1>9 DEF OverlapInv

LEMMA StepKeepsOverlap == OverlapInv /\ [Next]_vars => OverlapInv'
<1> SUFFICES ASSUME OverlapInv, [Next]_vars PROVE OverlapInv'
  OBVIOUS
<1>1. CASE UNCHANGED vars
  <2>1. IInv'
    BY StepKeepsInvariant DEF OverlapInv
  <2>2. Clocked'
    BY <1>1 DEF vars, OverlapInv, Clocked, Committed
  <2>3. ResolvedSinceRead'
    BY <1>1 DEF vars, OverlapInv, ResolvedSinceRead, Op
  <2>4. MovedSinceSelect'
    BY <1>1 DEF vars, OverlapInv, MovedSinceSelect, Op, ToResolve, Rows
  <2> QED BY <2>1, <2>2, <2>3, <2>4 DEF OverlapInv
<1>2. CASE \E r \in Request : QuietEffect(r) \/ CommitEffect(r)
  BY <1>2, QuietKeepsOverlap, CommitKeepsOverlap
<1> QED BY <1>1, <1>2, NextIsQuietOrCommits DEF OverlapInv

LEMMA OverlapInvariance == Spec => []OverlapInv
BY InitOverlap, StepKeepsOverlap, PTL DEF Spec

(***************************************************************************)
(* acknowledge_alert and escalate_alert check "resolved" on the row as     *)
(* loaded.  However many requests run, one of them reopens a resolved      *)
(* alert only if a request that resolves committed after it had looked.    *)
(***************************************************************************)
THEOREM NoLoneReopening == Spec => ReopenedOnlyByOverlap
<1>1. ASSUME OverlapInv, [Next]_vars
      PROVE  [\A r \in Request, a \in Alert :
                /\ log' = Append(log, r)
                /\ Op(r) \in {"acknowledge_alert", "escalate_alert"}
                /\ alerts[a] # Gone /\ alerts[a].status = "resolved"
                /\ alerts'[a].status # "resolved"
                => \E k \in (req[r].began + 1) .. Len(log) :
                     Op(log[k]) \in {"resolve_alert", "update_alert", "resolve_incident"}]_vars
  <2> SUFFICES ASSUME NEW r \in Request, NEW a \in Alert,
                      log' = Append(log, r),
                      Op(r) \in {"acknowledge_alert", "escalate_alert"},
                      alerts[a] # Gone, alerts[a].status = "resolved",
                      alerts'[a].status # "resolved"
               PROVE  \E k \in (req[r].began + 1) .. Len(log) :
                        Op(log[k]) \in {"resolve_alert", "update_alert", "resolve_incident"}
    OBVIOUS
  <2>1. CommitEffect(r)
    BY <1>1, LoggedCommit DEF OverlapInv
  <2>2. Op(r) \in AlertWriters
    BY DEF AlertWriters, AlertOps
  <2>3. a = req[r].call.alert /\ req[r].pc = "loaded"
    BY <2>1, <2>2 DEF CommitEffect, AlertEffect
  <2>4. PICK k \in (req[r].began + 1) .. Len(log) : Resolves(req[log[k]].call)
    BY <1>1, <2>3 DEF OverlapInv, ResolvedSinceRead
  <2> QED BY <2>4 DEF Resolves, Op
<1> QED BY <1>1, OverlapInvariance, PTL DEF Spec, ReopenedOnlyByOverlap

(***************************************************************************)
(* resolve_incident selects its alerts after it has locked the incident:   *)
(* an alert it leaves unresolved was moved meanwhile by a request that     *)
(* does not take that lock.                                                *)
(***************************************************************************)
THEOREM ResolutionIsComplete == Spec => ResolutionCoversLinkedAlerts
<1>1. ASSUME OverlapInv, [Next]_vars
      PROVE  [\A r \in Request : log' = Append(log, r) /\ Op(r) = "resolve_incident" =>
                \A a \in Alert :
                  alerts'[a] # Gone /\ alerts'[a].incident = req[r].call.incident
                    /\ alerts'[a].status # "resolved"
                  => \E k \in (req[r].began + 1) .. Len(log) :
                       /\ \/ Op(log[k]) \in {"update_alert", "acknowledge_alert", "escalate_alert"}
                          \/ /\ Op(log[k]) = "link_alert_to_incident"
                             /\ req[log[k]].call.incident # req[r].call.incident
                       /\ req[log[k]].call.alert = a]_vars
  <2> SUFFICES ASSUME NEW r \in Request, NEW a \in Alert,
                      log' = Append(log, r), Op(r) = "resolve_incident",
                      alerts'[a] # Gone, alerts'[a].incident = req[r].call.incident,
                      alerts'[a].status # "resolved"
               PROVE  \E k \in (req[r].began + 1) .. Len(log) :
                        /\ \/ Op(log[k]) \in {"update_alert", "acknowledge_alert", "escalate_alert"}
                           \/ /\ Op(log[k]) = "link_alert_to_incident"
                              /\ req[log[k]].call.incident # req[r].call.incident
                        /\ req[log[k]].call.alert = a
    OBVIOUS
  <2>1. CommitEffect(r)
    BY <1>1, LoggedCommit DEF OverlapInv
  <2>2. req[r].pc = "locked"
    BY <2>1 DEF CommitEffect
  <2>3. a \notin ToResolve(r) /\ alerts[a] # Gone /\ alerts'[a] = alerts[a]
    BY <2>1 DEF CommitEffect, AlertEffect
  <2>4. PICK k \in (req[r].began + 1) .. Len(log) :
               Moves(req[log[k]].call, a, req[r].call.incident)
    BY <1>1, <2>2, <2>3 DEF OverlapInv, MovedSinceSelect
  <2> QED BY <2>4 DEF Moves, Op
<1> QED BY <1>1, OverlapInvariance, PTL DEF Spec, ResolutionCoversLinkedAlerts

-----------------------------------------------------------------------------
(* How entries of the audit lists are lost.                                *)

\* A later commit of a request that had read the alert of p before p committed,
\* or of a detector that counted that alert again.
HistoryOverwritten(p) ==
  \E q \in Request : /\ \/ Overran(q, p) /\ Op(q) \in HistoryOps
                        \/ Recounted(q, p)
                     /\ req[q].call.alert = req[p].call.alert

TimelineOverrun(p) ==
  \E q \in Request : /\ Overran(q, p)
                     /\ Op(q) \in TimelineOps
                     /\ req[q].call.incident = req[p].call.incident

\* An entry is missing from a loaded list if it was written since, or lost before.
HistoryRead ==
  \A p \in Committed, q \in Request :
    /\ req[q].pc = "loaded" /\ Op(p) \in HistoryOps /\ Op(q) \in HistoryOps
    /\ req[q].call.alert = req[p].call.alert
    /\ p \notin req[q].alert.history
    => req[q].began < Position(p) \/ HistoryOverwritten(p)

TimelineRead ==
  \A p \in Committed, q \in Request :
    /\ req[q].pc \in Open /\ Op(p) \in TimelineOps /\ Op(q) \in TimelineOps
    /\ req[q].call.incident = req[p].call.incident
    /\ p \notin req[q].incident.timeline
    => req[q].began < Position(p) \/ TimelineOverrun(p)

AuditInv == OverlapInv /\ AuditLossNeedsOverwrite /\ HistoryRead /\ TimelineRead

LEMMA PositionInLog ==
  ASSUME Sessions, NEW p \in Committed
  PROVE  /\ Position(p) \in 1..Len(log) /\ log[Position(p)] = p
         /\ \A k \in DOMAIN log : log[k] = p => k = Position(p)
<1>1. \E k \in DOMAIN log : log[k] = p
  BY DEF Committed
<1>2. Position(p) \in DOMAIN log /\ log[Position(p)] = p
  BY <1>1 DEF Position
<1>3. DOMAIN log = 1..Len(log)
  BY DEF Sessions
<1> QED BY <1>2, <1>3 DEF Sessions

\* A commit leaves the others where they are in the log.
LEMMA PositionAfterCommit ==
  ASSUME OverlapInv, NEW r \in Request, CommitEffect(r)
  PROVE  /\ \A p \in Committed : Position(p)' = Position(p)
         /\ Position(r)' = Len(log) + 1
         /\ Len(log) \in Nat
<1>1. IInv /\ Sessions'
  BY CommitKeepsInvariant DEF OverlapInv, IInv
<1>2. Committed' = Committed \cup {r} /\ log' = Append(log, r) /\ log \in Seq(Request)
  BY <1>1, CommitMoves DEF IInv, Sessions
<1>3. /\ DOMAIN log' = DOMAIN log \cup {Len(log) + 1} /\ Len(log) \in Nat
      /\ log'[Len(log) + 1] = r /\ DOMAIN log = 1..Len(log)
      /\ \A k \in DOMAIN log : log'[k] = log[k]
  BY <1>2, LogGrows
<1>4. \A j, k \in DOMAIN log' : log'[j] = log'[k] => j = k
  BY <1>1 DEF Sessions
<1>5. ASSUME NEW p, NEW k \in DOMAIN log', log'[k] = p
      PROVE  Position(p)' = k
  <2>1. Position(p)' = CHOOSE j \in DOMAIN log' : log'[j] = p
    BY DEF Position
  <2>2. /\ (CHOOSE j \in DOMAIN log' : log'[j] = p) \in DOMAIN log'
        /\ log'[CHOOSE j \in DOMAIN log' : log'[j] = p] = p
    BY <1>5
  <2> QED BY <1>4, <1>5, <2>1, <2>2
<1>6. ASSUME NEW p \in Committed PROVE Position(p)' = Position(p)
  <2>1. Position(p) \in DOMAIN log' /\ log'[Position(p)] = p
    BY <1>1, <1>3, PositionInLog DEF IInv
  <2> QED BY <1>5, <2>1
<1> QED BY <1>3, <1>5, <1>6

\* A quiet step forgets no overrun.
LEMMA QuietKeepsOverruns ==
  ASSUME IInv, NEW r \in Request, QuietEffect(r)
  PROVE  \A p \in Committed : /\ Position(p)' = Position(p)
                              /\ HistoryOverwritten(p) => HistoryOverwritten(p)'
                              /\ TimelineOverrun(p) => TimelineOverrun(p)'
<1>1. /\ r \notin Committed /\ log' = log /\ Committed' = Committed
      /\ Committed \subseteq Request
      /\ \A q \in Request \ {r} : req'[q] = req[q]
  <2>1. Committed \subseteq Request
    BY DEF IInv, Sessions, Committed
  <2> QED BY <2>1, QuietMoves
<1>2. \A q \in Committed : req'[q] = req[q] /\ Op(q)' = Op(q)
  BY <1>1 DEF Op
<1>3. ASSUME NEW p PROVE Position(p)' = Position(p)
  BY <1>1 DEF Position
<1>4. ASSUME NEW p \in Committed, NEW q \in Request, Overran(q, p)
      PROVE  Overran(q, p)' /\ req'[q] = req[q] /\ req'[p] = req[p] /\ Op(q)' = Op(q)
  BY <1>1, <1>2, <1>3, <1>4 DEF Overran
<1>4a. ASSUME NEW p \in Committed, NEW q \in Request, Recounted(q, p)
       PROVE  Recounted(q, p)' /\ req'[q] = req[q] /\ req'[p] = req[p]
  BY <1>1, <1>2, <1>3, <1>4a DEF Recounted
<1>5. ASSUME NEW p \in Committed, HistoryOverwritten(p) PROVE HistoryOverwritten(p)'
  <2>1. PICK q \in Request : /\ \/ Overran(q, p) /\ Op(q) \in HistoryOps
                                \/ Recounted(q, p)
                             /\ req[q].call.alert = req[p].call.alert
    BY <1>5 DEF HistoryOverwritten
  <2> QED BY <1>4, <1>4a, <2>1 DEF HistoryOverwritten
<1>6. ASSUME NEW p \in Committed, TimelineOverrun(p) PROVE TimelineOverrun(p)'
  <2>1. PICK q \in Request : /\ Overran(q, p) /\ Op(q) \in TimelineOps
                             /\ req[q].call.incident = req[p].call.incident
    BY <1>6 DEF TimelineOverrun
  <2> QED BY <1>4, <2>1 DEF TimelineOverrun
<1> QED BY <1>3, <1>5, <1>6

\* Nor does a commit, and it overruns what committed after it had read.
LEMMA CommitKeepsOverruns ==
  ASSUME OverlapInv, NEW r \in Request, CommitEffect(r)
  PROVE  \A p \in Committed :
           /\ HistoryOverwritten(p) => HistoryOverwritten(p)'
           /\ TimelineOverrun(p) => TimelineOverrun(p)'
           /\ req[r].began < Position(p) => Overran(r, p)'
           /\ Op(r) = "count_occurrence" => Recounted(r, p)'
<1>1. /\ r \notin Committed /\ Committed' = Committed \cup {r}
      /\ Committed \subseteq Request
      /\ req'[r].call = req[r].call /\ req'[r].began = req[r].began
      /\ \A q \in Request \ {r} : req'[q] = req[q]
  BY CommitMoves DEF OverlapInv
<1>2. /\ \A p \in Committed : Position(p)' = Position(p)
      /\ Position(r)' = Len(log) + 1 /\ Len(log) \in Nat
  BY PositionAfterCommit
<1>3. ASSUME NEW p \in Committed, NEW q \in Request, Overran(q, p)
      PROVE  Overran(q, p)' /\ req'[q] = req[q] /\ req'[p] = req[p] /\ Op(q)' = Op(q)
  <2>1. q \in Committed /\ req'[q] = req[q] /\ req'[p] = req[p]
    BY <1>1, <1>3 DEF Overran
  <2> QED BY <1>1, <1>2, <1>3, <2>1 DEF Overran, Op
<1>3a. ASSUME NEW p \in Committed, NEW q \in Request, Recounted(q, p)
       PROVE  Recounted(q, p)' /\ req'[q] = req[q] /\ req'[p] = req[p]
  <2>1. q \in Committed /\ req'[q] = req[q] /\ req'[p] = req[p]
    BY <1>1, <1>3a DEF Recounted
  <2> QED BY <1>1, <1>2, <1>3a, <2>1 DEF Recounted, Op
<1>4. ASSUME NEW p \in Committed, HistoryOverwritten(p) PROVE HistoryOverwritten(p)'
  <2>1. PICK q \in Request : /\ \/ Overran(q, p) /\ Op(q) \in HistoryOps
                                \/ Recounted(q, p)
                             /\ req[q].call.alert = req[p].call.alert
    BY <1>4 DEF HistoryOverwritten
  <2> QED BY <1>3, <1>3a, <2>1 DEF HistoryOverwritten
<1>5. ASSUME NEW p \in Committed, TimelineOverrun(p) PROVE TimelineOverrun(p)'
  <2>1. PICK q \in Request : /\ Overran(q, p) /\ Op(q) \in TimelineOps
                             /\ req[q].call.incident = req[p].call.incident
    BY <1>5 DEF TimelineOverrun
  <2> QED BY <1>3, <2>1 DEF TimelineOverrun
<1>6. ASSUME NEW p \in Committed, req[r].began < Position(p) PROVE Overran(r, p)'
  <2>1. Position(p) \in 1..Len(log)
    BY PositionInLog DEF OverlapInv, IInv
  <2> QED BY <1>1, <1>2, <1>6, <2>1 DEF Overran
<1>7. ASSUME NEW p \in Committed, Op(r) = "count_occurrence" PROVE Recounted(r, p)'
  <2>1. Position(p) \in 1..Len(log)
    BY PositionInLog DEF OverlapInv, IInv
  <2> QED BY <1>1, <1>2, <1>7, <2>1 DEF Recounted, Op
<1> QED BY <1>4, <1>5, <1>6, <1>7

LEMMA QuietKeepsAudit ==
  ASSUME AuditInv, NEW r \in Request, QuietEffect(r)
  PROVE  AuditInv'
<1>1. IInv /\ OverlapInv /\ OverlapInv'
  BY QuietKeepsOverlap DEF AuditInv, OverlapInv
<1>2. /\ r \notin Committed /\ UNCHANGED <<alerts, incidents, log>>
      /\ Committed' = Committed
      /\ Loaded(req'[r], Committed)
      /\ req'[r].pc \in Open => ReadNow(r, req'[r]) \/ KeptReading(r, req'[r])
      /\ \A q \in Request \ {r} : req'[q] = req[q]
  BY <1>1, QuietMoves
<1>3. \A q \in Committed : q # r /\ req'[q] = req[q] /\ Op(q)' = Op(q)
  <2>1. Committed \subseteq Request
    BY <1>1 DEF IInv, Sessions, Committed
  <2> QED BY <1>2, <2>1 DEF Op
<1>4. \A p \in Committed : /\ Position(p)' = Position(p)
                           /\ HistoryOverwritten(p) => HistoryOverwritten(p)'
                           /\ TimelineOverrun(p) => TimelineOverrun(p)'
  BY <1>1, QuietKeepsOverruns
<1>5. AuditLossNeedsOverwrite'
  <2>1. ASSUME NEW p \in Committed, Op(p)' \in HistoryOps,
               alerts[req'[p].call.alert] # Gone,
               p \notin alerts[req'[p].call.alert].history
        PROVE  HistoryOverwritten(p)'
    BY <1>3, <1>4, <2>1 DEF AuditInv, AuditLossNeedsOverwrite, HistoryOverwritten
  <2>2. ASSUME NEW p \in Committed, Op(p)' \in TimelineOps,
               incidents[req'[p].call.incident] # Gone,
               p \notin incidents[req'[p].call.incident].timeline
        PROVE  TimelineOverrun(p)'
    BY <1>3, <1>4, <2>2 DEF AuditInv, AuditLossNeedsOverwrite, TimelineOverrun
  <2> QED BY <1>2, <2>1, <2>2 DEF AuditLossNeedsOverwrite, HistoryOverwritten, TimelineOverrun
<1>6. HistoryRead'
  <2> SUFFICES ASSUME NEW p \in Committed, NEW q \in Request,
                      req'[q].pc = "loaded", Op(p)' \in HistoryOps, Op(q)' \in HistoryOps,
                      req'[q].call.alert = req'[p].call.alert,
                      p \notin req'[q].alert.history
               PROVE  req'[q].began < Position(p)' \/ HistoryOverwritten(p)'
    BY <1>2 DEF HistoryRead
  <2>1. CASE q = r
    <3>1. Op(q)' \in AlertWriters /\ Op(q)' # "link_alert_to_incident"
      BY DEF HistoryOps, AlertWriters, AlertOps
    <3>2. ~KeptReading(r, req'[r])
      BY <1>1, <2>1, <3>1 DEF KeptReading, IInv, Sessions, Loaded, Op
    <3>3. ReadNow(r, req'[r])
      BY <1>2, <2>1, <3>2 DEF Open
    <3>4. req'[r].alert = alerts[req'[r].call.alert] /\ req'[r].alert # Gone
      BY <2>1, <3>1, <3>3 DEF ReadNow, Op
    <3>5. HistoryOverwritten(p)
      BY <1>3, <2>1, <3>4 DEF AuditInv, AuditLossNeedsOverwrite, HistoryOverwritten
    <3> QED BY <1>4, <3>5
  <2>2. CASE q # r
    <3>1. req'[q] = req[q] /\ Op(q)' = Op(q)
      BY <1>2, <2>2 DEF Op
    <3> QED BY <1>3, <1>4, <3>1 DEF AuditInv, HistoryRead
  <2> QED BY <2>1, <2>2
<1>7. TimelineRead'
  <2> SUFFICES ASSUME NEW p \in Committed, NEW q \in Request,
                      req'[q].pc \in Open, Op(p)' \in TimelineOps, Op(q)' \in TimelineOps,
                      req'[q].call.incident = req'[p].call.incident,
                      p \notin req'[q].incident.timeline
               PROVE  req'[q].began < Position(p)' \/ TimelineOverrun(p)'
    BY <1>2 DEF TimelineRead
  <2>1. CASE q = r
    <3>1. Op(q)' \in IncidentWriters
      BY DEF TimelineOps, IncidentWriters, IncidentOps
    <3>2. CASE ReadNow(r, req'[r])
      <4>1. req'[r].incident = incidents[req'[r].call.incident] /\ req'[r].incident # Gone
        BY <2>1, <3>1, <3>2 DEF ReadNow, Op
      <4>2. TimelineOverrun(p)
        BY <1>3, <2>1, <4>1 DEF AuditInv, AuditLossNeedsOverwrite, TimelineOverrun
      <4> QED BY <1>4, <4>2
    <3>3. CASE KeptReading(r, req'[r])
      <4>1. /\ req[r].pc \in Open /\ req'[r].call = req[r].call /\ Op(r) = Op(r)'
            /\ req'[r].began = req[r].began /\ req'[r].incident = req[r].incident
        BY <3>3 DEF KeptReading, Op
      <4> QED BY <1>3, <1>4, <2>1, <4>1 DEF AuditInv, TimelineRead
    <3> QED BY <1>2, <2>1, <3>2, <3>3
  <2>2. CASE q # r
    <3>1. req'[q] = req[q] /\ Op(q)' = Op(q)
      BY <1>2, <2>2 DEF Op
    <3> QED BY <1>3, <1>4, <3>1 DEF AuditInv, TimelineRead
  <2> QED BY <2>1, <2>2
<1> QED BY <1>1, <1>5, <1>6, <1>7 DEF AuditInv

LEMMA CommitKeepsAudit ==
  ASSUME AuditInv, NEW r \in Request, CommitEffect(r)
  PROVE  AuditInv'
<1>1. IInv /\ OverlapInv /\ OverlapInv'
  BY CommitKeepsOverlap DEF AuditInv, OverlapInv
<1>2. /\ r \notin Committed /\ Committed \subseteq Request
      /\ Committed' = Committed \cup {r}
      /\ req'[r].pc = "ok" /\ req'[r].call = req[r].call
      /\ \A q \in Request \ {r} : req'[q] = req[q]
  BY <1>1, CommitMoves
<1>3. \A q \in Request : Op(q)' = Op(q) /\ req'[q].call = req[q].call
  BY <1>2 DEF Op
<1>4. /\ \A p \in Committed : Position(p)' = Position(p)
      /\ Position(r)' = Len(log) + 1 /\ Len(log) \in Nat
  BY <1>1, PositionAfterCommit
<1>5. \A p \in Committed : /\ HistoryOverwritten(p) => HistoryOverwritten(p)'
                           /\ TimelineOverrun(p) => TimelineOverrun(p)'
                           /\ req[r].began < Position(p) => Overran(r, p)'
                           /\ Op(r) = "count_occurrence" => Recounted(r, p)'
  BY <1>1, CommitKeepsOverruns
<1>6. /\ req[r].pc \in {"loaded", "locked"} /\ req[r].pc \in Open
      /\ Op(r) \in HistoryOps => /\ req[r].pc = "loaded"
                                 /\ req[r].call.alert \in Alert
      /\ Op(r) \in TimelineOps => req[r].call.incident \in Seed
  <2>1. req[r].call \in Calls /\ req[r].pc \in {"loaded", "locked"}
    BY DEF CommitEffect
  <2>2. Op(r) \in HistoryOps => Op(r) \in AlertWriters
    BY DEF HistoryOps, AlertWriters, AlertOps
  <2>3. Op(r) \in TimelineOps => Op(r) \in IncidentWriters
    BY DEF TimelineOps, IncidentWriters, IncidentOps
  <2>4. Op(r) \in AlertWriters => req[r].pc = "loaded"
    BY DEF CommitEffect
  <2> QED BY <2>1, <2>2, <2>3, <2>4, CallShape DEF Open, Op
<1>7. \A p \in Committed : /\ Op(p) \in HistoryOps => req[p].call.alert \in Alert
                           /\ Op(p) \in TimelineOps => req[p].call.incident \in Seed
  <2>1. \A p \in Committed : req[p].call \in Calls
    BY <1>1 DEF OverlapInv, Clocked
  <2>2. HistoryOps \subseteq AlertWriters /\ TimelineOps \subseteq IncidentWriters
    BY DEF HistoryOps, AlertWriters, AlertOps, TimelineOps, IncidentWriters, IncidentOps
  <2> QED BY <2>1, <2>2, CallShape DEF Op
<1>8. ASSUME NEW p \in Committed', Op(p) \in HistoryOps,
             alerts'[req[p].call.alert] # Gone,
             p \notin alerts'[req[p].call.alert].history
      PROVE  HistoryOverwritten(p)'
  <2> DEFINE a == req[p].call.alert
  <2>1. a \in Alert
    BY <1>2, <1>6, <1>7, <1>8
  <2>2. /\ alerts[a] # Gone
        /\ ~(Op(r) = "count_occurrence" /\ req[r].call.alert = a) =>
             alerts'[a].history = IF Op(r) \in HistoryOps /\ req[r].call.alert = a
                                  THEN req[r].alert.history \cup {r}
                                  ELSE alerts[a].history
    BY <1>8, <2>1 DEF CommitEffect, AlertEffect
  <2>3. p # r /\ p \in Committed
    <3>1. "count_occurrence" \notin HistoryOps
      BY DEF HistoryOps
    <3> QED BY <1>2, <1>8, <2>2, <3>1
  <2>4. CASE Op(r) \in HistoryOps /\ req[r].call.alert = a
    <3>1. p \notin req[r].alert.history
      BY <1>8, <2>2, <2>4 DEF HistoryOps
    <3>2. req[r].began < Position(p) \/ HistoryOverwritten(p)
      BY <1>6, <1>8, <2>3, <2>4, <3>1 DEF AuditInv, HistoryRead
    <3> QED BY <1>3, <1>5, <1>2, <2>3, <2>4, <3>2 DEF HistoryOverwritten
  <2>6. CASE Op(r) = "count_occurrence" /\ req[r].call.alert = a
    BY <1>2, <1>3, <1>5, <2>3, <2>6 DEF HistoryOverwritten
  <2>5. CASE ~(Op(r) \in HistoryOps \cup {"count_occurrence"} /\ req[r].call.alert = a)
    <3>1. HistoryOverwritten(p)
      BY <1>8, <2>2, <2>3, <2>5 DEF AuditInv, AuditLossNeedsOverwrite, HistoryOverwritten
    <3> QED BY <1>5, <2>3, <3>1
  <2> QED BY <2>4, <2>5, <2>6
<1>9. ASSUME NEW p \in Committed', Op(p) \in TimelineOps,
             incidents'[req[p].call.incident] # Gone,
             p \notin incidents'[req[p].call.incident].timeline
      PROVE  TimelineOverrun(p)'
  <2> DEFINE i == req[p].call.incident
  <2>1. i \in Seed /\ i # r /\ i \in Incident
    BY <1>2, <1>6, <1>7, <1>9, IdAssumption DEF Incident
  <2>2. /\ incidents[i] # Gone
        /\ incidents'[i].timeline = IF Op(r) \in TimelineOps /\ req[r].call.incident = i
                                    THEN req[r].incident.timeline \cup {r}
                                    ELSE incidents[i].timeline
    BY <1>9, <2>1 DEF CommitEffect, IncidentEffect
  <2>3. p # r /\ p \in Committed
    BY <1>2, <1>9, <2>2
  <2>4. CASE Op(r) \in TimelineOps /\ req[r].call.incident = i
    <3>1. p \notin req[r].incident.timeline
      BY <1>9, <2>2, <2>4
    <3>2. req[r].began < Position(p) \/ TimelineOverrun(p)
      BY <1>6, <1>9, <2>3, <2>4, <3>1 DEF AuditInv, TimelineRead
    <3> QED BY <1>3, <1>5, <1>2, <2>3, <2>4, <3>2 DEF TimelineOverrun
  <2>5. CASE ~(Op(r) \in TimelineOps /\ req[r].call.incident = i)
    <3>1. TimelineOverrun(p)
      BY <1>9, <2>2, <2>3, <2>5 DEF AuditInv, AuditLossNeedsOverwrite, TimelineOverrun
    <3> QED BY <1>5, <2>3, <3>1
  <2> QED BY <2>4, <2>5
<1>10. AuditLossNeedsOverwrite'
  <2>1. \A p \in Committed' : Op(p)' = Op(p) /\ req'[p].call = req[p].call
    BY <1>2, <1>3
  <2> QED BY <1>8, <1>9, <2>1 DEF AuditLossNeedsOverwrite, HistoryOverwritten, TimelineOverrun
<1>11. ASSUME NEW q \in Request, req'[q].pc \in Open
       PROVE  /\ q # r /\ req'[q] = req[q] /\ Op(q)' = Op(q)
              /\ req[q].began < Position(r)'
  <2>1. q # r
    BY <1>2, <1>11 DEF Open
  <2>2. req'[q] = req[q] /\ Op(q)' = Op(q)
    BY <1>2, <1>3, <2>1
  <2>3. req[q].began \in Nat /\ req[q].began <= Len(log)
    BY <1>1, <1>11, <2>2 DEF IInv, Sessions, SessionBy, OverlapInv, Clocked
  <2> QED BY <1>4, <2>1, <2>2, <2>3
<1>12. HistoryRead'
  <2> SUFFICES ASSUME NEW p \in Committed', NEW q \in Request,
                      req'[q].pc = "loaded", Op(p)' \in HistoryOps, Op(q)' \in HistoryOps,
                      req'[q].call.alert = req'[p].call.alert,
                      p \notin req'[q].alert.history
               PROVE  req'[q].began < Position(p)' \/ HistoryOverwritten(p)'
    BY DEF HistoryRead
  <2>1. q # r /\ req'[q] = req[q] /\ Op(q)' = Op(q) /\ req[q].began < Position(r)'
    BY <1>11 DEF Open
  <2>2. CASE p = r
    BY <2>1, <2>2
  <2>3. CASE p # r
    <3>1. p \in Committed /\ Op(p)' = Op(p) /\ req'[p].call = req[p].call
      BY <1>2, <1>3, <2>3
    <3>2. req[q].began < Position(p) \/ HistoryOverwritten(p)
      BY <2>1, <3>1 DEF AuditInv, HistoryRead
    <3> QED BY <1>4, <1>5, <2>1, <3>1, <3>2
  <2> QED BY <2>2, <2>3
<1>13. TimelineRead'
  <2> SUFFICES ASSUME NEW p \in Committed', NEW q \in Request,
                      req'[q].pc \in Open, Op(p)' \in TimelineOps, Op(q)' \in TimelineOps,
                      req'[q].call.incident = req'[p].call.incident,
                      p \notin req'[q].incident.timeline
               PROVE  req'[q].began < Position(p)' \/ TimelineOverrun(p)'
    BY DEF TimelineRead
  <2>1. q # r /\ req'[q] = req[q] /\ Op(q)' = Op(q) /\ req[q].began < Position(r)'
    BY <1>11
  <2>2. CASE p = r
    BY <2>1, <2>2
  <2>3. CASE p # r
    <3>1. p \in Committed /\ Op(p)' = Op(p) /\ req'[p].call = req[p].call
      BY <1>2, <1>3, <2>3
    <3>2. req[q].began < Position(p) \/ TimelineOverrun(p)
      BY <2>1, <3>1 DEF AuditInv, TimelineRead
    <3> QED BY <1>4, <1>5, <2>1, <3>1, <3>2
  <2> QED BY <2>2, <2>3
<1> QED BY <1>1, <1>10, <1>12, <1>13 DEF AuditInv

LEMMA InitAudit == Init => AuditInv
<1> SUFFICES ASSUME Init PROVE AuditInv
  OBVIOUS
<1>1. Committed = {}
  BY DEF Init, Committed
<1> QED BY <1>1, InitOverlap DEF AuditInv, AuditLossNeedsOverwrite, HistoryRead, TimelineRead

LEMMA StepKeepsAudit == AuditInv /\ [Next]_vars => AuditInv'
<1> SUFFICES ASSUME AuditInv, [Next]_vars PROVE AuditInv'
  OBVIOUS
<1>1. CASE UNCHANGED vars
  <2>1. OverlapInv'
    BY StepKeepsOverlap DEF AuditInv
  <2>2. Committed' = Committed /\ req' = req /\ alerts' = alerts /\ incidents' = incidents
    BY <1>1 DEF vars, Committed
  <2>3. /\ \A q, p : Overran(q, p)' = Overran(q, p)
        /\ \A q, p : Recounted(q, p)' = Recounted(q, p)
        /\ \A p : Position(p)' = Position(p)
        /\ \A q : Op(q)' = Op(q)
    BY <1>1 DEF vars, Overran, Recounted, Position, Committed, Op
  <2>4. AuditLossNeedsOverwrite'
    BY <2>2, <2>3 DEF AuditInv, AuditLossNeedsOverwrite
  <2>5. HistoryRead'
    <3>1. ASSUME NEW p PROVE HistoryOverwritten(p) => HistoryOverwritten(p)'
      BY <2>2, <2>3 DEF HistoryOverwritten
    <3>2. HistoryRead
      BY DEF AuditInv
    <3> QED BY <2>2, <2>3, <3>1, <3>2 DEF HistoryRead
  <2>6. TimelineRead'
    <3>1. ASSUME NEW p PROVE TimelineOverrun(p) => TimelineOverrun(p)'
      BY <2>2, <2>3 DEF TimelineOverrun
    <3>2. TimelineRead
      BY DEF AuditInv
    <3> QED BY <2>2, <2>3, <3>1, <3>2 DEF TimelineRead
  <2> QED BY <2>1, <2>4, <2>5, <2>6 DEF AuditInv
<1>2. CASE \E r \in Request : QuietEffect(r) \/ CommitEffect(r)
  BY <1>2, QuietKeepsAudit, CommitKeepsAudit
<1> QED BY <1>1, <1>2, NextIsQuietOrCommits DEF AuditInv, OverlapInv

(***************************************************************************)
(* lifecycle_history and timeline_events are rewritten whole, so an entry  *)
(* can be lost: with any number of requests, only to a request of the same *)
(* row that had read the list before and committed after, or, of an alert, *)
(* to a detector that counted it again afterwards.                         *)
(***************************************************************************)
THEOREM AuditLostOnlyToOverwrites == Spec => []AuditLossNeedsOverwrite
<1>1. AuditInv => AuditLossNeedsOverwrite
  BY DEF AuditInv
<1> QED BY <1>1, InitAudit, StepKeepsAudit, PTL DEF Spec


-----------------------------------------------------------------------------
(* Who waits for whom.                                                     *)

LockingOps == {"link_alert_to_incident", "resolve_incident", "delete_incident"}

\* A delete holds alerts, the other two that keep locks hold an incident.
LocksByOp ==
  \A r \in Request : \A row \in locked[r] :
    /\ Op(r) \in LockingOps
    /\ row \in Alert <=> Op(r) = "delete_incident"

\* Of two transactions, one of which waits for the other, exactly one deletes an incident.
WaitsOppose ==
  \A r, q \in Request :
    WaitsFor(r, q) => /\ {Op(r), Op(q)} \subseteq LockingOps
                      /\ (Op(r) = "delete_incident") # (Op(q) = "delete_incident")

LEMMA InitLocks == Init => LocksByOp
  BY DEF Init, LocksByOp

LEMMA LocksStay ==
  ASSUME IInv, LocksByOp, NEW r \in Request, NEW rows,
         locked' = [locked EXCEPT ![r] = rows],
         \A q \in Request \ {r} : req'[q] = req[q],
         rows # {} => Op(r)' = Op(r) /\ Op(r) \in LockingOps,
         \A row \in rows : row \in Alert <=> Op(r) = "delete_incident"
  PROVE  LocksByOp'
<1>1. \A q \in Request : locked'[q] = IF q = r THEN rows ELSE locked[q]
  BY DEF IInv, Locks
<1>2. ASSUME NEW q \in Request, NEW row \in locked'[q]
      PROVE  Op(q)' \in LockingOps /\ (row \in Alert <=> Op(q)' = "delete_incident")
  <2>1. CASE q = r
    BY <1>1, <1>2, <2>1
  <2>2. CASE q # r
    <3>1. row \in locked[q] /\ Op(q)' = Op(q)
      BY <1>1, <1>2, <2>2 DEF Op
    <3> QED BY <3>1 DEF LocksByOp
  <2> QED BY <2>1, <2>2
<1> QED BY <1>2 DEF LocksByOp

\* Of a session that ends, begins or goes on without locking, the locks do not matter.
LEMMA LocksKept ==
  ASSUME IInv, LocksByOp, NEW r \in Request, NEW s, req' = [req EXCEPT ![r] = s],
         \/ locked' = [locked EXCEPT ![r] = {}]
         \/ UNCHANGED locked /\ (locked[r] = {} \/ s.call = req[r].call)
  PROVE  LocksByOp'
<1>1. \A q \in Request : req'[q] = IF q = r THEN s ELSE req[q]
  BY DEF IInv, Sessions
<1>2. CASE locked' = [locked EXCEPT ![r] = {}]
  <2> DEFINE rows == {}
  <2>1. /\ locked' = [locked EXCEPT ![r] = rows]
        /\ \A q \in Request \ {r} : req'[q] = req[q]
    BY <1>1, <1>2
  <2>2. rows # {} => Op(r)' = Op(r) /\ Op(r) \in LockingOps
    OBVIOUS
  <2>3. \A row \in rows : row \in Alert <=> Op(r) = "delete_incident"
    OBVIOUS
  <2> HIDE DEF rows
  <2> QED BY <2>1, <2>2, <2>3, LocksStay
<1>3. CASE UNCHANGED locked /\ (locked[r] = {} \/ s.call = req[r].call)
  <2>1. ASSUME NEW q \in Request, NEW row \in locked[q] PROVE Op(q)' = Op(q)
    BY <1>1, <1>3, <2>1 DEF Op
  <2> QED BY <1>3, <2>1 DEF LocksByOp
<1> QED BY <1>2, <1>3

LEMMA LockTaking ==
  ASSUME IInv, LocksByOp, NEW r \in Request,
         LinkLocksIncident(r) \/ ResolveLocksIncident(r) \/ DeleteUnlinksAlerts(r)
  PROVE  LocksByOp'
<1>1. PICK rows, linked : /\ TakeLocks(r, rows, linked)
                          /\ Op(r) \in LockingOps
                          /\ Op(r) = "delete_incident" => rows = Rows(linked)
                          /\ Op(r) # "delete_incident" => rows = {req[r].call.incident}
                          /\ req[r].pc \in {"loaded", "selected"}
  BY DEF LinkLocksIncident, ResolveLocksIncident, DeleteUnlinksAlerts, At, Op, LockingOps
<1>2. locked[r] = {}
  BY <1>1 DEF IInv, Locks, LocksAreOwned
<1>3. locked' = [locked EXCEPT ![r] = rows]
  BY <1>1, <1>2 DEF TakeLocks
<1>4. req[r].call \in Calls
  BY <1>1, OpenSession DEF Open
<1>5. \A row \in rows : row \in Alert <=> Op(r) = "delete_incident"
  <2>1. CASE Op(r) = "delete_incident"
    BY <1>1, <2>1 DEF Rows
  <2>2. CASE Op(r) # "delete_incident"
    <3>1. req[r].call.incident \in Seed
      BY <1>1, <1>4, <2>2, CallShape DEF Op, LockingOps, IncidentWriters, IncidentOps
    <3> QED BY <1>1, <2>2, <3>1, IdAssumption
  <2> QED BY <2>1, <2>2
<1>6. /\ \A q \in Request \ {r} : req'[q] = req[q]
      /\ Op(r)' = Op(r)
  BY <1>1 DEF TakeLocks, Op, IInv, Sessions, SessionBy
<1> QED BY <1>1, <1>3, <1>5, <1>6, LocksStay

LEMMA StepKeepsLocks == IInv /\ LocksByOp /\ [Next]_vars => LocksByOp'
<1> SUFFICES ASSUME IInv, LocksByOp, [Next]_vars PROVE LocksByOp'
  OBVIOUS
<1>1. ASSUME NEW r \in Request, Commit(r) \/ Rollback(r) PROVE LocksByOp'
  BY <1>1, LocksKept DEF Commit, Rollback
<1>2. ASSUME NEW r \in Request, NEW call \in Calls, Load(r, call) PROVE LocksByOp'
  <2>1. locked[r] = {}
    BY <1>2 DEF Load, IInv, Locks, LocksAreOwned
  <2> QED BY <1>2, <2>1, LocksKept DEF Load
<1>3. ASSUME NEW r \in Request, LoadLinkedAlert(r) \/ DeleteSelectsAlerts(r) PROVE LocksByOp'
  <2>1. locked[r] = {}
    BY <1>3 DEF LoadLinkedAlert, DeleteSelectsAlerts, At, IInv, Locks, LocksAreOwned
  <2>2. UNCHANGED locked
    BY <1>3 DEF LoadLinkedAlert, DeleteSelectsAlerts
  <2>3. \E s : req' = [req EXCEPT ![r] = s]
    BY <1>3 DEF LoadLinkedAlert, DeleteSelectsAlerts
  <2> QED BY <2>1, <2>2, <2>3, LocksKept
<1>4. ASSUME NEW r \in Request, Step(r) PROVE LocksByOp'
  <2>1. \/ Commit(r) \/ Rollback(r)
        \/ LoadLinkedAlert(r) \/ DeleteSelectsAlerts(r)
        \/ LinkLocksIncident(r) \/ ResolveLocksIncident(r) \/ DeleteUnlinksAlerts(r)
    BY <1>4 DEF Step, AcknowledgeAlert, EscalateAlert, ResolveAlert, UpdateAlert, WriteAlert,
       DeleteAlert, CountOccurrence, CreateIncidentFromAlert, CreateIncident, UpdateIncident, AssignIncident,
       AddIncidentNote, AddIncidentEvent, AddIncidentTask, UpdateIncidentTask, WriteIncident,
       LinkAlertToIncident, ResolveIncident, DeleteIncident, FlushFails, DeadlockVictim
  <2> QED BY <2>1, <1>1, <1>3, LockTaking
<1>5. CASE UNCHANGED vars
  BY <1>5 DEF vars, LocksByOp, Op
<1> QED BY <1>2, <1>4, <1>5 DEF Next, Finished

(***************************************************************************)
(* A transaction that waits for another while it holds locks is either a   *)
(* delete_incident that waits for a link or resolve_incident, or the other *)
(* way round: no set of link, resolve and alert requests ever deadlocks,   *)
(* and every lock cycle alternates (their flushes' order of row locks).    *)
(***************************************************************************)
THEOREM DeadlockNeedsDeletion == Spec => []WaitsOppose
<1>1. ASSUME IInv, LocksByOp PROVE WaitsOppose
  <2> SUFFICES ASSUME NEW r \in Request, NEW q \in Request, WaitsFor(r, q)
               PROVE  /\ {Op(r), Op(q)} \subseteq LockingOps
                      /\ (Op(r) = "delete_incident") # (Op(q) = "delete_incident")
    BY DEF WaitsOppose
  <2>1. PICK row \in Wants(r) : row \in locked[q]
    BY DEF WaitsFor
  <2>2. Op(q) \in LockingOps /\ (row \in Alert <=> Op(q) = "delete_incident")
    BY <1>1, <2>1 DEF LocksByOp
  <2>3. req[r].pc = "locked" /\ Op(r) \in LockingOps
    BY <2>1 DEF Wants, At, Op, LockingOps
  <2>4. req[r].call \in Calls
    BY <1>1, <2>3, OpenSession DEF Open
  <2>5. CASE Op(r) = "delete_incident"
    <3>1. req[r].call.incident \in Seed
      BY <2>4, <2>5, CallShape DEF Op, IncidentWriters, IncidentOps
    <3>2. row = req[r].call.incident
      BY <2>1, <2>5 DEF Wants, At, Op
    <3>3. row \notin Alert
      BY <3>1, <3>2, IdAssumption
    <3> QED BY <2>2, <2>3, <2>5, <3>3
  <2>6. CASE Op(r) # "delete_incident"
    <3>1. \/ Op(r) = "link_alert_to_incident" /\ row \in ToLink(r)
          \/ Op(r) = "resolve_incident" /\ row \in ToResolve(r)
      <4>1. CASE Op(r) = "link_alert_to_incident"
        BY <2>1, <4>1 DEF Wants, At, Op
      <4>2. CASE Op(r) = "resolve_incident"
        BY <2>1, <4>2 DEF Wants, At, Op
      <4> QED BY <2>3, <2>6, <4>1, <4>2 DEF LockingOps
    <3>2. row \in Alert
      <4>1. CASE Op(r) = "link_alert_to_incident" /\ row \in ToLink(r)
        BY <2>4, <4>1, CallShape DEF ToLink, Op
      <4>2. CASE row \in ToResolve(r)
        BY <4>2 DEF ToResolve, Rows
      <4> QED BY <3>1, <4>1, <4>2
    <3> QED BY <2>2, <2>3, <2>6, <3>2
  <2> QED BY <2>5, <2>6
<1>2. IInv /\ LocksByOp => WaitsOppose
  BY <1>1
<1> QED BY <1>2, InitLocks, StepKeepsLocks, Invariance, PTL DEF Spec
=============================================================================
