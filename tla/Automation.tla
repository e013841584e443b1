------------------------------- MODULE Automation -------------------------------
(***************************************************************************)
(* From a log line or an operator's alert to automated actions: POST /logs *)
(* (routers/logs.py), the threat engine (services/threat_engine.py), POST  *)
(* /alerts (routers/alerts.py) and the response engine                     *)
(* (services/response_engine.py).                                          *)
(*                                                                         *)
(* The log is committed before anything judges it; the alerts, incidents   *)
(* and records of actions that follow are one transaction.  Rules and      *)
(* indicators are committed by other requests at any time and read by two  *)
(* SELECTs; playbooks have no endpoint that changes them.                  *)
(*                                                                         *)
(* A text is the set of the words in it.                                   *)
(***************************************************************************)
EXTENDS Integers, Sequences, FiniteSets, SequencesExt

CONSTANTS
  Request,        \* POST /logs and POST /alerts
  Word,           \* what texts are made of
  Malformed,      \* a pattern that is no regular expression
  None,           \* a trigger or a source that is null
  Operator,       \* the cause of an alert that an operator posts
  ThreatEngine,   \* the source of the threat engine's alerts
  Log,            \* what is logged
  DetectionRule,  \* active rules operators may create
  Indicator,      \* indicators of compromise operators may create
  Playbook        \* active rows of playbook_rules

AlertSeverity == {"critical", "high", "medium", "low", "info"}
IncidentSeverity == {"critical", "high", "medium", "low"}
ActionType == {"create_incident", "send_webhook", "send_email", "isolate_asset", "add_ioc"}

Text == SUBSET Word

ASSUME DataAssumption ==
  /\ ThreatEngine \in Text
  /\ Log \subseteq [message: Text, source: Text, metadata: Text]
  /\ \A rule \in DetectionRule :
       /\ DOMAIN rule = {"target_field", "condition", "pattern", "severity"}
       /\ rule.pattern \in Word
  /\ Indicator \subseteq Word
  /\ \A p \in Playbook :
       /\ DOMAIN p = {"trigger_on_severity", "trigger_on_source", "action_type"}
       /\ p.trigger_on_severity \in AlertSeverity \cup {None}
       /\ p.trigger_on_source \in Word \cup {None}
       /\ p.action_type \in ActionType
  /\ IsFiniteSet(Playbook) /\ DetectionRule \cap Indicator = {}

VARIABLES
  rules,      \* committed detection rules
  iocs,       \* committed indicators
  logs,       \* committed logs, named by their requests
  alerts,     \* committed alerts
  incidents,  \* committed incidents of the response engine
  actions,    \* committed response_actions
  session,    \* what each request's session holds
  known       \* history: the rules and indicators of before each request

tables == <<logs, alerts, incidents, actions>>
vars == <<rules, iocs, tables, session, known>>

(***************************************************************************)
(* A session: the request's op, its log, the alerts to judge, and what it  *)
(* has flushed.  An alert is named by its request and what raised it.      *)
(***************************************************************************)
Fresh == [pc |-> "idle", op |-> "none", log |-> None, todo |-> <<>>,
          alerts |-> {}, incidents |-> {}, actions |-> <<>>]

Init ==
  /\ rules = {} /\ iocs = {}
  /\ logs = {} /\ alerts = {} /\ incidents = {} /\ actions = <<>>
  /\ session = [r \in Request |-> Fresh]
  /\ known = [r \in Request |-> {}]

Ended == {"ok", "error", "lost"}

\* The session closes; what it has not committed is gone.
Close(r, pc) ==
  [session EXCEPT ![r] = [Fresh EXCEPT
     !.pc = pc, !.op = session[r].op, !.log = session[r].log]]

-----------------------------------------------------------------------------
(* Rules and indicators.                                                   *)

CreateDetectionRule ==
  \E rule \in DetectionRule \ rules :
    /\ rules' = rules \cup {rule}
    /\ UNCHANGED <<iocs, tables, session, known>>

CreateIoc ==
  \E ioc \in Indicator \ iocs :
    /\ iocs' = iocs \cup {ioc}
    /\ UNCHANGED <<rules, tables, session, known>>

Target(rule, log) ==
  IF rule.target_field \in DOMAIN log THEN log[rule.target_field] ELSE {}

\* _evaluate_rule
RuleHits(rule, log) ==
  LET text == Target(rule, log)
  IN /\ text # {}
     /\ \/ rule.condition = "contains" /\ rule.pattern \in text
        \/ rule.condition = "equals" /\ text = {rule.pattern}
        \/ rule.condition = "regex" /\ rule.pattern # Malformed /\ rule.pattern \in text

\* _evaluate_ioc
IocHits(ioc, log) == ioc \in log.message \cup log.metadata

-----------------------------------------------------------------------------
(* POST /logs                                                              *)

CreateLogEntry(r, log) ==
  /\ session[r].pc = "idle"
  /\ logs' = logs \cup {r}
  /\ known' = [known EXCEPT ![r] = rules \cup iocs]
  /\ session' = [session EXCEPT ![r].pc = "rules", ![r].op = "log", ![r].log = log]
  /\ UNCHANGED <<rules, iocs, alerts, incidents, actions>>

Raised(r, cause, severity) ==
  [id |-> <<r, cause>>, severity |-> severity, source |-> ThreatEngine, incident |-> FALSE]

\* AlertSeverity(rule.severity.lower())
Convertible(rule) == rule.severity \in AlertSeverity

\* evaluate_log, the detection rules
SelectRules(r) ==
  LET hits == {rule \in rules : RuleHits(rule, session[r].log)}
  IN /\ session[r].pc = "rules"
     /\ session' =
          IF \E rule \in hits : ~Convertible(rule) THEN Close(r, "error")
          ELSE [session EXCEPT
                 ![r].pc = "iocs",
                 ![r].todo = SetToSeq({Raised(r, rule, rule.severity) : rule \in hits})]
     /\ UNCHANGED <<rules, iocs, tables, known>>

IocAlerts(r) ==
  {Raised(r, ioc, "critical") : ioc \in {i \in iocs : IocHits(i, session[r].log)}}

\* mutant: indicators replace what the rules found
SelectIocsOnly(r) ==
  /\ session[r].pc = "iocs"
  /\ session' = [session EXCEPT ![r].pc = "respond", ![r].todo = SetToSeq(IocAlerts(r))]
  /\ UNCHANGED <<rules, iocs, tables, known>>

\* mutant: the alerts are committed before they are judged
SelectIocsAndCommit(r) ==
  LET found == session[r].todo \o SetToSeq(IocAlerts(r))
  IN /\ session[r].pc = "iocs"
     /\ session' = [session EXCEPT ![r].pc = "respond", ![r].todo = found]
     /\ alerts' = alerts \cup ToSet(found)
     /\ UNCHANGED <<rules, iocs, logs, incidents, actions, known>>

\* evaluate_log, the indicators; the flush of the alerts
SelectIocs(r) ==
  /\ session[r].pc = "iocs"
  /\ session' = [session EXCEPT
       ![r].pc = "respond", ![r].todo = @ \o SetToSeq(IocAlerts(r))]
  /\ UNCHANGED <<rules, iocs, tables, known>>

-----------------------------------------------------------------------------
(* POST /alerts                                                            *)

\* create_alert up to the response engine: a severity that is none fails in the flush.
CreateAlert(r, severity, source) ==
  /\ session[r].pc = "idle"
  /\ session' =
       IF severity \notin AlertSeverity
       THEN [session EXCEPT ![r].pc = "error", ![r].op = "alert"]
       ELSE [session EXCEPT ![r].pc = "respond", ![r].op = "alert", ![r].todo =
              <<[id |-> <<r, Operator>>, severity |-> severity, source |-> source,
                 incident |-> FALSE]>>]
  /\ UNCHANGED <<rules, iocs, tables, known>>

-----------------------------------------------------------------------------
(* The response engine.                                                    *)

SeverityFits(alert, p) == p.trigger_on_severity \in {None, alert.severity}

\* The source of an alert that has none is lower-cased.
SourceRaises(alert, p) ==
  SeverityFits(alert, p) /\ p.trigger_on_source # None /\ alert.source = None

\* _alert_matches_rule
Matches(alert, p) ==
  /\ SeverityFits(alert, p)
  /\ p.trigger_on_source # None =>
       alert.source # None /\ p.trigger_on_source \in alert.source

Matching(alert) == {p \in Playbook : Matches(alert, p)}

Escalating(alert) == {p \in Matching(alert) : p.action_type = "create_incident"}

Incident(alert, p) == [alert |-> alert.id, severity |-> alert.severity, playbook |-> p]

\* mutant: every playbook that escalates creates an incident
IncidentForEach(alert) == {{Incident(alert, p) : p \in Escalating(alert)}}

\* _action_create_incident: the first playbook to escalate creates, the others skip;
\* which one is first, a SELECT without ORDER BY leaves open.
IncidentsFor(alert) ==
  IF Escalating(alert) = {} THEN {{}} ELSE {{Incident(alert, p)} : p \in Escalating(alert)}

(***************************************************************************)
(* evaluate_alert for the next alert.  An incident that fails in the flush *)
(* is caught, but its session is rolled back: recording the failure raises *)
(* in turn.                                                                *)
(***************************************************************************)
EvaluateAlert(r) ==
  LET alert == Head(session[r].todo)
      fails == \/ \E p \in Playbook : SourceRaises(alert, p)
               \/ Escalating(alert) # {} /\ alert.severity \notin IncidentSeverity
  IN /\ session[r].pc = "respond" /\ session[r].todo # <<>>
     /\ \/ fails /\ session' = Close(r, "error")
        \/ /\ ~fails
           /\ \E new \in IncidentsFor(alert) : session' = [session EXCEPT
                ![r].todo = Tail(@),
                ![r].alerts = @ \cup {[alert EXCEPT !.incident = new # {}]},
                ![r].incidents = @ \cup new,
                ![r].actions = @ \o SetToSeq({<<p, alert.id>> : p \in Matching(alert)})]
     /\ UNCHANGED <<rules, iocs, tables, known>>

(***************************************************************************)
(* The commit and the answer.  Linking the incident was an UPDATE, after   *)
(* which updated_at is to be reloaded: create_alert's response cannot be   *)
(* made of the alert, and the client is told 500.                          *)
(***************************************************************************)
CommitResponse(r) ==
  /\ session[r].pc = "respond" /\ session[r].todo = <<>>
  /\ alerts' = alerts \cup session[r].alerts
  /\ incidents' = incidents \cup session[r].incidents
  /\ actions' = actions \o session[r].actions
  /\ session' = Close(r, IF session[r].op = "alert" /\ session[r].incidents # {}
                         THEN "error" ELSE "ok")
  /\ UNCHANGED <<rules, iocs, logs, known>>

\* The server stops or the connection to the database is lost.
Lose(r) ==
  /\ session[r].pc \notin Ended \cup {"idle"}
  /\ session' = Close(r, "lost")
  /\ UNCHANGED <<rules, iocs, tables, known>>

-----------------------------------------------------------------------------
Next ==
  \/ CreateDetectionRule
  \/ CreateIoc
  \/ \E r \in Request :
       \/ \E log \in Log : CreateLogEntry(r, log)
       \/ SelectRules(r)
       \/ SelectIocs(r)
       \/ \E severity \in AlertSeverity \cup {"other"}, source \in {None, {}, ThreatEngine} :
            CreateAlert(r, severity, source)
       \/ EvaluateAlert(r)
       \/ CommitResponse(r)
       \/ Lose(r)

Spec == Init /\ [][Next]_vars

-----------------------------------------------------------------------------
(* Properties.                                                             *)

Cause == DetectionRule \cup Indicator \cup {Operator}

TypeOK ==
  /\ rules \subseteq DetectionRule /\ iocs \subseteq Indicator
  /\ logs \subseteq Request
  /\ \A a \in alerts :
       /\ a.id \in Request \X Cause
       /\ a.severity \in AlertSeverity
       /\ a.source \in Text \cup {None}
  /\ \A i \in incidents : i.severity \in IncidentSeverity /\ i.playbook \in Playbook
  /\ ToSet(actions) \subseteq Playbook \X {a.id : a \in alerts}
  /\ \A r \in Request :
       session[r].pc \in {"idle", "rules", "iocs", "respond"} \cup Ended

(***************************************************************************)
(* Automation is whole: whichever requests fail or are lost on the way, a  *)
(* committed alert has one record per playbook it matches, it has its one  *)
(* incident exactly when one of them escalates, however many do, and no    *)
(* incident stands without its alert.                                      *)
(***************************************************************************)
NothingHalfDone ==
  /\ TypeOK
  /\ \A a \in alerts :
       /\ \A p \in Playbook :
            Cardinality({n \in DOMAIN actions : actions[n] = <<p, a.id>>})
              = IF p \in Matching(a) THEN 1 ELSE 0
       /\ Cardinality({i \in incidents : i.alert = a.id})
            = IF Escalating(a) # {} THEN 1 ELSE 0
       /\ a.incident = (Escalating(a) # {})
  /\ {i.alert : i \in incidents} \subseteq {a.id : a \in alerts}

(***************************************************************************)
(* A log answered with success has the alert of every rule it hits and of  *)
(* every indicator in it that was committed before it was.                 *)
(***************************************************************************)
KnownThreatsAreRaised ==
  \A r \in logs : session[r].pc = "ok" =>
    \A cause \in known[r] :
      LET log == session[r].log
      IN (IF cause \in Indicator THEN IocHits(cause, log) ELSE RuleHits(cause, log))
           => \E a \in alerts : a.id = <<r, cause>>

(***************************************************************************)
(* A client that was told of an error may try again: nothing but the log   *)
(* is left of its first attempt, except the complete alert that a playbook *)
(* linked to an incident.                                                  *)
(***************************************************************************)
ErrorLeavesOnlyTheLog ==
  \A r \in Request : session[r].pc = "error" =>
    \A a \in alerts : a.id[1] = r => session[r].op = "alert" /\ a.incident
=============================================================================
