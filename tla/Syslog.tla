--------------------------------- MODULE Syslog ---------------------------------
(***************************************************************************)
(* POST /syslog/ingest (routers/syslog.py) and its Fortinet profile        *)
(* (services/syslog_profiles/fortinet.py): how a message is classified,    *)
(* which log, feed entries and alert it leaves, and how later messages are *)
(* merged into the alert.  Requests are atomic here: what overlapping ones *)
(* do to each other is the subject of AlertDedup.                          *)
(*                                                                         *)
(* A message is the set of the words in it that some pattern looks for; a  *)
(* FortiGate's also has a type, subtype and level.  Where the code looks   *)
(* in the whole text, a field's value counts as a word of it.              *)
(***************************************************************************)
EXTENDS Integers, Sequences, FiniteSets

CONSTANTS
  Source,   \* who sends: for a FortiGate also its srcip or devname
  Message,  \* bound: what is sent
  MaxLogs   \* bound: how much is sent

Type == {"event", "traffic"}
Subtype == {"vpn", "admin", "system", "ips", "virus", "webfilter", "forward"}
\* the first words are of FortiGates, the last of any other device
Word == {"config", "changed", "vpn", "fail", "admin", "attack", "virus", "web", "deny",
         "down", "up", "failover"}
  \cup {"failed login", "rogue ap", "link down", "auth failure", "traffic blocked"}
Level == {"critical", "high", "medium", "low", "info"}

Fortinet == [type : Type, subtype : Subtype, words : SUBSET Word, level : Level]
\* head: the words within the first 80 characters.
Generic == {e \in [head : SUBSET Word, words : SUBSET Word, level : Level] : e.head \subseteq e.words}

ASSUME MessageAssumption == Message \subseteq Fortinet \cup Generic

VARIABLES
  logs,    \* what was stored, in order
  alerts,  \* alerts, in order
  feed     \* activity events

syslogVars == <<logs, alerts, feed>>

IsFortinet(e) == "subtype" \in DOMAIN e

-----------------------------------------------------------------------------
(* classify_fortinet_event: the first branch that fits decides.            *)

\* "failover" and "failed" are found by looking for "fail".
Failed(e) == {"fail", "failover"} \cap e.words # {}

\* "config changed" and the like; a mere mention of the configuration does for an event.
ConfigChange(e) == "changed" \in e.words \/ (e.type = "event" /\ "config" \in e.words)
Vpn(e) == e.subtype = "vpn" \/ "vpn" \in e.words
\* With subtype admin the word is in the text.
AdminLogin(e) == e.subtype = "admin" \/ (e.subtype = "system" /\ "admin" \in e.words)
Attack(e) == e.subtype = "ips" \/ "attack" \in e.words
Malware(e) == e.subtype = "virus" \/ "virus" \in e.words
WebFilter(e) == e.subtype = "webfilter" \/ "web" \in e.words

Category(e) ==
  IF ConfigChange(e) THEN "config_changed"
  ELSE IF Vpn(e) THEN IF Failed(e) THEN "vpn_login_failure" ELSE "vpn_login_success"
  ELSE IF AdminLogin(e) THEN IF Failed(e) THEN "admin_login_failure" ELSE "admin_login_success"
  ELSE IF Attack(e) THEN "ips_attack_detected"
  ELSE IF Malware(e) THEN "malware_detected"
  ELSE IF WebFilter(e) THEN "web_filter_block"
  ELSE IF "deny" \in e.words THEN "firewall_blocked_traffic"
  ELSE IF "down" \in e.words THEN "interface_down"
  ELSE IF "up" \in e.words THEN "interface_up"
  ELSE IF "failover" \in e.words THEN "ha_failover"
  ELSE IF e.type = "event" \/ e.subtype = "system" THEN "system_event"
  ELSE "unknown_fortinet_event"

ByLevel == {"system_event", "unknown_fortinet_event"}

Severity(e) ==
  LET c == Category(e)
  IN CASE c \in {"malware_detected", "ha_failover"} -> "critical"
       [] c \in {"admin_login_failure", "ips_attack_detected", "interface_down"} -> "high"
       [] c \in {"config_changed", "vpn_login_failure", "web_filter_block"} -> "medium"
       [] c = "firewall_blocked_traffic" -> "low"
       [] c \in {"vpn_login_success", "admin_login_success", "interface_up"} -> "info"
       [] c \in ByLevel -> e.level

\* ALERT_CATEGORIES, and important_fortinet_activity
AlertCategories ==
  {"admin_login_failure", "vpn_login_failure", "ips_attack_detected", "malware_detected",
   "ha_failover", "interface_down", "config_changed"}

\* mutant: only the categories decide
ShouldAlertByCategory(e) ==
  IF IsFortinet(e) THEN Category(e) \in AlertCategories
  ELSE e.level \in {"critical", "high"} \/ e.words # {}

\* mutant: what the firewall has denied raises no alert
ShouldAlertUnlessDenied(e) ==
  IF IsFortinet(e)
  THEN "deny" \notin e.words /\ (Category(e) \in AlertCategories \/ Severity(e) \in {"critical", "high"})
  ELSE e.level \in {"critical", "high"} \/ e.words # {}

\* should_alert_fortinet and should_alert
ShouldAlert(e) ==
  IF IsFortinet(e)
  THEN Category(e) \in AlertCategories \/ Severity(e) \in {"critical", "high"}
  ELSE e.level \in {"critical", "high"} \/ e.words # {}

\* fortinet_to_log_level and syslog_level
LogLevel(e) ==
  LET s == IF IsFortinet(e) THEN Severity(e) ELSE e.level
  IN IF s \in {"critical", "high", "medium"} THEN s ELSE "info"

\* fortinet_to_alert_severity; any other device's alerts are high or critical.
AlertSeverity(e) ==
  IF IsFortinet(e) THEN Severity(e)
  ELSE IF e.level = "critical" THEN "critical" ELSE "high"

Kind(e) == IF IsFortinet(e) THEN Category(e) ELSE "syslog"

\* mutant: a FortiGate's alerts are told apart by their source alone
KeyBySource(src, e) == IF IsFortinet(e) THEN <<"fortinet", src>> ELSE <<"syslog", src, e.head>>

\* dedupe_key_for_fortinet, and the head of other devices' messages.  Target and threat name,
\* also part of the key, are the same in all messages of a source here.
Key(src, e) ==
  IF IsFortinet(e) THEN <<"fortinet", Category(e), src>> ELSE <<"syslog", src, e.head>>

-----------------------------------------------------------------------------
(* The endpoint.                                                           *)

\* fortinet_activity_severity
Activity(e) ==
  LET warns == IF LogLevel(e) = "info" THEN "info" ELSE "warning"
  IN CASE ~IsFortinet(e) -> warns
       [] IsFortinet(e) /\ Category(e) \in {"malware_detected", "ha_failover", "ips_attack_detected"} -> "critical"
       [] OTHER -> IF Category(e) \in AlertCategories THEN "warning" ELSE warns

Entry(src, e) ==
  [key |-> Key(src, e), kind |-> Kind(e), level |-> LogLevel(e), alerting |-> ShouldAlert(e),
   threat |-> IsFortinet(e) /\ (Attack(e) \/ Malware(e))]

Raise(src, e, n) ==
  [key |-> Key(src, e), kind |-> Kind(e), severity |-> AlertSeverity(e), open |-> TRUE,
   occurrences |-> 1, evidence |-> IF IsFortinet(e) THEN {n} ELSE {}]

(***************************************************************************)
(* The evidence of a repetition is appended to a list inside the loaded    *)
(* metadata, and so is alert_created of its log: neither is written.       *)
(***************************************************************************)
Ingest(src, e) ==
  LET same == {i \in DOMAIN alerts : alerts[i].key = Key(src, e) /\ alerts[i].open}
      new == ShouldAlert(e) /\ same = {}
  IN /\ Len(logs) < MaxLogs
     /\ logs' = Append(logs, Entry(src, e))
     /\ alerts' =
          IF new THEN Append(alerts, Raise(src, e, Len(logs) + 1))
          ELSE IF ShouldAlert(e)
          THEN [i \in DOMAIN alerts |->
                 IF i \in same THEN [alerts[i] EXCEPT !.occurrences = @ + 1] ELSE alerts[i]]
          ELSE alerts
     /\ feed' = feed \cup {<<"syslog_ingested", Activity(e)>>}
          \cup (IF Kind(e) \in AlertCategories THEN {<<Kind(e), Activity(e)>>} ELSE {})
          \cup (IF new THEN {<<"alert_created", "warning">>} ELSE {})

\* An operator closes an alert.
Resolve(i) ==
  /\ alerts[i].open
  /\ alerts' = [alerts EXCEPT ![i].open = FALSE]
  /\ UNCHANGED <<logs, feed>>

SyslogInit == logs = <<>> /\ alerts = <<>> /\ feed = {}

SyslogNext ==
  \/ \E src \in Source, e \in Message : Ingest(src, e)
  \/ \E i \in DOMAIN alerts : Resolve(i)

SyslogSpec == SyslogInit /\ [][SyslogNext]_syslogVars

-----------------------------------------------------------------------------
(* Properties.                                                             *)

Rank(s) == CASE s = "critical" -> 4 [] s = "high" -> 3 [] s = "medium" -> 2
             [] s = "low" -> 1 [] s = "info" -> 0

Of(log) == {a \in {alerts[i] : i \in DOMAIN alerts} : a.key = log.key}

(***************************************************************************)
(* Whatever device and profile it came by, a log stored as an error or as  *)
(* critical has an alert, and an alert of a FortiGate never rests on logs  *)
(* that are all stored as information: level and alert are decided apart.  *)
(***************************************************************************)
SevereIsAlerted ==
  /\ \A n \in DOMAIN logs : Rank(logs[n].level) >= 3 => Of(logs[n]) # {}
  /\ \A i \in DOMAIN alerts : alerts[i].kind # "syslog" =>
       \E n \in DOMAIN logs : logs[n].key = alerts[i].key /\ Rank(logs[n].level) >= 2

(***************************************************************************)
(* A FortiGate's attack or malware event goes without an alert only by one *)
(* way through the order of the branches: when its text also has a word    *)
(* of VPN or administration, it is filed as a successful login.            *)
(***************************************************************************)
ThreatMissedOnlyAsLogin ==
  \A n \in DOMAIN logs :
    logs[n].threat /\ Of(logs[n]) = {} =>
      logs[n].kind \in {"vpn_login_success", "admin_login_success"}

(***************************************************************************)
(* An alert merges only what is of its kind, so it understates one of its  *)
(* logs only where the level is the sender's word: then a critical event   *)
(* counts as one more occurrence of a lesser alert.                        *)
(***************************************************************************)
UnderstatedOnlyByLevel ==
  \A i \in DOMAIN alerts, n \in DOMAIN logs :
    alerts[i].key = logs[n].key =>
      /\ alerts[i].kind = logs[n].kind
      /\ Rank(logs[n].level) > Rank(alerts[i].severity) =>
           alerts[i].kind \in ByLevel \cup {"syslog"}
=============================================================================
