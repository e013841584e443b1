-------------------------------- MODULE RadioPoll --------------------------------
(***************************************************************************)
(* What the poll of a reachable radio makes of it (poll_radio_device in    *)
(* services/polling.py): the adapter chosen for the radio and the          *)
(* credential given (services/vendor_adapters.py), what its transport      *)
(* answers (adapters/, services/snmp.py), the diagnosis of the metrics it  *)
(* carried, and the rules that raise an alert.                             *)
(*                                                                         *)
(* A reply to SNMP says whether the three gets succeeded, which of the two *)
(* walks did, and the interfaces as the agent lists them.  The transport   *)
(* of RouterOS is a stub that raises.  poll_snmp_v2c asks for no RF        *)
(* metric; a poller given to select_adapter may answer with some.          *)
(***************************************************************************)
EXTENDS WirelessHealth, FiniteSets

CONSTANT MaxInterfaces  \* bound: interfaces of a reply

ASSUME InterfacesAssumption == MaxInterfaces \in Nat

RadioDevice ==
  [vendor: {"ubiquiti", "mikrotik", "tplink", "cambium", "other"},
   adapter: {"snmp_v2c", "snmp_v3", "mikrotik_routeros", "tplink_cpe", "ubiquiti_airmax",
             "ssh_routeros", "uisp_api", "manual_only"}]

\* user and secret: whether the profile has them.
NoCredential == [type |-> "none", user |-> FALSE, secret |-> FALSE]

Credential ==
  {NoCredential} \cup
  [type: {"snmp_v2c", "snmp_v3", "api_token", "routeros"}, user: BOOLEAN, secret: BOOLEAN]

\* up: its ifOperStatus is 1.
Interface == [named: BOOLEAN, up: BOOLEAN]

\* mibs: the poller's snmpwalk has the MIBs loaded and prints names for the numbers.
Reply ==
  [ok: BOOLEAN, names: BOOLEAN, statuses: BOOLEAN, mibs: BOOLEAN,
   interfaces: UNION {[1..n -> Interface] : n \in 0..MaxInterfaces}]

-----------------------------------------------------------------------------
(* Selection.                                                              *)

IsUbiquiti(r) == r.vendor = "ubiquiti" \/ r.adapter \in {"uisp_api", "ubiquiti_airmax"}
IsTPLink(r) == r.vendor = "tplink" \/ r.adapter = "tplink_cpe"
IsMikroTik(r) == r.vendor = "mikrotik" \/ r.adapter \in {"ssh_routeros", "mikrotik_routeros"}

\* select_adapter: the type of the credential comes before the radio's own.
SelectAdapter(r, c) ==
  CASE c.type = "routeros" -> "mikrotik_routeros"
    [] c.type = "snmp_v2c" -> IF IsUbiquiti(r) THEN "ubiquiti_airmax"
                              ELSE IF IsTPLink(r) THEN "tplink_cpe" ELSE "generic_snmp"
    [] OTHER -> IF r.adapter = "snmp_v2c" THEN "generic_snmp"
                ELSE IF IsMikroTik(r) THEN "mikrotik_routeros"
                ELSE IF IsUbiquiti(r) THEN "ubiquiti_airmax"
                ELSE IF IsTPLink(r) THEN "tplink_cpe"
                ELSE IF r.vendor = "cambium" THEN "cambium" ELSE "generic_snmp"

-----------------------------------------------------------------------------
(* Health.                                                                 *)

\* RouterOSClient.run raises, whatever the command.
RouterOSRuns == FALSE

RouterOSConfigured(c) == c.user /\ c.secret

\* get_health, by the first command it runs
RouterOSHealthy(c) == RouterOSConfigured(c) /\ RouterOSRuns

\* The community: a radio of type snmp_v2c takes the secret of any credential for it.
Community(r, c) == c.secret /\ (c.type = "snmp_v2c" \/ r.adapter = "snmp_v2c")

\* The generic adapter, which TP-Link's and Ubiquiti's pass on
SnmpHealthy(r, c, reply) == Community(r, c) /\ reply.ok

\* CambiumAdapter is not implemented.
CambiumHealthy == FALSE

\* get_health finds no error.
Healthy(r, c, reply) ==
  CASE SelectAdapter(r, c) = "mikrotik_routeros" -> RouterOSHealthy(c)
    [] SelectAdapter(r, c) = "cambium" -> CambiumHealthy
    [] OTHER -> SnmpHealthy(r, c, reply)

-----------------------------------------------------------------------------
(* Interfaces.                                                             *)

(***************************************************************************)
(* A name and a status are paired by their places in the two walks.  A     *)
(* walk that fails leaves its column out, and _parse_walk leaves out empty *)
(* names: so many are listed, and they take as many of the statuses.       *)
(***************************************************************************)
Listed(reply) ==
  IF reply.names THEN Cardinality({i \in DOMAIN reply.interfaces : reply.interfaces[i].named})
  ELSE 0

\* _parse_value drops the type: of "INTEGER: 1" or, with MIBs, "INTEGER: up(1)".
ParsedStatus(reply, i) ==
  IF ~reply.interfaces[i].up THEN "other" ELSE IF reply.mibs THEN "up(1)" ELSE "1"

UpStatus == {"1", "up", "UP"}

\* get_interfaces has one whose status is known and none of UpStatus.
InterfaceDown(reply) ==
  /\ reply.statuses
  /\ \E i \in DOMAIN reply.interfaces :
       i <= Listed(reply) /\ ParsedStatus(reply, i) \notin UpStatus

-----------------------------------------------------------------------------
(* Diagnosis.                                                              *)

RF == {"rssi", "snr", "noise", "ccq"}

\* The metrics an adapter takes from its poller's answer, if they are there
TPLinkCarries == RF \cup {"tx", "rx"}
RouterOSCarries == RF \cup {"tx", "rx"}
UbiquitiCarries == Metric

\* The metrics that are known of x: WirelessMetricsSnapshot
Snapshot(x, known) == [k \in Metric |-> IF k \in known THEN x[k] ELSE Unknown]

HasEnoughRF(x) == Cardinality({k \in RF : x[k] # Unknown}) >= 2

\* mutant: Degraded is alerted too
HealthDegradedEarly(x) == HasEnoughRF(x) /\ Status(Clamp(Sum(Bands(x)))) >= 3

\* diagnose_wireless_snapshot is not partial, and its severity is high or critical.
HealthDegraded(x) == HasEnoughRF(x) /\ Status(Clamp(Sum(Bands(x)))) >= 4

-----------------------------------------------------------------------------
\* poll_radio_device: the rules that raise an alert, when the adapter's metrics are x.
Rules(r, c, reply, x) ==
  LET adapter == SelectAdapter(r, c)
      healthy == Healthy(r, c, reply)
  IN   (IF healthy THEN {}
        ELSE {IF adapter = "generic_snmp" THEN "snmp_unreachable" ELSE "connection_failure"})
  \cup (IF healthy /\ InterfaceDown(reply) THEN {"interface_down"} ELSE {})
  \cup (IF HealthDegraded(x) THEN {"wireless_health_degraded"} ELSE {})
  \cup (IF ~HasEnoughRF(x) /\ adapter \in {"tplink_cpe", "ubiquiti_airmax"} /\ Community(r, c)
        THEN {"missing_wireless_metrics"} ELSE {})

-----------------------------------------------------------------------------
(* Properties.                                                             *)

\* A poll with the transports as they are, which carry no RF metric, raises nothing.
Silent(r, c, reply) == Rules(r, c, reply, Nothing) = {}

(***************************************************************************)
(* A silent poll means something only of the wire: it is an SNMP poll of   *)
(* the generic adapter that was answered, and if both walks were too and   *)
(* every interface has a name, all are up.  (An interface without a name   *)
(* shifts the others' statuses and hides the last one.)                    *)
(***************************************************************************)
SilenceMeansUp ==
  \A r \in RadioDevice, c \in Credential, reply \in Reply :
    Silent(r, c, reply) =>
      /\ SelectAdapter(r, c) = "generic_snmp" /\ c.secret /\ reply.ok
      /\ reply.names /\ reply.statuses =>
           \/ \E i \in DOMAIN reply.interfaces : ~reply.interfaces[i].named
           \/ \A i \in DOMAIN reply.interfaces : reply.interfaces[i].up

(***************************************************************************)
(* An interface alert has an interface that is not up, as long as the      *)
(* poller prints numbers.  Where it has the MIBs loaded the alert tells    *)
(* nothing: no listed status is taken for up, and an answered poll raises  *)
(* it whenever an interface is listed.                                     *)
(***************************************************************************)
AlertMeansDown ==
  \A r \in RadioDevice, c \in Credential, reply \in Reply :
    LET raised == "interface_down" \in Rules(r, c, reply, Nothing)
    IN /\ raised => reply.mibs \/ \E i \in DOMAIN reply.interfaces : ~reply.interfaces[i].up
       /\ reply.mibs /\ reply.statuses /\ Healthy(r, c, reply) =>
            (raised <=> \E i \in DOMAIN reply.interfaces : i <= Listed(reply))

(***************************************************************************)
(* What an adapter measures is judged no worse than what a technician      *)
(* measures: whichever RF metrics of the link a poll knows, it alerts only *)
(* where the field measurement alerts too.  And it is blind on two:        *)
(* has_enough_rf lets them be diagnosed, but without loss and latency no   *)
(* values of them alert.                                                   *)
(***************************************************************************)
PollAlertsAreMeasured ==
  \A carried \in {TPLinkCarries, RouterOSCarries, UbiquitiCarries}, known \in SUBSET RF :
    HealthDegraded(Snapshot(m, known \cup (carried \ RF))) =>
      /\ diagnosis.alerts
      /\ {"loss", "latency"} \cap carried = {} => Cardinality(known) > 2

\* A poll of a radio and a measurement of its link do not contradict each other.
RadioPollTells == SilenceMeansUp /\ AlertMeansDown /\ PollAlertsAreMeasured
=============================================================================
