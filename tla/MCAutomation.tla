----------------------------- MODULE MCAutomation -----------------------------
(* Automation for two requests, three rules, one indicator and four playbooks. *)
EXTENDS Automation, TLC

CONSTANTS r1, r2, failed, ssh, evil, engine

ThreatEngineValue == {engine}

WordValue == {failed, ssh, evil, engine, Malformed}

\* A line that says a lot and one that says it in its metadata only.
LogValue ==
  { [message |-> {failed, ssh}, source |-> {ssh}, metadata |-> {}],
    [message |-> {ssh}, source |-> {}, metadata |-> {evil}] }

\* One rule whose severity is no AlertSeverity.
RuleValue ==
  { [target_field |-> "message", condition |-> "contains", pattern |-> failed, severity |-> "high"],
    [target_field |-> "source", condition |-> "equals", pattern |-> ssh, severity |-> "other"],
    [target_field |-> "message", condition |-> "regex", pattern |-> ssh, severity |-> "info"],
    [target_field |-> "metadata", condition |-> "regex", pattern |-> Malformed, severity |-> "low"] }

\* Two that escalate a high alert, one for critical threats, one that escalates on info.
PlaybookValue ==
  { [trigger_on_severity |-> "high", trigger_on_source |-> None, action_type |-> "create_incident"],
    [trigger_on_severity |-> "high", trigger_on_source |-> engine, action_type |-> "create_incident"],
    [trigger_on_severity |-> "critical", trigger_on_source |-> engine, action_type |-> "isolate_asset"],
    [trigger_on_severity |-> "info", trigger_on_source |-> None, action_type |-> "create_incident"] }

Symmetry == Permutations({r1, r2})
=============================================================================
