# TLA+ models of NetSentinel-AI

NetSentinel-AI is a network and wireless monitoring product: a FastAPI backend over PostgreSQL
(`src/backend/app`), a Next.js dashboard (`src/frontend`), an Electron shell
(`src/desktop-client`), an edge agent that runs at a remote site (`src/edge-agent`) and
deployment files. This directory holds TLA+ models of the backend's state machines, the TLC
configurations that check them and TLAPS proofs about them. Paths below are relative to
`src/backend/app/` unless they start with `src/`.

Run a model with `tlc -workers 2 -config X.cfg MCX.tla`, a proof with `tlapm XProofs.tla`.
`PROJECT.json` names, for every definition that models code, the lines it models, and for every
property one mutated definition that breaks it.

## 1. Inventory

### How the parts meet

Every HTTP handler gets one SQLAlchemy session from `database.get_db` (`database.py:29-39`): the
handler runs, then the session commits; an exception rolls it back and is re-raised. Nothing else
is shared between requests except the tables, the process-global dict of the rate limiter and the
connection pool (10 + 20 connections). PostgreSQL runs at READ COMMITTED. This gives the semantics
all concurrent models here use:

* a SELECT locks nothing, so between a handler's first SELECT and its flush any other handler may
  commit (no row is read `FOR UPDATE`, no table has a version column);
* an UPDATE writes only the columns whose value differs from the loaded one, and waits for, then
  holds, the row's lock until the commit;
* a query flushes pending changes first (autoflush), so a handler that queries after changing a
  row holds that row's lock during the query;
* a JSON column is compared with the loaded value: a list changed in place has no net change and is
  not written;
* `created_at` is `now()`, the instant the transaction *began*.

| component | state | operations | what is hard, and what makes it correct |
|---|---|---|---|
| Alert and incident workflow (`routers/alerts.py`, `routers/incidents.py`) | `alerts`, `incidents` rows with JSON history, timeline, notes and tasks; `activity_events` | acknowledge, escalate, resolve, patch, delete, create incident from alert; create, patch, assign, note, event, task, link, resolve, delete incident | handlers interleave between SELECT and UPDATE; three handlers write several rows under locks and can deadlock; a failed flush must leave nothing; no column a handler does not assign may change; audit entries are lost to overlapping requests, and an alert's to the detectors that replace its metadata |
| Detection and deduplication (`services/polling.py`, `services/telemetry_processor.py`, `routers/syslog.py`, `routers/field_measurements.py`) | `alerts` rows by `dedupe_key`, device rows | poll asset, poll radio, ingest telemetry, ingest syslog, field measurement, operator's changes | the key is not unique; check-then-insert is protected only by the device's row lock, where one is taken; alerts must not multiply, counts must add up, an offline device must have its alert |
| Rate limiter (`main.py`) | `_request_log`, one deque of stamps per client | one request | sliding window with a lazily popped deque; boundary of the window; 429 must be justified |
| Live event stream (`routers/events.py`, `services/activity.py`) | `last_seen` and a batch per open stream; `activity_events` | poll, send, disconnect, reconnect; writers' begin, commit, roll back | stamps are not commit order; the limit may cut a group with one stamp; a client may vanish in the middle of a batch |
| Edge agents (`routers/agents.py`, `ingestion/telemetry.py`) | `edge_agents` rows: token hash, status, last seen, revoked at | register, heartbeat, telemetry, revoke, rotate | the token and revocation are checked on a row loaded earlier; a revocation must stick whatever overlaps it |
| Wireless health (`services/wireless_health.py`, `services/alert_engine.py`) | none (pure), result stored with the measurement | diagnose a measurement, raise its alerts | seven bands added to one score; two independent judgements of one measurement must not contradict each other |
| Root-cause analysis (`services/rca_engine.py`) | none (pure) | score a measurement, name probable causes | a third set of limits for the same metrics, which must not contradict the other two |
| Radio devices and adapters (`services/polling.py`, `services/vendor_adapters.py`, `adapters/`, `services/snmp.py`) | `radio_devices`, poll results | choose an adapter, ask health, interfaces and metrics, raise alerts | adapter by credential or by radio; columns of two walks paired by place, statuses compared as printed; few metrics are diagnosed, too few must not pass for good |
| Telemetry ingestion (`ingestion/telemetry.py`) | `assets` columns, alerts, activity events | one batch | one rejected payload rolls back the batch; clocks of agents differ |
| Asset monitoring (`services/polling.py`, `services/asset_status.py`, `services/scheduled_polling.py`, `routers/assets.py`) | `assets`: status, last seen, last polled, risk | poll, poll all, telemetry, CRUD, shown status | status is derived from stamps that may go back; the stale marker is never called by the application |
| Accounts and access control (`routers/organizations.py`, `routers/sites.py`, `dependencies.py`, `services/access_control.py`) | `organizations`, `users`, `sites` | create and delete organization, create, rename and delete site; check of membership | deleting detaches users, foreign keys may forbid it; the last member may go |
| First-run setup (`routers/setup.py`) and demo seed (`seed.py`) | `organizations`, `users`, `sites` and the demo rows | status, create the administrator, seed | check-then-insert under unique indexes; status and first-run ask different questions; the seed looks for parts by name |
| Network discovery (`routers/discovery.py`, `services/discovery_service.py`) | `discovery_scans`, `discovery_hosts`, `assets` | start scan, scan, list hosts, import | the answer is made inside the transaction, and cannot be made |
| Syslog profiles (`routers/syslog.py`, `services/syslog_profiles/fortinet.py`) | `log_entries`, alerts, activity events | ingest a message: classify, store, alert or merge | first branch that fits decides; severity, level and alerting are decided apart; repetitions merge into the first one's alert |
| Response and threat engines (`response_engine.py`, `threat_engine.py`, `routers/logs.py`) | alerts, incidents, log entries | judge a log by rules and indicators, raise alerts, execute playbooks | the log is committed first; a failure anywhere later must leave alerts, incidents and records of actions whole or absent |
| Links, hold-down rules, AI assistant, credentials, dashboards | their tables | CRUD and derived views | mostly one read or one write per request |
| Background worker (`worker/`) | none | placeholders that log | no state to model |
| Edge agent process (`src/edge-agent`) | none persisted | poll, push, sleep | a failed push is not repeated |
| Frontend, desktop client, deployment, tools | client state | views, installers | no protocol of its own |

`PROJECT.json` lists every component with what is and is not modelled, and under "hazards" each
place where an interleaving, an order, a partial failure, a boundary or a stale value could bite,
with the properties that watch it or the reason none does yet.

## 2. What is modelled

### AlertWorkflow — requests over alerts and incidents

`alerts`, `incidents` are the committed tables, `activity` the committed activity events, `req[r]`
what the session of request `r` holds (call, loaded rows, linked alerts as selected), `locked[r]`
the row locks of its transaction, `log` the requests in commit order. A request does `Load` (the
SELECT with the 404, 409 and `"created": False` answers), then its handler's write. A handler that
writes one row takes its lock and commits in one step, since no other session can tell; the three
that write several rows — `link_alert_to_incident`, `resolve_incident`, `delete_incident` — hold
locks between two steps, so waiting, lock cycles of any length (`InLockCycle`, `DeadlockVictim`:
PostgreSQL fails one of the transactions) and rows deleted in between (`FlushFails`) occur. `Update` is the ORM's UPDATE of
changed columns. JSON lists are sets of the requests that appended; an incident created by a
request is named by it.

Two other writers reach into these rows. The history of an alert is a key of its `source_metadata`,
which a field measurement (`routers/field_measurements.py:93`) and a radio poll
(`services/polling.py:49`) replace as a whole when they count the alert again: `CountOccurrence`,
with the history as its only column. (A metadata that held no history may equal the new one, and is
then not written.) The other detectors leave the metadata as it is in the table: the syslog
router changes the loaded dict in place (`routers/syslog.py:175-178`), which is no net change. A PATCH writes one column;
its `incident_id` is text, never equal to the loaded UUID, and so always written (`Compared`); one
with no field, or with a status no `AlertStatus` has, changes nothing. `delete_alert` fails if a
recorded response action names the alert (`models/automation.py:65`, a foreign key without
ON DELETE): a choice of the environment here, since the actions are in Automation.

Checked (`alert_workflow`: 2 alerts, 1 incident that exists from the start, 3 requests with any of
the 17 calls each):
`AllOrNothing` (whatever a request leaves in any table, it leaves only if it committed,
including the row locks, which belong to open transactions and have one holder),
`AuditLossNeedsOverwrite` (an audit entry is missing only if a request of the same row that had
*read* before committed after, or, of an alert, if a detector counted it again afterwards; operators'
requests that follow one another lose nothing), `OtherColumnsSurvive` (a commit of a stale session changes no
column its handler does not assign), `ResolutionCoversLinkedAlerts` (when an incident's resolution
commits, an unresolved alert linked to it was put there by a PATCH, an acknowledge or an escalate
that committed since the resolution began — never by `link_alert_to_incident`, which the lock on
the incident's row orders), `ReopenedOnlyByOverlap` (acknowledge and escalate refuse a resolved
alert as they loaded it: they reopen one only if it was resolved after they had looked).

Three requests are the smallest number with which two overlapping requests race over what a third
one left; two alerts are needed for a partial resolution, one incident for all contention. The alerts
start as raised, as patched onto the incident, or as linked to it (`Raised`).

### AlertDedup — detectors that look for an alert before they raise one

One detection is a session: the device's row is loaded, the device is pinged (or the payload
read), then the pending UPDATE is flushed and the alert selected by key (`SelectAlert`), then the
alert is counted or inserted and the session commits (`CommitDetection`). What keeps two sessions
of one device apart is the flush: `WritesDevice` says when it writes the device's row at all —
always for the poll of an asset and of a radio that is reached, which store the time of the poll
(`SerialKeys`), and where the answer differs from the loaded one; perhaps not for a telemetry payload
that repeats the stamp and the agent of the last one (`services/telemetry_processor.py:52-60`) or a
radio that was offline and stays offline. Both outcomes of these are explored. `ActiveStatus` is the set of statuses each SELECT takes for active; the measurement's
SELECT, in the POST and the PATCH of a measurement, uses `scalar_one_or_none` and fails on two rows
(`MeasurementFails`). The status "resolved" also stands for "dismissed": no SELECT tells them apart.
Operators move an alert to another status (`OperatorMoves`) or delete it (`DeleteAlert`); the UPDATE of a
detection that had found a deleted alert matches no row and fails the session (`DetectionFails`). A
deleted alert keeps its place in `alerts`, as history.

Checked (`alert_dedup`: one device of each kind, 3 sessions, 3 detections, 3 operator changes or
deletions): `DuplicatesAreBounded` (at most one active alert per serial key; for other keys, those of
telemetry among them, at most one per concurrent session), `OccurrencesCountDetections` (the counts of
a serial key's alerts, deleted ones as they stood, add up to its committed detections, others never
exceed them), `DetectionLeavesActiveAlert` (a committed detection is not absorbed by a closed alert
unless an operator moved or deleted the row it had selected) and `OfflineDeviceHasAlert` (a device
stored as offline has an alert that says so, unless an operator deleted one). Three sessions let two
race while a third keeps the lock or counts on top of them, and are what the bound of the keys without a
lock is compared with; three changes let an operator close an alert, bring it back and delete it.

`AtomicUpsert` is what the detectors promise of a key: a detection is one step, which counts one
more occurrence if an alert of the key is active and else inserts one; operators close, reopen and
delete alerts in between. `DetectionsAreAtomic` (`INSTANCE AtomicUpsert WITH Key <- SerialKeys, ...`)
says that AlertDedup implements it for the keys of an asset's polls and of a reached radio, whatever
overlaps. The detection takes effect at its SELECT, since the lock taken by the flush before it keeps
every other detection of the key out until the commit: the mapping counts a session that has
selected as if it had committed, and one whose alert is deleted under it as undone.
The other keys do not implement it: their concurrent detections may lose increments and insert twice.
All five are **proved for every set of devices and sessions**.

### RateLimiter — the middleware of main.py

The middleware awaits nothing between reading the clock and deciding, so a request is one step
(`ApiRequest`: pop stale stamps, then `Admit` or `Reject`). `admitted` and `rejected` are history
variables. Checked (`rate_limiter`: 2 clients, window 2, limit 2, clock to 5) and **proved for
every window, limit and set of clients**: `WindowsAreLimited`, `RejectionsAreJustified` (and, proved
only, the strengthening `BucketRemembersTheWindow`). `SlidingWindow` is the abstract specification:
a limiter that forgets nothing and passes a request on exactly if fewer than `MaxRequests` are in
the window that ends with it. `ImplementsSlidingWindow` (`INSTANCE SlidingWindow WITH passed <- admitted, refused <- rejected`,
the deques hidden) says that the lazily popped deques decide as it does; it is checked and **proved**. The deque of
another client is never touched, so two clients suffice; time 5 passes two full windows with stamps
exactly a window apart.

### EventStream — server-sent events

Writers begin (their events get that stamp), commit or roll back; a stream polls for stamps newer
than `last_seen`, sends its batch event by event and may be disconnected at any point. Checked
(`event_stream`: 1 client, 3 transactions of 1 or 2 events, limit 2, clock to 2):
`SentOnceInOrder` (over any number of reconnections a client is shown no event twice, none out of
stamp order and none uncommitted), `MissingHasCause` (an event the connection passed over was
either committed after the stream had gone past its stamp, or parted by the limit from one with its
stamp), and the liveness property `StreamsAdvance` (a connected stream passes every committed newer
event). Streams share nothing, so one client is
enough; three transactions and limit 2 fill one batch and leave some behind.

The two invariants are **proved for every set
of clients and transactions, every limit and clock**.

Fairness: weak fairness of `Poll` and `Send` per stream. The generator is a coroutine that
`asyncio.sleep` wakes after two seconds, and the event loop runs every ready coroutine; a step
stays enabled until it is taken unless the client goes away. No fairness is assumed of clients,
writers or the clock.

### EdgeAgents — registration, authentication, revocation, rotation

`agents` is the table, a token is named by the request that generated it, `row[r]` is what request
`r` loaded, `began` and `rank` place its SELECT and its commit among the commits. The legacy
ingest path (header `X-Agent-Id`, no token) drops its payload and is not part of the model.
Checked (`edge_agents`: 1 agent, 3 requests, clock to 2): `AcceptedWasAuthorised` (accepted only
with the token that was the agent's own when the row was loaded, and not revoked then),
`LatestTokenIsStored`, `RevocationSticks`, `RowAndFeedTellStatus` (a revoked agent shows offline,
and row and activity feed agree, unless requests overlapped), `SeenGoesBackOnlyOnOverlap`. All five and
the types are **proved for every set of agents and requests**. Rows of different agents never
meet in one request, so one agent suffices for TLC.

### WirelessHealth, RootCause, RadioPoll — three judgements of one link

The score, status, causes, field checks and threshold alerts of a measurement are operators over
seven bands (WirelessHealth); the state is the link's last measurement, changed one metric at a time
through a value at the edge of every band. RootCause adds `analyze_measurement`, with its own
limits: points taken from 100, overall health, and six patterns of causes. RadioPoll is what
`poll_radio_device` makes of a reachable radio: `SelectAdapter`, whether the adapter's transport
answers (`Healthy`), the interfaces the two SNMP walks leave (`Listed`, `InterfaceDown`), the
diagnosis of the metrics an adapter carries, and `Rules`, the alerts raised.

Three facts of the code shape RadioPoll. `RouterOSClient.run` is a stub that raises, and the Cambium
adapter is not implemented: such a radio is always reported as failed. `poll_snmp_v2c` asks for no
RF metric; only a poller handed to `select_adapter` answers with some. Names and statuses of
interfaces are paired by place, and `_parse_walk` drops empty names, so an interface without a name
shifts the statuses of the others.

Checked together over the same measurements (`wireless_health`), and all **proved for every integer
measurement** and any number of interfaces: an
alert needs two bad metrics (`AlertNeedsTwoFaults`) and always calls for a field check; a Critical
link also crosses a threshold of the other engine (`CriticalPassesThreshold`); no repair of a metric
worsens score or status (`RepairsNeverHurt`); the root-cause engine calls no Critical link healthy
without naming a cause, none it calls critical is excellent, and none it calls unhealthy is let pass
by the thresholds (`EnginesAgree`); a poll that raises nothing was an answered SNMP poll of the
generic adapter with every interface up, provided both walks answered and every interface is named;
an interface alert has an interface that is not up, unless the poller has MIBs loaded and every status
reads like `up(1)`, which `services/polling.py:129` does not take for up (`AlertMeansDown`);
and what a poll alerts on the field measurement of the same link alerts on, with more than two RF
metrics known where loss and latency are not (`RadioPollTells`). That a bad status names a cause
(`FaultyIsExplained`) is proved too, and in no run.

### AssetMonitoring — polls, telemetry and what is shown of an asset

`assets` holds status and `last_seen` of each row; `session[s]` is a request with its rows as
loaded (`view`), the columns it wrote (`dirty`), its row locks and what is left to do. A bulk poll
loads all its rows, then per asset waits for the answer (`Ping`) and flushes (`Store`); a batch
finds, checks and flushes payload by payload (`TakePayload`, `Store`) until `CommitReports` or
`RejectBatch`. Edits and deletions load and write in two steps. Rows disappear between load and
flush (`FlushFails`), two sessions can wait for each other (`DeadlockVictim`). `Shown` is
`calculate_asset_status` for the worst severity of the asset's active alerts. Assets exist from the
start, in the state `create_asset` leaves them in. A payload reads its row afresh (`TakePayload`): the
session's identity map keeps only weak references, and no variable of the batch holds the asset of
the payload before once it is flushed. A row its own session has changed is locked until the commit.

Checked (`asset_monitoring`: 2 assets, 2 requests at a time, at most 2 payloads or assets each,
clock to 2, `STALE_AFTER` 0 and skew 1 tick): `StatusIsLastVerdict` (the status is what the last
writer meant, although its UPDATE leaves out what equals the row it loaded, unless another session
wrote the row since), `SilentAssetGoesDark` (an asset is shown offline once no report stamped it for
`STALE_AFTER` plus the skew, whatever its alerts; stamps written by operators excepted) and
`EveryRequestEnds`. The agents' clocks are 1 or 2 ticks ahead: at the edge of the window and just
outside; clocks behind the server's only make an asset go dark sooner. Two payloads on two assets
make the lock cycle, one tick past staleness plus skew is the first instant `SilentAssetGoesDark`
speaks of.

Fairness: weak fairness of `Proceed(s)`, the next step of a session. Pings have a timeout of two
seconds, the event loop runs whoever is ready, and PostgreSQL ends lock cycles; no client is
assumed to send anything.

### Automation — logs and alerts judged, playbooks executed

`rules` and `iocs` are the committed detection rules and indicators, which grow at any time;
`logs`, `alerts`, `incidents` and `actions` are the other tables, `session[r]` holds what request
`r` has flushed. `POST /logs` is `CreateLogEntry` (which commits), `SelectRules`, `SelectIocs`, one
`EvaluateAlert` per alert and `CommitResponse`; `POST /alerts` enters at `EvaluateAlert`. A text is
the set of words in it; of `_evaluate_rule` that keeps the target field, the three conditions, the
empty text and the malformed expression. Three failures are the code's own: a hit rule whose
severity is no `AlertSeverity` (`threat_engine.py:44`), a playbook with a source trigger that meets
an alert without source (`response_engine.py:48`), and an incident with severity `info`
(`response_engine.py:98`): the last is caught, but its flush has rolled the session back, so
recording it as "failed" raises and the alert is lost too. `CommitResponse` answers 500 to an
operator whose alert a playbook linked to an incident: the UPDATE expired `updated_at`
(`models/base.py:31`, no `eager_defaults`), which cannot be loaded while the response is made.

Checked (`automation`: 2 requests, 2 logs, 4 rules, 1 indicator, 4 playbooks, any request lost at
any step): `NothingHalfDone` (a committed alert has one record per matching playbook and its one
incident, and no incident stands alone), `KnownThreatsAreRaised` (a log answered with success has
an alert for everything that was known before it), `ErrorLeavesOnlyTheLog` (what a client that is
told of an error and retries can duplicate). All three are **proved for
any set of each and finitely many playbooks**. Each of the playbooks, rules and logs is there for one
branch: two that escalate the same alert, one that raises, one that fails in the flush. Requests
meet only through the rules, so two are enough.

### Onboarding — first run, seed, organizations, sites, scans

`orgs`, `users`, `sites`, `scans` are committed tables; `session[r]` is what request or seed run `r`
has read and flushed. `POST /setup/first-run` is `FirstRun`, `CountUsers`, `InsertOrg`, `InsertUser`,
`Commit`; a seed looks for each part and inserts what it misses (`Seed`, `FindAdmin`, `FindSite`,
`FindAssets`, `InsertAssets`, `InsertAlerts`). A unique index makes an insert wait for another
transaction with the same value and fails once that one has committed (`NameIsFree`, `EmailIsFree`);
a foreign key makes `DeleteOrganization` wait (`Referred`) or fail (`Pinned`). Requests may stop at
any step (`Crash`). What operators do to sites and their assets are single statements; a site may be
given the name the seed looks for, or lose it (`RenameSite`). A deletion of an organization cascades to
the sites it has loaded (`seen`) and fails on others. "ok" means committed, whether or not the answer
to the COMMIT reaches anybody.

`AnswerUnserializable` is the code's: the response models of organizations and scans declare
`id: str` (`schemas/organization.py:24`, `schemas/discovery.py:57`) where the rows have UUIDs, the
answer is made inside the session, and the exception rolls it back. So `POST /organizations/` and
`POST /discovery/scan` always answer 500 and store nothing, and an import always answers 404; the
hosts it would import are not modelled.

Checked (`onboarding`: 3 requests, 1 more site, 2 names, 2 addresses): `NothingHalfSetUp` (what is
refused, fails or stops leaves no row, and no organization appears without an administrator),
`SecondAdminNeedsOverlap` (two first-runs succeed only if they overlapped, whatever is deleted
between them), `UnmanagedNeedsDeletion` (an initialized system to which nobody belongs comes only of
deleting an organization), `LockoutNeedsSeed` (with users but no organization the wizard opens and
refuses; only a seed, or a first-run that had looked before, ends this) and the liveness property
`EveryRequestEnds`. Three requests are needed for the lockout: one sets up, one deletes, one is
refused or seeds.

Fairness: weak fairness of `Step(r)`, the next statement of a request. No request is assumed to be
made; the pings of a scan have timeouts; a lock is held only by a request that goes on or crashes.

### Syslog — one message after the other

`Ingest` is `POST /syslog/ingest` as a whole: classification (`Category`, whose first branch that
fits decides), `Severity`, `ShouldAlert`, `LogLevel`, the key, the log entry, the alert raised or
counted, and the feed. A message is the set of words in it that some pattern looks for, and a
FortiGate's type, subtype and level; of any other device's message
the words among its first 80 characters make the key (`head`). Where the router appends to the evidence inside the loaded
metadata, and sets `alert_created` in that of its log, nothing is written, and nothing is in the
model. Requests are atomic here; what overlapping ones do to alerts is AlertDedup. The specification is
`SyslogSpec`, since JudgementProofs extends this module and the wireless ones.

Checked (`syslog`: 1 source, 2 messages, FortiGate messages of up to 3 words, others of up to 2):
`SevereIsAlerted` (a log stored as an error or worse has an alert, and no FortiGate alert rests on
informational logs alone), `ThreatMissedOnlyAsLogin` (an attack or malware event without an alert
was filed as a successful login) and `UnderstatedOnlyByLevel` (an alert understates a log merged
into it only where the severity is the sender's level). Two messages make a merge and three words
reach every pair of conflicting branches plus the word that turns a login into a failure; sources
share no key, so one is enough.

### Runs

| run | module, cfg | states | shows |
|---|---|---|---|
| `alert_workflow` | MCAlertWorkflow | 1.1 M | all handlers and the detectors that replace the metadata interleaved, three at a time |
| `task_update` (violated) | MCTaskUpdate.cfg | | a task update answered with success is not stored |
| `alert_dedup` | MCAlertDedup | 209 k | detectors and operators interleaved, and the atomic detection they implement |
| `rate_limiter` | MCRateLimiter | 218 k | the limiter at both boundaries of the window, and the window it implements |
| `event_stream` | MCEventStream | 173 k | delivery, order and progress of a stream |
| `stream_gap` (violated) | MCStreamGap.cfg | | an event is never streamed |
| `edge_agents` | MCEdgeAgents | 1.0 M | three overlapping requests on one agent |
| `automation` | MCAutomation | 369 k | logs and alerts judged while rules grow and requests fail |
| `asset_monitoring` | MCAssetMonitoring | 173 k | reports, edits and deletions interleaved, and what is shown |
| `wireless_health` | MCRootCause | 233 k | every combination of boundary values of the metrics, judged by three engines; every radio, credential and reply of up to `MaxInterfaces` = 2 interfaces |
| `onboarding` | MCOnboarding | 387 k | setup, seed and deletion overlapping and crashing |
| `syslog` | MCSyslog | 28 k | every pair of messages, and the alert they share |

Two interfaces are enough to pair a name with another's status and to hide the last one.

`CHECK_DEADLOCK FALSE` is set where the bounded model stops because its requests, detections or
clock are used up (AlertDedup, AssetMonitoring, Automation, EdgeAgents, EventStream,
Onboarding, Syslog). AlertWorkflow ends in an explicit `Finished` step and is checked for deadlock:
requests wait for one another's locks only in cycles that `DeadlockVictim` breaks. The clock of RateLimiter stops at `MaxTime` while requests
go on.

Symmetry is used for requests, alerts, sessions and clients, in runs without liveness properties.

### Where code and its own words disagree

* `routers/incidents.py:255-266` copies a list of tasks but not its dicts, so the ticked task has
  no net change and is not written although the timeline says it was (`task_update`).
* `routers/events.py:81` compares stamps of transaction starts; an event that becomes visible late
  is skipped for good (`stream_gap`).

What else the models show of the code, as part of properties that hold:

* an alert resolved after `acknowledge_alert` or `escalate_alert` had looked is moved back
  (`ReopenedOnlyByOverlap` names the overlap it takes);
* the next field measurement or radio poll that counts an alert again erases its lifecycle history,
  with no request overlapping (`AuditLossNeedsOverwrite`, `CountOccurrence`);
* a repeated or retried telemetry payload changes no column of its asset and takes no lock, so two of
  them can raise the same alert twice (`DuplicatesAreBounded`, `WritesDevice`);
* with the MIBs that `src/docs/NETWORK_TOOL_PROFILES.md:45` recommends, `snmpwalk` prints an
  interface that is up as `up(1)`, and the poll reports it down (`AlertMeansDown`);
* once two active alerts share a link's key, poor measurements of the link fail
  (`routers/field_measurements.py:83`, `MeasurementFails`);
* no scan and no organization made through the API is ever stored (`AnswerUnserializable`);
* deleting the last organization locks everybody out until the seed runs (`LockoutNeedsSeed`);
* a seed over a headquarters without assets fails half-way, on an unbound `branch_site`, and leaves
  nothing (`FindAssets`, `NothingHalfSetUp`);
* two RF metrics are enough for a poll to be diagnosed and never enough for it to alert
  (`PollAlertsAreMeasured`);
* a radio without a usable credential, or one of a vendor whose transport is a stub, is reported
  failed on every poll (`SilenceMeansUp`);
* an attack whose text mentions a VPN or, from a system log, an administrator is filed as a
  successful login (`ThreatMissedOnlyAsLogin`).

## 3. What is proved

All theorems are about the specifications TLC runs, for every value of their constants: any sets of
requests, devices, rows and messages, any window, limit and horizon of the clock. Each module's
invariant was checked by TLC on the run's instance before it was proved.

* `AlertWorkflowProofs` — three invariants, each built on the one before. `IInv` says that tables
  hold only what committed requests left (`TablesByCommitted`), what each open session has loaded
  (`Sessions`), and that a row lock belongs to one request and keeps its row (`Locks`); it gives
  `AllOrNothing` and `OtherColumnsSurvive`. `OverlapInv` adds what must have committed meanwhile if
  a loaded alert differs from the row (`ResolvedSinceRead`, `MovedSinceSelect`); it gives
  `ReopenedOnlyByOverlap` and `ResolutionCoversLinkedAlerts`. `AuditInv` adds why an entry can be
  missing from a list a request has loaded (`HistoryRead`, `TimelineRead`), a detector's overwrite
  among the reasons, and gives `AuditLossNeedsOverwrite`. What any of the requests that write one row may do to it at its commit is
  collected once (`CommitEffect`); the action properties follow from it. `LocksByOp` says which of
  the three requests that keep locks keeps what, and gives `DeadlockNeedsDeletion`: of two
  transactions, one of which waits for the other, exactly one deletes an incident, so alert, link
  and resolve requests never deadlock among themselves and every lock cycle has even length. This is
  of the endpoints of alerts and incidents: a detector is in the model with the one alert it
  replaces, while a poll that counts several alerts holds their locks together, and its device's.
* `AlertDedupProofs` — `IInv`: a session that has selected and found nothing
  is going to insert, so what is bounded is standing alerts and such sessions together (`Bounded`:
  the number of sessions, for a serial key 1 because of its row lock); an alert found has the key and is
  active unless an operator moved it (`Found`); a row stored as offline has its alert unless one was deleted. Finite
  cardinalities come from FiniteSetTheorems.
  `CountInv` adds what the counts rest on. No two sessions hold the row of one device (`OneLock`), so
  the count a session of a serial key has seen is still the count when it commits (`SeenIsCurrent`), and
  the occurrences of its alerts are exactly its detections (`Summed`). For other keys a
  session may have seen a count that others have since passed, or set back by committing a smaller
  one; so what is bounded by the detections is the alerts' counts together with all that open
  sessions have seen (`Reached`, `Accounted`). Counts are added up as the cardinality of a set of
  pairs (alert, occurrence), of which FiniteSetTheorems can speak where a fold over an operator is out
  of the prover's reach. It gives `OccurrencesCountDetections` and, action by action, the refinement
  `DetectionsAreAtomic`: `SelectAlert` of a serial key maps to `CountOccurrence` or `InsertAlert`, the
  commit to a stutter, the operator's change to `Close`, `Reopen` or `Delete`.
* `AssetMonitoringProofs` — `IInv`: the columns a session did not write are those of the committed
  row as long as nobody else has written it (`Synced`), a row it wrote is locked and no two sessions
  hold one lock (`Holds`, `OneLock`), a stamp it will write is at most the skew ahead (`Stamped`),
  and a committed `last_seen` at most the skew ahead of the last report (`SeenWhenHeard`).
* `OnboardingProofs` — `IInv` says of flushed rows what makes the committed ones safe: references
  point to organizations that cannot go away (`Referential`, `Flushed`), names and addresses are
  unique among committed and flushed rows (`UniqueNames`, `UniqueEmails`), and a first-run past its
  check has left behind nobody who had ended before it (`LookedFirst`). `NoCircularWait` and
  `NoDeadlock` are the safety half of `EveryRequestEnds`: `WaitsFor`, which negates the conditions of
  the statements that wait (`WaitingIsTheGuard`), leads from a transaction only to an open one of
  greater `Rank` (organization, user, demo radios, in which order all of them insert), so there is
  always one that waits for nobody. They rest on `AllHeldInOrder`: a transaction holds demo
  radios only past the last statement that waits, and a delete has inserted nothing.
* `EventStreamProofs` — `IInv`: what was sent lies behind the stream's position and the batch ahead
  of it, both in order and disjoint (`InPlace`); everything up to the end of the batch, not only up
  to the last event sent, was taken or has one of the two causes (`Explained`). The batch is an
  initial part of the sorted candidates because finitely many transactions have begun
  (`StampsPast`).
* `EdgeAgentsProofs` — `IInv` adds to the properties that ranks are places in the commit order
  (`Ranked`), that rows never vanish (`Present`) and that a request is authorised from the moment
  it loaded its row (`Authorised`): a later commit has a greater rank than the request's `began`
  and cannot change which token was current then. `FeedInv` adds that a row differs from what an
  open request loaded only if some request of that agent committed since (`ReadSince`).
* `AutomationProofs` — alerts, incidents and records are whole together wherever they are kept
  (`Whole`): in the tables, in a session, and for the one alert a step evaluates. Two such parts
  without a common alert join into a whole one (`WholePartsJoin`); they have none because an alert
  is named by its request and its cause (`Own`), so `EvaluateAlert` joins one alert to the session
  and `CommitResponse` the session to the tables. `Told` follows each threat known before a log
  through the two SELECTs to its alert. `SetToSeqLists` says that `SetToSeq` of a finite set has
  each member once.
* `JudgementProofs` — WirelessHealth: the stored diagnosis is the diagnosis of the stored
  measurement; the rest is arithmetic over the bands: the sum without a fault is at least 75
  (`NoFaultIsGood`), with one fault at least 60, and points fall as bands rise. RootCause: each
  metric's points taken by one engine bound those given by the other (`GivenForTaken`); a healthy
  score leaves room for few deductions, and without a named cause a weak signal has noise beside it
  (`UnexplainedSignal`). RadioPoll: a snapshot keeps a metric or makes it unknown, which is no
  worse, so it scores no less than the measurement; `NamedAreListed` (by cardinality of an
  interval) gives the interfaces for any bound, and `AlertHolds` what an interface alert means.
  Syslog: `SyslogInv` says that every log is the entry of a message and has an alert if that calls
  for one, and that every alert was raised by a message whose log is stored. The rest is the order
  of the branches (`Classified`, `LevelsFit`, `ThreatsFit`), that a key tells profile and category
  (`KeysTell`), and that outside `ByLevel` the category settles the severity (`SettledSeverity`).
  RateLimiter: the inductive invariant `LimiterInv` is `LimiterTypeOK /\ WindowsAreLimited /\
  RejectionsAreJustified /\ BucketRemembersTheWindow`. The last conjunct is the strengthening: the
  deque is exactly the tail of everything passed on, and what was popped left the window for good.
  With it, admitting with fewer than `MaxRequests` remembered stamps means the request
  `MaxRequests` places back is stale. `Refinement` maps each step to a step of SlidingWindow or a
  stutter: the stamps left in the deque are the requests in the window (`WindowIsCounted`). (The
  modules that JudgementProofs brings together name their specifications apart: `Spec` is
  WirelessHealth's, `SyslogSpec` and `LimiterSpec` the others'.)

### Assumptions

Each is an ASSUME of the module it is about and TLC evaluates it. Bounds of the models (clocks,
numbers of requests) are naturals. Apart from them: ids of different tables differ, as UUIDs do
(`IdAssumption`, `DeviceAssumption`, `OnboardingAssumption`); null, the missing row and the initial
stamp are no proper values (`NullAssumption`, `GoneAssumption`, `NameAssumption`); the assets table
and the sessions that run at once are finite (`AssetAssumption`, `SessionAssumption`), without which
"as many alerts as sessions" says nothing, and so are the playbooks, whose matches are recorded in a
sequence, while rules and indicators, rows of two tables, differ (`DataAssumption`); the limiter's and the stream's limits are positive, as
`main.py` and `routers/events.py` have them; PATCH bodies carry values their schemas accept
(`StatusAssumption`).

### What the proofs corrected

Five definitions did not survive their proof attempt although TLC had found nothing:

* `ResolutionCoversLinkedAlerts` did not allow for an alert that `link_alert_to_incident` moves to
  another incident, from which a second link brings it back while the resolution waits;
* `WritesDevice` was a CASE with overlapping conditions, of which TLC takes the first and TLA+ any;
* `EditAsset` could answer for an asset deleted meanwhile, which `db.refresh`
  (`routers/assets.py:180`) does not;
* `DeadlockVictim` of AlertWorkflow and of AssetMonitoring broke cycles of two transactions only,
  which is all that the instances can form; with four requests, two links and two deletes wait in
  a circle that PostgreSQL breaks and the model did not;
* Onboarding's `TypeOK` counted sets with Cardinality where uniqueness was meant, which says nothing
  of an infinite set.

### Only model-checked

* The liveness properties `StreamsAdvance` and `EveryRequestEnds` (of AssetMonitoring and of
  Onboarding): liveness under fairness and ENABLED are out of the prover's reach. Of Onboarding's the
  safety half, that transactions never wait in a circle, is proved (`NoDeadlock`). That of
  AssetMonitoring needs that in a finite set of waiting transactions some are in a cycle: an
  induction over finite sets, which the provers cannot instantiate.
* What recursive definitions compute for every input: the library's induction theorems take an
  operator as a parameter. No module with theorems uses RECURSIVE.

## 4. Not modelled, and why

Data that no property tells apart: wording, pagination, sorting for display, passwords and the
cryptography of tokens (a library compares them), JSON contents, the bytes of ping and SNMP
(answers chosen by the environment). Outside Onboarding every model is of one organization, since
every query filters by one. Values of `last_seen` and stamps are small integers; the database's
clock and the server's are one.

Code that changes nothing or that nothing calls: dashboards and system pages, the AI assistant
(they read and format), `mark_stale_assets`, `poll_org_assets`, `poll_org_radios`,
`DeterministicEngine` with its hold-down rules, and the legacy engines that only `seed_security.py`
drives, the background worker (placeholders without a job), the ping and lookup endpoints.

CRUD of one row per request, where no second step or table can come in between: wireless links,
hold-down rules, credentials, creation and deletion of radios, deletion of a measurement.

Code that cannot be reached: listing and importing the hosts of a scan (no scan is stored).

The edge agent pushes mocked values once, without retry, to a path the backend does not serve, and
keeps no state; the legacy ingest path (header `X-Agent-Id`) drops its payload. The frontend is
presentation (EventSource's reconnect is part of EventStream); the desktop client and deployment
files have no protocol of their own. The connection pool, which open streams can exhaust, and the
rejected-telemetry event that its own exception rolls back have no property.

## 5. Plan

Order: the workflow all users meet (AlertWorkflow), what feeds it (AlertDedup), what guards and
publishes it (RateLimiter, EdgeAgents, EventStream), the pure judgements (WirelessHealth, RootCause,
RadioPoll), what is known of assets (AssetMonitoring), what follows an alert (Automation), how an
installation comes about (Onboarding), what a firewall's message becomes (Syslog), the refinements
of the limiter and of the detectors, and the absence of deadlock in Onboarding — done. Left:

1. **DbPool** — streams that hold a connection for their life against a pool of thirty.
2. **AuditLog** — AlertWorkflow for one row as an implementation of a log whose entries are lost only
   to overwrites; `AuditLossNeedsOverwrite` states and proves it without the abstract module.
