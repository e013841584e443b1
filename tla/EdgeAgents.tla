------------------------------- MODULE EdgeAgents -------------------------------
(***************************************************************************)
(* Edge agents (routers/agents.py, models/edge_agent.py): registration,    *)
(* heartbeats, authenticated telemetry, revocation and token rotation over *)
(* the table edge_agents.                                                  *)
(*                                                                         *)
(* One request is one database session: it SELECTs the agent's row, checks *)
(* it, writes it and commits.  PostgreSQL runs at READ COMMITTED and no    *)
(* row is locked by the SELECT, so other requests may commit between the   *)
(* two.  A request writes one row only, so its flush and its commit are    *)
(* one step here.  The UPDATE carries only the columns whose value differs *)
(* from the loaded one.                                                    *)
(*                                                                         *)
(* A token is named by the request that generated it; token_hash and       *)
(* verify_agent_token compare names.  revoked_at is a flag.                *)
(***************************************************************************)
EXTENDS Integers

CONSTANTS
  Agent,       \* values of agent_uid
  Request,     \* HTTP requests; each runs one handler once
  Provisioned, \* the token of an agent that was registered before
  Gone,        \* the row does not exist
  NoCall,      \* the request has not arrived yet
  MaxTime      \* bound: the clock stops here

ASSUME NameAssumption == Provisioned \notin Request
ASSUME TimeAssumption == MaxTime \in Nat

AgentStatus == {"healthy", "degraded", "offline", "unknown"}

Token == Request \cup {Provisioned}

AgentRow == [token: Token, status: AgentStatus, last_seen: 0..MaxTime, revoked: BOOLEAN]

ASSUME GoneAssumption == Gone \notin AgentRow

\* data.status is free text: a heartbeat may carry a word that is no status.
HeartbeatCalls == [op: {"heartbeat"}, agent: Agent, token: Token,
                   status: AgentStatus \cup {"asleep"}]
TelemetryCalls == [op: {"telemetry"}, agent: Agent, token: Token]
OperatorCalls == [op: {"register", "revoke", "rotate"}, agent: Agent]

Calls == HeartbeatCalls \cup TelemetryCalls \cup OperatorCalls

VARIABLES
  now,     \* the clock
  agents,  \* the committed edge_agents rows
  pc,      \* where each request is
  call,    \* its handler and arguments
  row,     \* the agent's row as it loaded it
  arrived, \* the clock when it loaded it
  began,   \* how many requests had committed by then (history)
  rank,    \* its place among the committed requests, 0 before (history)
  commits, \* the number of committed requests (history)
  told     \* the status the agent's last activity event speaks of

vars == <<now, agents, pc, call, row, arrived, began, rank, commits, told>>

Phase == {"idle", "loaded", "ok", "refused", "failed"}

Init ==
  /\ now = 0
  /\ agents \in [Agent -> {Gone} \cup [token: {Provisioned}, status: {"unknown"},
                                       last_seen: {0}, revoked: {FALSE}]]
  /\ pc = [r \in Request |-> "idle"]
  /\ call = [r \in Request |-> NoCall]
  /\ row = [r \in Request |-> Gone]
  /\ arrived = [r \in Request |-> 0]
  /\ began = [r \in Request |-> 0]
  /\ rank = [r \in Request |-> 0]
  /\ commits = 0
  /\ told = [a \in Agent |-> "unknown"]

Tick ==
  /\ now < MaxTime
  /\ now' = now + 1
  /\ UNCHANGED <<agents, pc, call, row, arrived, began, rank, commits, told>>

-----------------------------------------------------------------------------
(* The SELECT and the answers given without writing.                       *)

\* mutant: revoked_at is not looked at
PassesWithoutRevocation(c, agent) == agent # Gone /\ agent.token = c.token

\* authenticate_agent
Passes(c, agent) == agent # Gone /\ agent.token = c.token /\ ~agent.revoked

\* 401, 403, 404 and 409
Refused(c, agent) ==
  \/ c.op \in {"heartbeat", "telemetry"} /\ ~Passes(c, agent)
  \/ c.op = "register" /\ agent # Gone
  \/ c.op = "revoke" /\ agent = Gone
  \/ c.op = "rotate" /\ (agent = Gone \/ agent.revoked)

\* EdgeAgentStatus(data.status) raises for a word that is no status.
Raises(c) == c.op = "heartbeat" /\ c.status \notin AgentStatus

Load(r, c) ==
  LET agent == agents[c.agent]
  IN /\ pc[r] = "idle"
     /\ pc' = [pc EXCEPT ![r] = IF Refused(c, agent) THEN "refused"
                                ELSE IF Raises(c) THEN "failed" ELSE "loaded"]
     /\ call' = [call EXCEPT ![r] = c]
     /\ row' = [row EXCEPT ![r] = agent]
     /\ arrived' = [arrived EXCEPT ![r] = now]
     /\ began' = [began EXCEPT ![r] = commits]
     /\ UNCHANGED <<now, agents, rank, commits, told>>

-----------------------------------------------------------------------------
(* The writes.                                                             *)

At(r, op) == pc[r] = "loaded" /\ call[r].op = op

Commit(r) ==
  /\ pc' = [pc EXCEPT ![r] = "ok"]
  /\ commits' = commits + 1
  /\ rank' = [rank EXCEPT ![r] = commits + 1]
  /\ UNCHANGED <<now, call, row, arrived, began>>

\* agent_uid is unique: of two registrations that saw no row, one fails.
Register(r) ==
  LET a == call[r].agent
  IN /\ At(r, "register")
     /\ agents[a] = Gone
     /\ agents' = [agents EXCEPT ![a] = [token |-> r, status |-> "unknown",
                                         last_seen |-> 0, revoked |-> FALSE]]
     /\ told' = [told EXCEPT ![a] = "unknown"]
     /\ Commit(r)

RegisterFails(r) ==
  /\ At(r, "register")
  /\ agents[call[r].agent] # Gone
  /\ pc' = [pc EXCEPT ![r] = "failed"]
  /\ UNCHANGED <<now, agents, call, row, arrived, began, rank, commits, told>>

\* mutant: the UPDATE carries every column of the loaded row
HeartbeatWritesRow(r, at) ==
  LET a == call[r].agent
      status == call[r].status
  IN /\ At(r, "heartbeat")
     /\ agents' = [agents EXCEPT ![a] = [row[r] EXCEPT !.last_seen = at, !.status = status]]
     /\ told' = [told EXCEPT ![a] = IF status # "healthy" \/ status # row[r].status
                                    THEN status ELSE @]
     /\ Commit(r)

\* mutant: an event for problems only
HeartbeatReportsProblems(r, at) ==
  LET a == call[r].agent
      status == call[r].status
  IN /\ At(r, "heartbeat")
     /\ agents' = [agents EXCEPT
          ![a].last_seen = IF at = row[r].last_seen THEN @ ELSE at,
          ![a].status = IF status = row[r].status THEN @ ELSE status]
     /\ told' = [told EXCEPT ![a] = IF status # "healthy" THEN status ELSE @]
     /\ Commit(r)

\* mutant: the device's own clock is stored
HeartbeatTrustsDevice(r, at) ==
  LET a == call[r].agent
      status == call[r].status
  IN /\ At(r, "heartbeat")
     /\ \E stamp \in 0..now :
          agents' = [agents EXCEPT
            ![a].last_seen = stamp,
            ![a].status = IF status = row[r].status THEN @ ELSE status]
     /\ told' = [told EXCEPT ![a] = status]
     /\ Commit(r)

\* at: datetime.now() of the handler, read between its SELECT and its flush
Heartbeat(r, at) ==
  LET a == call[r].agent
      status == call[r].status
  IN /\ At(r, "heartbeat")
     /\ agents' = [agents EXCEPT
          ![a].last_seen = IF at = row[r].last_seen THEN @ ELSE at,
          ![a].status = IF status = row[r].status THEN @ ELSE status]
     /\ told' = [told EXCEPT ![a] = IF status # "healthy" \/ status # row[r].status
                                    THEN status ELSE @]
     /\ Commit(r)

\* ingest_metrics of a batch its agent may send; what it stores is not kept here.
Telemetry(r) ==
  /\ At(r, "telemetry")
  /\ UNCHANGED <<agents, told>>
  /\ Commit(r)

Revoke(r) ==
  LET a == call[r].agent
  IN /\ At(r, "revoke")
     /\ agents' = [agents EXCEPT
          ![a].revoked = TRUE,
          ![a].status = IF row[r].status = "offline" THEN @ ELSE "offline"]
     /\ told' = [told EXCEPT ![a] = "offline"]
     /\ Commit(r)

\* mutant: the new token is answered but the column keeps the old one
RotateStoresNothing(r) ==
  /\ At(r, "rotate")
  /\ UNCHANGED <<agents, told>>
  /\ Commit(r)

Rotate(r) ==
  /\ At(r, "rotate")
  /\ agents' = [agents EXCEPT ![call[r].agent].token = r]
  /\ UNCHANGED told
  /\ Commit(r)

Next ==
  \/ Tick
  \/ \E r \in Request :
       \/ \E c \in Calls : Load(r, c)
       \/ Register(r)
       \/ RegisterFails(r)
       \/ \E at \in arrived[r]..now : Heartbeat(r, at)
       \/ Telemetry(r)
       \/ Revoke(r)
       \/ Rotate(r)

Spec == Init /\ [][Next]_vars

-----------------------------------------------------------------------------
(* Properties.                                                             *)

\* Every variable keeps its shape; only requests that loaded a row write.
TypeOK ==
  /\ now \in 0..MaxTime
  /\ agents \in [Agent -> AgentRow \cup {Gone}]
  /\ pc \in [Request -> Phase]
  /\ call \in [Request -> Calls \cup {NoCall}]
  /\ row \in [Request -> AgentRow \cup {Gone}]
  /\ arrived \in [Request -> 0..MaxTime]
  /\ began \in [Request -> Nat] /\ rank \in [Request -> Nat] /\ commits \in Nat
  /\ told \in [Agent -> AgentStatus]
  /\ \A r \in Request : pc[r] \in {"loaded", "ok"} => call[r] \in Calls /\ ~Raises(call[r])

Committed(r, ops, a) == pc[r] = "ok" /\ call[r].op \in ops /\ call[r].agent = a

Issues(r, a) == Committed(r, {"register", "rotate"}, a)
Revokes(r, a) == Committed(r, {"revoke"}, a)

IssueRank(t) == IF t = Provisioned THEN 0 ELSE rank[t]

\* t is a token of a, and no later one was issued among the first n commits.
Current(t, a, n) ==
  /\ t # Provisioned => Issues(t, a)
  /\ IssueRank(t) <= n
  /\ \A q \in Request : Issues(q, a) /\ rank[q] <= n => rank[q] <= IssueRank(t)

(***************************************************************************)
(* authenticate_agent: a heartbeat or a batch of telemetry is accepted     *)
(* only with the token that was the agent's own when the request looked,   *)
(* and, as a rotation, only for an agent that nobody had revoked by then.  *)
(***************************************************************************)
AcceptedWasAuthorised ==
  \A r \in Request, a \in Agent :
    /\ Committed(r, {"heartbeat", "telemetry"}, a) => Current(call[r].token, a, began[r])
    /\ Committed(r, {"heartbeat", "telemetry", "rotate"}, a) =>
         \A q \in Request : Revokes(q, a) => began[r] < rank[q]

(***************************************************************************)
(* Whatever the order of the commits, the stored token is the one answered *)
(* to the operator whose registration or rotation committed last.          *)
(***************************************************************************)
LatestTokenIsStored ==
  \A a \in Agent : agents[a] # Gone => Current(agents[a].token, a, commits)

(***************************************************************************)
(* An agent is revoked exactly when a revocation of it has committed: a    *)
(* heartbeat or rotation that loaded the row before does not undo it.      *)
(***************************************************************************)
RevocationSticks ==
  \A a \in Agent : agents[a] # Gone =>
    (agents[a].revoked <=> \E q \in Request : Revokes(q, a))

\* q committed while r, which committed later, already had its row.
Overlap(q, r) == began[r] < rank[q] /\ rank[q] < rank[r]

(***************************************************************************)
(* revoke_agent puts the agent OFFLINE, and a heartbeat writes an event if *)
(* its status is not healthy or differs from the loaded one.  So a revoked *)
(* agent that shows another status, or one whose last event speaks of      *)
(* another status than its row, had two requests that overlapped.          *)
(***************************************************************************)
RowAndFeedTellStatus ==
  \A a \in Agent : agents[a] # Gone =>
    /\ agents[a].revoked /\ agents[a].status # "offline"
       => \E h, v \in Request : /\ Committed(h, {"heartbeat"}, a) /\ Revokes(v, a)
                                /\ Overlap(h, v) \/ Overlap(v, h)
    /\ told[a] # agents[a].status
       => \E q, r \in Request : /\ Committed(q, {"heartbeat", "revoke"}, a)
                                /\ Committed(r, {"heartbeat", "revoke"}, a)
                                /\ Overlap(q, r)

(***************************************************************************)
(* last_seen goes back only when a heartbeat commits that had its row      *)
(* before another heartbeat of the agent committed.                        *)
(***************************************************************************)
SeenGoesBackOnlyOnOverlap ==
  [][\A a \in Agent :
       (agents[a] # Gone /\ agents'[a].last_seen < agents[a].last_seen) =>
         \E q, r \in Request : /\ Committed(q, {"heartbeat"}, a)
                              /\ Committed(r, {"heartbeat"}, a)'
                              /\ began[r] < rank[q] /\ rank'[r] = commits']_vars
=============================================================================
