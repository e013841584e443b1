---------------------------- MODULE EdgeAgentsProofs ----------------------------
(***************************************************************************)
(* Invariance proofs for EdgeAgents, for every set of agents and requests. *)
(*                                                                         *)
(* The properties speak of accepted requests; what makes them inductive is *)
(* that they hold of a request from the moment it loaded the row: whatever *)
(* commits later has a greater rank than the request's `began', so it can  *)
(* change neither which token was current then nor who was revoked then.   *)
(***************************************************************************)
EXTENDS EdgeAgents, TLAPS

\* The ranks of committed requests are places among the commits.
Ranked ==
  /\ \A r \in Request : began[r] <= commits /\ rank[r] <= commits
  /\ \A r \in Request : pc[r] # "ok" => rank[r] = 0

\* Rows are never deleted: a request that loaded one still finds it.
Present ==
  \A r \in Request :
    (pc[r] = "ok" \/ (pc[r] = "loaded" /\ call[r].op # "register")) =>
      agents[call[r].agent] # Gone

Passed(r, ops, a) == pc[r] \in {"loaded", "ok"} /\ call[r].op \in ops /\ call[r].agent = a

\* AcceptedWasAuthorised, from the moment the row is loaded.
Authorised ==
  \A r \in Request, a \in Agent :
    /\ Passed(r, {"heartbeat", "telemetry"}, a) => Current(call[r].token, a, began[r])
    /\ Passed(r, {"heartbeat", "telemetry", "rotate"}, a) =>
         \A q \in Request : Revokes(q, a) => began[r] < rank[q]

IInv == /\ TypeOK
        /\ Ranked
        /\ Present
        /\ Authorised
        /\ LatestTokenIsStored
        /\ RevocationSticks

-----------------------------------------------------------------------------
(* Types.                                                                  *)

LEMMA CallFields ==
  ASSUME NEW c \in Calls
  PROVE  /\ c.agent \in Agent
         /\ c.op \in {"heartbeat", "telemetry", "register", "revoke", "rotate"}
         /\ c.op \in {"heartbeat", "telemetry"} => c.token \in Token
         /\ c.op = "heartbeat" /\ ~Raises(c) => c.status \in AgentStatus
  BY DEF Calls, HeartbeatCalls, TelemetryCalls, OperatorCalls, Raises

LEMMA TypeInit == Init => TypeOK
<1> SUFFICES ASSUME Init PROVE TypeOK
    OBVIOUS
<1>1. [token: {Provisioned}, status: {"unknown"}, last_seen: {0}, revoked: {FALSE}]
        \subseteq AgentRow
  <2> SUFFICES ASSUME NEW x \in [token: {Provisioned}, status: {"unknown"},
                                 last_seen: {0}, revoked: {FALSE}]
               PROVE  x \in AgentRow
      OBVIOUS
  <2>1. x = [token |-> Provisioned, status |-> "unknown", last_seen |-> 0, revoked |-> FALSE]
    OBVIOUS
  <2> QED
    BY <2>1, TimeAssumption DEF AgentRow, Token, AgentStatus
<1>2. agents \in [Agent -> AgentRow \cup {Gone}]
  BY <1>1 DEF Init
<1> QED
  BY <1>2, TimeAssumption DEF Init, TypeOK, AgentStatus, Phase

\* A commit needs only the types of the two variables the handler assigns.
LEMMA CommitTypes ==
  ASSUME TypeOK, NEW r \in Request, pc[r] = "loaded", Commit(r),
         agents' \in [Agent -> AgentRow \cup {Gone}], told' \in [Agent -> AgentStatus]
  PROVE  TypeOK'
  BY DEF Commit, TypeOK, Phase

LEMMA TypeStep == TypeOK /\ Present /\ [Next]_vars => TypeOK'
<1> SUFFICES ASSUME TypeOK, Present, [Next]_vars PROVE TypeOK'
    OBVIOUS
<1> USE TimeAssumption
<1>1. CASE Tick
  BY <1>1 DEF Tick, TypeOK
<1>2. ASSUME NEW r \in Request, NEW c \in Calls, Load(r, c) PROVE TypeOK'
  <2>1. c.agent \in Agent
    BY CallFields
  <2>2. pc'[r] = "loaded" => ~Raises(c)
    BY <1>2 DEF Load, TypeOK
  <2> QED
    BY <1>2, <2>1, <2>2 DEF Load, TypeOK, Phase
<1>3. ASSUME NEW r \in Request, Register(r) PROVE TypeOK'
  <2>1. call[r] \in Calls /\ call[r].agent \in Agent
    BY <1>3, CallFields DEF Register, At, TypeOK
  <2>2. [token |-> r, status |-> "unknown", last_seen |-> 0, revoked |-> FALSE] \in AgentRow
    BY DEF AgentRow, Token, AgentStatus
  <2>3. agents' \in [Agent -> AgentRow \cup {Gone}] /\ told' \in [Agent -> AgentStatus]
    BY <1>3, <2>1, <2>2 DEF Register, TypeOK, AgentStatus
  <2> QED
    BY <1>3, <2>3, CommitTypes DEF Register, At
<1>4. ASSUME NEW r \in Request, RegisterFails(r) PROVE TypeOK'
  BY <1>4 DEF RegisterFails, At, TypeOK, Phase
<1>5. ASSUME NEW r \in Request, NEW at \in arrived[r]..now, Heartbeat(r, at) PROVE TypeOK'
  <2>1. call[r] \in Calls /\ call[r].agent \in Agent /\ call[r].status \in AgentStatus
    BY <1>5, CallFields DEF Heartbeat, At, TypeOK
  <2>2. agents[call[r].agent] \in AgentRow
    BY <1>5, <2>1 DEF Heartbeat, At, TypeOK, Present
  <2>3. at \in 0..MaxTime
    BY <1>5 DEF TypeOK
  <2>4. agents' \in [Agent -> AgentRow \cup {Gone}]
    BY <1>5, <2>1, <2>2, <2>3 DEF Heartbeat, TypeOK, AgentRow
  <2>5. told' \in [Agent -> AgentStatus]
    BY <1>5, <2>1 DEF Heartbeat, TypeOK
  <2> QED
    BY <1>5, <2>4, <2>5, CommitTypes DEF Heartbeat, At
<1>6. ASSUME NEW r \in Request, Telemetry(r) PROVE TypeOK'
  BY <1>6, CommitTypes DEF Telemetry, At, TypeOK
<1>7. ASSUME NEW r \in Request, Revoke(r) PROVE TypeOK'
  <2>1. call[r] \in Calls /\ call[r].agent \in Agent
    BY <1>7, CallFields DEF Revoke, At, TypeOK
  <2>2. agents[call[r].agent] \in AgentRow
    BY <1>7, <2>1 DEF Revoke, At, TypeOK, Present
  <2>3. agents' \in [Agent -> AgentRow \cup {Gone}]
    BY <1>7, <2>1, <2>2 DEF Revoke, TypeOK, AgentRow, AgentStatus
  <2>4. told' \in [Agent -> AgentStatus]
    BY <1>7, <2>1 DEF Revoke, TypeOK, AgentStatus
  <2> QED
    BY <1>7, <2>3, <2>4, CommitTypes DEF Revoke, At
<1>8. ASSUME NEW r \in Request, Rotate(r) PROVE TypeOK'
  <2>1. call[r] \in Calls /\ call[r].agent \in Agent
    BY <1>8, CallFields DEF Rotate, At, TypeOK
  <2>2. agents[call[r].agent] \in AgentRow
    BY <1>8, <2>1 DEF Rotate, At, TypeOK, Present
  <2>3. agents' \in [Agent -> AgentRow \cup {Gone}]
    BY <1>8, <2>1, <2>2 DEF Rotate, TypeOK, AgentRow, Token
  <2> QED
    BY <1>8, <2>3, CommitTypes DEF Rotate, At, TypeOK
<1>9. CASE UNCHANGED vars
  BY <1>9 DEF vars, TypeOK
<1> QED
  BY <1>1, <1>2, <1>3, <1>4, <1>5, <1>6, <1>7, <1>8, <1>9 DEF Next

-----------------------------------------------------------------------------
(* What a commit leaves alone.                                             *)

\* The requests that are not committing keep their phase and rank; the
\* committing one gets a greater rank than every other.
LEMMA CommitRanks ==
  ASSUME IInv, NEW r \in Request, pc[r] = "loaded", Commit(r), NEW q \in Request
  PROVE  /\ q # r => pc'[q] = pc[q] /\ rank'[q] = rank[q]
         /\ pc'[r] = "ok" /\ rank'[r] = commits + 1 /\ commits' = commits + 1
         /\ rank[q] <= commits /\ began[q] <= commits
         /\ rank[q] \in Nat /\ began[q] \in Nat /\ commits \in Nat
         /\ call' = call /\ began' = began
  BY DEF IInv, TypeOK, Ranked, Commit

LEMMA RankedCommit ==
  ASSUME IInv, NEW r \in Request, pc[r] = "loaded", Commit(r)
  PROVE  Ranked'
<1> SUFFICES ASSUME NEW q \in Request
             PROVE  /\ began'[q] <= commits' /\ rank'[q] <= commits'
                    /\ pc'[q] # "ok" => rank'[q] = 0
    BY DEF Ranked
<1> QED
  BY CommitRanks DEF IInv, Ranked

\* A token that was current at rank n still is, whoever commits next.
LEMMA AuthorisedCommit ==
  ASSUME IInv, NEW r \in Request, pc[r] = "loaded", Commit(r)
  PROVE  Authorised'
<1> SUFFICES ASSUME NEW p \in Request, NEW a \in Agent
             PROVE  /\ Passed(p, {"heartbeat", "telemetry"}, a)' =>
                         Current(call[p].token, a, began[p])'
                    /\ Passed(p, {"heartbeat", "telemetry", "rotate"}, a)' =>
                         \A q \in Request : Revokes(q, a)' => began'[p] < rank'[q]
    BY DEF Authorised
<1>1. Passed(p, {"heartbeat", "telemetry"}, a)' => Passed(p, {"heartbeat", "telemetry"}, a)
  BY CommitRanks DEF Passed
<1>2. Passed(p, {"heartbeat", "telemetry", "rotate"}, a)' =>
        Passed(p, {"heartbeat", "telemetry", "rotate"}, a)
  BY CommitRanks DEF Passed
<1>3. ASSUME Passed(p, {"heartbeat", "telemetry"}, a)
      PROVE  Current(call[p].token, a, began[p])'
  <2> DEFINE t == call[p].token
  <2>1. Current(t, a, began[p])
    BY <1>3 DEF IInv, Authorised
  <2>2. t \in Token
    BY <1>3, CallFields DEF Passed, IInv, TypeOK
  <2>3. t # Provisioned => t \in Request /\ t # r /\ Issues(t, a)
    BY <2>1, <2>2 DEF Current, Issues, Committed, Token
  <2>4. t # Provisioned => Issues(t, a)'
    BY <2>3, CommitRanks DEF Issues, Committed
  <2>5. IssueRank(t)' = IssueRank(t)
    BY <2>3, CommitRanks DEF IssueRank
  <2>6. ASSUME NEW q \in Request, Issues(q, a)', rank'[q] <= began[p]
        PROVE  rank'[q] <= IssueRank(t)
    <3>1. q # r
      BY <2>6, CommitRanks
    <3>2. Issues(q, a) /\ rank[q] <= began[p]
      BY <2>6, <3>1, CommitRanks DEF Issues, Committed
    <3> QED
      BY <3>1, <3>2, <2>1, CommitRanks DEF Current
  <2> QED
    BY <2>1, <2>4, <2>5, <2>6, CommitRanks DEF Current
<1>4. ASSUME Passed(p, {"heartbeat", "telemetry", "rotate"}, a),
             NEW q \in Request, Revokes(q, a)'
      PROVE  began'[p] < rank'[q]
  <2>1. CASE q = r
    BY <2>1, CommitRanks
  <2>2. CASE q # r
    <3>1. Revokes(q, a)
      BY <1>4, <2>2, CommitRanks DEF Revokes, Committed
    <3> QED
      BY <1>4, <2>2, <3>1, CommitRanks DEF IInv, Authorised
  <2> QED
    BY <2>1, <2>2
<1> QED
  BY <1>1, <1>2, <1>3, <1>4

-----------------------------------------------------------------------------
(* The steps that change a row.                                            *)

\* What LatestTokenIsStored needs: the stored token is kept unless the
\* committing request issued a new one and stored it.
LEMMA TokenCommit ==
  ASSUME IInv, NEW r \in Request, pc[r] = "loaded", Commit(r),
         NEW a \in Agent, agents'[a] # Gone,
         \/ /\ agents[a] # Gone
            /\ agents'[a].token = agents[a].token
            /\ ~Issues(r, a)'
         \/ agents'[a].token = r /\ Issues(r, a)'
  PROVE  Current(agents[a].token, a, commits)'
<1> PICK t : t = agents'[a].token
    OBVIOUS
<1> SUFFICES Current(t, a, commits)'
    BY DEF Current, IssueRank
<1>1. CASE agents[a] # Gone /\ t = agents[a].token /\ ~Issues(r, a)'
  <2>1. Current(t, a, commits)
    BY <1>1 DEF IInv, LatestTokenIsStored
  <2>2. t \in Token
    BY <1>1 DEF IInv, TypeOK, AgentRow
  <2>3. t # Provisioned => t \in Request /\ t # r /\ Issues(t, a)
    BY <2>1, <2>2 DEF Current, Issues, Committed, Token
  <2>4. t # Provisioned => Issues(t, a)'
    BY <2>3, CommitRanks DEF Issues, Committed
  <2>5. IssueRank(t)' = IssueRank(t)
    BY <2>3, CommitRanks DEF IssueRank
  <2>6. ASSUME NEW q \in Request, Issues(q, a)'
        PROVE  rank'[q] <= IssueRank(t)
    <3>1. q # r
      BY <1>1, <2>6
    <3>2. Issues(q, a) /\ rank[q] <= commits /\ rank'[q] = rank[q]
      BY <2>6, <3>1, CommitRanks DEF Issues, Committed
    <3> QED
      BY <3>2, <2>1 DEF Current
  <2>7. IssueRank(t) <= commits
    BY <2>1 DEF Current
  <2>8. IssueRank(t) \in Nat
    BY <2>3 DEF IssueRank, IInv, TypeOK
  <2>9. IssueRank(t) <= commits'
    BY <2>7, <2>8, CommitRanks
  <2> QED
    BY <2>4, <2>5, <2>6, <2>9 DEF Current
<1>2. CASE t = r /\ Issues(r, a)'
  <2>1. IssueRank(t)' = commits' /\ commits' \in Nat
    BY <1>2, NameAssumption, CommitRanks DEF IssueRank
  <2>2. \A q \in Request : rank'[q] <= commits'
    BY RankedCommit DEF Ranked
  <2> QED
    BY <1>2, <2>1, <2>2 DEF Current
<1> QED
  BY <1>1, <1>2

\* What RevocationSticks needs: the flag is kept, or a revocation sets it.
LEMMA RevokedCommit ==
  ASSUME IInv, NEW r \in Request, pc[r] = "loaded", Commit(r),
         NEW a \in Agent,
         \/ agents[a] # Gone /\ agents'[a].revoked = agents[a].revoked /\ ~Revokes(r, a)'
         \/ agents'[a].revoked = TRUE /\ Revokes(r, a)'
         \/ agents[a] = Gone /\ agents'[a].revoked = FALSE /\ ~Revokes(r, a)'
  PROVE  agents'[a].revoked <=> \E q \in Request : Revokes(q, a)'
<1>1. ASSUME NEW q \in Request, q # r PROVE Revokes(q, a)' <=> Revokes(q, a)
  BY <1>1, CommitRanks DEF Revokes, Committed
<1>2. ~Revokes(r, a)
  BY DEF Revokes, Committed
<1>3. ASSUME NEW q \in Request, Revokes(q, a) PROVE agents[a] # Gone
  BY <1>3 DEF Revokes, Committed, IInv, Present
<1> QED
  BY <1>1, <1>2, <1>3 DEF IInv, RevocationSticks

\* The four handlers that commit, by what they do to the rows.
LEMMA RowsCommit ==
  ASSUME IInv, TypeOK', NEW r \in Request, pc[r] = "loaded", Commit(r),
         \A a \in Agent :
           /\ agents[a] # Gone => agents'[a] # Gone
           /\ agents'[a] # Gone =>
                \/ /\ agents[a] # Gone
                   /\ agents'[a].token = agents[a].token
                   /\ ~Issues(r, a)'
                \/ agents'[a].token = r /\ Issues(r, a)'
           /\ agents'[a] # Gone =>
                \/ /\ agents[a] # Gone
                   /\ agents'[a].revoked = agents[a].revoked
                   /\ ~Revokes(r, a)'
                \/ agents'[a].revoked = TRUE /\ Revokes(r, a)'
                \/ agents[a] = Gone /\ agents'[a].revoked = FALSE /\ ~Revokes(r, a)',
         agents'[call[r].agent] # Gone
  PROVE  IInv'
<1>1. Ranked'
  BY RankedCommit
<1>2. Authorised'
  BY AuthorisedCommit
<1>3. Present'
  <2> SUFFICES ASSUME NEW q \in Request,
                      pc'[q] = "ok" \/ (pc'[q] = "loaded" /\ call'[q].op # "register")
               PROVE  agents'[call'[q].agent] # Gone
      BY DEF Present
  <2>1. CASE q = r
    BY <2>1, CommitRanks
  <2>2. CASE q # r
    <3>1. pc[q] \in {"loaded", "ok"} /\ agents[call[q].agent] # Gone
      BY <2>2, CommitRanks DEF IInv, Present
    <3>2. call[q].agent \in Agent
      BY <3>1, CallFields DEF IInv, TypeOK
    <3> QED
      BY <3>1, <3>2, CommitRanks
  <2> QED
    BY <2>1, <2>2
<1>4. LatestTokenIsStored'
  BY TokenCommit DEF LatestTokenIsStored
<1>5. RevocationSticks'
  BY RevokedCommit DEF RevocationSticks
<1> QED
  BY <1>1, <1>2, <1>3, <1>4, <1>5 DEF IInv

\* A step that changes no row: nobody commits, and whoever has loaded a row in
\* it was not refused.
LEMMA QuietStep ==
  ASSUME IInv, TypeOK', UNCHANGED <<agents, rank, commits>>,
         \A q \in Request : pc'[q] \in {"loaded", "ok"} =>
           \/ pc'[q] = pc[q] /\ call'[q] = call[q] /\ began'[q] = began[q]
           \/ /\ pc'[q] = "loaded" /\ began'[q] = commits /\ pc[q] = "idle"
              /\ ~Refused(call'[q], agents[call'[q].agent]),
         \A q \in Request : pc[q] = "ok" => pc'[q] = "ok" /\ call'[q] = call[q],
         \A q \in Request : began'[q] <= commits
  PROVE  IInv'
<1>1. \A q \in Request : \A ops, a : Committed(q, ops, a)' <=> Committed(q, ops, a)
  BY DEF Committed
<1>2. \A q \in Request, a \in Agent : /\ Issues(q, a)' <=> Issues(q, a)
                                      /\ Revokes(q, a)' <=> Revokes(q, a)
  BY <1>1 DEF Issues, Revokes
<1>3. Ranked'
  BY DEF IInv, Ranked
<1>4. Present'
  <2> SUFFICES ASSUME NEW q \in Request,
                      pc'[q] = "ok" \/ (pc'[q] = "loaded" /\ call'[q].op # "register")
               PROVE  agents[call'[q].agent] # Gone
      BY DEF Present
  <2>1. CASE pc'[q] = pc[q] /\ call'[q] = call[q]
    BY <2>1 DEF IInv, Present
  <2>2. CASE pc'[q] = "loaded" /\ ~Refused(call'[q], agents[call'[q].agent])
    <3>1. call'[q] \in Calls
      BY <2>2 DEF TypeOK
    <3> QED
      BY <2>2, <3>1, CallFields DEF Refused, Passes
  <2> QED
    BY <2>1, <2>2
<1>6. Authorised'
  <2> SUFFICES ASSUME NEW p \in Request, NEW a \in Agent
               PROVE  /\ Passed(p, {"heartbeat", "telemetry"}, a)' =>
                           Current(call[p].token, a, began[p])'
                      /\ Passed(p, {"heartbeat", "telemetry", "rotate"}, a)' =>
                           \A q \in Request : Revokes(q, a)' => began'[p] < rank'[q]
      BY DEF Authorised
  <2>1. CASE pc'[p] = pc[p] /\ call'[p] = call[p] /\ began'[p] = began[p]
    <3>1. ASSUME Passed(p, {"heartbeat", "telemetry"}, a)'
          PROVE  Current(call[p].token, a, began[p])'
      <4>1. Passed(p, {"heartbeat", "telemetry"}, a)
        BY <2>1, <3>1 DEF Passed
      <4>2. call[p].token \in Token
        BY <4>1, CallFields DEF Passed, IInv, TypeOK
      <4>3. Current(call[p].token, a, began[p])
        BY <4>1 DEF IInv, Authorised
      <4> QED
        BY <2>1, <4>2, <4>3, <1>2 DEF Current, IssueRank, Token
    <3>2. ASSUME Passed(p, {"heartbeat", "telemetry", "rotate"}, a)',
                 NEW q \in Request, Revokes(q, a)'
          PROVE  began'[p] < rank'[q]
      <4>1. Passed(p, {"heartbeat", "telemetry", "rotate"}, a)
        BY <2>1, <3>2 DEF Passed
      <4> QED
        BY <2>1, <3>2, <4>1, <1>2 DEF IInv, Authorised
    <3> QED
      BY <3>1, <3>2
  <2>2. CASE /\ pc'[p] = "loaded" /\ began'[p] = commits
             /\ ~Refused(call'[p], agents[call'[p].agent])
    <3>1. ASSUME Passed(p, {"heartbeat", "telemetry", "rotate"}, a)'
          PROVE  agents[a] # Gone /\ ~agents[a].revoked
      BY <2>2, <3>1 DEF Passed, Refused, Passes
    <3>2. ASSUME Passed(p, {"heartbeat", "telemetry"}, a)'
          PROVE  Current(call[p].token, a, began[p])'
      <4>1. agents[a] # Gone /\ call'[p].token = agents[a].token
        BY <2>2, <3>2 DEF Passed, Refused, Passes
      <4>2. Current(agents[a].token, a, commits) /\ agents[a].token \in Token
        BY <4>1 DEF IInv, LatestTokenIsStored, TypeOK, AgentRow
      <4> QED
        BY <2>2, <4>1, <4>2, <1>2 DEF Current, IssueRank, Token
    <3>3. ASSUME Passed(p, {"heartbeat", "telemetry", "rotate"}, a)',
                 NEW q \in Request
          PROVE  ~Revokes(q, a)'
      BY <3>1, <3>3, <1>2 DEF IInv, RevocationSticks
    <3> QED
      BY <3>2, <3>3
  <2>3. CASE pc'[p] \notin {"loaded", "ok"}
    BY <2>3 DEF Passed
  <2> QED
    BY <2>1, <2>2, <2>3
<1>7. LatestTokenIsStored'
  <2> SUFFICES ASSUME NEW a \in Agent, agents[a] # Gone
               PROVE  Current(agents[a].token, a, commits)'
      BY DEF LatestTokenIsStored
  <2>1. Current(agents[a].token, a, commits) /\ agents[a].token \in Token
    BY DEF IInv, LatestTokenIsStored, TypeOK, AgentRow
  <2> QED
    BY <2>1, <1>2 DEF Current, IssueRank, Token
<1>8. RevocationSticks'
  BY <1>2 DEF IInv, RevocationSticks
<1> QED
  BY <1>3, <1>4, <1>6, <1>7, <1>8 DEF IInv

-----------------------------------------------------------------------------
(* The theorems.                                                           *)

LEMMA InvInit == Init => IInv
<1> SUFFICES ASSUME Init PROVE IInv
    OBVIOUS
<1>1. TypeOK
  BY TypeInit
<1>2. Ranked /\ Present /\ Authorised
  BY DEF Init, Ranked, Present, Authorised, Passed
<1>3. \A r \in Request : \A ops, a : ~Committed(r, ops, a)
  BY DEF Init, Committed
<1>4. \A a \in Agent : agents[a] # Gone =>
        agents[a].token = Provisioned /\ agents[a].revoked = FALSE
  BY DEF Init
<1>5. LatestTokenIsStored
  BY <1>3, <1>4 DEF Init, LatestTokenIsStored, Current, Issues, IssueRank
<1>6. RevocationSticks
  BY <1>3, <1>4 DEF RevocationSticks, Revokes
<1> QED
  BY <1>1, <1>2, <1>5, <1>6 DEF IInv

LEMMA InvStep == IInv /\ [Next]_vars => IInv'
<1> SUFFICES ASSUME IInv, [Next]_vars PROVE IInv'
    OBVIOUS
<1>0. TypeOK'
  BY TypeStep DEF IInv
<1>1. CASE Tick
  BY <1>0, <1>1, QuietStep DEF Tick, IInv, Ranked
<1>2. ASSUME NEW r \in Request, NEW c \in Calls, Load(r, c) PROVE IInv'
  <2>1. \A q \in Request : began'[q] <= commits
    BY <1>2 DEF Load, IInv, Ranked, TypeOK
  <2>2. \A q \in Request : q # r => pc'[q] = pc[q] /\ call'[q] = call[q] /\ began'[q] = began[q]
    BY <1>2 DEF Load, IInv, TypeOK
  <2>3. /\ pc[r] = "idle" /\ call'[r] = c /\ began'[r] = commits
        /\ pc'[r] \in {"loaded", "ok"} => pc'[r] = "loaded" /\ ~Refused(c, agents[c.agent])
    BY <1>2 DEF Load, IInv, TypeOK
  <2> QED
    BY <1>0, <1>2, <2>1, <2>2, <2>3, QuietStep DEF Load
<1>3. ASSUME NEW r \in Request, Register(r) PROVE IInv'
  <2>1. call[r].agent \in Agent
    BY <1>3, CallFields DEF Register, At, IInv, TypeOK
  <2>2. Committed(r, {"register", "rotate"}, call[r].agent)' /\ call' = call
    BY <1>3 DEF Register, At, Commit, Committed, IInv, TypeOK
  <2>3. \A a \in Agent : ~Revokes(r, a)'
    BY <1>3, <2>2 DEF Register, At, Revokes, Committed
  <2>4. \A a \in Agent : a # call[r].agent => agents'[a] = agents[a] /\ ~Issues(r, a)'
    BY <1>3, <2>2 DEF Register, Issues, Committed, IInv, TypeOK
  <2>5. /\ agents[call[r].agent] = Gone /\ agents'[call[r].agent].token = r
        /\ agents'[call[r].agent].revoked = FALSE /\ Issues(r, call[r].agent)'
    BY <1>3, <2>1, <2>2 DEF Register, Issues, IInv, TypeOK
  <2>6. agents'[call[r].agent] # Gone
    <3>1. [token |-> r, status |-> "unknown", last_seen |-> 0, revoked |-> FALSE] \in AgentRow
      BY TimeAssumption DEF AgentRow, Token, AgentStatus
    <3> QED
      BY <1>3, <2>1, <3>1, GoneAssumption DEF Register, IInv, TypeOK
  <2>7. pc[r] = "loaded" /\ Commit(r)
    BY <1>3 DEF Register, At
  <2>8. ASSUME NEW a \in Agent, agents'[a] # Gone
        PROVE  /\ \/ /\ agents[a] # Gone
                     /\ agents'[a].token = agents[a].token
                     /\ ~Issues(r, a)'
                  \/ agents'[a].token = r /\ Issues(r, a)'
               /\ \/ /\ agents[a] # Gone
                     /\ agents'[a].revoked = agents[a].revoked
                     /\ ~Revokes(r, a)'
                  \/ agents[a] = Gone /\ agents'[a].revoked = FALSE /\ ~Revokes(r, a)'
    <3>1. CASE a = call[r].agent
      BY <3>1, <2>2, <2>3, <2>5
    <3>2. CASE a # call[r].agent
      BY <3>2, <2>3, <2>4, <2>8
    <3> QED
      BY <3>1, <3>2
  <2>9. \A a \in Agent : agents[a] # Gone => agents'[a] # Gone
    BY <2>4, <2>5
  <2> QED
    BY <1>0, <2>6, <2>7, <2>8, <2>9, RowsCommit
<1>4. ASSUME NEW r \in Request, RegisterFails(r) PROVE IInv'
  BY <1>0, <1>4, QuietStep DEF RegisterFails, At, IInv, Ranked, TypeOK
<1>5. ASSUME NEW r \in Request, NEW at \in arrived[r]..now, Heartbeat(r, at) PROVE IInv'
  <2>1. call[r].agent \in Agent /\ agents[call[r].agent] # Gone
    BY <1>5, CallFields DEF Heartbeat, At, IInv, TypeOK, Present
  <2>2. \A a \in Agent : ~Revokes(r, a)' /\ ~Issues(r, a)'
    BY <1>5 DEF Heartbeat, At, Commit, Revokes, Issues, Committed
  <2>3. \A a \in Agent : a # call[r].agent => agents'[a] = agents[a]
    BY <1>5 DEF Heartbeat, IInv, TypeOK
  <2>4. agents[call[r].agent] \in AgentRow
    BY <2>1 DEF IInv, TypeOK
  <2>5. /\ agents'[call[r].agent].token = agents[call[r].agent].token
        /\ agents'[call[r].agent].revoked = agents[call[r].agent].revoked
    BY <1>5, <2>1, <2>4 DEF Heartbeat, IInv, TypeOK, AgentRow
  <2>6. agents'[call[r].agent] # Gone
    <3>1. call[r].status \in AgentStatus
      BY <1>5, CallFields DEF Heartbeat, At, IInv, TypeOK
    <3>2. at \in 0..MaxTime
      BY <1>5, TimeAssumption DEF IInv, TypeOK
    <3>3. agents'[call[r].agent] \in AgentRow
      BY <1>5, <2>1, <2>4, <3>1, <3>2 DEF Heartbeat, IInv, TypeOK, AgentRow
    <3> QED
      BY <3>3, GoneAssumption
  <2> QED
    BY <1>0, <1>5, <2>1, <2>2, <2>3, <2>5, <2>6, RowsCommit DEF Heartbeat, At
<1>6. ASSUME NEW r \in Request, Telemetry(r) PROVE IInv'
  <2>1. agents[call[r].agent] # Gone
    BY <1>6 DEF Telemetry, At, IInv, Present
  <2>2. \A a \in Agent : ~Revokes(r, a)' /\ ~Issues(r, a)'
    BY <1>6 DEF Telemetry, At, Commit, Revokes, Issues, Committed
  <2> QED
    BY <1>0, <1>6, <2>1, <2>2, RowsCommit DEF Telemetry, At
<1>7. ASSUME NEW r \in Request, Revoke(r) PROVE IInv'
  <2>1. call[r].agent \in Agent /\ agents[call[r].agent] # Gone
    BY <1>7, CallFields DEF Revoke, At, IInv, TypeOK, Present
  <2>2. \A a \in Agent : ~Issues(r, a)' /\ (Revokes(r, a)' <=> a = call[r].agent)
    BY <1>7 DEF Revoke, At, Commit, Revokes, Issues, Committed, IInv, TypeOK
  <2>3. \A a \in Agent : a # call[r].agent => agents'[a] = agents[a]
    BY <1>7 DEF Revoke, IInv, TypeOK
  <2>4. agents[call[r].agent] \in AgentRow
    BY <2>1 DEF IInv, TypeOK
  <2>5. /\ agents'[call[r].agent].token = agents[call[r].agent].token
        /\ agents'[call[r].agent].revoked = TRUE
        /\ agents'[call[r].agent] \in AgentRow
    BY <1>7, <2>1, <2>4 DEF Revoke, IInv, TypeOK, AgentRow, AgentStatus
  <2> QED
    BY <1>0, <1>7, <2>1, <2>2, <2>3, <2>5, RowsCommit, GoneAssumption DEF Revoke, At
<1>8. ASSUME NEW r \in Request, Rotate(r) PROVE IInv'
  <2>1. call[r].agent \in Agent /\ agents[call[r].agent] # Gone
    BY <1>8, CallFields DEF Rotate, At, IInv, TypeOK, Present
  <2>2. \A a \in Agent : ~Revokes(r, a)' /\ (Issues(r, a)' <=> a = call[r].agent)
    BY <1>8 DEF Rotate, At, Commit, Revokes, Issues, Committed, IInv, TypeOK
  <2>3. \A a \in Agent : a # call[r].agent => agents'[a] = agents[a]
    BY <1>8 DEF Rotate, IInv, TypeOK
  <2>4. agents[call[r].agent] \in AgentRow
    BY <2>1 DEF IInv, TypeOK
  <2>5. /\ agents'[call[r].agent].token = r
        /\ agents'[call[r].agent].revoked = agents[call[r].agent].revoked
        /\ agents'[call[r].agent] \in AgentRow
    BY <1>8, <2>1, <2>4 DEF Rotate, IInv, TypeOK, AgentRow, Token
  <2> QED
    BY <1>0, <1>8, <2>1, <2>2, <2>3, <2>5, RowsCommit, GoneAssumption DEF Rotate, At
<1>9. CASE UNCHANGED vars
  BY <1>0, <1>9, QuietStep DEF vars, IInv, Ranked
<1> QED
  BY <1>1, <1>2, <1>3, <1>4, <1>5, <1>6, <1>7, <1>8, <1>9 DEF Next

\* Every reachable state satisfies the inductive invariant.
THEOREM Invariance == Spec => []IInv
<1>1. Init => IInv
  BY InvInit
<1>2. IInv /\ [Next]_vars => IInv'
  BY InvStep
<1> QED
  BY <1>1, <1>2, PTL DEF Spec

\* The columns, the sessions and the clock keep their types.
THEOREM TypesStay == Spec => []TypeOK
<1>1. IInv => TypeOK
  BY DEF IInv
<1> QED
  BY <1>1, Invariance, PTL

\* No heartbeat or telemetry is accepted with a token that was not the agent's
\* when the request looked, nor anything for an agent revoked by then.
THEOREM AcceptedStaysAuthorised == Spec => []AcceptedWasAuthorised
<1>1. IInv => AcceptedWasAuthorised
  BY DEF IInv, Authorised, AcceptedWasAuthorised, Passed, Committed
<1> QED
  BY <1>1, Invariance, PTL

\* The stored token is always the one answered last.
THEOREM LatestTokenStaysStored == Spec => []LatestTokenIsStored
<1>1. IInv => LatestTokenIsStored
  BY DEF IInv
<1> QED
  BY <1>1, Invariance, PTL

\* No interleaving undoes a revocation.
THEOREM RevocationStays == Spec => []RevocationSticks
<1>1. IInv => RevocationSticks
  BY DEF IInv
<1> QED
  BY <1>1, Invariance, PTL

-----------------------------------------------------------------------------
(* The row's status and last_seen, and the last activity event.            *)

\* A request of a that commits since r loaded its row.
Since(r, ops, a) == \E q \in Request : Committed(q, ops, a) /\ began[r] < rank[q]

\* A row may be ahead of what an open request has loaded, but not unnoticed.
ReadSince ==
  \A r \in Request : pc[r] = "loaded" /\ call[r].op \in {"heartbeat", "revoke"} =>
    LET a == call[r].agent
    IN /\ agents[a].last_seen <= arrived[r] \/ Since(r, {"heartbeat"}, a)
       /\ row[r].status = agents[a].status \/ Since(r, {"heartbeat", "revoke"}, a)
       /\ row[r].status = "offline" =>
            agents[a].status = "offline" \/ Since(r, {"heartbeat"}, a)

NotAhead == \A a \in Agent : agents[a] # Gone => agents[a].last_seen <= now

FeedInv == IInv /\ NotAhead /\ ReadSince /\ RowAndFeedTellStatus

\* What the commit of r does to the row of a and to its last event.
Registers(r, a) ==
  /\ agents[a] = Gone
  /\ agents'[a].last_seen = 0 /\ agents'[a].status = "unknown"
  /\ agents'[a].revoked = FALSE /\ told'[a] = "unknown"

LeavesAlone(r, a) ==
  /\ agents[a] # Gone
  /\ agents'[a].last_seen = agents[a].last_seen /\ agents'[a].status = agents[a].status
  /\ agents'[a].revoked = agents[a].revoked /\ told'[a] = told[a]

HearsOf(r, a) ==
  /\ call[r].op = "heartbeat" /\ call[r].agent = a /\ agents[a] # Gone
  /\ \E at \in arrived[r]..now :
       agents'[a].last_seen = IF at = row[r].last_seen THEN agents[a].last_seen ELSE at
  /\ agents'[a].status = IF call[r].status = row[r].status
                         THEN agents[a].status ELSE call[r].status
  /\ agents'[a].revoked = agents[a].revoked
  /\ told'[a] = IF call[r].status # "healthy" \/ call[r].status # row[r].status
                THEN call[r].status ELSE told[a]

TakesOff(r, a) ==
  /\ call[r].op = "revoke" /\ call[r].agent = a /\ agents[a] # Gone
  /\ agents'[a].last_seen = agents[a].last_seen
  /\ agents'[a].status = IF row[r].status = "offline" THEN agents[a].status ELSE "offline"
  /\ told'[a] = "offline"

Commits(r) ==
  /\ pc[r] = "loaded" /\ Commit(r)
  /\ \A a \in Agent : a # call[r].agent => agents'[a] = agents[a]
  /\ \A a \in Agent : agents'[a] # Gone =>
       Registers(r, a) \/ LeavesAlone(r, a) \/ HearsOf(r, a) \/ TakesOff(r, a)

\* A step that commits nothing loads a row, or only lets time pass.
Loads(r) ==
  /\ pc[r] = "idle" /\ pc'[r] # "ok"
  /\ pc'[r] = "loaded" => /\ row'[r] = agents[call'[r].agent] /\ arrived'[r] = now
                          /\ began'[r] = commits
  /\ \A q \in Request \ {r} : /\ pc'[q] = pc[q] /\ call'[q] = call[q] /\ row'[q] = row[q]
                              /\ arrived'[q] = arrived[q] /\ began'[q] = began[q]
  /\ UNCHANGED <<now, agents, rank, commits, told>>

LEMMA StepCommitsOrNot ==
  ASSUME IInv, [Next]_vars
  PROVE  \/ \E r \in Request : Commits(r)
         \/ \E r \in Request : Loads(r)
         \/ /\ UNCHANGED <<agents, call, row, arrived, began, rank, commits, told>>
            /\ now <= now' /\ \A q \in Request : pc'[q] \in {"loaded", "ok"} => pc'[q] = pc[q]
            /\ \A q \in Request : pc[q] = "ok" => pc'[q] = "ok"
<1>1. ASSUME NEW r \in Request, Register(r) PROVE Commits(r)
  <2>1. call[r].agent \in Agent
    BY <1>1, CallFields DEF Register, At, IInv, TypeOK
  <2>2. \A a \in Agent : a # call[r].agent => agents'[a] = agents[a] /\ told'[a] = told[a]
    BY <1>1 DEF Register, IInv, TypeOK
  <2>3. Registers(r, call[r].agent)
    BY <1>1, <2>1 DEF Register, Registers, IInv, TypeOK
  <2> QED BY <1>1, <2>2, <2>3 DEF Commits, Register, At, LeavesAlone
<1>2. ASSUME NEW r \in Request, NEW at \in arrived[r]..now, Heartbeat(r, at) PROVE Commits(r)
  <2>1. call[r].agent \in Agent /\ agents[call[r].agent] # Gone
    BY <1>2, CallFields DEF Heartbeat, At, IInv, TypeOK, Present
  <2>2. \A a \in Agent : a # call[r].agent => agents'[a] = agents[a] /\ told'[a] = told[a]
    BY <1>2 DEF Heartbeat, IInv, TypeOK
  <2>3. agents[call[r].agent] \in AgentRow
    BY <2>1 DEF IInv, TypeOK
  <2>4. HearsOf(r, call[r].agent)
    BY <1>2, <2>1, <2>3 DEF Heartbeat, HearsOf, At, IInv, TypeOK, AgentRow
  <2> QED BY <1>2, <2>2, <2>4 DEF Commits, Heartbeat, At, LeavesAlone
<1>3. ASSUME NEW r \in Request, Telemetry(r) PROVE Commits(r)
  BY <1>3 DEF Telemetry, At, Commits, LeavesAlone
<1>4. ASSUME NEW r \in Request, Revoke(r) PROVE Commits(r)
  <2>1. call[r].agent \in Agent /\ agents[call[r].agent] # Gone
    BY <1>4, CallFields DEF Revoke, At, IInv, TypeOK, Present
  <2>2. \A a \in Agent : a # call[r].agent => agents'[a] = agents[a] /\ told'[a] = told[a]
    BY <1>4 DEF Revoke, IInv, TypeOK
  <2>3. agents[call[r].agent] \in AgentRow
    BY <2>1 DEF IInv, TypeOK
  <2>4. TakesOff(r, call[r].agent)
    BY <1>4, <2>1, <2>3 DEF Revoke, TakesOff, At, IInv, TypeOK, AgentRow
  <2> QED BY <1>4, <2>2, <2>4 DEF Commits, Revoke, At, LeavesAlone
<1>5. ASSUME NEW r \in Request, Rotate(r) PROVE Commits(r)
  <2>1. call[r].agent \in Agent /\ agents[call[r].agent] # Gone
    BY <1>5, CallFields DEF Rotate, At, IInv, TypeOK, Present
  <2>2. agents[call[r].agent] \in AgentRow
    BY <2>1 DEF IInv, TypeOK
  <2>3. LeavesAlone(r, call[r].agent)
    BY <1>5, <2>1, <2>2 DEF Rotate, LeavesAlone, IInv, TypeOK, AgentRow
  <2>4. \A a \in Agent : a # call[r].agent => agents'[a] = agents[a] /\ told'[a] = told[a]
    BY <1>5 DEF Rotate, IInv, TypeOK
  <2> QED BY <1>5, <2>3, <2>4 DEF Commits, Rotate, At, LeavesAlone
<1>6. ASSUME NEW r \in Request, NEW c \in Calls, Load(r, c) PROVE Loads(r)
  BY <1>6 DEF Load, Loads, IInv, TypeOK
<1>7. CASE Tick
  BY <1>7 DEF Tick, IInv, TypeOK
<1>8. CASE UNCHANGED vars
  BY <1>8 DEF vars, IInv, TypeOK
<1>9. ASSUME NEW r \in Request, RegisterFails(r)
      PROVE  /\ UNCHANGED <<agents, call, row, arrived, began, rank, commits, told>>
             /\ now <= now' /\ \A q \in Request : pc'[q] \in {"loaded", "ok"} => pc'[q] = pc[q]
             /\ \A q \in Request : pc[q] = "ok" => pc'[q] = "ok"
  BY <1>9 DEF RegisterFails, At, IInv, TypeOK
<1> QED BY <1>1, <1>2, <1>3, <1>4, <1>5, <1>6, <1>7, <1>8, <1>9 DEF Next

\* A commit forgets none of the others, and comes after all that they have read.
LEMMA SinceCommit ==
  ASSUME IInv, NEW r \in Request, Commits(r), NEW a, NEW ops
  PROVE  /\ \A q \in Request : Committed(q, ops, a) => Committed(q, ops, a)' /\ q # r
         /\ call[r].op \in ops /\ call[r].agent = a => Committed(r, ops, a)'
         /\ \A q \in Request : Since(q, ops, a) => Since(q, ops, a)'
         /\ \A q \in Request : Committed(r, ops, a)' => Since(q, ops, a)'
         /\ \A p, q \in Request : Overlap(p, q) /\ Committed(p, ops, a) => p # r
         /\ Since(r, ops, a) => \E q \in Request : Committed(q, ops, a)' /\ Overlap(q, r)'
<1>1. pc[r] = "loaded" /\ Commit(r)
  BY DEF Commits
<1>2. \A q \in Request :
         /\ q # r => pc'[q] = pc[q] /\ rank'[q] = rank[q]
         /\ pc'[r] = "ok" /\ rank'[r] = commits + 1
         /\ rank[q] <= commits /\ began[q] <= commits
         /\ rank[q] \in Nat /\ began[q] \in Nat /\ commits \in Nat
         /\ call' = call /\ began' = began
  BY <1>1, CommitRanks
<1>3. ASSUME NEW q \in Request, Committed(q, ops, a)
      PROVE  Committed(q, ops, a)' /\ q # r /\ rank'[q] = rank[q]
  BY <1>1, <1>2, <1>3 DEF Committed
<1>4. call[r].op \in ops /\ call[r].agent = a => Committed(r, ops, a)'
  BY <1>2 DEF Committed
<1>5. ASSUME NEW q \in Request, Since(q, ops, a) PROVE Since(q, ops, a)'
  BY <1>2, <1>3, <1>5 DEF Since
<1>6. ASSUME NEW q \in Request, Committed(r, ops, a)' PROVE Since(q, ops, a)'
  <2>1. began'[q] < rank'[r]
    BY <1>2
  <2> QED BY <1>6, <2>1 DEF Since
<1>7. ASSUME Since(r, ops, a) PROVE \E q \in Request : Committed(q, ops, a)' /\ Overlap(q, r)'
  <2>1. PICK q \in Request : Committed(q, ops, a) /\ began[r] < rank[q]
    BY <1>7 DEF Since
  <2>2. Committed(q, ops, a)' /\ rank'[q] = rank[q] /\ rank[q] < rank'[r] /\ began'[r] = began[r]
    BY <1>2, <1>3, <2>1
  <2> QED BY <2>1, <2>2 DEF Overlap
<1> QED BY <1>3, <1>4, <1>5, <1>6, <1>7

\* Requests that overlapped have overlapped for good.
LEMMA OverlapCommit ==
  ASSUME IInv, NEW r \in Request, Commits(r), NEW p \in Request, NEW q \in Request,
         pc[p] = "ok", pc[q] = "ok"
  PROVE  Overlap(p, q)' <=> Overlap(p, q)
<1>1. pc[r] = "loaded" /\ Commit(r)
  BY DEF Commits
<1> QED BY <1>1, CommitRanks DEF Overlap

LEMMA CommitKeepsFeed ==
  ASSUME FeedInv, IInv', NEW r \in Request, Commits(r)
  PROVE  FeedInv'
<1>1. /\ IInv /\ pc[r] = "loaded" /\ Commit(r)
      /\ UNCHANGED <<now, call, row, arrived, began>>
  BY DEF FeedInv, Commits, Commit
<1>2. \A a \in Agent : agents'[a] # Gone =>
        Registers(r, a) \/ LeavesAlone(r, a) \/ HearsOf(r, a) \/ TakesOff(r, a)
  BY DEF Commits
<1>3. /\ now \in Nat /\ arrived \in [Request -> Nat] /\ \A q \in Request : call'[q] = call[q]
      /\ \A a \in Agent : agents[a] # Gone => agents[a].last_seen \in Nat
  BY <1>1, TimeAssumption DEF IInv, TypeOK, AgentRow
<1>4. NotAhead'
  BY <1>1, <1>2, <1>3
  DEF FeedInv, NotAhead, Registers, LeavesAlone, HearsOf, TakesOff
<1>5. ReadSince'
  <2> SUFFICES ASSUME NEW q \in Request, pc'[q] = "loaded",
                      call[q].op \in {"heartbeat", "revoke"}
               PROVE  LET a == call[q].agent
                      IN /\ agents'[a].last_seen <= arrived[q] \/ Since(q, {"heartbeat"}, a)'
                         /\ \/ row[q].status = agents'[a].status
                            \/ Since(q, {"heartbeat", "revoke"}, a)'
                         /\ row[q].status = "offline" =>
                              agents'[a].status = "offline" \/ Since(q, {"heartbeat"}, a)'
    BY <1>1 DEF ReadSince
  <2> DEFINE a == call[q].agent
  <2>1. q # r /\ pc[q] = "loaded"
    BY <1>1, CommitRanks
  <2>2. a \in Agent /\ agents[a] # Gone /\ agents'[a] # Gone
    <3>1. call[q] \in Calls
      BY <1>1, <2>1 DEF IInv, TypeOK
    <3> QED BY <1>1, <2>1, <3>1, CallFields DEF IInv, Present
  <2>3. /\ agents[a].last_seen <= arrived[q] \/ Since(q, {"heartbeat"}, a)
        /\ row[q].status = agents[a].status \/ Since(q, {"heartbeat", "revoke"}, a)
        /\ row[q].status = "offline" =>
             agents[a].status = "offline" \/ Since(q, {"heartbeat"}, a)
    BY <2>1 DEF FeedInv, ReadSince
  <2>4. /\ Since(q, {"heartbeat"}, a) => Since(q, {"heartbeat"}, a)'
        /\ Since(q, {"heartbeat", "revoke"}, a) => Since(q, {"heartbeat", "revoke"}, a)'
    BY <1>1, SinceCommit
  <2>5. CASE LeavesAlone(r, a)
    BY <2>3, <2>4, <2>5 DEF LeavesAlone
  <2>6. CASE HearsOf(r, a)
    <3>1. Since(q, {"heartbeat"}, a)' /\ Since(q, {"heartbeat", "revoke"}, a)'
      BY <1>1, <2>6, SinceCommit DEF HearsOf
    <3> QED BY <3>1
  <2>7. CASE TakesOff(r, a)
    <3>1. Since(q, {"heartbeat", "revoke"}, a)'
      BY <1>1, <2>7, SinceCommit DEF TakesOff
    <3> QED BY <2>3, <2>4, <2>7, <3>1 DEF TakesOff
  <2> QED BY <1>2, <2>2, <2>5, <2>6, <2>7 DEF Registers
<1>6. ASSUME NEW a \in Agent, agents'[a] # Gone, agents'[a].revoked,
             agents'[a].status # "offline"
      PROVE  \E h, v \in Request : /\ Committed(h, {"heartbeat"}, a)' /\ Revokes(v, a)'
                                   /\ Overlap(h, v)' \/ Overlap(v, h)'
  <2>1. CASE Registers(r, a)
    BY <1>6, <2>1 DEF Registers
  <2>2. CASE LeavesAlone(r, a)
    <3>1. PICK h, v \in Request : /\ Committed(h, {"heartbeat"}, a) /\ Revokes(v, a)
                                  /\ Overlap(h, v) \/ Overlap(v, h)
      BY <1>6, <2>2 DEF LeavesAlone, FeedInv, RowAndFeedTellStatus
    <3>2. Committed(h, {"heartbeat"}, a)' /\ Revokes(v, a)'
      BY <1>1, <3>1, SinceCommit DEF Revokes
    <3>3. /\ Overlap(h, v)' <=> Overlap(h, v)
          /\ Overlap(v, h)' <=> Overlap(v, h)
      BY <1>1, <3>1, OverlapCommit DEF Revokes, Committed
    <3> QED BY <3>1, <3>2, <3>3
  <2>3. CASE HearsOf(r, a)
    <3>1. PICK v \in Request : Revokes(v, a)
      BY <1>1, <1>6, <2>3 DEF HearsOf, IInv, RevocationSticks
    <3>2. Passed(r, {"heartbeat", "telemetry", "rotate"}, a)
      BY <1>1, <2>3 DEF HearsOf, Passed
    <3>3. Since(r, {"revoke"}, a)
      BY <1>1, <3>1, <3>2 DEF IInv, Authorised, Since, Revokes
    <3>4. PICK w \in Request : Committed(w, {"revoke"}, a)' /\ Overlap(w, r)'
      BY <1>1, <3>3, SinceCommit
    <3>5. Committed(r, {"heartbeat"}, a)'
      BY <1>1, <2>3, SinceCommit DEF HearsOf
    <3> QED BY <3>4, <3>5 DEF Revokes
  <2>4. CASE TakesOff(r, a)
    <3>1. row[r].status = "offline" /\ agents[a].status # "offline"
      BY <1>6, <2>4 DEF TakesOff
    <3>2. Since(r, {"heartbeat"}, a)
      BY <1>1, <2>4, <3>1 DEF TakesOff, FeedInv, ReadSince
    <3>3. PICK h \in Request : Committed(h, {"heartbeat"}, a)' /\ Overlap(h, r)'
      BY <1>1, <3>2, SinceCommit
    <3>4. Revokes(r, a)'
      BY <1>1, <2>4, SinceCommit DEF TakesOff, Revokes
    <3> QED BY <3>3, <3>4
  <2> QED BY <1>2, <1>6, <2>1, <2>2, <2>3, <2>4
<1>7. ASSUME NEW a \in Agent, agents'[a] # Gone, told'[a] # agents'[a].status
      PROVE  \E p, q \in Request : /\ Committed(p, {"heartbeat", "revoke"}, a)'
                                   /\ Committed(q, {"heartbeat", "revoke"}, a)'
                                   /\ Overlap(p, q)'
  <2>1. CASE Registers(r, a)
    BY <1>7, <2>1 DEF Registers
  <2>2. CASE agents[a] # Gone /\ told[a] # agents[a].status
    <3>1. PICK p, q \in Request : /\ Committed(p, {"heartbeat", "revoke"}, a)
                                  /\ Committed(q, {"heartbeat", "revoke"}, a)
                                  /\ Overlap(p, q)
      BY <2>2 DEF FeedInv, RowAndFeedTellStatus
    <3>2. /\ Committed(p, {"heartbeat", "revoke"}, a)'
          /\ Committed(q, {"heartbeat", "revoke"}, a)'
      BY <1>1, <3>1, SinceCommit
    <3>3. Overlap(p, q)'
      BY <1>1, <3>1, OverlapCommit DEF Committed
    <3> QED BY <3>2, <3>3
  <2>3. CASE /\ HearsOf(r, a) \/ TakesOff(r, a)
             /\ told[a] = agents[a].status
    <3>1. row[r].status # agents[a].status /\ call[r].op \in {"heartbeat", "revoke"}
          /\ call[r].agent = a
      BY <1>7, <2>3 DEF HearsOf, TakesOff
    <3>2. Since(r, {"heartbeat", "revoke"}, a)
      BY <1>1, <3>1 DEF FeedInv, ReadSince
    <3>3. PICK p \in Request : Committed(p, {"heartbeat", "revoke"}, a)' /\ Overlap(p, r)'
      BY <1>1, <3>2, SinceCommit
    <3>4. Committed(r, {"heartbeat", "revoke"}, a)'
      BY <1>1, <3>1, SinceCommit
    <3> QED BY <3>3, <3>4
  <2> QED BY <1>2, <1>7, <2>1, <2>2, <2>3 DEF LeavesAlone, HearsOf, TakesOff
<1>8. RowAndFeedTellStatus'
  BY <1>6, <1>7 DEF RowAndFeedTellStatus
<1> QED BY <1>4, <1>5, <1>8 DEF FeedInv

LEMMA OtherStepsKeepFeed ==
  ASSUME FeedInv, IInv',
         \/ \E r \in Request : Loads(r)
         \/ /\ UNCHANGED <<agents, call, row, arrived, began, rank, commits, told>>
            /\ now <= now' /\ \A q \in Request : pc'[q] \in {"loaded", "ok"} => pc'[q] = pc[q]
            /\ \A q \in Request : pc[q] = "ok" => pc'[q] = "ok"
  PROVE  FeedInv'
<1>1. /\ agents' = agents /\ rank' = rank /\ commits' = commits /\ told' = told /\ now <= now'
      /\ \A q \in Request : pc'[q] = "ok" <=> pc[q] = "ok"
      /\ \A q \in Request : pc[q] = "ok" => call'[q] = call[q] /\ began'[q] = began[q]
      /\ \A q \in Request : pc'[q] = "loaded" =>
           \/ /\ pc[q] = "loaded" /\ call'[q] = call[q] /\ began'[q] = began[q]
              /\ row'[q] = row[q] /\ arrived'[q] = arrived[q]
           \/ row'[q] = agents[call'[q].agent] /\ arrived'[q] = now
  BY DEF Loads, FeedInv, IInv, TypeOK
<1>2. ASSUME NEW q \in Request, NEW ops, NEW a
      PROVE  Committed(q, ops, a)' <=> Committed(q, ops, a)
  BY <1>1 DEF Committed
<1>3. ASSUME NEW q \in Request, NEW ops, NEW a, began'[q] = began[q], Since(q, ops, a)
      PROVE  Since(q, ops, a)'
  BY <1>1, <1>2, <1>3 DEF Since
<1>4. ASSUME NEW p \in Request, NEW q \in Request, pc[p] = "ok", pc[q] = "ok"
      PROVE  Overlap(p, q)' <=> Overlap(p, q)
  BY <1>1, <1>4 DEF Overlap
<1>5. NotAhead'
  <2>1. /\ now \in Nat /\ now' \in Nat
        /\ \A a \in Agent : agents[a] # Gone => agents[a].last_seen \in Nat
    BY TimeAssumption DEF FeedInv, IInv, TypeOK, AgentRow
  <2> QED BY <1>1, <2>1 DEF FeedInv, NotAhead
<1>6. ReadSince'
  <2> SUFFICES ASSUME NEW q \in Request, NEW a, a = call'[q].agent, pc'[q] = "loaded",
                      call'[q].op \in {"heartbeat", "revoke"}
               PROVE  /\ agents'[a].last_seen <= arrived'[q] \/ Since(q, {"heartbeat"}, a)'
                      /\ \/ row'[q].status = agents'[a].status
                         \/ Since(q, {"heartbeat", "revoke"}, a)'
                      /\ row'[q].status = "offline" =>
                           agents'[a].status = "offline" \/ Since(q, {"heartbeat"}, a)'
    BY DEF ReadSince, Since, Committed
  <2>1. CASE /\ pc[q] = "loaded" /\ call'[q] = call[q] /\ began'[q] = began[q]
             /\ row'[q] = row[q] /\ arrived'[q] = arrived[q]
    <3>1. /\ agents[a].last_seen <= arrived[q] \/ Since(q, {"heartbeat"}, a)
          /\ row[q].status = agents[a].status \/ Since(q, {"heartbeat", "revoke"}, a)
          /\ row[q].status = "offline" =>
               agents[a].status = "offline" \/ Since(q, {"heartbeat"}, a)
      BY <2>1 DEF FeedInv, ReadSince
    <3>2. /\ Since(q, {"heartbeat"}, a) => Since(q, {"heartbeat"}, a)'
          /\ Since(q, {"heartbeat", "revoke"}, a) => Since(q, {"heartbeat", "revoke"}, a)'
      BY <1>3, <2>1
    <3> QED BY <1>1, <2>1, <3>1, <3>2
  <2>2. CASE row'[q] = agents[a] /\ arrived'[q] = now
    <3>1. call'[q] \in Calls
      BY DEF IInv, TypeOK
    <3>2. a \in Agent /\ agents[a] # Gone
      BY <1>1, <3>1, CallFields DEF IInv, Present
    <3> QED BY <1>1, <2>2, <3>2 DEF FeedInv, NotAhead
  <2> QED BY <1>1, <2>1, <2>2
<1>7. RowAndFeedTellStatus'
  <2>1. ASSUME NEW a \in Agent, agents[a] # Gone, agents[a].revoked,
               agents[a].status # "offline"
        PROVE  \E h, v \in Request : /\ Committed(h, {"heartbeat"}, a)' /\ Revokes(v, a)'
                                     /\ Overlap(h, v)' \/ Overlap(v, h)'
    <3>1. PICK h, v \in Request : /\ Committed(h, {"heartbeat"}, a) /\ Revokes(v, a)
                                  /\ Overlap(h, v) \/ Overlap(v, h)
      BY <2>1 DEF FeedInv, RowAndFeedTellStatus
    <3>2. Committed(h, {"heartbeat"}, a)' /\ Revokes(v, a)'
      BY <1>2, <3>1 DEF Revokes
    <3>3. Overlap(h, v)' \/ Overlap(v, h)'
      BY <1>4, <3>1 DEF Revokes, Committed
    <3> QED BY <3>2, <3>3
  <2>2. ASSUME NEW a \in Agent, agents[a] # Gone, told[a] # agents[a].status
        PROVE  \E p, q \in Request : /\ Committed(p, {"heartbeat", "revoke"}, a)'
                                     /\ Committed(q, {"heartbeat", "revoke"}, a)'
                                     /\ Overlap(p, q)'
    <3>1. PICK p, q \in Request : /\ Committed(p, {"heartbeat", "revoke"}, a)
                                  /\ Committed(q, {"heartbeat", "revoke"}, a)
                                  /\ Overlap(p, q)
      BY <2>2 DEF FeedInv, RowAndFeedTellStatus
    <3>2. /\ Committed(p, {"heartbeat", "revoke"}, a)'
          /\ Committed(q, {"heartbeat", "revoke"}, a)'
      BY <1>2, <3>1
    <3>3. Overlap(p, q)'
      BY <1>4, <3>1 DEF Committed
    <3> QED BY <3>2, <3>3
  <2> QED BY <1>1, <2>1, <2>2 DEF RowAndFeedTellStatus
<1> QED BY <1>5, <1>6, <1>7 DEF FeedInv

LEMMA FeedInvariance == Spec => []FeedInv
<1>1. Init => FeedInv
  <2> SUFFICES ASSUME Init PROVE FeedInv
    OBVIOUS
  <2>1. \A a \in Agent : agents[a] # Gone =>
          /\ agents[a].last_seen = 0 /\ agents[a].revoked = FALSE
          /\ agents[a].status = told[a]
    BY DEF Init
  <2>2. now = 0 /\ \A r \in Request : pc[r] # "loaded"
    BY DEF Init
  <2> QED BY <2>1, <2>2, InvInit DEF FeedInv, NotAhead, ReadSince, RowAndFeedTellStatus
<1>2. FeedInv /\ [Next]_vars => FeedInv'
  <2> SUFFICES ASSUME FeedInv, [Next]_vars PROVE FeedInv'
    OBVIOUS
  <2>1. IInv /\ IInv'
    BY InvStep DEF FeedInv
  <2> QED BY <2>1, StepCommitsOrNot, CommitKeepsFeed, OtherStepsKeepFeed
<1> QED BY <1>1, <1>2, PTL DEF Spec

(***************************************************************************)
(* agent_heartbeat and revoke_agent judge the row as loaded.  A revoked    *)
(* agent is shown in another status than OFFLINE, or its last event tells  *)
(* another status than its row, only after two requests overlapped.        *)
(***************************************************************************)
THEOREM RowAndFeedAgree == Spec => []RowAndFeedTellStatus
<1>1. FeedInv => RowAndFeedTellStatus
  BY DEF FeedInv
<1> QED BY <1>1, FeedInvariance, PTL

(***************************************************************************)
(* agent_heartbeat stamps last_seen with its own clock after its SELECT:   *)
(* the column goes back only if another heartbeat of the agent committed   *)
(* between that SELECT and the commit.                                     *)
(***************************************************************************)
THEOREM LastSeenAdvances == Spec => SeenGoesBackOnlyOnOverlap
<1>1. ASSUME FeedInv, [Next]_vars
      PROVE  [\A a \in Agent :
                (agents[a] # Gone /\ agents'[a].last_seen < agents[a].last_seen) =>
                  \E q, r \in Request : /\ Committed(q, {"heartbeat"}, a)
                                       /\ Committed(r, {"heartbeat"}, a)'
                                       /\ began[r] < rank[q] /\ rank'[r] = commits']_vars
  <2> SUFFICES ASSUME NEW a \in Agent, agents[a] # Gone,
                      agents'[a].last_seen < agents[a].last_seen
               PROVE  \E q, r \in Request : /\ Committed(q, {"heartbeat"}, a)
                                            /\ Committed(r, {"heartbeat"}, a)'
                                            /\ began[r] < rank[q] /\ rank'[r] = commits'
    OBVIOUS
  <2>1. IInv /\ IInv'
    BY <1>1, InvStep DEF FeedInv
  <2>2. agents[a].last_seen \in Nat
    BY <2>1 DEF IInv, TypeOK, AgentRow
  <2>3. agents' # agents
    BY <2>2
  <2>4. PICK r \in Request : Commits(r)
    BY <1>1, <2>1, <2>3, StepCommitsOrNot DEF Loads
  <2>5. /\ pc[r] = "loaded" /\ pc'[r] = "ok" /\ call' = call
        /\ rank'[r] = commits + 1 /\ commits' = commits + 1
    BY <2>1, <2>4, CommitRanks DEF Commits
  <2>6. a = call[r].agent
    BY <2>2, <2>4 DEF Commits
  <2>7. agents'[a] # Gone
    BY <2>1, <2>5, <2>6 DEF IInv, Present
  <2>8. HearsOf(r, a)
    BY <2>2, <2>4, <2>7 DEF Commits, Registers, LeavesAlone, TakesOff
  <2>9. PICK at \in arrived[r]..now : agents'[a].last_seen = at
    BY <2>2, <2>8 DEF HearsOf
  <2>10. ~(agents[a].last_seen <= arrived[r])
    <3>1. arrived[r] \in Nat
      BY <2>1, TimeAssumption DEF IInv, TypeOK
    <3> QED BY <2>2, <2>9, <3>1
  <2>11. Since(r, {"heartbeat"}, a)
    BY <1>1, <2>5, <2>8, <2>10 DEF FeedInv, ReadSince, HearsOf
  <2>12. Committed(r, {"heartbeat"}, a)'
    BY <2>5, <2>8 DEF HearsOf, Committed
  <2> QED BY <2>5, <2>11, <2>12 DEF Since
<1> QED BY <1>1, FeedInvariance, PTL DEF Spec, SeenGoesBackOnlyOnOverlap
=============================================================================
