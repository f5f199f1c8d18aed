------------------------------- MODULE Agents -------------------------------
(***************************************************************************)
(* The MCP server: registries of tools over one service, each serving an   *)
(* agent's stdio session in its own mode.                                  *)
(*                                                                         *)
(* A registry asks its mode and its namespace first and then sends the     *)
(* call to the service as an HTTP request would be, which asks the token,  *)
(* or without one what the service grants everybody.  A registry without a *)
(* token sets the latter when it is opened, for all.  A session handles    *)
(* one message at a time.                                                  *)
(***************************************************************************)
CONSTANTS
    Agents,         \* registries and their sessions
    Home,           \* memory.namespace of the service
    Nested,         \* namespaces under it
    Foreign         \* all others

Spaces == {Home} \cup Nested \cup Foreign

VARIABLES
    everybody,      \* config.tokenless_capabilities
    authRequired,   \* config.auth_required
    guarded,        \* protected mode
    agent,          \* registries and how far their sessions are
    call,           \* the call of a session
    invocation      \* the newest row of a session in mcp_tool_invocation_log

agentVars == <<everybody, authRequired, guarded, agent, call, invocation>>

Modes == {"read_only", "read_write_candidate", "read_write_active", "admin"}

\* MODE_CAPABILITIES, of which memory:admin stands for all.
Granted(mode) ==
    CASE mode = "read_only" -> {"read"}
      [] mode = "read_write_candidate" -> {"read", "write_candidate"}
      [] mode = "read_write_active" -> {"read", "write_candidate", "write_active"}
      [] mode = "admin" -> {"read", "write_candidate", "write_active", "admin"}

\* required_capability of the tools: context packs, searches and explanations;
\* remember; active is its write_mode; reports, ingestion, extraction and reviews.
Tools == {"search", "explain", "remember", "remember_active", "list_candidates", "promote_candidate"}
Required(tool) ==
    CASE tool \in {"search", "explain"} -> "read"
      [] tool = "remember" -> "write_candidate"
      [] tool = "remember_active" -> "write_active"
      [] OTHER -> "review"

Allows(capabilities, tool) == Required(tool) \in capabilities \/ "admin" \in capabilities

\* Tools that name what they are about by its id: its namespace is not sent.
ById == {"explain", "promote_candidate"}

NoAgent == [mode |-> "none", token |-> "none", space |-> Home, phase |-> "none"]
NoToolCall == [tool |-> "none", space |-> Home, phase |-> "none", done |-> FALSE]

AgentsInit ==
    /\ everybody = "read_write_candidate"
    /\ authRequired \in BOOLEAN /\ guarded \in BOOLEAN
    /\ agent = [a \in Agents |-> NoAgent]
    /\ call = [a \in Agents |-> NoToolCall]
    /\ invocation = [a \in Agents |-> "none"]

\* McpToolRegistry: a token is one of the service's, with the capabilities of a
\* mode for its home and what is under it.
Register(a, mode, token, space) ==
    /\ agent[a] = NoAgent
    /\ agent' = [agent EXCEPT ![a] = [mode |-> mode, token |-> token, space |-> space, phase |-> "new"]]
    /\ everybody' = IF token = "none" /\ ~authRequired THEN mode ELSE everybody
    /\ UNCHANGED <<authRequired, guarded, call, invocation>>

\* Protected mode is switched by an owner.
Protect == guarded' = ~guarded /\ UNCHANGED <<everybody, authRequired, agent, call, invocation>>

Idle(a) == call[a].phase = "none"

\* initialize, once; notifications/initialized; the end of the input.
Initialize(a) ==
    /\ Idle(a) /\ agent[a].phase = "new"
    /\ agent' = [agent EXCEPT ![a].phase = "initialized"]
    /\ UNCHANGED <<everybody, authRequired, guarded, call, invocation>>

Initialized(a) ==
    /\ Idle(a) /\ agent[a].phase = "initialized"
    /\ agent' = [agent EXCEPT ![a].phase = "ready"]
    /\ UNCHANGED <<everybody, authRequired, guarded, call, invocation>>

Hangup(a) ==
    /\ Idle(a) /\ agent[a].phase \in {"new", "initialized", "ready"}
    /\ agent' = [agent EXCEPT ![a].phase = "ended"]
    /\ UNCHANGED <<everybody, authRequired, guarded, call, invocation>>

\* A mutated form of RequireMode: the service asks whoever it lets in.
LeaveItToTheService(a, tool, space) == TRUE

\* _require_mode.
RequireMode(a, tool, space) ==
    /\ Allows(Granted(agent[a].mode), tool)
    /\ agent[a].token = "none" /\ tool \notin ById => space = agent[a].space

\* tools/call of a session that is ready, or the older form before it is
\* initialized.  What the mode forbids is answered without a row in the log.
Call(a, tool, space) ==
    /\ Idle(a) /\ agent[a].phase \in {"new", "ready"}
    /\ call' = [call EXCEPT ![a] =
           [tool |-> tool, space |-> space, done |-> FALSE,
            phase |-> IF RequireMode(a, tool, space) THEN "sent" ELSE "failed"]]
    /\ UNCHANGED <<everybody, authRequired, guarded, agent, invocation>>

\* Of a namespace, and what is under it: the service's without a token.
Admits(a, tool, space) ==
    /\ agent[a].token = "none" => ~authRequired /\ ~guarded
    /\ Allows(Granted(IF agent[a].token = "none" THEN everybody ELSE agent[a].token), tool)
    /\ space \in {Home} \cup Nested

\* handle_http, in one transaction.
Serve(a) ==
    LET admitted == Admits(a, call[a].tool, call[a].space)
    IN  /\ call[a].phase = "sent"
        /\ call' = [call EXCEPT ![a].done = admitted,
                                ![a].phase = IF admitted THEN "served" ELSE "refused"]
        /\ UNCHANGED <<everybody, authRequired, guarded, agent, invocation>>

\* The row of the log is a transaction of its own.  When it cannot be written the
\* call is logged and answered as an error, although it was carried out.
Log(a, written) ==
    LET status == IF call[a].phase = "served" THEN "ok" ELSE "error"
    IN  /\ call[a].phase \in {"served", "refused"}
        /\ invocation' = IF written THEN [invocation EXCEPT ![a] = status] ELSE invocation
        /\ call' = [call EXCEPT ![a].phase =
               CASE written /\ status = "ok" -> "result"
                 [] ~written /\ status = "ok" -> "refused"
                 [] OTHER -> "failed"]
        /\ UNCHANGED <<everybody, authRequired, guarded, agent>>

\* The answer of the session, with isError or without.
AnswerAgent(a) ==
    /\ call[a].phase \in {"result", "failed"}
    /\ call' = [call EXCEPT ![a] = NoToolCall]
    /\ UNCHANGED <<everybody, authRequired, guarded, agent, invocation>>

AgentsNext ==
    \/ Protect
    \/ \E a \in Agents :
        \/ \E mode \in Modes, token \in Modes \cup {"none"}, space \in Spaces : Register(a, mode, token, space)
        \/ Initialize(a) \/ Initialized(a) \/ Hangup(a) \/ Serve(a) \/ AnswerAgent(a)
        \/ \E tool \in Tools, space \in Spaces : Call(a, tool, space)
        \/ \E written \in BOOLEAN : Log(a, written)

AgentsSpec == AgentsInit /\ [][AgentsNext]_agentVars

-----------------------------------------------------------------------------
\* What an agent had carried out is what the mode of its own registry allows,
\* and, when it named a namespace without a token, in its own one: whatever
\* other registries of the service were opened with before or meanwhile.
CallsStayWithinTheirMode ==
    \A a \in Agents : call[a].done =>
        /\ Allows(Granted(agent[a].mode), call[a].tool)
        /\ agent[a].token = "none" /\ call[a].tool \notin ById => call[a].space = agent[a].space
=============================================================================
