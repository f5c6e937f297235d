----------------------------- MODULE ToolAccess -----------------------------
(***************************************************************************)
(* Who may call which tool: the MCP endpoint                               *)
(* (src/internal/interfaces/mcp/handler.go) makes a session of the         *)
(* credential a request carries, and the tools are registered anew for     *)
(* every request (tools.go), so that a session that may not write does not *)
(* see the tools that delete projects.                                     *)
(***************************************************************************)
CONSTANTS
  ApiTokens,   \* non-blank Black Duck API tokens
  None         \* no API token, no access mode

ASSUME AccessNoneAssumption == None \notin ApiTokens \cup {"read_only", "read_write"}

\* What a request carries: a live access token and the mode in it, Basic auth
\* whose password is the API token (perhaps blank), or nothing.
Credentials ==
  [kind : {"bearer"}, apiToken : ApiTokens, mode : {"read_only", "read_write", None}]
    \cup [kind : {"basic"}, apiToken : ApiTokens \cup {None}, mode : {None}]
    \cup [kind : {"none"}, apiToken : {None}, mode : {None}]

PublicMethods ==
  {"initialize", "notifications/initialized", "tools/list", "prompts/list",
   "resources/list", "resources/templates/list", "ping"}

\* Without a credential only discovery is served; anything else answers 401.
Admitted(cred, method) == cred.kind # "none" \/ method \in PublicMethods

\* handler.go:160,180 and accessModeFromContext: only a bearer whose token says
\* read_write gets it, everything else is read-only.
WriteEnabled(cred) == cred.kind = "bearer" /\ cred.mode = "read_write"

-----------------------------------------------------------------------------
(* The registry.  "read" stands for the tools without a name here: ping,   *)
(* and 34 that are one GetJSON each on behalf of the session.              *)

\* The update is registered whatever the access mode.
UserTools == {"read", "blackduck_users_update"}

\* Of the project tools, the two that delete are held back.
ProjectTools(writeEnabled) ==
  {"read"} \cup
    IF writeEnabled
    THEN {"blackduck_project_delete_prepare", "blackduck_project_delete_commit"}
    ELSE {}

Tools(cred) == ProjectTools(WriteEnabled(cred)) \cup UserTools

MayCall(cred, tool) == Admitted(cred, "tools/call") /\ tool \in Tools(cred)
=============================================================================
