-------------------------------- MODULE Console -------------------------------
(* What the application serves beside execution: the people of a workspace       *)
(* (Accounts), the models its agents call (Gateway), the events its clients watch  *)
(* (Stream) and its plugins (Plugins). Past the check of the caller's role the     *)
(* four share no row, so that every interleaving of theirs is one of each side     *)
(* alone: a behaviour has the steps of one side, chosen at the start, and the      *)
(* others stay as they are.                                                        *)
EXTENDS Naturals, FiniteSets

CONSTANTS
    Users, Codes, Tokens, MaxWorkspaces, InviteRoles, SetRoles,
    Providers, Known, EnvKeys, Names, Aliases, Yaml, Agents, Sessions, Tried, NoRef,
    Submissions,     \* numbers: bound on the requests to Accounts
    Edits,           \* numbers: bound on the requests to Gateway
    Instances, Clients, Home, Writes, MaxFaults,
    Plugins, ToolNames, Builtin, Manifests, MaxUses, MaxAttempts,
    Patches          \* numbers: bound on the requests to Plugins

VARIABLES
    workspaces, registered, role, code, token, lapsed, request,
    demoted, admitted, raced, ended,
    stored, custom, model, change, session, referred, stranded,
    version, writer, listening, inbox, client, doubt, faults,
    manifest, listed, mounts, edit, job, post, due, log,
    side             \* "people", "models", "events" or "plugins"

people == <<workspaces, registered, role, code, token, lapsed, request,
            demoted, admitted, raced, ended>>
models == <<stored, custom, model, change, session, referred, stranded>>
events == <<version, writer, listening, inbox, client, doubt, faults>>
plugins == <<manifest, listed, mounts, edit, job, post, due, log>>

A == INSTANCE Accounts WITH Requests <- Submissions
G == INSTANCE Gateway WITH Requests <- Edits, raced <- referred
S == INSTANCE Stream
P == INSTANCE Plugins WITH Requests <- Patches

ASSUME ConsoleAssumption ==
    A!AccountsAssumption /\ G!GatewayAssumption /\ S!StreamAssumption /\ P!PluginsAssumption

Init ==
    /\ A!Init /\ G!Init /\ S!Init /\ P!Init
    /\ side \in {"people", "models", "events", "plugins"}
    /\ side # "people" => registered = {}
    /\ side # "plugins" => listed = {} /\ manifest = CHOOSE f \in Manifests : TRUE

People == side = "people" /\ A!Next /\ UNCHANGED <<models, events, plugins, side>>
Models == side = "models" /\ G!Next /\ UNCHANGED <<people, events, plugins, side>>
Events == side = "events" /\ S!Next /\ UNCHANGED <<people, models, plugins, side>>
Tools  == side = "plugins" /\ P!Next /\ UNCHANGED <<people, models, events, side>>

Next == People \/ Models \/ Events \/ Tools

Spec == Init /\ [][Next]_<<people, models, events, plugins, side>>
-----------------------------------------------------------------------------
\* The types of the four.
TypeOK == A!TypeOK /\ G!TypeOK /\ S!TypeOK /\ P!TypeOK

\* A workspace keeps an owner whatever overlaps, unless an owner's role is
\* changed (update_member_role does not look for another owner); an invitation
\* lets one user in, unless two joins held it at once (join_workspace).
MembershipSound == A!MembershipSound

\* No refresh of a token succeeds that began after its logout (auth.py).
LogoutIsFinal == A!LogoutIsFinal

\* A call tries the models of its chain in order, each once, until one answers
\* (call_model, _fallback_chain).
CallFollowsChain == G!CallFollowsChain

\* A custom model is not deleted from under an agent or another model, unless the
\* reference was made while the delete was under way (delete_custom_model).
DeletedModelIsUnused == G!DeletedModelIsUnused

\* A client that no event missed and no two changes crossed shows the committed
\* task once all is delivered, and none is told of a change twice (relay.py).
ClientsFollow == S!ClientsFollow

\* A call of a tool goes to the plugin that offered it, and the end of a task is
\* told to every plugin enabled, whatever plugins answer (tools.py, webhook.py).
RequestsReachTheirPlugin == P!RequestsReachTheirPlugin
=============================================================================
