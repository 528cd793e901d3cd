------------------------------- MODULE Accounts -------------------------------
(* Users, sessions, memberships: auth.py, workspace_members.py, permissions.py. *)
(*                                                                           *)
(* A request authenticates, checks the caller's role in the workspace, reads    *)
(* what it is about, and commits later; between its reads and its commit other  *)
(* requests commit (PostgreSQL, read committed). Begin... is a request up to    *)
(* its last read, the action named like the handler is the rest. A write to a   *)
(* row that is gone, and an insert that meets a unique constraint, fail the     *)
(* request and change nothing.                                                *)
(* Abstracted: passwords, addresses and names (a user is its address), the      *)
(* signature of a token (a token that was issued and has not run out passes),    *)
(* access tokens, audit records. No code changes is_active.                     *)
EXTENDS Naturals, FiniteSets

CONSTANTS
    Users, Codes, Tokens,
    Requests,          \* numbers: bound on the requests
    MaxWorkspaces,     \* bound: workspaces that are ever created
    InviteRoles,       \* the roles tried in invitations
    SetRoles           \* the roles tried in changes of a role

\* Assumed of the constants (Console).
AccountsAssumption ==
    /\ MaxWorkspaces \in Nat \ {0} /\ Requests \subseteq Nat
    /\ InviteRoles \subseteq {"admin", "member", "viewer"}
    /\ SetRoles \subseteq {"owner", "admin", "member", "viewer"}

VARIABLES
    workspaces,     \* how many there are; the first is the one of the seed
    registered,     \* users with a row
    role,           \* role[u][w]: u's membership of w, or "none"
    code,           \* invitations
    token, lapsed,  \* refresh tokens and their rows; those past their time
    request,        \* what each request has read and is about to write
    demoted,        \* history: workspaces where an owner's role was changed
    admitted,       \* history: admitted[c]: the users who joined with c
    raced,          \* history: codes that two joins held at once
    ended           \* history: tokens whose logout has answered

members == <<workspaces, registered, role>>
history == <<demoted, admitted, raced, ended>>
avars == <<members, code, token, lapsed, request, history>>
-----------------------------------------------------------------------------
Workspaces == 1..MaxWorkspaces
Roles == {"owner", "admin", "member", "viewer"}

\* ROLE_HIERARCHY; a caller who is no member is refused everywhere.
Level(r) == CASE r = "owner" -> 100 [] r = "admin" -> 80 [] r = "member" -> 50
              [] r = "viewer" -> 10 [] OTHER -> 0

\* require_workspace_role and enforce_workspace_role.
HasRole(u, w, least) == role[u][w] # "none" /\ Level(role[u][w]) >= Level(least)

Members(w) == {u \in Users : role[u][w] # "none"}

\* Mutant: whoever holds a token passes.
AnyBearer(u) == u \in Users

\* get_current_user: a user with a row.
Authenticated(u) == u \in registered

Done == [do |-> "done"]
Unused(r) == request[r].do = "none"
Answered(r) == request' = [request EXCEPT ![r] = Done]

\* Requests are numbered as they come.
NextOne(r) == Unused(r) /\ \A q \in Requests : q < r => ~Unused(q)

GoesOn(r, what) == request' = [request EXCEPT ![r] = what]

\* The requests that go on after r: those about a membership row that r deletes
\* will find it gone.
AnsweredRemoving(r, u, w) ==
    request' = [q \in Requests |->
        IF q = r \/ (request[q].do \in {"set", "remove"} /\ request[q].ws = w /\ request[q].target = u)
        THEN Done ELSE request[q]]

\* A seeded workspace without members; or the data of a release before refresh
\* tokens had rows: an owner who holds a signed token that has none, and users
\* who are members of the first workspace or have been removed from it.
Init ==
    /\ workspaces = 1
    /\ code = [c \in Codes |-> [status |-> "none"]]
    /\ \/ /\ registered = {}
          /\ role = [u \in Users |-> [w \in Workspaces |-> "none"]]
          /\ token = [k \in Tokens |-> [row |-> "none"]]
       \/ \E u \in Users, k \in Tokens, S \in SUBSET Users :
          /\ u \in S /\ registered = Users
          /\ role = [v \in Users |-> [w \in Workspaces |->
                        IF w # 1 \/ v \notin S THEN "none" ELSE IF v = u THEN "owner" ELSE "member"]]
          /\ token = [j \in Tokens |-> IF j = k THEN [row |-> "signed", user |-> u]
                                                ELSE [row |-> "none"]]
    /\ lapsed = {}
    /\ request = [r \in Requests |-> [do |-> "none"]]
    /\ demoted = {} /\ admitted = [c \in Codes |-> {}]
    /\ raced = {} /\ ended = {}
-----------------------------------------------------------------------------
(* Registration and sessions.                                                  *)

BeginRegister(r, u) ==
    /\ u \notin registered
    /\ GoesOn(r, [do |-> "assign", user |-> u])
    /\ UNCHANGED <<members, code, token, lapsed, history>>

\* The first member of the first workspace owns it.
Assign(r) ==
    /\ request[r].do = "assign"
    /\ request' = [request EXCEPT ![r] =
            [do |-> "register", user |-> request[r].user,
             role |-> IF Members(1) = {} THEN "owner" ELSE "member"]]
    /\ UNCHANGED <<members, code, token, lapsed, history>>

Register(r) ==
    LET u == request[r].user IN
    /\ request[r].do = "register"
    /\ IF u \in registered
       THEN Answered(r) /\ UNCHANGED <<registered, role>>
       ELSE /\ registered' = registered \cup {u}
            /\ role' = [role EXCEPT ![u][1] = request[r].role]
            /\ request' = [request EXCEPT ![r] = [do |-> "issue", user |-> u]]
    /\ UNCHANGED <<workspaces, code, token, lapsed, history>>

BeginLogin(r, u) ==
    /\ u \in registered
    /\ GoesOn(r, [do |-> "issue", user |-> u])
    /\ UNCHANGED <<members, code, token, lapsed, history>>

OutOfTime(k, u) == k \in lapsed /\ token[k].row \in {"live", "revoked"} /\ token[k].user = u

\* Mutant: a login brings the user's tokens back to life.
RowRevived(k, u) == IF token[k].row = "revoked" /\ token[k].user = u
                    THEN [token[k] EXCEPT !.row = "live"] ELSE token[k]

\* _store_refresh_token deletes the user's rows that are out of time.
RowAfter(k, u) == IF OutOfTime(k, u) THEN [token[k] EXCEPT !.row = "purged"] ELSE token[k]

Issue(r, k) ==
    LET u == request[r].user IN
    /\ request[r].do = "issue" /\ token[k].row = "none"
    /\ token' = [j \in Tokens |-> IF j = k THEN [row |-> "live", user |-> u] ELSE RowAfter(j, u)]
    /\ Answered(r)
    /\ UNCHANGED <<members, code, lapsed, history>>

\* A token that verifies but has no row is refused.
BeginRefresh(r, k) ==
    /\ token[k].row = "live" /\ k \notin lapsed
    /\ GoesOn(r, [do |-> "refresh", token |-> k, late |-> k \in ended])
    /\ UNCHANGED <<members, code, token, lapsed, history>>

\* The access token is made out without another look; the refresh token stays.
Refresh(r) ==
    /\ request[r].do = "refresh"
    /\ request' = [request EXCEPT ![r].do = "refreshed"]
    /\ UNCHANGED <<members, code, token, lapsed, history>>

BeginLogout(r, k) ==
    /\ token[k].row # "none" /\ k \notin lapsed
    /\ GoesOn(r, IF token[k].row = "revoked" THEN Done
                 ELSE [do |-> IF token[k].row = "live" THEN "revoke" ELSE "refuse", token |-> k])
    /\ UNCHANGED <<members, code, token, lapsed, history>>

\* The row is revoked, or a revoked one is inserted for a token without.
Logout(r) ==
    LET k    == request[r].token
        here == IF request[r].do = "revoke" THEN {"live", "revoked"} ELSE {"signed"}
    IN
    /\ request[r].do \in {"revoke", "refuse"}
    /\ IF token[k].row \in here
       THEN token' = [token EXCEPT ![k].row = "revoked"] /\ ended' = ended \cup {k}
       ELSE UNCHANGED <<token, ended>>
    /\ Answered(r)
    /\ UNCHANGED <<members, code, lapsed, demoted, admitted, raced>>

Lapse(k) ==
    /\ token[k].row # "none" /\ k \notin lapsed
    /\ lapsed' = lapsed \cup {k}
    /\ UNCHANGED <<members, code, token, request, history>>
-----------------------------------------------------------------------------
(* Workspaces, invitations, members.                                            *)

\* Through the members' API with an owner, through the older one without.
CreateWorkspace(r, u) ==
    /\ Authenticated(u) /\ workspaces < MaxWorkspaces
    /\ workspaces' = workspaces + 1
    /\ \/ role' = [role EXCEPT ![u][workspaces'] = "owner"]
       \/ UNCHANGED role
    /\ GoesOn(r, Done)
    /\ UNCHANGED <<registered, code, token, lapsed, history>>

BeginInvite(r, u, w, as) ==
    /\ HasRole(u, w, "admin")
    /\ GoesOn(r, [do |-> "invite", ws |-> w, role |-> as])
    /\ UNCHANGED <<members, code, token, lapsed, history>>

Invite(r, c) ==
    /\ request[r].do = "invite" /\ code[c].status = "none"
    /\ code' = [code EXCEPT ![c] = [status |-> "pending", ws |-> request[r].ws,
                                    role |-> request[r].role, late |-> FALSE]]
    /\ Answered(r)
    /\ UNCHANGED <<members, token, lapsed, history>>

RunOut(c) ==
    /\ code[c].status = "pending" /\ ~code[c].late
    /\ code' = [code EXCEPT ![c].late = TRUE]
    /\ UNCHANGED <<members, token, lapsed, request, history>>

Joining(c) == {q \in Requests : request[q].do = "join" /\ request[q].code = c}

BeginJoin(r, u, c) ==
    /\ Authenticated(u)
    /\ code[c].status = "pending"
    /\ \/ code[c].late /\ GoesOn(r, [do |-> "expire", code |-> c]) /\ UNCHANGED raced
       \/ /\ ~code[c].late /\ role[u][code[c].ws] = "none"
          /\ GoesOn(r, [do |-> "join", code |-> c, user |-> u])
          /\ raced' = IF Joining(c) # {} THEN raced \cup {c} ELSE raced
    /\ UNCHANGED <<members, code, token, lapsed, demoted, admitted, ended>>

\* The status was read as pending: it is written whatever it is by now.
Expire(r) ==
    /\ request[r].do = "expire"
    /\ code' = [code EXCEPT ![request[r].code].status = "expired"]
    /\ Answered(r)
    /\ UNCHANGED <<members, token, lapsed, history>>

\* Mutant: the code stays as it is.
CodeKept(c) == code

CodeUsed(c) == [code EXCEPT ![c].status = "accepted"]

Join(r) ==
    LET c == request[r].code
        u == request[r].user
        w == code[c].ws
    IN
    /\ request[r].do = "join"
    /\ IF role[u][w] # "none"
       THEN UNCHANGED <<role, code, admitted>>
       ELSE /\ role' = [role EXCEPT ![u][w] = code[c].role]
            /\ code' = CodeUsed(c)
            /\ admitted' = [admitted EXCEPT ![c] = @ \cup {u}]
    /\ Answered(r)
    /\ UNCHANGED <<workspaces, registered, token, lapsed, demoted, raced, ended>>

\* Owners only, whatever the role that is given; themselves included.
BeginUpdateRole(r, u, w, target, to) ==
    /\ HasRole(u, w, "admin") /\ role[u][w] = "owner"
    /\ role[target][w] # "none"
    /\ GoesOn(r, [do |-> "set", ws |-> w, target |-> target, role |-> to, was |-> role[target][w]])
    /\ UNCHANGED <<members, code, token, lapsed, history>>

\* A role equal to the one that was read is not written.
UpdateRole(r) ==
    LET q == request[r] IN
    /\ q.do = "set"
    /\ role' = IF q.role = q.was THEN role ELSE [role EXCEPT ![q.target][q.ws] = q.role]
    /\ demoted' = IF role[q.target][q.ws] = "owner" /\ role'[q.target][q.ws] # "owner"
                  THEN demoted \cup {q.ws} ELSE demoted
    /\ Answered(r)
    /\ UNCHANGED <<workspaces, registered, code, token, lapsed, admitted, raced, ended>>

\* Mutant: owners are removed like everybody else.
AnyMember(target, w) == role[target][w] # "none"

Removable(target, w) == role[target][w] \notin {"none", "owner"}

BeginRemove(r, u, w, target) ==
    /\ HasRole(u, w, "admin") /\ target # u
    /\ Removable(target, w)
    /\ GoesOn(r, [do |-> "remove", ws |-> w, target |-> target])
    /\ UNCHANGED <<members, code, token, lapsed, history>>

Remove(r) ==
    LET q == request[r] IN
    /\ q.do = "remove"
    /\ role' = [role EXCEPT ![q.target][q.ws] = "none"]
    /\ AnsweredRemoving(r, q.target, q.ws)
    /\ UNCHANGED <<workspaces, registered, code, token, lapsed, history>>
-----------------------------------------------------------------------------
Begin(r) ==
    /\ NextOne(r)
    /\ \/ \E u \in Users : BeginRegister(r, u) \/ BeginLogin(r, u) \/ CreateWorkspace(r, u)
       \/ \E k \in Tokens : BeginRefresh(r, k) \/ BeginLogout(r, k)
       \/ \E u \in Users, c \in Codes : BeginJoin(r, u, c)
       \/ \E u \in Users, w \in 1..workspaces :
             \/ \E as \in InviteRoles : BeginInvite(r, u, w, as)
             \/ \E target \in Users : \/ \E to \in SetRoles : BeginUpdateRole(r, u, w, target, to)
                                      \/ BeginRemove(r, u, w, target)

Commit(r) ==
    \/ Assign(r) \/ Register(r) \/ Refresh(r) \/ Logout(r)
    \/ Expire(r) \/ Join(r) \/ UpdateRole(r) \/ Remove(r)
    \/ \E k \in Tokens : Issue(r, k)
    \/ \E c \in Codes : Invite(r, c)

Clock == (\E k \in Tokens : Lapse(k)) \/ (\E c \in Codes : RunOut(c))

Next == (\E r \in Requests : Begin(r) \/ Commit(r)) \/ Clock

Spec == Init /\ [][Next]_avars
-----------------------------------------------------------------------------
(* Properties.                                                                 *)

\* Types; only registered users are members, of workspaces that exist.
TypeOK ==
    /\ workspaces \in Workspaces /\ registered \subseteq Users
    /\ role \in [Users -> [Workspaces -> Roles \cup {"none"}]]
    /\ \A u \in Users, w \in Workspaces :
            role[u][w] # "none" => u \in registered /\ w <= workspaces
    /\ \A c \in Codes : code[c].status \in {"none", "pending", "accepted", "expired"}
    /\ \A k \in Tokens : token[k].row \in {"none", "signed", "live", "revoked", "purged"}
    /\ lapsed \subseteq Tokens /\ ended \subseteq Tokens
    /\ \A r \in Requests : request[r].do \in
            {"none", "done", "assign", "register", "issue", "refresh", "refreshed", "revoke",
             "refuse", "invite", "expire", "join", "set", "remove"}
    /\ demoted \subseteq Workspaces /\ raced \subseteq Codes
    /\ admitted \in [Codes -> SUBSET Users]

\* A workspace that ever had an owner has one, unless an owner's role was
\* changed: removals, joins and registrations that overlap cannot orphan it.
OwnerStays ==
    \A w \in Workspaces : Members(w) # {} /\ w \notin demoted =>
        \E u \in Users : role[u][w] = "owner"

\* A code lets one user in, unless two joins held it at once.
CodeAdmitsOne == \A c \in Codes : Cardinality(admitted[c]) <= 1 \/ c \in raced

MembershipSound == OwnerStays /\ CodeAdmitsOne

\* A refresh that begins after the token's logout was answered is refused,
\* whatever logins, refreshes, other logouts and the clock did in between.
LogoutIsFinal == \A r \in Requests : request[r].do = "refreshed" => ~request[r].late
=============================================================================
