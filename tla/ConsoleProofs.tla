----------------------------- MODULE ConsoleProofs -----------------------------
(***************************************************************************)
(* The safety properties of Console for any users, models, instances and    *)
(* plugins. A step of one side leaves the variables of the others alone, so  *)
(* that each side has an invariant of its own.                               *)
(***************************************************************************)
EXTENDS Console, Integers, Sequences, FiniteSetTheorems, WellFoundedInduction, TLAPS

-----------------------------------------------------------------------------
(* People: types                                                           *)

PeopleAssumed ==
    /\ MaxWorkspaces \in Nat \ {0} /\ Submissions \subseteq Nat
    /\ InviteRoles \subseteq {"admin", "member", "viewer"}
    /\ SetRoles \subseteq {"owner", "admin", "member", "viewer"}

LEMMA PeopleConstants == PeopleAssumed
  BY ConsoleAssumption DEF PeopleAssumed, A!AccountsAssumption

\* What a request holds between its reads and its commit.
Held(q) ==
    /\ q.do \in {"assign", "register", "issue", "join"} => q.user \in Users
    /\ q.do \in {"issue", "join"} => q.user \in registered
    /\ q.do = "register" => q.role \in {"owner", "member"}
    /\ q.do \in {"refresh", "refreshed", "revoke", "refuse"} => q.token \in Tokens
    /\ q.do \in {"refresh", "refreshed"} => q = [do |-> q.do, token |-> q.token, late |-> q.late]
    /\ q.do = "invite" => q.ws \in 1..workspaces /\ q.role \in InviteRoles
    /\ q.do \in {"expire", "join"} => q.code \in Codes /\ code[q.code].status # "none"
    /\ q.do \in {"set", "remove"} =>
          q.ws \in 1..workspaces /\ q.target \in Users /\ role[q.target][q.ws] # "none"
    /\ q.do = "set" => q.role \in SetRoles

Doings == {"none", "done", "assign", "register", "issue", "refresh", "refreshed", "revoke",
           "refuse", "invite", "expire", "join", "set", "remove"}

RequestsTyped ==
    /\ request = [r \in Submissions |-> request[r]]
    /\ \A r \in Submissions : request[r].do \in Doings /\ Held(request[r])

CodeRow ==
    [status : {"none"}]
    \cup [status : {"pending", "accepted", "expired"}, ws : A!Workspaces, role : InviteRoles, late : BOOLEAN]

RowsTyped ==
    /\ workspaces \in A!Workspaces /\ registered \subseteq Users
    /\ role \in [Users -> [A!Workspaces -> A!Roles \cup {"none"}]]
    /\ \A u \in Users, w \in A!Workspaces :
            role[u][w] # "none" => u \in registered /\ w <= workspaces
    /\ code \in [Codes -> CodeRow]
    /\ \A c \in Codes : code[c].status # "none" => code[c].ws \in 1..workspaces

TokenRow == [row : {"none"}] \cup [row : {"signed", "live", "revoked", "purged"}, user : Users]

TokensTyped ==
    /\ token \in [Tokens -> TokenRow]
    /\ lapsed \subseteq Tokens /\ ended \subseteq Tokens

HistoryTyped ==
    /\ demoted \subseteq A!Workspaces /\ raced \subseteq Codes
    /\ admitted \in [Codes -> SUBSET Users]

PeopleTyped == RequestsTyped /\ RowsTyped /\ TokensTyped /\ HistoryTyped

LEMMA PeopleTypes == PeopleTyped => A!TypeOK
  BY DEF PeopleTyped, RequestsTyped, RowsTyped, TokensTyped, HistoryTyped, Doings, CodeRow, TokenRow, A!TypeOK

LEMMA PeopleInit == Init => PeopleTyped
  <1> SUFFICES ASSUME A!Init PROVE PeopleTyped
    BY DEF Init
  <1> USE PeopleConstants DEF PeopleAssumed, A!Workspaces, A!Roles
  <1>1. RequestsTyped
    BY DEF A!Init, RequestsTyped, Doings, Held
  <1>2. RowsTyped
    BY DEF A!Init, RowsTyped, CodeRow
  <1>3. TokensTyped
    BY DEF A!Init, TokensTyped, TokenRow
  <1>4. HistoryTyped
    BY DEF A!Init, HistoryTyped
  <1> QED  BY <1>1, <1>2, <1>3, <1>4 DEF PeopleTyped

\* A request that goes on alone, or has its answer.
LEMMA GoesOnTyped ==
  ASSUME RequestsTyped, NEW r \in Submissions, NEW st, A!GoesOn(r, st),
         st.do \in Doings, Held(st),
         workspaces' \in Nat, workspaces \in Nat, workspaces <= workspaces',
         registered \subseteq registered',
         \A c \in Codes : code[c].status # "none" => code'[c].status # "none",
         \A u \in Users, w \in 1..workspaces : role[u][w] # "none" => role'[u][w] # "none"
  PROVE  RequestsTyped'
  <1>1. request' = [q \in Submissions |-> request'[q]]
        /\ request'[r] = st /\ \A q \in Submissions \ {r} : request'[q] = request[q]
    BY DEF A!GoesOn, RequestsTyped
  <1>2. ASSUME NEW q, Held(q)
        PROVE  Held(q)'
    BY <1>2 DEF Held
  <1>3. \A q \in Submissions : request'[q].do \in Doings
    BY <1>1 DEF RequestsTyped
  <1>4. ASSUME NEW q \in Submissions
        PROVE  Held(request[q])'
    <2>1. CASE q = r
      BY <1>1, <1>2, <2>1 DEF Held
    <2>2. CASE q # r
      BY <1>1, <1>2, <2>2 DEF Held, RequestsTyped
    <2> QED  BY <2>1, <2>2
  <1> QED  BY <1>1, <1>3, <1>4 DEF RequestsTyped

LEMMA PeopleBegin ==
  ASSUME PeopleTyped, NEW r \in Submissions, A!Begin(r)
  PROVE  PeopleTyped'
  <1> USE PeopleConstants DEF PeopleAssumed
  <1>1. RequestsTyped /\ RowsTyped /\ TokensTyped /\ HistoryTyped
    BY DEF PeopleTyped
  <1>2. workspaces \in Nat /\ \A w \in 1..workspaces : w \in A!Workspaces
    BY <1>1 DEF RowsTyped, A!Workspaces
  <1>3. ASSUME NEW st, A!GoesOn(r, st), st.do \in Doings, Held(st),
               UNCHANGED <<workspaces, registered, role, code, token, lapsed, demoted, admitted, ended>>,
               raced' \subseteq Codes
        PROVE  PeopleTyped'
    <2>1. RequestsTyped'
      BY <1>1, <1>2, <1>3, GoesOnTyped
    <2> QED  BY <1>1, <1>3, <2>1 DEF PeopleTyped, RowsTyped, TokensTyped, HistoryTyped
  <1>4. ASSUME NEW u \in Users, A!BeginRegister(r, u) \/ A!BeginLogin(r, u)
        PROVE  PeopleTyped'
    BY <1>1, <1>3, <1>4 DEF A!BeginRegister, A!BeginLogin, A!members, A!history, Held, Doings, HistoryTyped
  <1>5. ASSUME NEW k \in Tokens, A!BeginRefresh(r, k) \/ A!BeginLogout(r, k)
        PROVE  PeopleTyped'
    BY <1>1, <1>3, <1>5 DEF A!BeginRefresh, A!BeginLogout, A!members, A!history, A!Done, Held, Doings,
                            HistoryTyped
  <1>6. ASSUME NEW u \in Users, NEW c \in Codes, A!BeginJoin(r, u, c)
        PROVE  PeopleTyped'
    <2>1. raced' \subseteq Codes
      BY <1>1, <1>6 DEF A!BeginJoin, HistoryTyped
    <2>2. u \in registered /\ code[c].status # "none"
      BY <1>6 DEF A!BeginJoin, A!Authenticated
    <2>3. A!GoesOn(r, [do |-> "expire", code |-> c])
          \/ A!GoesOn(r, [do |-> "join", code |-> c, user |-> u])
      BY <1>6 DEF A!BeginJoin
    <2>4. Held([do |-> "expire", code |-> c]) /\ Held([do |-> "join", code |-> c, user |-> u])
      BY <2>2 DEF Held
    <2> QED  BY <1>3, <1>6, <2>1, <2>3, <2>4 DEF A!BeginJoin, A!members, Doings
  <1>7. ASSUME NEW u \in Users, NEW w \in 1..workspaces, NEW as \in InviteRoles, A!BeginInvite(r, u, w, as)
        PROVE  PeopleTyped'
    BY <1>1, <1>3, <1>7 DEF A!BeginInvite, A!members, A!history, Held, Doings, HistoryTyped
  <1>8. ASSUME NEW u \in Users, NEW w \in 1..workspaces, NEW target \in Users, NEW to \in SetRoles,
               A!BeginUpdateRole(r, u, w, target, to)
        PROVE  PeopleTyped'
    BY <1>1, <1>3, <1>8 DEF A!BeginUpdateRole, A!members, A!history, Held, Doings, HistoryTyped
  <1>9. ASSUME NEW u \in Users, NEW w \in 1..workspaces, NEW target \in Users,
               A!BeginRemove(r, u, w, target)
        PROVE  PeopleTyped'
    BY <1>1, <1>3, <1>9 DEF A!BeginRemove, A!Removable, A!members, A!history, Held, Doings, HistoryTyped
  <1>10. ASSUME NEW u \in Users, A!CreateWorkspace(r, u)
         PROVE  PeopleTyped'
    <2>1. /\ workspaces' = workspaces + 1 /\ workspaces' \in A!Workspaces /\ u \in registered
          /\ UNCHANGED <<registered, code, token, lapsed, demoted, admitted, raced, ended>>
          /\ A!GoesOn(r, A!Done)
          /\ role' = [role EXCEPT ![u][workspaces'] = "owner"] \/ role' = role
      BY <1>1, <1>10 DEF A!CreateWorkspace, A!history, A!Authenticated, RowsTyped, A!Workspaces
    <2>2. role' \in [Users -> [A!Workspaces -> A!Roles \cup {"none"}]]
          /\ \A v \in Users, w \in A!Workspaces :
                role'[v][w] = role[v][w] \/ (v = u /\ w = workspaces' /\ role'[v][w] = "owner")
      <3>1. CASE role' = role
        BY <1>1, <3>1 DEF RowsTyped
      <3>2. CASE role' = [role EXCEPT ![u][workspaces'] = "owner"]
        BY <1>1, <2>1, <3>2 DEF RowsTyped, A!Roles
      <3> QED  BY <2>1, <3>1, <3>2
    <2>3. RequestsTyped'
      <3>1. A!Done.do \in Doings /\ Held(A!Done)
        BY DEF A!Done, Held, Doings
      <3> QED  BY <1>1, <1>2, <2>1, <2>2, <3>1, GoesOnTyped DEF A!Workspaces
    <2>4. RowsTyped'
      BY <1>1, <1>2, <2>1, <2>2 DEF RowsTyped, A!Workspaces
    <2> QED  BY <1>1, <2>1, <2>3, <2>4 DEF PeopleTyped, TokensTyped, HistoryTyped
  <1> QED  BY <1>4, <1>5, <1>6, <1>7, <1>8, <1>9, <1>10 DEF A!Begin

LEMMA RoleWritten ==
  ASSUME RowsTyped, NEW u \in registered, NEW w \in 1..workspaces, NEW as \in A!Roles,
         role' = [role EXCEPT ![u][w] = as], UNCHANGED <<workspaces, registered, code>>
  PROVE  /\ RowsTyped'
         /\ \A v \in Users, x \in A!Workspaces :
               role'[v][x] = IF v = u /\ x = w THEN as ELSE role[v][x]
  <1>1. u \in Users /\ w \in A!Workspaces /\ workspaces \in Nat
    BY PeopleConstants DEF RowsTyped, A!Workspaces, PeopleAssumed
  <1>2. role' \in [Users -> [A!Workspaces -> A!Roles \cup {"none"}]]
        /\ \A v \in Users, x \in A!Workspaces :
              role'[v][x] = IF v = u /\ x = w THEN as ELSE role[v][x]
    BY <1>1 DEF RowsTyped
  <1>3. \A v \in Users, x \in A!Workspaces : role'[v][x] # "none" => v \in registered /\ x <= workspaces
    <2> SUFFICES ASSUME NEW v \in Users, NEW x \in A!Workspaces, role'[v][x] # "none"
                 PROVE  v \in registered /\ x <= workspaces
      OBVIOUS
    <2>1. CASE v = u /\ x = w
      BY <1>1, <2>1
    <2>2. CASE ~(v = u /\ x = w)
      <3>1. role[v][x] # "none"
        BY <1>2, <2>2
      <3> QED  BY <3>1 DEF RowsTyped
    <2> QED  BY <2>1, <2>2
  <1> QED  BY <1>2, <1>3 DEF RowsTyped

\* The status of an invitation is overwritten, and its other columns stay.
LEMMA CodeWritten ==
  ASSUME RowsTyped, NEW c \in Codes, code[c].status # "none",
         NEW status \in {"accepted", "expired"}, code' = [code EXCEPT ![c].status = status]
  PROVE  /\ code' \in [Codes -> CodeRow]
         /\ code'[c].status = status /\ code'[c].ws = code[c].ws /\ code'[c].role = code[c].role
         /\ \A d \in Codes \ {c} : code'[d] = code[d]
         /\ \A d \in Codes : code[d].status # "none" => code'[d].status # "none"
         /\ UNCHANGED <<workspaces, registered, role>> => RowsTyped'
  <1>1. /\ code' = [d \in Codes |-> code'[d]]
        /\ code'[c] = [code[c] EXCEPT !.status = status]
        /\ \A d \in Codes \ {c} : code'[d] = code[d]
    BY DEF RowsTyped
  <1>2. code[c] \in [status : {"pending", "accepted", "expired"}, ws : A!Workspaces, role : InviteRoles,
                     late : BOOLEAN]
    BY DEF RowsTyped, CodeRow
  <1>3. code'[c] \in CodeRow /\ code'[c].status = status /\ code'[c].ws = code[c].ws
        /\ code'[c].role = code[c].role
    BY <1>1, <1>2 DEF CodeRow
  <1> QED  BY <1>1, <1>3 DEF RowsTyped

LEMMA PeopleCommit ==
  ASSUME PeopleTyped, NEW r \in Submissions, A!Commit(r)
  PROVE  PeopleTyped'
  <1> USE PeopleConstants DEF PeopleAssumed
  <1>1. RequestsTyped /\ RowsTyped /\ TokensTyped /\ HistoryTyped
    BY DEF PeopleTyped
  <1>2. workspaces \in Nat /\ \A w \in 1..workspaces : w \in A!Workspaces
    BY <1>1 DEF RowsTyped, A!Workspaces
  <1>3. request[r].do \in Doings /\ Held(request[r])
    BY <1>1 DEF RequestsTyped
  <1>4. A!Done.do = "done" /\ "done" \in Doings /\ Held(A!Done)
    BY DEF A!Done, Doings, Held
  <1>5. ASSUME A!Answered(r),
               UNCHANGED <<workspaces, registered>>,
               \A c \in Codes : code[c].status # "none" => code'[c].status # "none",
               \A u \in Users, w \in 1..workspaces : role[u][w] # "none" => role'[u][w] # "none"
        PROVE  RequestsTyped'
    <2>1. A!GoesOn(r, A!Done)
      BY <1>5 DEF A!Answered, A!GoesOn
    <2>2. workspaces' \in Nat /\ workspaces <= workspaces' /\ registered \subseteq registered'
      BY <1>2, <1>5
    <2> QED  BY <1>1, <1>2, <1>4, <1>5, <2>1, <2>2, GoesOnTyped
  <1>6. CASE A!Assign(r)
    <2> DEFINE st == [do |-> "register", user |-> request[r].user,
                      role |-> IF A!Members(1) = {} THEN "owner" ELSE "member"]
    <2>1. A!GoesOn(r, st) /\ UNCHANGED <<workspaces, registered, role, code, token, lapsed, demoted, admitted, raced, ended>>
      BY <1>6 DEF A!Assign, A!GoesOn, A!members, A!history
    <2>2. st.do \in Doings /\ Held(st)
      BY <1>3, <1>6 DEF A!Assign, Held, Doings
    <2>3. RequestsTyped'
      <3> HIDE DEF st
      <3> QED  BY <1>1, <1>2, <2>1, <2>2, GoesOnTyped
    <2> QED  BY <1>1, <2>1, <2>3 DEF PeopleTyped, RowsTyped, TokensTyped, HistoryTyped
  <1>7. CASE A!Register(r)
    <2> DEFINE u == request[r].user
               st == [do |-> "issue", user |-> u]
    <2>1. u \in Users /\ UNCHANGED <<workspaces, code, token, lapsed, demoted, admitted, raced, ended>>
      BY <1>3, <1>7 DEF A!Register, Held, A!history
    <2>2. CASE u \in registered
      <3>1. A!Answered(r) /\ UNCHANGED <<registered, role>>
        BY <1>7, <2>2 DEF A!Register
      <3>2. RequestsTyped'
        BY <1>5, <2>1, <3>1
      <3> QED  BY <1>1, <2>1, <3>1, <3>2 DEF PeopleTyped, RowsTyped, TokensTyped, HistoryTyped
    <2>3. CASE u \notin registered
      <3>1. /\ registered' = registered \cup {u} /\ role' = [role EXCEPT ![u][1] = request[r].role]
            /\ A!GoesOn(r, st) /\ request[r].role \in {"owner", "member"}
        BY <1>3, <1>7, <2>3 DEF A!Register, A!GoesOn, Held
      <3>2. 1 \in 1..workspaces /\ 1 \in A!Workspaces
        BY <1>1 DEF RowsTyped, A!Workspaces
      <3>3. role' \in [Users -> [A!Workspaces -> A!Roles \cup {"none"}]]
            /\ \A v \in Users, x \in A!Workspaces :
                  role'[v][x] = IF v = u /\ x = 1 THEN request[r].role ELSE role[v][x]
        BY <1>1, <2>1, <3>1, <3>2 DEF RowsTyped, A!Roles
      <3>4. st.do \in Doings /\ st.user \in registered' /\ st.user \in Users /\ st.do = "issue"
        BY <2>1, <3>1 DEF Doings
      <3> HIDE DEF st
      <3>5. RequestsTyped'
        <4>1. request' = [q \in Submissions |-> request'[q]]
              /\ request'[r] = st /\ \A q \in Submissions \ {r} : request'[q] = request[q]
          BY <1>1, <3>1 DEF A!GoesOn, RequestsTyped
        <4>2. ASSUME NEW q \in Submissions PROVE Held(request[q])'
          <5>1. CASE q = r
            BY <3>4, <4>1, <5>1 DEF Held
          <5>2. CASE q # r
            <6>1. request'[q] = request[q] /\ Held(request[q])
              BY <1>1, <4>1, <5>2 DEF RequestsTyped
            <6>2. \A v \in Users, x \in 1..workspaces : role[v][x] # "none" => role'[v][x] # "none"
              BY <1>2, <3>1, <3>3
            <6> QED  BY <2>1, <3>1, <6>1, <6>2 DEF Held
          <5> QED  BY <5>1, <5>2
        <4> QED  BY <1>1, <3>4, <4>1, <4>2 DEF RequestsTyped
      <3>6. RowsTyped'
        BY <1>1, <1>2, <2>1, <3>1, <3>2, <3>3 DEF RowsTyped
      <3> QED  BY <1>1, <2>1, <3>5, <3>6 DEF PeopleTyped, TokensTyped, HistoryTyped
    <2> QED  BY <2>2, <2>3
  <1>8. CASE A!Refresh(r)
    <2>1. /\ request' = [request EXCEPT ![r].do = "refreshed"] /\ request[r].do = "refresh"
          /\ UNCHANGED <<workspaces, registered, role, code, token, lapsed, demoted, admitted, raced, ended>>
      BY <1>8 DEF A!Refresh, A!members, A!history
    <2>2. request' = [q \in Submissions |-> request'[q]]
          /\ \A q \in Submissions \ {r} : request'[q] = request[q]
      BY <1>1, <2>1 DEF RequestsTyped
    <2>3. request'[r].do \in Doings /\ Held(request[r])'
      <3>1. request'[r] = [request[r] EXCEPT !.do = "refreshed"]
        BY <1>1, <2>1 DEF RequestsTyped
      <3>2. request'[r].do \in {"refreshed", "refresh"} \/ request'[r] = request[r]
        BY <3>1
      <3> QED  BY <1>3, <2>1, <3>1, <3>2 DEF Held, Doings
    <2>4. RequestsTyped'
      BY <1>1, <2>1, <2>2, <2>3 DEF RequestsTyped, Held
    <2> QED  BY <1>1, <2>1, <2>4 DEF PeopleTyped, RowsTyped, TokensTyped, HistoryTyped
  <1>9. CASE A!Logout(r)
    <2>1. /\ UNCHANGED <<workspaces, registered, role, code, lapsed, demoted, admitted, raced>> /\ A!Answered(r)
          /\ request[r].do \in {"revoke", "refuse"}
          /\ \/ UNCHANGED <<token, ended>>
             \/ token' = [token EXCEPT ![request[r].token].row = "revoked"]
                /\ token[request[r].token].row # "none"
                /\ ended' = ended \cup {request[r].token}
      BY <1>9 DEF A!Logout, A!members
    <2>2. request[r].token \in Tokens
      BY <1>3, <2>1 DEF Held
    <2>3. RequestsTyped'
      BY <1>5, <2>1
    <2>4. TokensTyped'
      BY <1>1, <2>1, <2>2 DEF TokensTyped, TokenRow
    <2> QED  BY <1>1, <2>1, <2>3, <2>4 DEF PeopleTyped, RowsTyped, HistoryTyped
  <1>10. CASE A!Expire(r)
    <2>1. /\ UNCHANGED <<workspaces, registered, role, token, lapsed, demoted, admitted, raced, ended>>
          /\ A!Answered(r) /\ request[r].do = "expire"
          /\ code' = [code EXCEPT ![request[r].code].status = "expired"]
      BY <1>10 DEF A!Expire, A!members, A!history
    <2>2. request[r].code \in Codes /\ code[request[r].code].status # "none"
      BY <1>3, <2>1 DEF Held
    <2>4. RowsTyped' /\ \A c \in Codes : code[c].status # "none" => code'[c].status # "none"
      BY <1>1, <2>1, <2>2, CodeWritten
    <2>5. RequestsTyped'
      BY <1>5, <2>1, <2>4
    <2> QED  BY <1>1, <2>1, <2>4, <2>5 DEF PeopleTyped, TokensTyped, HistoryTyped
  <1>11. CASE A!Join(r)
    <2> DEFINE c == request[r].code
               u == request[r].user
               w == code[c].ws
    <2>1. /\ UNCHANGED <<workspaces, registered, token, lapsed, demoted, raced, ended>>
          /\ A!Answered(r) /\ request[r].do = "join"
          /\ \/ UNCHANGED <<role, code, admitted>>
             \/ /\ role[u][w] = "none" /\ role' = [role EXCEPT ![u][w] = code[c].role]
                /\ code' = [code EXCEPT ![c].status = "accepted"]
                /\ admitted' = [admitted EXCEPT ![c] = @ \cup {u}]
      BY <1>11 DEF A!Join, A!CodeUsed
    <2>2. u \in Users /\ u \in registered /\ c \in Codes /\ code[c].status # "none"
      BY <1>3, <2>1 DEF Held
    <2>3. w \in 1..workspaces /\ code[c].role \in InviteRoles /\ code[c].role \in A!Roles
      BY <1>1, <2>2 DEF RowsTyped, CodeRow, A!Roles
    <2> HIDE DEF c, u, w
    <2>4. CASE UNCHANGED <<role, code, admitted>>
      <3>1. RequestsTyped'
        BY <1>5, <2>1, <2>4
      <3> QED  BY <1>1, <2>1, <2>4, <3>1 DEF PeopleTyped, RowsTyped, TokensTyped, HistoryTyped
    <2>5. CASE ~UNCHANGED <<role, code, admitted>>
      <3>1. /\ role[u][w] = "none" /\ role' = [role EXCEPT ![u][w] = code[c].role]
            /\ code' = [code EXCEPT ![c].status = "accepted"]
            /\ admitted' = [admitted EXCEPT ![c] = @ \cup {u}]
        BY <2>1, <2>5
      <3>2. /\ code' \in [Codes -> CodeRow]
            /\ \A d \in Codes : code[d].status # "none" <=> code'[d].status # "none"
            /\ \A d \in Codes : code'[d].status # "none" => code'[d].ws = code[d].ws
        BY <1>1, <2>2, <3>1, CodeWritten
      <3>3. role' \in [Users -> [A!Workspaces -> A!Roles \cup {"none"}]]
            /\ \A v \in Users, x \in A!Workspaces :
                  role'[v][x] = IF v = u /\ x = w THEN code[c].role ELSE role[v][x]
        BY <1>1, <1>2, <2>2, <2>3, <3>1 DEF RowsTyped
      <3>4. \A v \in Users, x \in A!Workspaces : role'[v][x] # "none" => v \in registered /\ x <= workspaces
        BY <1>1, <1>2, <2>2, <2>3, <3>3 DEF RowsTyped
      <3>5. RowsTyped'
        BY <1>1, <2>1, <3>2, <3>3, <3>4 DEF RowsTyped
      <3>6. \A v \in Users, x \in 1..workspaces : role[v][x] # "none" => role'[v][x] # "none"
        BY <1>2, <3>1, <3>3
      <3>7. RequestsTyped'
        BY <1>5, <2>1, <3>2, <3>6
      <3>8. HistoryTyped'
        BY <1>1, <2>1, <2>2, <3>1 DEF HistoryTyped
      <3> QED  BY <1>1, <2>1, <3>5, <3>7, <3>8 DEF PeopleTyped, TokensTyped
    <2> QED  BY <2>4, <2>5
  <1>12. CASE A!UpdateRole(r)
    <2> DEFINE q == request[r]
    <2>1. /\ UNCHANGED <<workspaces, registered, code, token, lapsed, admitted, raced, ended>>
          /\ A!Answered(r) /\ q.do = "set"
          /\ role' = role \/ role' = [role EXCEPT ![q.target][q.ws] = q.role]
          /\ demoted' = demoted \/ demoted' = demoted \cup {q.ws}
      BY <1>12 DEF A!UpdateRole
    <2>2. /\ q.ws \in 1..workspaces /\ q.target \in Users /\ role[q.target][q.ws] # "none"
          /\ q.role \in SetRoles /\ q.role \in A!Roles /\ q.role # "none"
      BY <1>3, <2>1 DEF Held, A!Roles
    <2>3. q.target \in registered /\ q.ws \in A!Workspaces
      BY <1>1, <1>2, <2>2 DEF RowsTyped
    <2> HIDE DEF q
    <2>4. RowsTyped'
      BY <1>1, <2>1, <2>2, <2>3, RoleWritten DEF RowsTyped
    <2>5. \A v \in Users, x \in 1..workspaces : role[v][x] # "none" => role'[v][x] # "none"
      BY <1>1, <1>2, <2>1, <2>2, <2>3, RoleWritten
    <2>6. RequestsTyped'
      BY <1>5, <2>1, <2>5
    <2>7. HistoryTyped'
      BY <1>1, <2>1, <2>3 DEF HistoryTyped
    <2> QED  BY <1>1, <2>1, <2>4, <2>6, <2>7 DEF PeopleTyped, TokensTyped
  <1>13. CASE A!Remove(r)
    <2> DEFINE q == request[r]
               t == q.target
               w == q.ws
    <2>1. /\ UNCHANGED <<workspaces, registered, code, token, lapsed, demoted, admitted, raced, ended>>
          /\ q.do = "remove"
          /\ role' = [role EXCEPT ![t][w] = "none"]
          /\ request' = [p \in Submissions |->
                IF p = r \/ (request[p].do \in {"set", "remove"} /\ request[p].ws = w /\ request[p].target = t)
                THEN A!Done ELSE request[p]]
      BY <1>13 DEF A!Remove, A!AnsweredRemoving, A!history
    <2>2. w \in 1..workspaces /\ t \in Users /\ w \in A!Workspaces
      BY <1>2, <1>3, <2>1 DEF Held
    <2> HIDE DEF q, t, w
    <2>3. role' \in [Users -> [A!Workspaces -> A!Roles \cup {"none"}]]
          /\ \A v \in Users, x \in A!Workspaces :
                role'[v][x] = IF v = t /\ x = w THEN "none" ELSE role[v][x]
      BY <1>1, <2>1, <2>2 DEF RowsTyped
    <2>4. RowsTyped'
      BY <1>1, <2>1, <2>3 DEF RowsTyped
    <2>5. RequestsTyped'
      <3>1. \A p \in Submissions : request'[p].do \in Doings
        BY <1>1, <1>4, <2>1 DEF RequestsTyped
      <3>2. ASSUME NEW p \in Submissions PROVE Held(request[p])'
        <4>1. CASE request'[p] = A!Done
          BY <1>4, <4>1 DEF Held
        <4>2. CASE request'[p] # A!Done
          <5>1. request'[p] = request[p] /\ Held(request[p])
                /\ ~(request[p].do \in {"set", "remove"} /\ request[p].ws = w /\ request[p].target = t)
            BY <1>1, <2>1, <4>2 DEF RequestsTyped
          <5>2. request[p].do \in {"set", "remove"} =>
                   role'[request[p].target][request[p].ws] = role[request[p].target][request[p].ws]
            BY <1>2, <2>3, <5>1 DEF Held
          <5> QED  BY <2>1, <5>1, <5>2 DEF Held
        <4> QED  BY <4>1, <4>2
      <3> QED  BY <2>1, <3>1, <3>2 DEF RequestsTyped
    <2> QED  BY <1>1, <2>1, <2>4, <2>5 DEF PeopleTyped, TokensTyped, HistoryTyped
  <1>14. ASSUME NEW k \in Tokens, A!Issue(r, k)
         PROVE  PeopleTyped'
    <2> DEFINE u == request[r].user
    <2>1. /\ UNCHANGED <<workspaces, registered, role, code, lapsed, demoted, admitted, raced, ended>>
          /\ A!Answered(r) /\ request[r].do = "issue"
          /\ token' = [j \in Tokens |-> IF j = k THEN [row |-> "live", user |-> u] ELSE A!RowAfter(j, u)]
      BY <1>14 DEF A!Issue, A!members, A!history
    <2>2. u \in Users
      BY <1>3, <2>1 DEF Held
    <2> HIDE DEF u
    <2>3. RequestsTyped'
      BY <1>5, <2>1
    <2>4. \A j \in Tokens : A!RowAfter(j, u) \in TokenRow
      BY <1>1 DEF A!RowAfter, A!OutOfTime, TokensTyped, TokenRow
    <2>5. [row |-> "live", user |-> u] \in TokenRow
      BY <2>2 DEF TokenRow
    <2>6. token' \in [Tokens -> TokenRow]
      BY <2>1, <2>4, <2>5
    <2> QED  BY <1>1, <2>1, <2>3, <2>6 DEF PeopleTyped, RowsTyped, TokensTyped, HistoryTyped
  <1>15. ASSUME NEW c \in Codes, A!Invite(r, c)
         PROVE  PeopleTyped'
    <2> DEFINE row == [status |-> "pending", ws |-> request[r].ws, role |-> request[r].role, late |-> FALSE]
    <2>1. /\ UNCHANGED <<workspaces, registered, role, token, lapsed, demoted, admitted, raced, ended>>
          /\ A!Answered(r) /\ request[r].do = "invite" /\ code' = [code EXCEPT ![c] = row]
      BY <1>15 DEF A!Invite, A!members, A!history
    <2>2. request[r].ws \in 1..workspaces /\ request[r].ws \in A!Workspaces /\ request[r].role \in InviteRoles
      BY <1>2, <1>3, <2>1 DEF Held
    <2>3. row \in CodeRow /\ row.ws \in 1..workspaces /\ row.status # "none"
      BY <2>2 DEF CodeRow
    <2> HIDE DEF row
    <2>4. RowsTyped' /\ \A d \in Codes : code[d].status # "none" => code'[d].status # "none"
      BY <1>1, <2>1, <2>3 DEF RowsTyped
    <2>5. RequestsTyped'
      BY <1>5, <2>1, <2>4
    <2> QED  BY <1>1, <2>1, <2>4, <2>5 DEF PeopleTyped, TokensTyped, HistoryTyped
  <1> QED
    BY <1>6, <1>7, <1>8, <1>9, <1>10, <1>11, <1>12, <1>13, <1>14, <1>15 DEF A!Commit

LEMMA PeopleClock ==
  ASSUME PeopleTyped, A!Clock
  PROVE  PeopleTyped'
  <1>1. RequestsTyped /\ RowsTyped /\ TokensTyped /\ HistoryTyped
    BY DEF PeopleTyped
  <1>2. ASSUME NEW k \in Tokens, A!Lapse(k)
        PROVE  PeopleTyped'
    BY <1>1, <1>2 DEF A!Lapse, A!members, A!history, PeopleTyped, RequestsTyped, Held, RowsTyped,
                      TokensTyped, HistoryTyped
  <1>3. ASSUME NEW c \in Codes, A!RunOut(c)
        PROVE  PeopleTyped'
    <2>1. /\ UNCHANGED <<workspaces, registered, role, token, lapsed, request, demoted, admitted, raced, ended>>
          /\ code[c].status = "pending" /\ code' = [code EXCEPT ![c].late = TRUE]
      BY <1>3 DEF A!RunOut, A!members, A!history
    <2>2. code[c] \in [status : {"pending", "accepted", "expired"}, ws : A!Workspaces, role : InviteRoles,
                       late : BOOLEAN]
      BY <1>1, <2>1 DEF RowsTyped, CodeRow
    <2>3. [code[c] EXCEPT !.late = TRUE] \in CodeRow
          /\ [code[c] EXCEPT !.late = TRUE].status = code[c].status
          /\ [code[c] EXCEPT !.late = TRUE].ws = code[c].ws
      BY <2>2 DEF CodeRow
    <2> DEFINE row == [code[c] EXCEPT !.late = TRUE]
    <2>4. code' = [code EXCEPT ![c] = row]
      BY <2>1
    <2> HIDE DEF row
    <2>5. RowsTyped' /\ \A d \in Codes : code[d].status # "none" => code'[d].status # "none"
      BY <1>1, <2>1, <2>3, <2>4 DEF RowsTyped, row
    <2> QED  BY <1>1, <2>1, <2>5 DEF PeopleTyped, RequestsTyped, Held, TokensTyped, HistoryTyped
  <1> QED  BY <1>2, <1>3 DEF A!Clock
-----------------------------------------------------------------------------
(* People: owners                                                          *)

\* An owner whom no request is about to remove.
Kept(u, w) ==
    /\ role[u][w] = "owner"
    /\ \A q \in Submissions :
          ~(request[q].do = "remove" /\ request[q].ws = w /\ request[q].target = u)

Governed(w) == w \in demoted \/ \E u \in Users : Kept(u, w)

OwnerInv ==
    /\ \A w \in A!Workspaces : A!Members(w) # {} => Governed(w)
    /\ \A r \in Submissions :
          /\ request[r].do = "register" /\ request[r].role = "member" => Governed(1)
          /\ request[r].do = "invite" => Governed(request[r].ws)
    /\ \A c \in Codes : code[c].status # "none" => Governed(code[c].ws)

\* What a step may do to roles, requests and invitations.
RolesMove ==
    /\ demoted \subseteq demoted'
    /\ \A u \in Users, w \in A!Workspaces :
          \/ role'[u][w] = role[u][w] \/ w \in demoted'
          \/ ~Kept(u, w) /\ (Governed(w) \/ Kept(u, w)')

RequestsMove ==
    \A q \in Submissions : request'[q] # request[q] =>
        /\ request'[q].do = "remove" => role[request'[q].target][request'[q].ws] # "owner"
        /\ request'[q].do = "invite" => request'[q].ws \in A!Workspaces /\ Governed(request'[q].ws)
        /\ request'[q].do = "register" => request'[q].role = "owner" \/ Governed(1)

CodesMove ==
    \A c \in Codes : code'[c].status # "none" =>
        \/ code[c].status # "none" /\ code'[c].ws = code[c].ws
        \/ Governed(code'[c].ws)

LEMMA OwnerMoves ==
  ASSUME PeopleTyped, PeopleTyped', OwnerInv, RolesMove, RequestsMove, CodesMove
  PROVE  OwnerInv'
  <1>1. workspaces \in Nat /\ \A w \in 1..workspaces : w \in A!Workspaces
    BY PeopleConstants DEF PeopleTyped, RowsTyped, A!Workspaces, PeopleAssumed
  <1>2. workspaces' \in Nat /\ \A w \in 1..workspaces' : w \in A!Workspaces
    BY PeopleConstants DEF PeopleTyped, RowsTyped, A!Workspaces, PeopleAssumed
  <1>3. ASSUME NEW w \in A!Workspaces, Governed(w)
        PROVE  Governed(w)'
    <2>1. CASE w \in demoted
      BY <2>1 DEF RolesMove, Governed
    <2>2. ASSUME NEW u \in Users, Kept(u, w), w \notin demoted'
          PROVE  Kept(u, w)'
      <3>1. role'[u][w] = "owner" /\ role[u][w] = "owner"
        BY <2>2 DEF RolesMove, Kept
      <3>2. ASSUME NEW q \in Submissions, request'[q].do = "remove", request'[q].ws = w, request'[q].target = u
            PROVE  FALSE
        BY <2>2, <3>1, <3>2 DEF RequestsMove, Kept
      <3> QED  BY <3>1, <3>2 DEF Kept
    <2> QED  BY <1>3, <2>1, <2>2 DEF Governed
  <1>4. ASSUME NEW w \in A!Workspaces, A!Members(w)' # {}
        PROVE  Governed(w)'
    <2>1. PICK u \in Users : role'[u][w] # "none"
      BY <1>4 DEF A!Members
    <2>2. CASE role[u][w] # "none"
      BY <1>3, <2>2 DEF OwnerInv, A!Members
    <2>3. CASE role[u][w] = "none"
      <3>1. w \in demoted' \/ Governed(w) \/ Kept(u, w)'
        BY <2>1, <2>3 DEF RolesMove
      <3> QED  BY <1>3, <3>1 DEF Governed
    <2> QED  BY <2>2, <2>3
  <1>5. 1 \in A!Workspaces
    BY PeopleConstants DEF A!Workspaces, PeopleAssumed
  <1>6. ASSUME NEW r \in Submissions, request'[r].do = "register", request'[r].role = "member"
        PROVE  Governed(1)'
    BY <1>3, <1>5, <1>6 DEF OwnerInv, RequestsMove
  <1>7. ASSUME NEW r \in Submissions, request'[r].do = "invite"
        PROVE  Governed(request[r].ws)'
    <2>1. request'[r].ws \in A!Workspaces /\ Governed(request'[r].ws)
      <3>1. CASE request'[r] # request[r]
        BY <1>7, <3>1 DEF RequestsMove
      <3>2. CASE request'[r] = request[r]
        BY <1>1, <1>7, <3>2 DEF OwnerInv, PeopleTyped, RequestsTyped, Held
      <3> QED  BY <3>1, <3>2
    <2> QED  BY <1>3, <2>1
  <1>8. ASSUME NEW c \in Codes, code'[c].status # "none"
        PROVE  Governed(code[c].ws)'
    <2>1. code'[c].ws \in A!Workspaces
      BY <1>2, <1>8 DEF PeopleTyped, RowsTyped
    <2>2. Governed(code'[c].ws)
      BY <1>8 DEF CodesMove, OwnerInv
    <2> QED  BY <1>3, <2>1, <2>2
  <1> QED  BY <1>4, <1>6, <1>7, <1>8 DEF OwnerInv

LEMMA OwnerBegin ==
  ASSUME PeopleTyped, PeopleTyped', OwnerInv, NEW r \in Submissions, A!Begin(r)
  PROVE  OwnerInv'
  <1> USE DEF PeopleTyped, RequestsTyped
  <1>1. ASSUME UNCHANGED <<role, code, demoted>>, RequestsMove
        PROVE  OwnerInv'
    BY <1>1, OwnerMoves DEF RolesMove, CodesMove
  <1>2. ASSUME NEW st, A!GoesOn(r, st), UNCHANGED <<role, code, demoted>>,
               st.do \notin {"remove", "invite", "register"}
        PROVE  OwnerInv'
    BY <1>1, <1>2 DEF A!GoesOn, RequestsMove
  <1>3. ASSUME NEW u \in Users, A!BeginRegister(r, u) \/ A!BeginLogin(r, u)
        PROVE  OwnerInv'
    BY <1>2, <1>3 DEF A!BeginRegister, A!BeginLogin, A!members, A!history
  <1>4. ASSUME NEW k \in Tokens, A!BeginRefresh(r, k) \/ A!BeginLogout(r, k)
        PROVE  OwnerInv'
    BY <1>2, <1>4 DEF A!BeginRefresh, A!BeginLogout, A!members, A!history, A!Done
  <1>5. ASSUME NEW u \in Users, NEW c \in Codes, A!BeginJoin(r, u, c)
        PROVE  OwnerInv'
    BY <1>2, <1>5 DEF A!BeginJoin, A!members
  <1>6. ASSUME NEW u \in Users, NEW w \in 1..workspaces, NEW as \in InviteRoles, A!BeginInvite(r, u, w, as)
        PROVE  OwnerInv'
    <2>1. w \in A!Workspaces
      BY PeopleConstants DEF RowsTyped, A!Workspaces, PeopleAssumed
    <2>2. u \in A!Members(w)
      BY <1>6 DEF A!BeginInvite, A!HasRole, A!Members
    <2>3. Governed(w)
      BY <2>1, <2>2 DEF OwnerInv
    <2>4. A!GoesOn(r, [do |-> "invite", ws |-> w, role |-> as]) /\ UNCHANGED <<role, code, demoted>>
      BY <1>6 DEF A!BeginInvite, A!members, A!history
    <2> QED  BY <1>1, <2>1, <2>3, <2>4 DEF A!GoesOn, RequestsMove
  <1>7. ASSUME NEW u \in Users, NEW w \in 1..workspaces, NEW target \in Users, NEW to \in SetRoles,
               A!BeginUpdateRole(r, u, w, target, to)
        PROVE  OwnerInv'
    BY <1>2, <1>7 DEF A!BeginUpdateRole, A!members, A!history
  <1>8. ASSUME NEW u \in Users, NEW w \in 1..workspaces, NEW target \in Users, A!BeginRemove(r, u, w, target)
        PROVE  OwnerInv'
    <2>1. A!GoesOn(r, [do |-> "remove", ws |-> w, target |-> target]) /\ UNCHANGED <<role, code, demoted>>
          /\ role[target][w] # "owner"
      BY <1>8 DEF A!BeginRemove, A!Removable, A!members, A!history
    <2> QED  BY <1>1, <2>1 DEF A!GoesOn, RequestsMove
  <1>9. ASSUME NEW u \in Users, A!CreateWorkspace(r, u)
        PROVE  OwnerInv'
    <2>1. /\ workspaces' = workspaces + 1 /\ workspaces \in Nat /\ workspaces' \in A!Workspaces
          /\ A!GoesOn(r, A!Done) /\ UNCHANGED <<code, demoted>>
          /\ role' = [role EXCEPT ![u][workspaces'] = "owner"] \/ role' = role
      BY <1>9, PeopleConstants DEF A!CreateWorkspace, A!history, RowsTyped, A!Workspaces, PeopleAssumed
    <2>2. RequestsMove /\ CodesMove
      BY <2>1 DEF A!GoesOn, A!Done, RequestsMove, CodesMove
    <2>3. \A v \in Users : role[v][workspaces'] = "none"
      BY <2>1 DEF RowsTyped
    <2>4. \A v \in Users, w \in A!Workspaces :
             \/ role'[v][w] = role[v][w]
             \/ v = u /\ w = workspaces' /\ role'[v][w] = "owner"
      <3>1. CASE role' = role
        BY <3>1
      <3>2. CASE role' = [role EXCEPT ![u][workspaces'] = "owner"]
        BY <2>1, <3>2 DEF RowsTyped
      <3> QED  BY <2>1, <3>1, <3>2
    <2>5. ASSUME role'[u][workspaces'] = "owner"
          PROVE  ~Kept(u, workspaces') /\ \A w \in A!Workspaces : w = workspaces' => Kept(u, w)'
      <3>1. ~Kept(u, workspaces')
        BY <2>3 DEF Kept
      <3>2. \A q \in Submissions : request'[q].do = "remove" =>
               request'[q] = request[q] /\ request[q].ws \in 1..workspaces
        BY <2>1 DEF A!GoesOn, A!Done, Held
      <3>3. \A q \in Submissions : request'[q].do = "remove" => request'[q].ws # workspaces'
        BY <2>1, <3>2
      <3> QED  BY <2>5, <3>1, <3>3 DEF Kept
    <2>6. RolesMove
      BY <2>1, <2>4, <2>5 DEF RolesMove
    <2> QED  BY <2>2, <2>6, OwnerMoves
  <1> QED  BY <1>3, <1>4, <1>5, <1>6, <1>7, <1>8, <1>9 DEF A!Begin

LEMMA OwnerCommit ==
  ASSUME PeopleTyped, PeopleTyped', OwnerInv, NEW r \in Submissions, A!Commit(r)
  PROVE  OwnerInv'
  <1> USE DEF PeopleTyped, RequestsTyped
  <1>1. /\ workspaces \in Nat /\ 1 \in A!Workspaces /\ \A w \in 1..workspaces : w \in A!Workspaces
        /\ Held(request[r])
    BY PeopleConstants DEF RowsTyped, A!Workspaces, PeopleAssumed
  <1>2. ASSUME UNCHANGED <<role, demoted>>
        PROVE  RolesMove
    BY <1>2 DEF RolesMove
  <1>3. ASSUME A!Answered(r)
        PROVE  RequestsMove
    BY <1>3 DEF A!Answered, A!Done, RequestsMove
  <1>4. ASSUME UNCHANGED code
        PROVE  CodesMove
    BY <1>4 DEF CodesMove
  <1>5. CASE A!Assign(r)
    <2>1. RequestsMove
      <3>1. A!Members(1) # {} => Governed(1)
        BY <1>1 DEF OwnerInv
      <3> QED  BY <1>5, <3>1 DEF A!Assign, RequestsMove
    <2> QED  BY <1>2, <1>4, <1>5, <2>1, OwnerMoves DEF A!Assign, A!members, A!history
  <1>6. CASE A!Register(r)
    <2> PICK u \in Users : u = request[r].user
      BY <1>1, <1>6 DEF A!Register, Held
    <2>1. u \in Users /\ request[r].do = "register" /\ request[r].role \in {"owner", "member"}
          /\ UNCHANGED <<code, demoted>>
      BY <1>1, <1>6 DEF A!Register, Held, A!history
    <2>2. RequestsMove
      BY <1>6 DEF A!Register, A!Answered, A!Done, RequestsMove
    <2>3. CASE u \in registered
      BY <1>2, <1>4, <1>6, <2>1, <2>2, <2>3, OwnerMoves DEF A!Register
    <2>4. CASE u \notin registered
      <3>1. role' = [role EXCEPT ![u][1] = request[r].role]
        BY <1>6, <2>4 DEF A!Register
      <3>2. role[u][1] = "none" /\ \A v \in Users, w \in A!Workspaces :
               role'[v][w] = role[v][w] \/ (v = u /\ w = 1 /\ role'[v][w] = request[r].role)
        BY <1>1, <2>1, <2>4, <3>1 DEF RowsTyped
      <3>3. ~Kept(u, 1)
        BY <3>2 DEF Kept
      <3>4. request[r].role = "member" => Governed(1)
        BY <2>1 DEF OwnerInv
      <3>5. \A w \in A!Workspaces : role'[u][w] = "owner" /\ w = 1 => Kept(u, w)'
        <4>1. \A q \in Submissions : request[q].do = "remove" => request[q].target \in registered
          BY <1>1 DEF Held, RowsTyped
        <4>2. \A q \in Submissions : request'[q].do = "remove" => request'[q] = request[q]
          BY <1>6 DEF A!Register, A!Answered, A!Done
        <4> QED  BY <2>4, <4>1, <4>2 DEF Kept
      <3>6. RolesMove
        BY <2>1, <3>2, <3>3, <3>4, <3>5 DEF RolesMove
      <3> QED  BY <1>4, <2>1, <2>2, <3>6, OwnerMoves
    <2> QED  BY <2>3, <2>4
  <1>7. CASE A!Refresh(r)
    <2>1. RequestsMove
      <3>1. request'[r] = [request[r] EXCEPT !.do = "refreshed"] /\ request[r].do = "refresh"
            /\ \A q \in Submissions \ {r} : request'[q] = request[q]
        BY <1>7 DEF A!Refresh
      <3>2. request'[r].do = "refreshed"
        BY <1>1, <3>1 DEF Held
      <3> QED  BY <3>1, <3>2 DEF RequestsMove
    <2> QED  BY <1>2, <1>4, <1>7, <2>1, OwnerMoves DEF A!Refresh, A!members, A!history
  <1>8. CASE A!Logout(r)
    BY <1>2, <1>3, <1>4, <1>8, OwnerMoves DEF A!Logout, A!members
  <1>9. CASE A!Expire(r)
    <2>1. /\ A!Answered(r) /\ UNCHANGED <<role, demoted>> /\ request[r].do = "expire"
          /\ code' = [code EXCEPT ![request[r].code].status = "expired"]
      BY <1>9 DEF A!Expire, A!members, A!history
    <2>2. CodesMove
      BY <1>1, <2>1, CodeWritten DEF CodesMove, Held
    <2> QED  BY <1>2, <1>3, <2>1, <2>2, OwnerMoves
  <1>10. CASE A!Join(r)
    <2> DEFINE c == request[r].code
               u == request[r].user
               w == code[c].ws
    <2>1. /\ A!Answered(r) /\ UNCHANGED demoted /\ request[r].do = "join"
          /\ \/ UNCHANGED <<role, code>>
             \/ /\ role[u][w] = "none" /\ role' = [role EXCEPT ![u][w] = code[c].role]
                /\ code' = [code EXCEPT ![c].status = "accepted"]
      BY <1>10 DEF A!Join, A!CodeUsed
    <2>2. u \in Users /\ c \in Codes /\ code[c].status # "none" /\ w \in A!Workspaces
      BY <1>1, <2>1 DEF Held, RowsTyped
    <2>3. Governed(w)
      BY <2>2 DEF OwnerInv
    <2> HIDE DEF c, u, w
    <2>4. CASE UNCHANGED <<role, code>>
      BY <1>2, <1>3, <1>4, <2>1, <2>4, OwnerMoves
    <2>5. CASE ~UNCHANGED <<role, code>>
      <3>1. role[u][w] = "none" /\ role' = [role EXCEPT ![u][w] = code[c].role]
            /\ code' = [code EXCEPT ![c].status = "accepted"]
        BY <2>1, <2>5
      <3>2. CodesMove
        BY <2>2, <3>1, CodeWritten DEF CodesMove
      <3>3. RolesMove
        BY <2>1, <2>2, <2>3, <3>1 DEF RolesMove, RowsTyped, Kept
      <3> QED  BY <1>3, <2>1, <3>2, <3>3, OwnerMoves
    <2> QED  BY <2>4, <2>5
  <1>11. CASE A!UpdateRole(r)
    <2> DEFINE q == request[r]
    <2>1. /\ A!Answered(r) /\ UNCHANGED code /\ q.do = "set"
          /\ role' = role \/ role' = [role EXCEPT ![q.target][q.ws] = q.role]
          /\ demoted \subseteq demoted'
          /\ role[q.target][q.ws] = "owner" /\ role'[q.target][q.ws] # "owner" => q.ws \in demoted'
      BY <1>11 DEF A!UpdateRole
    <2>2. q.target \in Users /\ q.ws \in A!Workspaces /\ q.target \in A!Members(q.ws)
      BY <1>1, <2>1 DEF Held, A!Members
    <2>3. Governed(q.ws)
      BY <2>2 DEF OwnerInv
    <2> HIDE DEF q
    <2>4. \A v \in Users, x \in A!Workspaces : role'[v][x] = role[v][x] \/ (v = q.target /\ x = q.ws)
      BY <2>1, <2>2 DEF RowsTyped
    <2>5. RolesMove
      BY <2>1, <2>3, <2>4 DEF RolesMove, Kept
    <2> QED  BY <1>3, <1>4, <2>1, <2>5, OwnerMoves
  <1>12. CASE A!Remove(r)
    <2> DEFINE q == request[r]
               t == q.target
               w == q.ws
    <2>1. /\ UNCHANGED <<code, demoted>> /\ q.do = "remove"
          /\ role' = [role EXCEPT ![t][w] = "none"]
          /\ \A p \in Submissions : request'[p] = request[p] \/ request'[p] = A!Done
      BY <1>12 DEF A!Remove, A!AnsweredRemoving, A!history
    <2>2. t \in Users /\ w \in A!Workspaces /\ t \in A!Members(w)
      BY <1>1, <2>1 DEF Held, A!Members
    <2>3. Governed(w) /\ ~Kept(t, w)
      BY <2>1, <2>2 DEF OwnerInv, Kept
    <2> HIDE DEF q, t, w
    <2>4. \A v \in Users, x \in A!Workspaces : role'[v][x] = role[v][x] \/ (v = t /\ x = w)
      BY <2>1, <2>2 DEF RowsTyped
    <2>5. RolesMove
      BY <2>1, <2>3, <2>4 DEF RolesMove
    <2>6. RequestsMove
      BY <2>1 DEF A!Done, RequestsMove
    <2> QED  BY <1>4, <2>1, <2>5, <2>6, OwnerMoves
  <1>13. ASSUME NEW k \in Tokens, A!Issue(r, k)
         PROVE  OwnerInv'
    BY <1>2, <1>3, <1>4, <1>13, OwnerMoves DEF A!Issue, A!members, A!history
  <1>14. ASSUME NEW c \in Codes, A!Invite(r, c)
         PROVE  OwnerInv'
    <2>1. /\ A!Answered(r) /\ UNCHANGED <<role, demoted>> /\ request[r].do = "invite"
          /\ code' = [code EXCEPT ![c] = [status |-> "pending", ws |-> request[r].ws,
                                         role |-> request[r].role, late |-> FALSE]]
      BY <1>14 DEF A!Invite, A!members, A!history
    <2>2. Governed(request[r].ws)
      BY <2>1 DEF OwnerInv
    <2>3. CodesMove
      BY <2>1, <2>2 DEF CodesMove, RowsTyped
    <2> QED  BY <1>2, <1>3, <2>1, <2>3, OwnerMoves
  <1> QED
    BY <1>5, <1>6, <1>7, <1>8, <1>9, <1>10, <1>11, <1>12, <1>13, <1>14 DEF A!Commit

LEMMA OwnerClock ==
  ASSUME PeopleTyped, PeopleTyped', OwnerInv, A!Clock
  PROVE  OwnerInv'
  <1>1. UNCHANGED <<role, request, demoted>>
    BY DEF A!Clock, A!Lapse, A!RunOut, A!members, A!history
  <1>2. CodesMove
    <2>1. CASE UNCHANGED code
      BY <2>1 DEF CodesMove
    <2>2. ASSUME NEW c \in Codes, A!RunOut(c)
          PROVE  CodesMove
      <3>1. code[c].status = "pending" /\ code' = [code EXCEPT ![c].late = TRUE]
        BY <2>2 DEF A!RunOut
      <3>2. code[c] \in [status : {"pending", "accepted", "expired"}, ws : A!Workspaces, role : InviteRoles,
                         late : BOOLEAN]
        BY <3>1 DEF PeopleTyped, RowsTyped, CodeRow
      <3>3. code'[c].ws = code[c].ws /\ \A d \in Codes \ {c} : code'[d] = code[d]
        BY <3>1, <3>2 DEF PeopleTyped, RowsTyped
      <3> QED  BY <3>1, <3>3 DEF CodesMove
    <2> QED  BY <2>1, <2>2 DEF A!Clock, A!Lapse
  <1> QED  BY <1>1, <1>2, OwnerMoves DEF RolesMove, RequestsMove

LEMMA OwnerInit == Init => OwnerInv
  <1> SUFFICES ASSUME A!Init PROVE OwnerInv
    BY DEF Init
  <1> USE DEF A!Init
  <1>1. (\A r \in Submissions : request[r].do = "none") /\ (\A c \in Codes : code[c].status = "none")
        /\ 1 \in A!Workspaces
    BY PeopleConstants DEF PeopleAssumed, A!Workspaces
  <1>2. ASSUME NEW w \in A!Workspaces, A!Members(w) # {}
        PROVE  Governed(w)
    <2>1. PICK v \in Users : role[v][w] # "none"
      BY <1>2 DEF A!Members
    <2>2. PICK u \in Users : w = 1 /\ role[u][1] = "owner"
      BY <1>1, <2>1
    <2> QED  BY <1>1, <2>2 DEF Governed, Kept
  <1> QED  BY <1>1, <1>2 DEF OwnerInv

LEMMA OwnerStep ==
  ASSUME PeopleTyped, PeopleTyped', OwnerInv, A!Next
  PROVE  OwnerInv'
  BY OwnerBegin, OwnerCommit, OwnerClock DEF A!Next

-----------------------------------------------------------------------------
(* People: an invitation lets one user in. Of two requests that hold a code   *)
(* the second makes it raced; one that holds it has let nobody in yet, and a   *)
(* code that let somebody in is never pending again.                           *)

CodeInv ==
    \A c \in Codes \ raced :
        /\ \A p, q \in A!Joining(c) : p = q
        /\ admitted[c] # {} =>
              /\ A!Joining(c) = {} /\ code[c].status \in {"accepted", "expired"}
              /\ \E u \in Users : admitted[c] = {u}

\* Nobody takes up a code, and no code becomes usable again.
LEMMA CodesRest ==
  ASSUME CodeInv, UNCHANGED <<admitted, raced>>,
         \A q \in Submissions : request'[q].do = "join" => request'[q] = request[q],
         \A c \in Codes : code[c].status \in {"accepted", "expired"} => code'[c].status \in {"accepted", "expired"}
  PROVE  CodeInv'
  <1>1. \A c \in Codes : A!Joining(c)' \subseteq A!Joining(c)
    BY DEF A!Joining
  <1> QED  BY <1>1 DEF CodeInv

LEMMA CodeBegin ==
  ASSUME PeopleTyped, CodeInv, NEW r \in Submissions, A!Begin(r)
  PROVE  CodeInv'
  <1>1. request = [q \in Submissions |-> request[q]] /\ r \in Submissions
    BY DEF PeopleTyped, RequestsTyped
  <1>2. ASSUME NEW st, A!GoesOn(r, st), st.do # "join", UNCHANGED <<code, admitted, raced>>
        PROVE  CodeInv'
    <2>1. \A q \in Submissions : request'[q].do = "join" => request'[q] = request[q]
      BY <1>1, <1>2 DEF A!GoesOn
    <2> QED  BY <1>2, <2>1, CodesRest
  <1>3. ASSUME NEW u \in Users, A!BeginRegister(r, u) \/ A!BeginLogin(r, u) \/ A!CreateWorkspace(r, u)
        PROVE  CodeInv'
    BY <1>2, <1>3 DEF A!BeginRegister, A!BeginLogin, A!CreateWorkspace, A!history, A!Done
  <1>4. ASSUME NEW k \in Tokens, A!BeginRefresh(r, k) \/ A!BeginLogout(r, k)
        PROVE  CodeInv'
    BY <1>2, <1>4 DEF A!BeginRefresh, A!BeginLogout, A!history, A!Done
  <1>5. ASSUME NEW u \in Users, NEW w, NEW as, A!BeginInvite(r, u, w, as)
        PROVE  CodeInv'
    BY <1>2, <1>5 DEF A!BeginInvite, A!history
  <1>6. ASSUME NEW u \in Users, NEW w, NEW target, NEW to, A!BeginUpdateRole(r, u, w, target, to)
        PROVE  CodeInv'
    BY <1>2, <1>6 DEF A!BeginUpdateRole, A!history
  <1>7. ASSUME NEW u \in Users, NEW w, NEW target, A!BeginRemove(r, u, w, target)
        PROVE  CodeInv'
    BY <1>2, <1>7 DEF A!BeginRemove, A!history
  <1>8. ASSUME NEW u \in Users, NEW c \in Codes, A!BeginJoin(r, u, c)
        PROVE  CodeInv'
    <2>1. CASE A!GoesOn(r, [do |-> "expire", code |-> c]) /\ UNCHANGED raced
      BY <1>2, <1>8, <2>1 DEF A!BeginJoin
    <2>2. CASE /\ A!GoesOn(r, [do |-> "join", code |-> c, user |-> u])
               /\ raced' = IF A!Joining(c) # {} THEN raced \cup {c} ELSE raced
      <3>1. /\ UNCHANGED <<code, admitted>> /\ code[c].status = "pending"
            /\ \A q \in Submissions \ {r} : request'[q] = request[q]
            /\ request'[r].do = "join" /\ request'[r].code = c
        BY <1>1, <1>8, <2>2 DEF A!BeginJoin, A!GoesOn
      <3>2. A!Joining(c)' \subseteq A!Joining(c) \cup {r}
            /\ \A d \in Codes \ {c} : A!Joining(d)' \subseteq A!Joining(d)
        BY <3>1 DEF A!Joining
      <3>3. raced \subseteq raced' /\ (c \notin raced' => A!Joining(c) = {})
        BY <2>2
      <3>4. c \notin raced => admitted[c] = {}
        BY <3>1 DEF CodeInv
      <3> QED  BY <3>1, <3>2, <3>3, <3>4 DEF CodeInv
    <2> QED  BY <1>8, <2>1, <2>2 DEF A!BeginJoin
  <1> QED  BY <1>3, <1>4, <1>5, <1>6, <1>7, <1>8 DEF A!Begin

LEMMA CodeCommit ==
  ASSUME PeopleTyped, CodeInv, NEW r \in Submissions, A!Commit(r)
  PROVE  CodeInv'
  <1>1. request = [q \in Submissions |-> request[q]] /\ Held(request[r])
    BY DEF PeopleTyped, RequestsTyped
  <1>2. ASSUME A!Answered(r)
        PROVE  /\ \A q \in Submissions \ {r} : request'[q] = request[q]
               /\ request'[r].do = "done"
    BY <1>1, <1>2 DEF A!Answered, A!Done
  <1>3. ASSUME A!Assign(r) \/ A!Register(r) \/ A!Refresh(r)
        PROVE  CodeInv'
    <2>1. UNCHANGED <<code, admitted, raced>>
      BY <1>3 DEF A!Assign, A!Register, A!Refresh, A!history
    <2>2. \A q \in Submissions : request'[q].do = "join" => request'[q] = request[q]
      <3>1. CASE A!Assign(r)
        BY <1>1, <3>1 DEF A!Assign
      <3>2. CASE A!Register(r)
        BY <1>1, <1>2, <3>2 DEF A!Register
      <3>3. CASE A!Refresh(r)
        <4>1. request[r].do = "refresh" /\ request'[r] = [request[r] EXCEPT !.do = "refreshed"]
              /\ \A q \in Submissions \ {r} : request'[q] = request[q]
          BY <1>1, <3>3 DEF A!Refresh
        <4>2. request'[r].do = "refreshed"
          BY <1>1, <4>1 DEF Held
        <4> QED  BY <4>1, <4>2
      <3> QED  BY <1>3, <3>1, <3>2, <3>3
    <2> QED  BY <2>1, <2>2, CodesRest
  <1>4. ASSUME A!Logout(r) \/ A!UpdateRole(r) \/ \E k \in Tokens : A!Issue(r, k)
        PROVE  CodeInv'
    <2>1. UNCHANGED <<code, admitted, raced>> /\ A!Answered(r)
      BY <1>4 DEF A!Logout, A!UpdateRole, A!Issue, A!history
    <2> QED  BY <1>2, <2>1, CodesRest
  <1>5. CASE A!Remove(r)
    <2>1. UNCHANGED <<code, admitted, raced>>
          /\ \A q \in Submissions : request'[q] = request[q] \/ request'[q].do = "done"
      BY <1>5 DEF A!Remove, A!AnsweredRemoving, A!Done, A!history
    <2> QED  BY <2>1, CodesRest
  <1>6. CASE A!Expire(r)
    <2>1. /\ A!Answered(r) /\ UNCHANGED <<admitted, raced>> /\ request[r].do = "expire"
          /\ code' = [code EXCEPT ![request[r].code].status = "expired"]
      BY <1>6 DEF A!Expire, A!history
    <2>2. request[r].code \in Codes /\ code[request[r].code].status # "none"
      BY <1>1, <2>1 DEF Held
    <2>3. \A c \in Codes : code'[c].status = "expired" \/ code'[c] = code[c]
      BY <2>1, <2>2, CodeWritten DEF PeopleTyped
    <2> QED  BY <1>2, <2>1, <2>3, CodesRest
  <1>7. ASSUME NEW c \in Codes, A!Invite(r, c)
        PROVE  CodeInv'
    <2>1. /\ A!Answered(r) /\ UNCHANGED <<admitted, raced>> /\ code[c].status = "none"
          /\ \A d \in Codes \ {c} : code'[d] = code[d]
      BY <1>7 DEF A!Invite, A!history, PeopleTyped, RowsTyped
    <2> QED  BY <1>2, <2>1, CodesRest
  <1>8. CASE A!Join(r)
    <2> PICK c \in Codes : c = request[r].code
      BY <1>1, <1>8 DEF A!Join, Held
    <2> PICK u \in Users : u = request[r].user
      BY <1>1, <1>8 DEF A!Join, Held
    <2>1. /\ A!Answered(r) /\ UNCHANGED raced /\ r \in A!Joining(c) /\ code[c].status # "none"
          /\ \/ UNCHANGED <<code, admitted>>
             \/ code' = [code EXCEPT ![c].status = "accepted"] /\ admitted' = [admitted EXCEPT ![c] = @ \cup {u}]
      BY <1>1, <1>8 DEF A!Join, A!CodeUsed, A!Joining, Held
    <2>2. CASE UNCHANGED <<code, admitted>>
      BY <1>2, <2>1, <2>2, CodesRest
    <2>3. CASE /\ code' = [code EXCEPT ![c].status = "accepted"]
               /\ admitted' = [admitted EXCEPT ![c] = @ \cup {u}]
      <3>1. code'[c].status = "accepted" /\ \A d \in Codes \ {c} : code'[d] = code[d]
        BY <2>1, <2>3, CodeWritten DEF PeopleTyped
      <3>2. admitted'[c] = admitted[c] \cup {u} /\ \A d \in Codes \ {c} : admitted'[d] = admitted[d]
        BY <2>3 DEF PeopleTyped, HistoryTyped
      <3>3. \A d \in Codes : A!Joining(d)' \subseteq A!Joining(d) \ {r}
        BY <1>2, <2>1 DEF A!Joining
      <3>4. c \notin raced => admitted[c] = {} /\ A!Joining(c)' = {}
        BY <2>1, <3>3 DEF CodeInv
      <3> QED  BY <2>1, <3>1, <3>2, <3>3, <3>4 DEF CodeInv
    <2> QED  BY <2>1, <2>2, <2>3
  <1> QED  BY <1>3, <1>4, <1>5, <1>6, <1>7, <1>8 DEF A!Commit

LEMMA CodeClock ==
  ASSUME PeopleTyped, CodeInv, A!Clock
  PROVE  CodeInv'
  <1>1. UNCHANGED <<request, admitted, raced>>
    BY DEF A!Clock, A!Lapse, A!RunOut, A!history
  <1>2. \A c \in Codes : code[c].status \in {"accepted", "expired"} => code'[c] = code[c]
    BY DEF A!Clock, A!Lapse, A!RunOut, PeopleTyped, RowsTyped
  <1> QED  BY <1>1, <1>2, CodesRest

LEMMA CodeInit == Init => CodeInv
  BY DEF Init, A!Init, A!Joining, CodeInv

LEMMA CodeStep ==
  ASSUME PeopleTyped, CodeInv, A!Next
  PROVE  CodeInv'
  BY CodeBegin, CodeCommit, CodeClock DEF A!Next

\* The counting of Accounts is that of FiniteSets.
LEMMA CountingIsCounting == \A T : A!Cardinality(T) = Cardinality(T)
  BY DEF A!Cardinality, Cardinality

LEMMA OneUserIn == PeopleTyped /\ CodeInv => A!CodeAdmitsOne
  <1> SUFFICES ASSUME CodeInv, NEW c \in Codes, c \notin raced
               PROVE  Cardinality(admitted[c]) <= 1
    BY CountingIsCounting DEF A!CodeAdmitsOne
  <1>1. CASE admitted[c] = {}
    BY <1>1, FS_EmptySet
  <1>2. CASE admitted[c] # {}
    <2>1. PICK u \in Users : admitted[c] = {u}
      BY <1>2 DEF CodeInv
    <2>2. Cardinality({u}) = 1
      BY FS_Singleton
    <2> QED  BY <2>1, <2>2
  <1> QED  BY <1>1, <1>2

-----------------------------------------------------------------------------
(* People: a logout is final. The row of a token whose logout has answered     *)
(* never comes back to life, so that no refresh that found a live row began     *)
(* after that logout.                                                          *)

LogoutInv ==
    /\ \A k \in ended : token[k].row \in {"revoked", "purged"}
    /\ \A r \in Submissions : request[r].do \in {"refresh", "refreshed"} => ~request[r].late

LEMMA LogoutBegin ==
  ASSUME PeopleTyped, LogoutInv, NEW r \in Submissions, A!Begin(r)
  PROVE  LogoutInv'
  <1>1. request = [q \in Submissions |-> request[q]] /\ r \in Submissions
    BY DEF PeopleTyped, RequestsTyped
  <1>2. ASSUME NEW st, A!GoesOn(r, st), st.do # "refresh", st.do # "refreshed", UNCHANGED <<token, ended>>
        PROVE  LogoutInv'
    BY <1>1, <1>2 DEF A!GoesOn, LogoutInv
  <1>3. ASSUME NEW u \in Users, A!BeginRegister(r, u) \/ A!BeginLogin(r, u) \/ A!CreateWorkspace(r, u)
        PROVE  LogoutInv'
    BY <1>2, <1>3 DEF A!BeginRegister, A!BeginLogin, A!CreateWorkspace, A!history, A!Done
  <1>4. ASSUME NEW k \in Tokens, A!BeginLogout(r, k)
        PROVE  LogoutInv'
    BY <1>2, <1>4 DEF A!BeginLogout, A!history, A!Done
  <1>5. ASSUME NEW k \in Tokens, A!BeginRefresh(r, k)
        PROVE  LogoutInv'
    BY <1>1, <1>5 DEF A!BeginRefresh, A!GoesOn, A!history, LogoutInv
  <1>6. ASSUME NEW u \in Users, NEW c \in Codes, A!BeginJoin(r, u, c)
        PROVE  LogoutInv'
    BY <1>2, <1>6 DEF A!BeginJoin
  <1>7. ASSUME NEW u \in Users, NEW w, NEW as, A!BeginInvite(r, u, w, as)
        PROVE  LogoutInv'
    BY <1>2, <1>7 DEF A!BeginInvite, A!history
  <1>8. ASSUME NEW u \in Users, NEW w, NEW target, NEW to, A!BeginUpdateRole(r, u, w, target, to)
        PROVE  LogoutInv'
    BY <1>2, <1>8 DEF A!BeginUpdateRole, A!history
  <1>9. ASSUME NEW u \in Users, NEW w, NEW target, A!BeginRemove(r, u, w, target)
        PROVE  LogoutInv'
    BY <1>2, <1>9 DEF A!BeginRemove, A!history
  <1> QED  BY <1>3, <1>4, <1>5, <1>6, <1>7, <1>8, <1>9 DEF A!Begin

LEMMA LogoutCommit ==
  ASSUME PeopleTyped, LogoutInv, NEW r \in Submissions, A!Commit(r)
  PROVE  LogoutInv'
  <1>1. request = [q \in Submissions |-> request[q]] /\ Held(request[r])
        /\ token \in [Tokens -> TokenRow] /\ ended \subseteq Tokens
    BY DEF PeopleTyped, RequestsTyped, TokensTyped
  <1>2. ASSUME A!Answered(r), \A k \in ended' : token'[k].row \in {"revoked", "purged"}
        PROVE  LogoutInv'
    BY <1>1, <1>2 DEF A!Answered, A!Done, LogoutInv
  <1>3. CASE A!Assign(r)
    BY <1>1, <1>3 DEF A!Assign, A!history, LogoutInv
  <1>4. CASE A!Register(r)
    BY <1>1, <1>4 DEF A!Register, A!Answered, A!Done, A!history, LogoutInv
  <1>5. CASE A!Refresh(r)
    <2>1. request[r].do = "refresh" /\ request'[r] = [request[r] EXCEPT !.do = "refreshed"]
          /\ (\A q \in Submissions \ {r} : request'[q] = request[q]) /\ UNCHANGED <<token, ended>>
      BY <1>1, <1>5 DEF A!Refresh, A!history
    <2>2. ~request[r].late
      BY <2>1 DEF LogoutInv
    <2>3. request'[r].late = request[r].late
      BY <1>1, <2>1 DEF Held
    <2> QED  BY <2>1, <2>2, <2>3 DEF LogoutInv
  <1>6. CASE A!Logout(r)
    <2> PICK k \in Tokens : k = request[r].token
      BY <1>1, <1>6 DEF A!Logout, Held
    <2>1. /\ A!Answered(r)
          /\ \/ UNCHANGED <<token, ended>>
             \/ /\ token' = [token EXCEPT ![k].row = "revoked"] /\ ended' = ended \cup {k}
                /\ token[k].row # "none"
      BY <1>6 DEF A!Logout
    <2>2. ASSUME token' = [token EXCEPT ![k].row = "revoked"], token[k].row # "none"
          PROVE  token'[k].row = "revoked" /\ \A j \in Tokens \ {k} : token'[j] = token[j]
      <3>1. token[k] \in [row : {"signed", "live", "revoked", "purged"}, user : Users]
        BY <1>1, <2>2 DEF TokenRow
      <3> QED  BY <1>1, <2>2, <3>1
    <2> QED  BY <1>1, <1>2, <2>1, <2>2 DEF LogoutInv
  <1>7. ASSUME A!Expire(r) \/ A!Join(r) \/ A!UpdateRole(r) \/ \E c \in Codes : A!Invite(r, c)
        PROVE  LogoutInv'
    <2>1. UNCHANGED <<token, ended>> /\ A!Answered(r)
      BY <1>7 DEF A!Expire, A!Join, A!UpdateRole, A!Invite, A!history
    <2> QED  BY <1>2, <2>1 DEF LogoutInv
  <1>8. CASE A!Remove(r)
    <2>1. UNCHANGED <<token, ended>>
          /\ \A q \in Submissions : request'[q] = request[q] \/ request'[q].do = "done"
      BY <1>8 DEF A!Remove, A!AnsweredRemoving, A!Done, A!history
    <2> QED  BY <2>1 DEF LogoutInv
  <1>9. ASSUME NEW k \in Tokens, A!Issue(r, k)
        PROVE  LogoutInv'
    <2> PICK u : u = request[r].user
      OBVIOUS
    <2>1. /\ A!Answered(r) /\ UNCHANGED ended /\ token[k].row = "none"
          /\ \A j \in Tokens \ {k} : token'[j] = A!RowAfter(j, u)
      BY <1>9 DEF A!Issue, A!history
    <2>2. ASSUME NEW j \in ended
          PROVE  token'[j].row \in {"revoked", "purged"}
      <3>1. j \in Tokens \ {k} /\ token[j].row \in {"revoked", "purged"}
        BY <1>1, <2>1 DEF LogoutInv
      <3>2. token[j] \in [row : {"signed", "live", "revoked", "purged"}, user : Users]
        BY <1>1, <3>1 DEF TokenRow
      <3> QED  BY <2>1, <3>1, <3>2 DEF A!RowAfter
    <2> QED  BY <1>2, <2>1, <2>2
  <1> QED  BY <1>3, <1>4, <1>5, <1>6, <1>7, <1>8, <1>9 DEF A!Commit

LEMMA LogoutInit == Init => LogoutInv
  BY DEF Init, A!Init, LogoutInv

LEMMA LogoutStep ==
  ASSUME PeopleTyped, LogoutInv, A!Next
  PROVE  LogoutInv'
  <1>1. CASE A!Clock
    BY <1>1 DEF A!Clock, A!Lapse, A!RunOut, A!history, LogoutInv
  <1> QED  BY <1>1, LogoutBegin, LogoutCommit DEF A!Next

PeopleInv == PeopleTyped /\ OwnerInv /\ CodeInv /\ LogoutInv

LEMMA PeopleStep == PeopleInv /\ A!Next => PeopleInv'
  <1> SUFFICES ASSUME PeopleInv, A!Next PROVE PeopleInv'
    OBVIOUS
  <1>1. PeopleTyped'
    BY PeopleBegin, PeopleCommit, PeopleClock DEF PeopleInv, A!Next
  <1> QED  BY <1>1, OwnerStep, CodeStep, LogoutStep DEF PeopleInv

LEMMA PeopleRest == PeopleInv /\ UNCHANGED people => PeopleInv'
  <1> USE DEF people
  <1> SUFFICES ASSUME PeopleInv, UNCHANGED people PROVE PeopleInv'
    OBVIOUS
  <1>1. PeopleTyped'
    BY DEF PeopleInv, PeopleTyped, RequestsTyped, Held, RowsTyped, TokensTyped, HistoryTyped
  <1>2. OwnerInv'
    BY DEF PeopleInv, OwnerInv, Governed, Kept, A!Members
  <1>3. CodeInv'
    BY DEF PeopleInv, CodeInv, A!Joining
  <1>4. LogoutInv'
    BY DEF PeopleInv, LogoutInv
  <1> QED  BY <1>1, <1>2, <1>3, <1>4 DEF PeopleInv

THEOREM PeopleInvariant == Spec => []PeopleInv
  <1>1. Init => PeopleInv
    BY PeopleInit, OwnerInit, CodeInit, LogoutInit DEF PeopleInv
  <1>2. PeopleInv /\ [Next]_<<people, models, events, plugins, side>> => PeopleInv'
    BY PeopleStep, PeopleRest DEF Next, People, Models, Events, Tools
  <1> QED  BY <1>1, <1>2, PTL DEF Spec

\* A workspace keeps an owner through removals, joins and registrations that
\* overlap, and a code lets one user in unless two joins held it
\* (workspace_members.py, auth.py).
THEOREM WorkspaceKeepsOwner == Spec => []MembershipSound
  <1>1. PeopleInv => MembershipSound
    <2>1. PeopleInv => A!OwnerStays
      BY DEF PeopleInv, OwnerInv, Governed, Kept, A!OwnerStays
    <2> QED  BY <2>1, OneUserIn DEF PeopleInv, MembershipSound, A!MembershipSound
  <1> QED  BY <1>1, PeopleInvariant, PTL

\* No refresh succeeds that began after the token's logout (auth.py).
THEOREM LogoutEndsToken == Spec => []LogoutIsFinal
  <1>1. PeopleInv => LogoutIsFinal
    BY DEF PeopleInv, LogoutInv, LogoutIsFinal, A!LogoutIsFinal
  <1> QED  BY <1>1, PeopleInvariant, PTL

-----------------------------------------------------------------------------
(* Models: the chain of a call. The fallbacks are walked along at most once    *)
(* more than there are references; a walk that came twice to a reference would  *)
(* go round and never end, so that a chain has each reference once.             *)

ModelsAssumed ==
    /\ Known \subseteq Providers /\ EnvKeys \subseteq Known
    /\ Yaml \in [Aliases -> G!Entry] /\ Tried \subseteq G!Entry
    /\ NoRef \notin G!Refs /\ IsFiniteSet(G!Refs)

LEMMA ModelsConstants == ModelsAssumed
  <1>1. G!GatewayAssumption
    BY ConsoleAssumption
  <1>2. \A T : G!IsFiniteSet(T) <=> IsFiniteSet(T)
    BY DEF G!IsFiniteSet, IsFiniteSet
  <1> QED  BY <1>1, <1>2 DEF ModelsAssumed, G!GatewayAssumption

\* A set of numbers has a least one.
LEMMA LeastExists ==
  ASSUME NEW T \in SUBSET Nat, T # {}
  PROVE  \E x \in T : \A y \in T : x <= y
  <1>1. PICK x \in T : \A y \in T : ~(<<y, x>> \in OpToRel(<, Nat))
    <2>1. IsWellFoundedOn(OpToRel(<, Nat), Nat)
      BY NatLessThanWellFounded
    <2> QED  BY <2>1, WFMin
  <1>2. \A y \in T : ~(y < x)
    BY <1>1 DEF OpToRel
  <1> QED  BY <1>2

Follows(x, cat) == IF x \in DOMAIN cat THEN cat[x].fallback ELSE NoRef

IsWalk(f, n, ref, cat) == f = [k \in 1..n |-> IF k = 1 THEN ref ELSE Follows(f[k - 1], cat)]

LEMMA WalkExists ==
  ASSUME NEW ref, NEW cat
  PROVE  \A n \in Nat : \E f : IsWalk(f, n, ref, cat)
  <1> DEFINE T == {n \in Nat : ~\E f : IsWalk(f, n, ref, cat)}
  <1> SUFFICES ASSUME T # {} PROVE FALSE
    OBVIOUS
  <1>1. PICK n \in T : \A m \in T : n <= m
    BY LeastExists
  <1>2. n \in Nat /\ ~\E f : IsWalk(f, n, ref, cat)
    BY <1>1
  <1>3. n # 0
    <2>1. IsWalk([k \in 1..0 |-> ref], 0, ref, cat)
      BY DEF IsWalk
    <2> QED  BY <1>2, <2>1
  <1>4. PICK f : IsWalk(f, n - 1, ref, cat)
    <2>1. n - 1 \in Nat /\ ~(n <= n - 1)
      BY <1>2, <1>3
    <2> QED  BY <1>1, <2>1
  <1> DEFINE g == [k \in 1..n |-> IF k < n THEN f[k] ELSE IF k = 1 THEN ref ELSE Follows(f[k - 1], cat)]
  <1>5. ASSUME NEW k \in 1..n
        PROVE  g[k] = IF k = 1 THEN ref ELSE Follows(g[k - 1], cat)
    <2>1. k # 1 => k - 1 \in 1..(n - 1) /\ g[k - 1] = f[k - 1]
      BY <1>2
    <2>2. k < n => k \in 1..(n - 1) /\ f[k] = IF k = 1 THEN ref ELSE Follows(f[k - 1], cat)
      BY <1>2, <1>4 DEF IsWalk
    <2> HIDE DEF T
    <2> QED  BY <1>2, <2>1, <2>2
  <1>6. g = [k \in 1..n |-> g[k]]
    OBVIOUS
  <1>7. IsWalk(g, n, ref, cat)
    <2> HIDE DEF g
    <2> QED  BY <1>5, <1>6 DEF IsWalk
  <1> QED  BY <1>2, <1>7

LEMMA WalkSteps ==
  ASSUME NEW ref, NEW cat
  PROVE  /\ Cardinality(G!Refs) \in Nat
         /\ IsWalk(G!Walk(ref, cat), Cardinality(G!Refs) + 1, ref, cat)
  <1> DEFINE N == Cardinality(G!Refs) + 1
  <1>1. Cardinality(G!Refs) \in Nat
    BY ModelsConstants, FS_CardinalityType DEF ModelsAssumed
  <1>2. \E f : IsWalk(f, N, ref, cat)
    <2>1. N \in Nat
      BY <1>1
    <2> HIDE DEF N
    <2> QED  BY <2>1, WalkExists
  <1>3. G!Cardinality(G!Refs) = Cardinality(G!Refs)
    BY DEF G!Cardinality, Cardinality
  <1>4. G!Walk(ref, cat) = CHOOSE f : IsWalk(f, N, ref, cat)
    BY <1>3 DEF G!Walk, IsWalk, Follows
  <1> QED  BY <1>1, <1>2, <1>4

\* A chain goes from ref along the fallbacks to a model without one.
IsChain(c, ref, cat) ==
    /\ c \in Seq(DOMAIN cat) /\ Len(c) > 0 /\ c[1] = ref
    /\ \A i \in 1..(Len(c) - 1) : c[i + 1] = cat[c[i]].fallback
    /\ cat[c[Len(c)]].fallback = NoRef

LEMMA ChainIsChain ==
  ASSUME NEW ref, NEW cat, G!Chain(ref, cat) # <<>>
  PROVE  IsChain(G!Chain(ref, cat), ref, cat)
  <1> DEFINE walk == G!Walk(ref, cat)
             C == Cardinality(G!Refs)
             ends == {n \in 1..C : walk[n + 1] = NoRef /\ \A k \in 1..n : walk[k] \in DOMAIN cat}
  <1>1. C \in Nat /\ IsWalk(walk, C + 1, ref, cat)
    BY WalkSteps
  <1>2. G!Cardinality(G!Refs) = C
    BY DEF G!Cardinality, Cardinality
  <1>3. ends # {} /\ G!Chain(ref, cat) = [k \in 1..(CHOOSE n \in ends : TRUE) |-> walk[k]]
    BY <1>2 DEF G!Chain
  <1>4. PICK n \in ends : G!Chain(ref, cat) = [k \in 1..n |-> walk[k]]
    BY <1>3
  <1> HIDE DEF C, walk
  <1>5. n \in 1..C /\ walk[n + 1] = NoRef /\ \A k \in 1..n : walk[k] \in DOMAIN cat
    BY <1>4
  <1> HIDE DEF ends
  <1>6. /\ walk[1] = ref
        /\ \A k \in 1..n : walk[k + 1] = cat[walk[k]].fallback
    <2>1. 1 \in 1..(C + 1) /\ \A k \in 1..n : k + 1 \in 1..(C + 1) /\ k + 1 # 1 /\ (k + 1) - 1 = k
      BY <1>1, <1>5
    <2>2. \A k \in 1..(C + 1) : walk[k] = IF k = 1 THEN ref ELSE Follows(walk[k - 1], cat)
      BY <1>1 DEF IsWalk
    <2>3. \A k \in 1..n : walk[k + 1] = Follows(walk[k], cat)
      BY <2>1, <2>2
    <2> QED  BY <1>5, <2>1, <2>2, <2>3 DEF Follows
  <1> PICK c : c = G!Chain(ref, cat)
    OBVIOUS
  <1>7. c \in Seq(DOMAIN cat) /\ Len(c) = n /\ \A k \in 1..n : c[k] = walk[k]
    BY <1>1, <1>4, <1>5
  <1> QED  BY <1>1, <1>5, <1>6, <1>7 DEF IsChain

\* Two places with the same reference would have the same distance to the end.
LEMMA ChainHasEachOnce ==
  ASSUME NEW c, NEW ref, NEW cat, IsChain(c, ref, cat), NoRef \notin DOMAIN cat
  PROVE  \A i, j \in DOMAIN c : c[i] = c[j] => i = j
  <1> DEFINE n == Len(c)
  <1>1. n \in Nat /\ DOMAIN c = 1..n /\ \A i \in 1..n : c[i] \in DOMAIN cat
    BY DEF IsChain
  <1> SUFFICES ASSUME NEW i \in 1..n, NEW j \in 1..n, c[i] = c[j], i < j
               PROVE  FALSE
    BY <1>1
  <1>2. \A k \in 1..(n - 1) : c[k + 1] = cat[c[k]].fallback
    BY DEF IsChain
  <1>3. cat[c[n]].fallback = NoRef
    BY DEF IsChain
  <1> HIDE DEF n
  <1> DEFINE T == {d \in Nat : j + d <= n /\ c[i + d] # c[j + d]}
  <1>4. T = {}
    <2> SUFFICES ASSUME T # {} PROVE FALSE
      OBVIOUS
    <2>1. PICK d \in T : \A e \in T : d <= e
      BY LeastExists
    <2>2. d \in Nat /\ j + d <= n /\ c[i + d] # c[j + d] /\ d # 0
      BY <2>1
    <2>3. d - 1 \in Nat /\ ~(d <= d - 1) /\ j + (d - 1) <= n
      BY <1>1, <2>2
    <2>4. c[i + (d - 1)] = c[j + (d - 1)]
      BY <2>1, <2>3
    <2>5. /\ i + (d - 1) \in 1..(n - 1) /\ (i + (d - 1)) + 1 = i + d
          /\ j + (d - 1) \in 1..(n - 1) /\ (j + (d - 1)) + 1 = j + d
      BY <1>1, <2>2
    <2> QED  BY <1>2, <2>2, <2>4, <2>5
  <1>5. n - j \in Nat /\ j + (n - j) = n /\ i + (n - j) \in 1..(n - 1) /\ (i + (n - j)) + 1 \in 1..n
    BY <1>1
  <1>6. c[i + (n - j)] = c[n]
    BY <1>4, <1>5
  <1>7. c[(i + (n - j)) + 1] = NoRef
    BY <1>2, <1>3, <1>5, <1>6
  <1> QED  BY <1>1, <1>5, <1>7

-----------------------------------------------------------------------------
(* Models: types, and the calls of the sessions                              *)

Changed(q) ==
    /\ q.do \in {"none", "put", "drop", "create", "check", "delete", "done"}
    /\ q.do \in {"put", "drop"} => q.provider \in Providers
    /\ q.do \in {"create", "check", "delete"} => q.name \in Names
    /\ q.do = "create" => q.entry \in G!Entry

ModelsTyped ==
    /\ stored \in [Providers -> {"none", "good", "unreadable"}]
    /\ custom = [n \in DOMAIN custom |-> custom[n]]
    /\ DOMAIN custom \subseteq Names /\ \A n \in DOMAIN custom : custom[n] \in G!Entry
    /\ model \in [Agents -> G!Refs \cup {NoRef}]
    /\ change = [r \in Edits |-> change[r]] /\ \A r \in Edits : Changed(change[r])
    /\ referred \subseteq Names /\ stranded \subseteq Names

Hop == [ref : G!Refs, provider : Providers, fallback : G!Refs \cup {NoRef}]
Try == [ref : G!Refs, outcome : {"answer", "error", "nokey"}]
CallRow == [at : {"calling", "answered", "failed"}, ref : G!Refs, keys : SUBSET Providers,
            chain : Seq(Hop), tried : Seq(Try)]

\* A chain of hops: as IsChain, with what the catalogue said of each.
HopsFollow(chain, ref) ==
    /\ Len(chain) > 0 /\ chain[1].ref = ref
    /\ \A i \in 1..(Len(chain) - 1) : chain[i + 1].ref = chain[i].fallback
    /\ \A i, j \in DOMAIN chain : chain[i].ref = chain[j].ref => i = j
    /\ chain[Len(chain)].fallback = NoRef

\* How far a call has come along its chain.
TriedSoFar(at, chain, tried) ==
    /\ Len(tried) <= Len(chain)
    /\ at = "calling" => Len(tried) < Len(chain)
    /\ at # "calling" => Len(tried) > 0
    /\ at = "failed" => Len(tried) = Len(chain)
    /\ \A i \in 1..Len(tried) :
          /\ tried[i].ref = chain[i].ref
          /\ tried[i].outcome = "answer" <=> (at = "answered" /\ i = Len(tried))

OnItsWay(st) ==
    /\ st.at \in {"asleep", "keys", "refused", "calling", "answered", "failed"}
    /\ st.at = "keys" => st.ref \in G!Refs /\ st.keys \in SUBSET Providers
    /\ st.at \in {"calling", "answered", "failed"} =>
          /\ st \in CallRow
          /\ HopsFollow(st.chain, st.ref)
          /\ TriedSoFar(st.at, st.chain, st.tried)

CallInv ==
    /\ session = [s \in Sessions |-> session[s]]
    /\ \A s \in Sessions : OnItsWay(session[s])

LEMMA ModelsInit == Init => ModelsTyped /\ CallInv
  <1> SUFFICES ASSUME G!Init PROVE ModelsTyped /\ CallInv
    BY DEF Init
  <1>1. ModelsTyped
    BY DEF G!Init, ModelsTyped, Changed
  <1>2. CallInv
    BY DEF G!Init, G!Asleep, CallInv, OnItsWay
  <1> QED  BY <1>1, <1>2

LEMMA CatalogueTyped ==
  ASSUME ModelsTyped
  PROVE  /\ NoRef \notin DOMAIN G!Catalogue /\ DOMAIN G!Catalogue \subseteq G!Refs
         /\ \A x \in DOMAIN G!Catalogue : G!Catalogue[x] \in G!Entry
  <1> USE ModelsConstants DEF ModelsAssumed
  <1>1. DOMAIN G!Catalogue = Aliases \cup DOMAIN custom \cup Providers
    BY DEF G!Catalogue
  <1>2. DOMAIN G!Catalogue \subseteq G!Refs
    BY <1>1 DEF ModelsTyped, G!Refs
  <1>3. ASSUME NEW x \in DOMAIN G!Catalogue
        PROVE  G!Catalogue[x] \in G!Entry
    <2>1. CASE x \in Aliases
      <3>1. G!Catalogue[x] = Yaml[x]
        BY <1>1, <2>1 DEF G!Catalogue
      <3> QED  BY <2>1, <3>1
    <2>2. CASE x \notin Aliases /\ x \in Providers
      <3>1. G!Catalogue[x] = [provider |-> x, fallback |-> NoRef]
        BY <1>1, <2>2 DEF G!Catalogue
      <3> QED  BY <2>2, <3>1 DEF G!Entry
    <2>3. CASE x \notin Aliases /\ x \notin Providers
      <3>1. x \in DOMAIN custom /\ G!Catalogue[x] = custom[x]
        BY <1>1, <1>3, <2>3 DEF G!Catalogue
      <3> QED  BY <3>1 DEF ModelsTyped
    <2> QED  BY <2>1, <2>2, <2>3
  <1> QED  BY <1>2, <1>3

\* A step of one session.
LEMMA CallStep ==
  ASSUME CallInv, NEW s \in Sessions, NEW st, G!Step(s, st), OnItsWay(st)
  PROVE  CallInv'
  BY DEF CallInv, G!Step, OnItsWay, HopsFollow, TriedSoFar, CallRow

LEMMA CallLoads ==
  ASSUME ModelsTyped, CallInv, NEW s \in Sessions, G!LoadModels(s)
  PROVE  CallInv'
  <1> DEFINE cat == G!Catalogue
  <1> PICK ref : ref = session[s].ref
    OBVIOUS
  <1> PICK keys : keys = session[s].keys
    OBVIOUS
  <1> PICK c : c = G!Chain(ref, cat)
    OBVIOUS
  <1> DEFINE hops == [i \in DOMAIN c |-> [ref |-> c[i], provider |-> cat[c[i]].provider,
                                          fallback |-> cat[c[i]].fallback]]
             st == [at |-> "calling", ref |-> ref, keys |-> keys, chain |-> hops, tried |-> <<>>]
  <1>1. ref \in G!Refs /\ keys \in SUBSET Providers
    BY DEF CallInv, OnItsWay, G!LoadModels
  <1>2. G!Step(s, IF c = <<>> THEN [at |-> "refused"] ELSE st)
    BY DEF G!LoadModels
  <1>3. OnItsWay([at |-> "refused"])
    BY DEF OnItsWay
  <1>4. ASSUME c # <<>>
        PROVE  OnItsWay(st)
    <2> HIDE DEF cat
    <2>1. IsChain(c, ref, cat) /\ NoRef \notin DOMAIN cat /\ DOMAIN cat \subseteq G!Refs
          /\ \A x \in DOMAIN cat : cat[x] \in G!Entry
      BY <1>4, ChainIsChain, CatalogueTyped DEF cat
    <2>2. \A i, j \in DOMAIN c : c[i] = c[j] => i = j
      BY <2>1, ChainHasEachOnce
    <2>3. /\ Len(c) \in Nat \ {0} /\ DOMAIN c = 1..Len(c) /\ \A i \in 1..Len(c) : c[i] \in DOMAIN cat
      BY <2>1 DEF IsChain
    <2>4. \A i \in 1..Len(c) : [ref |-> c[i], provider |-> cat[c[i]].provider,
                                fallback |-> cat[c[i]].fallback] \in Hop
      BY <2>1, <2>3 DEF Hop, G!Entry
    <2>5. hops \in Seq(Hop) /\ Len(hops) = Len(c)
      BY <2>3, <2>4
    <2>6. \A i \in 1..Len(c) : hops[i].ref = c[i] /\ hops[i].fallback = cat[c[i]].fallback
      BY <2>3
    <2> HIDE DEF hops
    <2>7. HopsFollow(hops, ref)
      <3>1. \A i \in 1..(Len(c) - 1) : c[i + 1] = cat[c[i]].fallback
        BY <2>1 DEF IsChain
      <3>2. \A i \in 1..(Len(hops) - 1) : hops[i + 1].ref = hops[i].fallback
        BY <2>3, <2>5, <2>6, <3>1
      <3>3. 1 \in 1..Len(c) /\ Len(c) \in 1..Len(c) /\ c[1] = ref /\ cat[c[Len(c)]].fallback = NoRef
        BY <2>1, <2>3 DEF IsChain
      <3>4. \A i, j \in DOMAIN hops : hops[i].ref = hops[j].ref => i = j
        BY <2>2, <2>3, <2>5, <2>6
      <3> QED  BY <2>3, <2>5, <2>6, <3>2, <3>3, <3>4 DEF HopsFollow
    <2>8. TriedSoFar("calling", hops, <<>>)
      BY <2>3, <2>5 DEF TriedSoFar
    <2>9. st \in CallRow
      BY <1>1, <2>5 DEF CallRow
    <2> QED  BY <2>7, <2>8, <2>9 DEF OnItsWay
  <1> HIDE DEF st
  <1> QED  BY <1>2, <1>3, <1>4, CallStep

LEMMA CallAttempts ==
  ASSUME CallInv, NEW s \in Sessions, NEW outcome \in {"answer", "error", "nokey"},
         session[s].at = "calling", G!Attempt(s, outcome)
  PROVE  CallInv'
  <1> PICK st : st = session[s]
    OBVIOUS
  <1> DEFINE n == Len(st.tried)
             at == G!After(st, outcome)
             tried == Append(st.tried, [ref |-> G!Next1(st).ref, outcome |-> outcome])
             new == [st EXCEPT !.at = at, !.tried = tried]
  <1>1. /\ st \in CallRow /\ st.at = "calling" /\ HopsFollow(st.chain, st.ref)
        /\ TriedSoFar(st.at, st.chain, st.tried)
    BY DEF CallInv, OnItsWay
  <1>2. /\ st.chain \in Seq(Hop) /\ st.tried \in Seq(Try)
    BY <1>1 DEF CallRow
  <1>3. G!Step(s, new)
    BY DEF G!Attempt
  <1>4. n \in Nat /\ n < Len(st.chain) /\ Len(st.chain) \in Nat /\ n + 1 \in 1..Len(st.chain)
    BY <1>1, <1>2 DEF TriedSoFar
  <1>5. st.chain[n + 1] \in Hop
    BY <1>2, <1>4
  <1>6. tried \in Seq(Try) /\ Len(tried) = n + 1
        /\ tried[n + 1] = [ref |-> st.chain[n + 1].ref, outcome |-> outcome]
        /\ \A i \in 1..n : tried[i] = st.tried[i]
    <2>1. [ref |-> st.chain[n + 1].ref, outcome |-> outcome] \in Try
      BY <1>5 DEF Hop, Try
    <2> QED  BY <1>2, <1>4, <2>1 DEF G!Next1
  <1>7. /\ at \in {"calling", "answered", "failed"}
        /\ at = "answered" <=> outcome = "answer"
        /\ at = "calling" => n + 1 # Len(st.chain)
        /\ at = "failed" => n + 1 = Len(st.chain)
    BY DEF G!After
  <1> HIDE DEF at, tried
  <1>8. TriedSoFar(at, st.chain, tried)
    <2>1. \A i \in 1..n : st.tried[i].ref = st.chain[i].ref /\ st.tried[i].outcome # "answer"
      BY <1>1 DEF TriedSoFar
    <2> HIDE DEF n
    <2>2. ASSUME NEW i \in 1..(n + 1)
          PROVE  /\ tried[i].ref = st.chain[i].ref
                 /\ tried[i].outcome = "answer" <=> (at = "answered" /\ i = n + 1)
      <3>1. CASE i = n + 1
        BY <1>6, <1>7, <3>1
      <3>2. CASE i \in 1..n
        <4>1. i # n + 1
          BY <1>4, <3>2
        <4> QED  BY <1>6, <2>1, <3>2, <4>1
      <3> QED  BY <1>4, <3>1, <3>2
    <2> QED  BY <1>4, <1>6, <1>7, <2>2 DEF TriedSoFar
  <1>9. /\ new \in CallRow /\ new.at = at /\ new.chain = st.chain /\ new.ref = st.ref /\ new.tried = tried
    BY <1>1, <1>6, <1>7 DEF CallRow
  <1> HIDE DEF new
  <1>10. OnItsWay(new)
    BY <1>1, <1>7, <1>8, <1>9 DEF OnItsWay
  <1> QED  BY <1>3, <1>10, CallStep

LEMMA SessionStep ==
  ASSUME ModelsTyped, CallInv, NEW s \in Sessions, G!Call(s)
  PROVE  CallInv'
  <1>1. ASSUME NEW ref \in G!Refs, G!LoadKeys(s, ref)
        PROVE  CallInv'
    <2> PICK keys \in SUBSET Providers : keys = {p \in Providers : stored[p] = "good"}
      OBVIOUS
    <2>1. G!Step(s, [at |-> "keys", ref |-> ref, keys |-> keys])
      BY <1>1 DEF G!LoadKeys
    <2>2. OnItsWay([at |-> "keys", ref |-> ref, keys |-> keys])
      BY DEF OnItsWay
    <2> QED  BY <2>1, <2>2, CallStep
  <1>2. ASSUME NEW a \in Agents, model[a] # NoRef, G!LoadKeys(s, model[a])
        PROVE  CallInv'
    BY <1>1, <1>2 DEF ModelsTyped
  <1>3. CASE G!AskProvider(s)
    BY <1>3, CallAttempts DEF G!AskProvider
  <1>4. CASE G!MissKey(s)
    BY <1>4, CallAttempts DEF G!MissKey
  <1> QED  BY <1>1, <1>2, <1>3, <1>4, CallLoads DEF G!Call

-----------------------------------------------------------------------------
(* Models: a model in use is not deleted. A delete that has passed its checks  *)
(* is about a name that nothing refers to, or that something came to refer to   *)
(* after the first check and before the commit.                                *)

DeleteInv ==
    /\ stranded \subseteq referred
    /\ \A r \in Edits :
          /\ change[r].do = "check" /\ ~change[r].used /\ G!UsedByAgent(change[r].name) =>
                change[r].name \in referred
          /\ change[r].do = "delete" /\ (G!UsedByAgent(change[r].name) \/ G!UsedByModel(change[r].name)) =>
                change[r].name \in referred

\* No new delete, and every new reference is recorded.
LEMMA DeleteRest ==
  ASSUME ModelsTyped, DeleteInv, UNCHANGED stranded, referred \subseteq referred',
         \A q \in Edits : change'[q].do \in {"check", "delete"} => change'[q] = change[q],
         \A n \in Names : G!UsedByAgent(n)' => G!UsedByAgent(n) \/ (G!Deleting(n) => n \in referred'),
         \A n \in Names : G!UsedByModel(n)' => G!UsedByModel(n) \/ (G!Deleting(n) => n \in referred')
  PROVE  DeleteInv'
  <1> SUFFICES ASSUME NEW r \in Edits, change'[r].do \in {"check", "delete"}
               PROVE  /\ change'[r].do = "check" /\ ~change'[r].used /\ G!UsedByAgent(change[r].name)' =>
                             change'[r].name \in referred'
                      /\ change'[r].do = "delete"
                            /\ (G!UsedByAgent(change[r].name)' \/ G!UsedByModel(change[r].name)') =>
                             change'[r].name \in referred'
    BY DEF DeleteInv
  <1> PICK n : n = change[r].name
    OBVIOUS
  <1>1. change'[r] = change[r] /\ n \in Names /\ G!Deleting(n)
    BY DEF ModelsTyped, Changed, G!Deleting
  <1>2. change'[r].name = n
    BY <1>1
  <1>3. /\ change[r].do = "check" /\ ~change[r].used /\ G!UsedByAgent(n) => n \in referred
        /\ change[r].do = "delete" /\ (G!UsedByAgent(n) \/ G!UsedByModel(n)) => n \in referred
    BY DEF DeleteInv
  <1>4. G!UsedByAgent(n)' => G!UsedByAgent(n) \/ n \in referred'
    BY <1>1
  <1>5. G!UsedByModel(n)' => G!UsedByModel(n) \/ n \in referred'
    BY <1>1
  <1> QED  BY <1>1, <1>2, <1>3, <1>4, <1>5

LEMMA DeleteBegin ==
  ASSUME ModelsTyped, DeleteInv, NEW r \in Edits, G!Begin(r)
  PROVE  ModelsTyped' /\ DeleteInv'
  <1> USE ModelsConstants DEF ModelsAssumed
  <1>1. change = [q \in Edits |-> change[q]]
    BY DEF ModelsTyped
  <1>2. ASSUME NEW st, G!GoesOn(r, st), Changed(st), UNCHANGED <<stored, custom, model, referred, stranded>>
        PROVE  /\ ModelsTyped'
               /\ st.do \notin {"check", "delete"} => DeleteInv'
    <2>1. change' = [q \in Edits |-> change'[q]] /\ change'[r] = st
          /\ \A q \in Edits \ {r} : change'[q] = change[q]
      BY <1>1, <1>2 DEF G!GoesOn
    <2>2. ModelsTyped'
      BY <1>2, <2>1 DEF ModelsTyped
    <2>3. ASSUME st.do \notin {"check", "delete"}
          PROVE  DeleteInv'
      BY <1>2, <2>1, <2>3, DeleteRest DEF G!UsedByAgent, G!UsedByModel
    <2> QED  BY <2>2, <2>3
  <1>3. ASSUME NEW p \in Providers, G!BeginPutKey(r, p) \/ G!BeginDeleteKey(r, p)
        PROVE  ModelsTyped' /\ DeleteInv'
    <2>1. Changed([do |-> "put", provider |-> p, had |-> stored[p] # "none"])
          /\ Changed([do |-> "drop", provider |-> p])
      BY DEF Changed
    <2> QED  BY <1>2, <1>3, <2>1 DEF G!BeginPutKey, G!BeginDeleteKey
  <1>4. ASSUME NEW n \in Names, NEW e \in Tried, G!BeginCreateModel(r, n, e)
        PROVE  ModelsTyped' /\ DeleteInv'
    <2>1. Changed([do |-> "create", name |-> n, entry |-> e])
      BY DEF Changed
    <2> QED  BY <1>2, <1>4, <2>1 DEF G!BeginCreateModel
  <1>5. ASSUME NEW n \in Names, G!BeginDeleteModel(r, n)
        PROVE  ModelsTyped' /\ DeleteInv'
    <2> PICK used : used = G!UsedByAgent(n)
      OBVIOUS
    <2>1. /\ G!GoesOn(r, [do |-> "check", name |-> n, used |-> used])
          /\ UNCHANGED <<stored, custom, model, referred, stranded>>
      BY <1>5 DEF G!BeginDeleteModel
    <2>2. Changed([do |-> "check", name |-> n, used |-> used])
      BY DEF Changed
    <2>3. ModelsTyped'
      BY <1>2, <2>1, <2>2
    <2>4. change'[r] = [do |-> "check", name |-> n, used |-> used]
          /\ \A q \in Edits \ {r} : change'[q] = change[q]
      BY <1>1, <2>1 DEF G!GoesOn
    <2>5. \A m : (G!UsedByAgent(m)' <=> G!UsedByAgent(m)) /\ (G!UsedByModel(m)' <=> G!UsedByModel(m))
      BY <2>1 DEF G!UsedByAgent, G!UsedByModel
    <2>6. ASSUME NEW q \in Edits
          PROVE  /\ change'[q].do = "check" /\ ~change'[q].used /\ G!UsedByAgent(change'[q].name) =>
                       change'[q].name \in referred
                 /\ change'[q].do = "delete" /\ (G!UsedByAgent(change'[q].name) \/ G!UsedByModel(change'[q].name)) =>
                       change'[q].name \in referred
      <3>1. CASE q = r
        BY <2>4, <3>1
      <3>2. CASE q # r
        BY <2>4, <3>2 DEF DeleteInv
      <3> QED  BY <3>1, <3>2
    <2>7. DeleteInv'
      BY <2>1, <2>6 DEF DeleteInv, G!UsedByAgent, G!UsedByModel
    <2> QED  BY <2>3, <2>7
  <1>6. ASSUME NEW a \in Agents, NEW ref \in G!Refs, G!SetAgentModel(r, a, ref)
        PROVE  ModelsTyped' /\ DeleteInv'
    <2>1. /\ change' = [q \in Edits |-> change'[q]] /\ change'[r] = G!Done
          /\ \A q \in Edits \ {r} : change'[q] = change[q]
      BY <1>1, <1>6 DEF G!SetAgentModel, G!GoesOn
    <2>2. /\ UNCHANGED <<stored, custom, stranded>> /\ referred' = G!Referring(ref)
          /\ model' = [model EXCEPT ![a] = ref]
      BY <1>6 DEF G!SetAgentModel
    <2>3. referred \subseteq referred' /\ referred' \subseteq Names
          /\ (ref \in Names /\ G!Deleting(ref) => ref \in referred')
      BY <2>2 DEF G!Referring, ModelsTyped
    <2>4. model' \in [Agents -> G!Refs \cup {NoRef}]
          /\ \A b \in Agents : model'[b] = model[b] \/ model'[b] = ref
      BY <2>2 DEF ModelsTyped
    <2>5. ModelsTyped'
      BY <2>1, <2>2, <2>3, <2>4 DEF ModelsTyped, Changed, G!Done
    <2>6. \A n \in Names : G!UsedByAgent(n)' => G!UsedByAgent(n) \/ (G!Deleting(n) => n \in referred')
      BY <2>3, <2>4 DEF G!UsedByAgent
    <2>7. \A n \in Names : G!UsedByModel(n)' => G!UsedByModel(n)
      BY <2>2 DEF G!UsedByModel
    <2> QED  BY <2>1, <2>2, <2>3, <2>5, <2>6, <2>7, DeleteRest DEF G!Done
  <1> QED  BY <1>3, <1>4, <1>5, <1>6 DEF G!Begin

LEMMA DeleteCommit ==
  ASSUME ModelsTyped, DeleteInv, NEW r \in Edits, G!Commit(r)
  PROVE  ModelsTyped' /\ DeleteInv'
  <1>1. change = [q \in Edits |-> change[q]] /\ Changed(change[r])
    BY DEF ModelsTyped
  <1>2. ASSUME change' = [q \in Edits |-> change'[q]],
               \A q \in Edits : change'[q] = change[q] \/ change'[q] = G!Done,
               UNCHANGED <<custom, model, referred, stranded>>,
               stored' \in [Providers -> {"none", "good", "unreadable"}]
        PROVE  ModelsTyped' /\ DeleteInv'
    <2>1. \A q \in Edits : Changed(change'[q])
      BY <1>2 DEF ModelsTyped, Changed, G!Done
    <2>2. ModelsTyped'
      BY <1>2, <2>1 DEF ModelsTyped
    <2>3. \A q \in Edits : change'[q].do \in {"check", "delete"} => change'[q] = change[q]
      BY <1>2 DEF G!Done
    <2>4. \A m : (G!UsedByAgent(m)' <=> G!UsedByAgent(m)) /\ (G!UsedByModel(m)' <=> G!UsedByModel(m))
      BY <1>2 DEF G!UsedByAgent, G!UsedByModel
    <2> QED  BY <1>2, <2>2, <2>3, <2>4, DeleteRest
  <1>3. ASSUME G!Answered(r)
        PROVE  change' = [q \in Edits |-> change'[q]]
               /\ \A q \in Edits : change'[q] = change[q] \/ change'[q] = G!Done
    BY <1>1, <1>3 DEF G!Answered
  <1>4. CASE G!PutKey(r)
    <2>1. G!Answered(r) /\ UNCHANGED <<custom, model, referred, stranded>>
          /\ (stored' = stored \/ stored' = [stored EXCEPT ![change[r].provider] = "good"])
      BY <1>4 DEF G!PutKey
    <2>2. stored' \in [Providers -> {"none", "good", "unreadable"}]
      BY <2>1 DEF ModelsTyped
    <2> QED  BY <1>2, <1>3, <2>1, <2>2
  <1>5. CASE G!DeleteKey(r)
    <2>1. /\ UNCHANGED <<custom, model, referred, stranded>>
          /\ stored' = [stored EXCEPT ![change[r].provider] = "none"]
          /\ change' = [q \in Edits |-> change'[q]]
          /\ \A q \in Edits : change'[q] = change[q] \/ change'[q] = G!Done
      BY <1>5 DEF G!DeleteKey, G!AnsweredAll
    <2>2. stored' \in [Providers -> {"none", "good", "unreadable"}]
      BY <2>1 DEF ModelsTyped
    <2> QED  BY <1>2, <2>1, <2>2
  <1>6. CASE G!CreateModel(r)
    <2> PICK n : n = change[r].name
      OBVIOUS
    <2> PICK e : e = change[r].entry
      OBVIOUS
    <2>1. n \in Names /\ e \in G!Entry /\ G!Answered(r) /\ UNCHANGED <<stored, model, stranded>>
      BY <1>1, <1>6 DEF G!CreateModel, Changed
    <2>2. CASE n \in DOMAIN custom
      BY <1>2, <1>3, <1>6, <2>1, <2>2 DEF G!CreateModel, ModelsTyped
    <2>3. CASE n \notin DOMAIN custom
      <3>1. /\ custom' = [m \in DOMAIN custom \cup {n} |-> IF m = n THEN e ELSE custom[m]]
            /\ referred' = G!Referring(e.fallback)
        BY <1>6, <2>3 DEF G!CreateModel
      <3>2. /\ DOMAIN custom' = DOMAIN custom \cup {n} /\ custom' = [m \in DOMAIN custom' |-> custom'[m]]
            /\ custom'[n] = e /\ \A m \in DOMAIN custom : custom'[m] = custom[m]
        BY <2>3, <3>1
      <3>3. referred \subseteq referred' /\ referred' \subseteq Names
            /\ (e.fallback \in Names /\ G!Deleting(e.fallback) => e.fallback \in referred')
        BY <3>1 DEF G!Referring, ModelsTyped
      <3>4. \A q \in Edits : Changed(change'[q])
        BY <1>3, <2>1 DEF ModelsTyped, Changed, G!Done
      <3>5. ModelsTyped'
        BY <1>3, <2>1, <3>2, <3>3, <3>4 DEF ModelsTyped
      <3>6. \A m \in Names : G!UsedByModel(m)' => G!UsedByModel(m) \/ (G!Deleting(m) => m \in referred')
        BY <3>2, <3>3 DEF G!UsedByModel
      <3>7. \A m \in Names : G!UsedByAgent(m)' => G!UsedByAgent(m)
        BY <2>1 DEF G!UsedByAgent
      <3>8. \A q \in Edits : change'[q].do \in {"check", "delete"} => change'[q] = change[q]
        BY <1>3, <2>1 DEF G!Done
      <3> QED  BY <2>1, <3>3, <3>5, <3>6, <3>7, <3>8, DeleteRest
    <2> QED  BY <2>2, <2>3
  <1>7. CASE G!CheckDeleteModel(r)
    <2>1. UNCHANGED <<stored, custom, model, referred, stranded>> /\ change[r].do = "check"
      BY <1>7 DEF G!CheckDeleteModel
    <2>2. CASE G!Refused(r)
      <3>1. G!Answered(r)
        BY <1>7, <2>2 DEF G!CheckDeleteModel
      <3> QED  BY <1>2, <1>3, <2>1, <3>1 DEF ModelsTyped
    <2>3. CASE ~G!Refused(r)
      <3> PICK n \in Names : n = change[r].name
        BY <1>1, <2>1 DEF Changed
      <3>1. /\ change' = [q \in Edits |-> change'[q]] /\ change'[r] = [do |-> "delete", name |-> n]
            /\ \A q \in Edits \ {r} : change'[q] = change[q]
        BY <1>1, <1>7, <2>3 DEF G!CheckDeleteModel
      <3>2. \A q \in Edits : Changed(change'[q])
        BY <3>1 DEF ModelsTyped, Changed
      <3>3. ModelsTyped'
        BY <2>1, <3>1, <3>2 DEF ModelsTyped
      <3>4. ~change[r].used /\ ~G!UsedByModel(n)
        BY <2>3 DEF G!Refused
      <3>5. G!UsedByAgent(n) \/ G!UsedByModel(n) => n \in referred
        BY <2>1, <3>4 DEF DeleteInv
      <3>6. ASSUME NEW q \in Edits
            PROVE  /\ change'[q].do = "check" /\ ~change'[q].used /\ G!UsedByAgent(change'[q].name) =>
                         change'[q].name \in referred
                   /\ change'[q].do = "delete" /\ (G!UsedByAgent(change'[q].name) \/ G!UsedByModel(change'[q].name)) =>
                         change'[q].name \in referred
        <4>1. CASE q = r
          BY <3>1, <3>5, <4>1
        <4>2. CASE q # r
          BY <3>1, <4>2 DEF DeleteInv
        <4> QED  BY <4>1, <4>2
      <3>7. DeleteInv'
        BY <2>1, <3>6 DEF DeleteInv, G!UsedByAgent, G!UsedByModel
      <3> QED  BY <3>3, <3>7
    <2> QED  BY <2>2, <2>3
  <1>8. CASE G!DeleteModel(r)
    <2> PICK n \in Names : n = change[r].name
      BY <1>1, <1>8 DEF G!DeleteModel, Changed
    <2>1. /\ UNCHANGED <<stored, model, referred>> /\ change[r].do = "delete"
          /\ custom' = [m \in DOMAIN custom \ {n} |-> custom[m]]
          /\ stranded' = IF G!UsedByAgent(n) \/ \E m \in DOMAIN custom' : custom[m].fallback = n
                         THEN stranded \cup {n} ELSE stranded
          /\ change' = [q \in Edits |-> change'[q]]
          /\ \A q \in Edits : change'[q] = change[q] \/ change'[q] = G!Done
      BY <1>8 DEF G!DeleteModel, G!AnsweredAll
    <2>2. /\ DOMAIN custom' \subseteq DOMAIN custom /\ custom' = [m \in DOMAIN custom' |-> custom'[m]]
          /\ \A m \in DOMAIN custom' : custom'[m] = custom[m]
      BY <2>1
    <2>3. G!UsedByAgent(n) \/ G!UsedByModel(n) => n \in referred
      BY <2>1 DEF DeleteInv
    <2>4. stranded' \subseteq referred
      BY <2>1, <2>2, <2>3 DEF DeleteInv, G!UsedByModel
    <2>5. \A q \in Edits : Changed(change'[q])
      BY <2>1 DEF ModelsTyped, Changed, G!Done
    <2>6. ModelsTyped'
      BY <2>1, <2>2, <2>4, <2>5 DEF ModelsTyped
    <2>7. \A m : (G!UsedByAgent(m)' <=> G!UsedByAgent(m)) /\ (G!UsedByModel(m)' => G!UsedByModel(m))
      BY <2>1, <2>2 DEF G!UsedByAgent, G!UsedByModel
    <2>8. ASSUME NEW q \in Edits, change'[q].do \in {"check", "delete"}
          PROVE  /\ change'[q].do = "check" /\ ~change'[q].used /\ G!UsedByAgent(change[q].name)' =>
                       change'[q].name \in referred
                 /\ change'[q].do = "delete" /\ (G!UsedByAgent(change[q].name)' \/ G!UsedByModel(change[q].name)') =>
                       change'[q].name \in referred
      <3> PICK m : m = change'[q].name
        OBVIOUS
      <3>1. change'[q] = change[q] /\ change[q].name = m
        BY <2>1, <2>8 DEF G!Done
      <3> QED  BY <2>7, <3>1 DEF DeleteInv
    <2> QED  BY <2>1, <2>4, <2>6, <2>8 DEF DeleteInv
  <1> QED  BY <1>4, <1>5, <1>6, <1>7, <1>8 DEF G!Commit

ModelsInv == ModelsTyped /\ CallInv /\ DeleteInv

LEMMA ModelsRest == ModelsInv /\ UNCHANGED models => ModelsInv'
  <1> SUFFICES ASSUME ModelsInv, UNCHANGED models PROVE ModelsInv'
    OBVIOUS
  <1> USE DEF models
  <1>1. ModelsTyped'
    BY DEF ModelsInv, ModelsTyped
  <1>2. CallInv'
    BY DEF ModelsInv, CallInv
  <1>3. DeleteInv'
    BY DEF ModelsInv, DeleteInv, G!UsedByAgent, G!UsedByModel
  <1> QED  BY <1>1, <1>2, <1>3 DEF ModelsInv

LEMMA ModelsStep == ModelsInv /\ G!Next => ModelsInv'
  <1> SUFFICES ASSUME ModelsInv, G!Next PROVE ModelsInv'
    OBVIOUS
  <1>1. ASSUME NEW r \in Edits, G!Begin(r)
        PROVE  ModelsInv'
    <2>1. UNCHANGED session
      BY <1>1 DEF G!Begin, G!BeginPutKey, G!BeginDeleteKey, G!BeginCreateModel, G!BeginDeleteModel, G!SetAgentModel
    <2> QED  BY <1>1, <2>1, DeleteBegin DEF ModelsInv, CallInv
  <1>2. ASSUME NEW r \in Edits, G!Commit(r)
        PROVE  ModelsInv'
    <2>1. UNCHANGED session
      BY <1>2 DEF G!Commit, G!PutKey, G!DeleteKey, G!CreateModel, G!CheckDeleteModel, G!DeleteModel
    <2> QED  BY <1>2, <2>1, DeleteCommit DEF ModelsInv, CallInv
  <1>3. ASSUME NEW s \in Sessions, G!Call(s)
        PROVE  ModelsInv'
    <2>1. UNCHANGED <<stored, custom, model, change, referred, stranded>>
      BY <1>3 DEF G!Call, G!LoadKeys, G!LoadModels, G!AskProvider, G!MissKey
    <2>2. ModelsTyped'
      BY <2>1 DEF ModelsInv, ModelsTyped
    <2>3. DeleteInv'
      BY <2>1 DEF ModelsInv, DeleteInv, G!UsedByAgent, G!UsedByModel
    <2> QED  BY <1>3, <2>2, <2>3, SessionStep DEF ModelsInv
  <1>4. ASSUME NEW p \in Providers, G!LoseMasterKey(p)
        PROVE  ModelsInv'
    <2>1. UNCHANGED <<custom, model, change, session, referred, stranded>>
          /\ stored' = [stored EXCEPT ![p] = "unreadable"]
      BY <1>4 DEF G!LoseMasterKey
    <2>2. ModelsTyped'
      BY <2>1 DEF ModelsInv, ModelsTyped
    <2>3. DeleteInv'
      BY <2>1 DEF ModelsInv, DeleteInv, G!UsedByAgent, G!UsedByModel
    <2>4. CallInv'
      BY <2>1 DEF ModelsInv, CallInv
    <2> QED  BY <2>2, <2>3, <2>4 DEF ModelsInv
  <1> QED  BY <1>1, <1>2, <1>3, <1>4 DEF G!Next

THEOREM ModelsInvariant == Spec => []ModelsInv
  <1>1. Init => ModelsInv
    <2>1. Init => DeleteInv
      BY DEF Init, G!Init, DeleteInv
    <2> QED  BY <2>1, ModelsInit DEF ModelsInv
  <1>2. ModelsInv /\ [Next]_<<people, models, events, plugins, side>> => ModelsInv'
    BY ModelsStep, ModelsRest DEF Next, People, Models, Events, Tools
  <1> QED  BY <1>1, <1>2, PTL DEF Spec

\* A custom model in use is deleted only when the reference came while the delete
\* was under way (custom_models.py).
THEOREM UsedModelStays == Spec => []DeletedModelIsUnused
  <1>1. ModelsInv => DeletedModelIsUnused
    BY DEF ModelsInv, DeleteInv, DeletedModelIsUnused, G!DeletedModelIsUnused
  <1> QED  BY <1>1, ModelsInvariant, PTL

\* A call tries the models of its chain in order and each once, stops at the first
\* answer and fails only past the last one, along any chain (litellm_service.py).
THEOREM CallKeepsToChain == Spec => []CallFollowsChain
  <1>1. ModelsInv => CallFollowsChain
    <2> SUFFICES ASSUME ModelsInv, NEW s \in Sessions, session[s].at \in {"calling", "answered", "failed"}
                 PROVE  LET st == session[s]
                            n  == Len(st.tried)
                        IN  /\ st.chain[1].ref = st.ref
                            /\ \A i \in 1..(Len(st.chain) - 1) : st.chain[i + 1].ref = st.chain[i].fallback
                            /\ \A i, j \in DOMAIN st.chain : st.chain[i].ref = st.chain[j].ref => i = j
                            /\ st.at # "calling" => n > 0
                            /\ \A i \in 1..n : /\ st.tried[i].ref = st.chain[i].ref
                                               /\ st.tried[i].outcome = "answer" <=> st.at = "answered" /\ i = n
                            /\ st.at = "failed" => st.chain[n].fallback = NoRef
      BY DEF CallFollowsChain, G!CallFollowsChain
    <2> PICK st : st = session[s]
      OBVIOUS
    <2>1. HopsFollow(st.chain, st.ref) /\ TriedSoFar(st.at, st.chain, st.tried)
      BY DEF ModelsInv, CallInv, OnItsWay
    <2> QED  BY <2>1 DEF HopsFollow, TriedSoFar
  <1> QED  BY <1>1, ModelsInvariant, PTL

-----------------------------------------------------------------------------
(* Events: types. The version counts the changes that were committed.        *)

EventsAssumed ==
    /\ Home \in [Clients -> Instances] /\ MaxFaults \in Nat
    /\ Writes \in SUBSET Nat /\ IsFiniteSet(Writes)

LEMMA EventsConstants == EventsAssumed
  <1>1. S!StreamAssumption
    BY ConsoleAssumption
  <1>2. \A T : S!IsFiniteSet(T) <=> IsFiniteSet(T)
    BY DEF S!IsFiniteSet, IsFiniteSet
  <1> QED  BY <1>1, <1>2 DEF EventsAssumed, S!StreamAssumption

Versions == 1..(Cardinality(Writes) + 1)

LEMMA VersionsAreVersions == S!Versions = Versions /\ Cardinality(Writes) \in Nat
  <1>1. S!Cardinality(Writes) = Cardinality(Writes)
    BY DEF S!Cardinality, Cardinality
  <1>2. Cardinality(Writes) \in Nat
    BY EventsConstants, FS_CardinalityType DEF EventsAssumed
  <1> QED  BY <1>1, <1>2 DEF Versions, S!Versions

Made == {w \in Writes : writer[w].at # "none"}

Event == [id : Writes, row : Versions, origin : Instances]
WriterRow ==
    [at : {"none"}] \cup [at : {"committed", "done"}, on : Instances]
    \cup [at : {"read", "told", "done"}, on : Instances, row : Versions]
ClientRow == [at : {"off"}] \cup [at : {"loading", "open"}, view : Versions, heard : Seq(Writes)]

EventsTyped ==
    /\ version \in Versions /\ version = 1 + Cardinality(Made)
    /\ writer \in [Writes -> WriterRow]
    /\ listening \subseteq Instances /\ doubt \subseteq Clients /\ faults \in 0..MaxFaults
    /\ inbox \in [Instances -> Seq(Event)]
    /\ client \in [Clients -> ClientRow]

\* What the row of a change is made of.
LEMMA WriterRows ==
  ASSUME NEW row \in WriterRow
  PROVE  /\ row.at \in {"none", "committed", "read", "told", "done"}
         /\ row.at # "none" => row.on \in Instances
         /\ row.at \in {"read", "told"} => row.row \in Versions
  BY DEF WriterRow

LEMMA ClientRows ==
  ASSUME NEW row \in ClientRow
  PROVE  /\ row.at \in {"off", "loading", "open"}
         /\ row.at # "off" => row.view \in Versions /\ row.heard \in Seq(Writes)
  BY DEF ClientRow

LEMMA EventsTypes == EventsTyped => S!TypeOK
  <1> SUFFICES ASSUME EventsTyped PROVE S!TypeOK
    OBVIOUS
  <1> USE VersionsAreVersions
  <1>1. ASSUME NEW w \in Writes
        PROVE  \/ writer[w].at \in {"none", "committed", "done"}
               \/ writer[w].at \in {"read", "told"} /\ S!EventOf(w) \in S!Events
    <2>1. writer[w] \in WriterRow
      BY DEF EventsTyped
    <2> QED  BY <2>1, WriterRows DEF S!EventOf, S!Events
  <1>2. ASSUME NEW i \in Instances
        PROVE  S!ToSet(inbox[i]) \subseteq S!Events
    <2>1. inbox[i] \in Seq(Event)
      BY DEF EventsTyped
    <2>2. \A k \in DOMAIN inbox[i] : inbox[i][k] \in Event
      BY <2>1
    <2> QED  BY <2>2 DEF S!ToSet, S!Events, Event
  <1>3. ASSUME NEW c \in Clients, S!Linked(c)
        PROVE  client[c].view \in S!Versions /\ S!ToSet(client[c].heard) \subseteq Writes
    <2>1. client[c] \in ClientRow /\ client[c].at # "off"
      BY <1>3 DEF EventsTyped, S!Linked
    <2>2. client[c].view \in Versions /\ client[c].heard \in Seq(Writes)
      BY <2>1, ClientRows
    <2> QED  BY <2>2 DEF S!ToSet
  <1> QED  BY <1>1, <1>2, <1>3 DEF EventsTyped, S!TypeOK

LEMMA EventsInit == Init => EventsTyped
  <1> SUFFICES ASSUME S!Init PROVE EventsTyped
    BY DEF Init
  <1>1. Made = {}
    BY DEF S!Init, Made
  <1>2. Cardinality(Made) = 0
    BY <1>1, FS_EmptySet
  <1>3. 1 \in Versions
    BY VersionsAreVersions DEF Versions
  <1>4. writer \in [Writes -> WriterRow]
    BY DEF S!Init, WriterRow
  <1>5. client \in [Clients -> ClientRow]
    BY DEF S!Init, S!Off, ClientRow
  <1>6. inbox \in [Instances -> Seq(Event)] /\ version = 1
    BY DEF S!Init
  <1> QED  BY <1>2, <1>3, <1>4, <1>5, <1>6, EventsConstants DEF S!Init, EventsTyped, EventsAssumed

\* A change takes its next step: only its column "at" is written.
LEMMA WriterMoves ==
  ASSUME EventsTyped, NEW w \in Writes, writer[w].at # "none",
         NEW at, at = "done" \/ (at = "told" /\ writer[w].at = "read"), S!Step(w, at)
  PROVE  /\ writer' \in [Writes -> WriterRow] /\ writer'[w].at = at /\ writer'[w].on = writer[w].on
         /\ writer[w].at \in {"read", "told"} => writer'[w].row = writer[w].row
         /\ \A x \in Writes \ {w} : writer'[x] = writer[x]
         /\ Made' = Made
  <1>1. /\ writer' = [x \in Writes |-> writer'[x]] /\ writer'[w] = [writer[w] EXCEPT !.at = at]
        /\ \A x \in Writes \ {w} : writer'[x] = writer[x] /\ writer[x] \in WriterRow
        /\ writer[w] \in WriterRow
    BY DEF EventsTyped, S!Step
  <1>2. \/ writer[w] \in [at : {"committed", "done"}, on : Instances]
        \/ writer[w] \in [at : {"read", "told", "done"}, on : Instances, row : Versions]
    BY <1>1 DEF WriterRow
  <1>3. CASE writer[w] \in [at : {"committed", "done"}, on : Instances]
    <2>1. at = "done"
      BY <1>3
    <2>2. writer'[w] \in [at : {"committed", "done"}, on : Instances] /\ writer'[w].at = at
          /\ writer'[w].on = writer[w].on /\ writer[w].at \notin {"read", "told"}
      BY <1>1, <1>3, <2>1
    <2> QED  BY <1>1, <2>1, <2>2 DEF WriterRow, Made
  <1>4. CASE writer[w] \in [at : {"read", "told", "done"}, on : Instances, row : Versions]
    <2>1. writer'[w] \in [at : {"read", "told", "done"}, on : Instances, row : Versions] /\ writer'[w].at = at
          /\ writer'[w].on = writer[w].on /\ writer'[w].row = writer[w].row
      BY <1>1, <1>4
    <2> QED  BY <1>1, <2>1 DEF WriterRow, Made
  <1> QED  BY <1>2, <1>3, <1>4

\* An instance sends an event to its clients.
LEMMA Sends ==
  ASSUME EventsTyped, NEW i \in Instances, NEW e \in Event, S!Send(i, e)
  PROVE  /\ client' \in [Clients -> ClientRow] /\ doubt' \subseteq Clients /\ doubt \subseteq doubt'
         /\ \A c \in Clients : client'[c].at = client[c].at
         /\ \A c \in Clients : Home[c] = i /\ client[c].at = "open" =>
               /\ client'[c].view = e.row /\ client'[c].heard = Append(client[c].heard, e.id)
         /\ \A c \in Clients : ~(Home[c] = i /\ client[c].at = "open") => client'[c] = client[c]
         /\ \A c \in Clients : Home[c] = i /\ client[c].at = "loading" => c \in doubt'
  <1>1. ASSUME NEW c \in Clients
        PROVE  /\ client'[c] \in ClientRow /\ client'[c].at = client[c].at
               /\ Home[c] = i /\ client[c].at = "open" =>
                     client'[c].view = e.row /\ client'[c].heard = Append(client[c].heard, e.id)
               /\ ~(Home[c] = i /\ client[c].at = "open") => client'[c] = client[c]
    <2>1. client[c] \in ClientRow
      BY DEF EventsTyped
    <2>2. CASE Home[c] = i /\ client[c].at = "open"
      <3>1. client'[c] = [client[c] EXCEPT !.view = e.row, !.heard = Append(client[c].heard, e.id)]
        BY <2>2 DEF S!Send, S!Hearers
      <3>2. client[c] \in [at : {"loading", "open"}, view : Versions, heard : Seq(Writes)]
        BY <2>1, <2>2 DEF ClientRow
      <3>3. e.row \in Versions /\ Append(client[c].heard, e.id) \in Seq(Writes)
        BY <3>2 DEF Event
      <3> QED  BY <2>2, <3>1, <3>2, <3>3 DEF ClientRow
    <2>3. CASE ~(Home[c] = i /\ client[c].at = "open")
      <3>1. client'[c] = client[c]
        BY <2>3 DEF S!Send, S!Hearers
      <3> QED  BY <2>1, <2>3, <3>1
    <2> QED  BY <2>2, <2>3
  <1>2. client' = [c \in Clients |-> client'[c]]
    BY DEF S!Send
  <1>3. doubt' \subseteq Clients /\ doubt \subseteq doubt'
        /\ \A c \in Clients : Home[c] = i /\ client[c].at = "loading" => c \in doubt'
    BY DEF S!Send, EventsTyped
  <1> QED  BY <1>1, <1>2, <1>3

LEMMA EventsWriteTyped ==
  ASSUME EventsTyped, NEW w \in Writes,
         \/ \E i \in Instances : S!Commit(w, i)
         \/ S!Refresh(w) \/ S!Broadcast(w) \/ S!Publish(w) \/ S!PublishFails(w) \/ S!Abandon(w)
  PROVE  EventsTyped'
  <1> USE DEF EventsTyped
  <1>1. writer[w] \in WriterRow /\ writer = [x \in Writes |-> writer[x]]
    OBVIOUS
  <1>2. ASSUME NEW i \in Instances, S!Commit(w, i)
        PROVE  EventsTyped'
    <2>1. /\ writer[w].at = "none" /\ writer' = [writer EXCEPT ![w] = [at |-> "committed", on |-> i]]
          /\ version' = version + 1 /\ doubt' \subseteq Clients
          /\ UNCHANGED <<listening, inbox, client, faults>>
      BY <1>2 DEF S!Commit
    <2>2. writer' \in [Writes -> WriterRow]
      <3>1. [at |-> "committed", on |-> i] \in WriterRow
        BY DEF WriterRow
      <3> QED  BY <2>1, <3>1
    <2>3. Made' = Made \cup {w} /\ w \notin Made /\ Made' \in SUBSET Writes
      BY <1>1, <2>1 DEF Made
    <2>4. IsFiniteSet(Writes) /\ IsFiniteSet(Made)
      BY EventsConstants, FS_Subset DEF EventsAssumed, Made
    <2>5. Cardinality(Made') = Cardinality(Made) + 1 /\ Cardinality(Made') <= Cardinality(Writes)
          /\ Cardinality(Made) \in Nat
      BY <2>3, <2>4, FS_AddElement, FS_Subset, FS_CardinalityType
    <2>6. version' = 1 + Cardinality(Made') /\ version' \in Versions
      BY <2>1, <2>5, VersionsAreVersions DEF Versions
    <2> QED  BY <2>1, <2>2, <2>6
  <1>3. CASE S!Refresh(w)
    <2>1. /\ writer[w].at = "committed" /\ UNCHANGED <<version, listening, inbox, client, doubt, faults>>
          /\ writer' = [writer EXCEPT ![w] = [at |-> "read", on |-> writer[w].on, row |-> version]]
      BY <1>1, <1>3 DEF S!Refresh
    <2>2. [at |-> "read", on |-> writer[w].on, row |-> version] \in WriterRow
      BY <1>1, <2>1, WriterRows DEF WriterRow
    <2>3. writer' \in [Writes -> WriterRow] /\ Made' = Made
      BY <2>1, <2>2 DEF Made
    <2> QED  BY <2>1, <2>3
  <1>4. ASSUME writer[w].at \in {"read", "told"}
        PROVE  writer[w].on \in Instances /\ S!EventOf(w) \in Event
    BY <1>1, <1>4, WriterRows DEF S!EventOf, Event
  <1>5. CASE S!Broadcast(w)
    <2>1. /\ writer[w].at = "read" /\ S!Send(writer[w].on, S!EventOf(w)) /\ S!Step(w, "told")
          /\ UNCHANGED <<version, listening, inbox, faults>>
      BY <1>5 DEF S!Broadcast
    <2> PICK i \in Instances : i = writer[w].on
      BY <1>4, <2>1
    <2> PICK e \in Event : e = S!EventOf(w)
      BY <1>4, <2>1
    <2>2. writer' \in [Writes -> WriterRow] /\ Made' = Made
      BY <2>1, WriterMoves
    <2>3. client' \in [Clients -> ClientRow] /\ doubt' \subseteq Clients
      BY <2>1, Sends
    <2> QED  BY <2>1, <2>2, <2>3
  <1>6. CASE S!Publish(w)
    <2>1. /\ writer[w].at = "told" /\ S!Step(w, "done") /\ UNCHANGED <<version, listening, client, faults>>
          /\ inbox' = [i \in Instances |->
                          IF i \in listening THEN Append(inbox[i], S!EventOf(w)) ELSE inbox[i]]
          /\ doubt' \subseteq Clients
      BY <1>6 DEF S!Publish, S!MissedAt
    <2>2. writer' \in [Writes -> WriterRow] /\ Made' = Made
      BY <2>1, WriterMoves
    <2>3. inbox' \in [Instances -> Seq(Event)]
      BY <1>4, <2>1
    <2> QED  BY <2>1, <2>2, <2>3
  <1>7. CASE S!PublishFails(w) \/ S!Abandon(w)
    <2>1. /\ writer[w].at \in {"told", "committed", "read"} /\ S!Step(w, "done")
          /\ UNCHANGED <<version, listening, inbox, client>>
          /\ faults < MaxFaults /\ faults' = faults + 1 /\ doubt' \subseteq Clients
      BY <1>7 DEF S!PublishFails, S!Abandon, S!MissedAt, S!Fault
    <2>2. writer' \in [Writes -> WriterRow] /\ Made' = Made
      BY <2>1, WriterMoves
    <2>3. faults' \in 0..MaxFaults
      BY <2>1, EventsConstants DEF EventsAssumed
    <2> QED  BY <2>1, <2>2, <2>3
  <1> QED  BY <1>2, <1>3, <1>5, <1>6, <1>7

LEMMA EventsRelayTyped ==
  ASSUME EventsTyped, NEW i \in Instances, S!Listen(i) \/ S!Break(i) \/ S!Relay(i)
  PROVE  EventsTyped'
  <1> USE DEF EventsTyped
  <1>1. inbox[i] \in Seq(Event)
    OBVIOUS
  <1>2. CASE S!Listen(i)
    BY <1>2 DEF S!Listen, Made
  <1>3. CASE S!Break(i)
    <2>1. /\ UNCHANGED <<version, writer, client>> /\ listening' \subseteq Instances /\ doubt' \subseteq Clients
          /\ inbox' = [inbox EXCEPT ![i] = <<>>] /\ faults < MaxFaults /\ faults' = faults + 1
      BY <1>3 DEF S!Break, S!MissedAt, S!Fault
    <2>2. faults' \in 0..MaxFaults
      BY <2>1, EventsConstants DEF EventsAssumed
    <2>3. inbox' \in [Instances -> Seq(Event)]
      BY <2>1
    <2> QED  BY <2>1, <2>2, <2>3 DEF Made
  <1>4. CASE S!Relay(i)
    <2>1. /\ UNCHANGED <<version, writer, listening, faults>>
          /\ inbox[i] # <<>> /\ inbox' = [inbox EXCEPT ![i] = Tail(inbox[i])]
          /\ UNCHANGED <<client, doubt>> \/ S!Send(i, Head(inbox[i]))
      BY <1>4 DEF S!Relay
    <2> PICK e \in Event : e = Head(inbox[i])
      BY <1>1, <2>1
    <2>2. client' \in [Clients -> ClientRow] /\ doubt' \subseteq Clients
      <3>1. CASE UNCHANGED <<client, doubt>>
        BY <3>1
      <3>2. CASE S!Send(i, e)
        BY <3>2, Sends
      <3> QED  BY <2>1, <3>1, <3>2
    <2>3. inbox' \in [Instances -> Seq(Event)]
      BY <1>1, <2>1
    <2> QED  BY <2>1, <2>2, <2>3 DEF Made
  <1> QED  BY <1>2, <1>3, <1>4

\* What a client does to its own connection.
LEMMA ClientMoves ==
  ASSUME EventsTyped, NEW c \in Clients, S!Load(c) \/ S!LoadFails(c) \/ S!Connect(c) \/ S!Disconnect(c)
  PROVE  /\ EventsTyped' /\ UNCHANGED <<version, writer, listening, inbox>>
         /\ \A d \in Clients \ {c} : client'[d] = client[d] /\ (d \in doubt' <=> d \in doubt)
         /\ \/ client'[c].at = "off"
            \/ client'[c].at = "loading" /\ client'[c].heard = <<>> /\ c \in doubt'
            \/ /\ client'[c].at = "loading" /\ client'[c].heard = <<>>
               /\ client'[c].view = version /\ ~S!Overtaken(c)
            \/ /\ client[c].at = "loading" /\ client'[c].at = "open" /\ UNCHANGED doubt
               /\ client'[c].view = client[c].view /\ client'[c].heard = client[c].heard
  <1> USE DEF EventsTyped
  <1>1. version \in Versions /\ 1 \in Versions
    BY VersionsAreVersions DEF Versions
  <1>2. ASSUME NEW st \in ClientRow, client' = [client EXCEPT ![c] = st], doubt' \subseteq Clients,
               faults' \in 0..MaxFaults, UNCHANGED <<version, writer, listening, inbox>>
        PROVE  EventsTyped' /\ client'[c] = st /\ \A d \in Clients \ {c} : client'[d] = client[d]
    BY <1>2 DEF Made
  <1>3. CASE S!Load(c)
    <2> DEFINE st == [at |-> "loading", view |-> version, heard |-> <<>>]
    <2>1. st \in ClientRow
      BY <1>1 DEF ClientRow
    <2>2. /\ client' = [client EXCEPT ![c] = st] /\ UNCHANGED <<version, writer, listening, inbox, faults>>
          /\ doubt' = IF S!Overtaken(c) THEN doubt \cup {c} ELSE doubt \ {c}
      BY <1>3 DEF S!Load
    <2>3. EventsTyped' /\ client'[c] = st /\ \A d \in Clients \ {c} : client'[d] = client[d]
      BY <1>2, <2>1, <2>2
    <2> QED  BY <2>2, <2>3
  <1>4. CASE S!LoadFails(c)
    <2> DEFINE st == [at |-> "loading", view |-> 1, heard |-> <<>>]
    <2>1. st \in ClientRow
      BY <1>1 DEF ClientRow
    <2>2. /\ client' = [client EXCEPT ![c] = st] /\ UNCHANGED <<version, writer, listening, inbox>>
          /\ doubt' = doubt \cup {c} /\ faults' \in 0..MaxFaults
      BY <1>4, EventsConstants DEF S!LoadFails, S!Fault, EventsAssumed
    <2>3. EventsTyped' /\ client'[c] = st /\ \A d \in Clients \ {c} : client'[d] = client[d]
      BY <1>2, <2>1, <2>2
    <2> QED  BY <2>2, <2>3
  <1>5. CASE S!Connect(c)
    <2>1. /\ client[c].at = "loading" /\ client' = [client EXCEPT ![c] = [client[c] EXCEPT !.at = "open"]]
          /\ UNCHANGED <<version, writer, listening, inbox, doubt, faults>>
      BY <1>5 DEF S!Connect
    <2>2. client[c] \in [at : {"loading", "open"}, view : Versions, heard : Seq(Writes)]
      <3>1. client[c] \in ClientRow
        OBVIOUS
      <3> QED  BY <2>1, <3>1 DEF ClientRow
    <2> PICK st : st = [client[c] EXCEPT !.at = "open"]
      OBVIOUS
    <2>3. st \in ClientRow /\ st.at = "open" /\ st.view = client[c].view /\ st.heard = client[c].heard
      BY <2>2 DEF ClientRow
    <2>4. EventsTyped' /\ client'[c] = st /\ \A d \in Clients \ {c} : client'[d] = client[d]
      BY <1>2, <2>1, <2>3
    <2> QED  BY <2>1, <2>3, <2>4
  <1>6. CASE S!Disconnect(c)
    <2>1. S!Off \in ClientRow /\ S!Off.at = "off"
      BY DEF ClientRow, S!Off
    <2>2. /\ client' = [client EXCEPT ![c] = S!Off] /\ UNCHANGED <<version, writer, listening, inbox, faults>>
          /\ doubt' = doubt \ {c}
      BY <1>6 DEF S!Disconnect
    <2>3. EventsTyped' /\ client'[c] = S!Off /\ \A d \in Clients \ {c} : client'[d] = client[d]
      BY <1>2, <2>1, <2>2
    <2> QED  BY <2>1, <2>2, <2>3
  <1> QED  BY <1>3, <1>4, <1>5, <1>6

-----------------------------------------------------------------------------
(* Events: a client is told of a change once. What waits in an inbox has been   *)
(* published, each event once; a client has heard of a change from its own      *)
(* instance, or from the relay after the event left the inbox.                  *)

Waits(i, w) == \E k \in DOMAIN inbox[i] : inbox[i][k].id = w

WaitsWell(i) ==
    /\ \A k \in DOMAIN inbox[i] :
          /\ writer[inbox[i][k].id].at = "done"
          /\ inbox[i][k].origin = writer[inbox[i][k].id].on
    /\ \A k, l \in DOMAIN inbox[i] : inbox[i][k].id = inbox[i][l].id => k = l

HasHeard(c, w) ==
    \/ writer[w].at \in {"told", "done"} /\ writer[w].on = Home[c]
    \/ writer[w].at = "done" /\ writer[w].on # Home[c] /\ ~Waits(Home[c], w)

HeardWell(c) ==
    /\ \A k, l \in DOMAIN client[c].heard : client[c].heard[k] = client[c].heard[l] => k = l
    /\ \A k \in DOMAIN client[c].heard : HasHeard(c, client[c].heard[k])

ToldInv ==
    /\ \A i \in Instances : WaitsWell(i)
    /\ \A c \in Clients : client[c].at # "off" => HeardWell(c)

\* An inbox that only gets shorter keeps its events apart.
LEMMA ShorterInbox ==
  ASSUME EventsTyped, NEW i \in Instances,
         \/ inbox'[i] = inbox[i] \/ inbox'[i] = <<>>
         \/ inbox[i] # <<>> /\ inbox'[i] = Tail(inbox[i])
  PROVE  /\ \A k \in DOMAIN inbox'[i] : \E m \in DOMAIN inbox[i] :
               inbox'[i][k] = inbox[i][m] /\ (m = k \/ m = k + 1)
         /\ (\A k, l \in DOMAIN inbox[i] : inbox[i][k].id = inbox[i][l].id => k = l) =>
               \A k, l \in DOMAIN inbox'[i] : inbox'[i][k].id = inbox'[i][l].id => k = l
  <1>1. inbox[i] \in Seq(Event)
    BY DEF EventsTyped
  <1>2. CASE inbox'[i] = inbox[i]
    BY <1>2
  <1>3. CASE inbox'[i] = <<>>
    BY <1>3
  <1>4. CASE inbox[i] # <<>> /\ inbox'[i] = Tail(inbox[i])
    <2>1. \A k \in DOMAIN inbox'[i] : k \in Nat /\ k + 1 \in DOMAIN inbox[i] /\ inbox'[i][k] = inbox[i][k + 1]
      BY <1>1, <1>4
    <2> QED  BY <2>1
  <1> QED  BY <1>2, <1>3, <1>4

LEMMA ToldRest ==
  ASSUME EventsTyped, ToldInv,
         \A w \in Writes : writer[w].at \in {"told", "done"} =>
             /\ writer'[w].on = writer[w].on /\ writer'[w].at \in {"told", "done"}
             /\ writer[w].at = "done" => writer'[w].at = "done",
         \A i \in Instances :
             \/ inbox'[i] = inbox[i] \/ inbox'[i] = <<>>
             \/ inbox[i] # <<>> /\ inbox'[i] = Tail(inbox[i]),
         \A c \in Clients : client'[c].at # "off" =>
             \/ client[c].at # "off" /\ client'[c].heard = client[c].heard
             \/ client'[c].heard = <<>>
  PROVE  ToldInv'
  <1>1. ASSUME NEW i \in Instances
        PROVE  WaitsWell(i)'
    <2>1. WaitsWell(i) /\ inbox[i] \in Seq(Event)
      BY DEF ToldInv, EventsTyped
    <2>2. ASSUME NEW k \in DOMAIN inbox'[i]
          PROVE  /\ writer'[inbox'[i][k].id].at = "done"
                 /\ inbox'[i][k].origin = writer'[inbox'[i][k].id].on
      <3>1. PICK m \in DOMAIN inbox[i] : inbox'[i][k] = inbox[i][m]
        BY ShorterInbox
      <3>2. inbox[i][m] \in Event
        BY <2>1
      <3>3. PICK w \in Writes : w = inbox[i][m].id
        BY <3>2 DEF Event
      <3> QED  BY <2>1, <3>1, <3>3 DEF WaitsWell
    <2> QED  BY <2>1, <2>2, ShorterInbox DEF WaitsWell
  <1>2. ASSUME NEW c \in Clients, client'[c].at # "off"
        PROVE  HeardWell(c)'
    <2>1. CASE client'[c].heard = <<>>
      BY <2>1 DEF HeardWell
    <2>2. CASE client[c].at # "off" /\ client'[c].heard = client[c].heard
      <3>1. HeardWell(c) /\ client[c] \in ClientRow /\ Home[c] \in Instances
        BY <2>2, EventsConstants DEF ToldInv, EventsTyped, EventsAssumed
      <3>2. client[c].heard \in Seq(Writes)
        BY <2>2, <3>1, ClientRows
      <3>3. ASSUME NEW w \in Writes, HasHeard(c, w)
            PROVE  HasHeard(c, w)'
        <4>1. ~Waits(Home[c], w) => ~Waits(Home[c], w)'
          BY <3>1, ShorterInbox DEF Waits
        <4> QED  BY <3>3, <4>1 DEF HasHeard
      <3>4. \A k \in DOMAIN client[c].heard : client[c].heard[k] \in Writes /\ HasHeard(c, client[c].heard[k])
        BY <3>1, <3>2 DEF HeardWell
      <3>5. ASSUME NEW k \in DOMAIN client'[c].heard
            PROVE  HasHeard(c, client[c].heard[k])'
        <4> PICK w \in Writes : w = client[c].heard[k]
          BY <2>2, <3>4, <3>5
        <4>1. HasHeard(c, w)'
          BY <2>2, <3>3, <3>4, <3>5
        <4>2. client'[c].heard[k] = w
          BY <2>2
        <4> QED  BY <4>1, <4>2 DEF HasHeard, Waits
      <3> QED  BY <2>2, <3>1, <3>5 DEF HeardWell
    <2> QED  BY <1>2, <2>1, <2>2
  <1> QED  BY <1>1, <1>2 DEF ToldInv

\* Clients of one instance hear of a change that none of them has heard of.
LEMMA ToldBySending ==
  ASSUME EventsTyped, EventsTyped', ToldInv, NEW i \in Instances, NEW e \in Event, S!Send(i, e),
         \A j \in Instances : WaitsWell(j)',
         \A c \in Clients, w \in Writes : client[c].at # "off" /\ HasHeard(c, w) => HasHeard(c, w)',
         \A c \in Clients : client[c].at # "off" /\ Home[c] = i => ~HasHeard(c, e.id) /\ HasHeard(c, e.id)'
  PROVE  ToldInv'
  <1> PICK v \in Writes : v = e.id
    BY DEF Event
  <1>1. ASSUME NEW c \in Clients, client'[c].at # "off"
        PROVE  HeardWell(c)'
    <2>1. client[c].at # "off" /\ HeardWell(c) /\ client[c] \in ClientRow
      BY <1>1, Sends DEF ToldInv, EventsTyped
    <2>2. client[c].heard \in Seq(Writes)
      BY <2>1, ClientRows
    <2>3. \A k \in DOMAIN client[c].heard : client[c].heard[k] \in Writes /\ HasHeard(c, client[c].heard[k])
      BY <2>1, <2>2 DEF HeardWell
    <2>4. ASSUME NEW k, NEW w \in Writes, client'[c].heard[k] = w, HasHeard(c, w)'
          PROVE  HasHeard(c, client[c].heard[k])'
      BY <2>4 DEF HasHeard, Waits
    <2>5. CASE client'[c] = client[c]
      <3>1. ASSUME NEW k \in DOMAIN client'[c].heard
            PROVE  HasHeard(c, client[c].heard[k])'
        <4> PICK w \in Writes : w = client[c].heard[k]
          BY <2>3, <2>5, <3>1
        <4> QED  BY <2>1, <2>3, <2>4, <2>5, <3>1
      <3> QED  BY <2>1, <2>5, <3>1 DEF HeardWell
    <2>6. CASE Home[c] = i /\ client'[c].heard = Append(client[c].heard, v)
      <3> DEFINE n == Len(client[c].heard)
      <3>1. /\ n \in Nat /\ DOMAIN client[c].heard = 1..n /\ DOMAIN client'[c].heard = 1..(n + 1)
            /\ client'[c].heard[n + 1] = v
            /\ \A k \in 1..n : client'[c].heard[k] = client[c].heard[k]
        BY <2>2, <2>6
      <3> HIDE DEF n
      <3>2. ~HasHeard(c, v) /\ HasHeard(c, v)'
        BY <2>1, <2>6
      <3>3. \A k \in 1..n : client[c].heard[k] # v
        BY <2>3, <3>1, <3>2
      <3>4. \A k, l \in 1..(n + 1) : client'[c].heard[k] = client'[c].heard[l] => k = l
        <4> SUFFICES ASSUME NEW k \in 1..(n + 1), NEW l \in 1..(n + 1),
                            client'[c].heard[k] = client'[c].heard[l]
                     PROVE  k = l
          OBVIOUS
        <4>1. CASE k \in 1..n /\ l \in 1..n
          <5>1. client[c].heard[k] = client[c].heard[l]
            BY <3>1, <4>1
          <5> QED  BY <2>1, <3>1, <4>1, <5>1 DEF HeardWell
        <4>2. CASE k = n + 1 \/ l = n + 1
          <5>1. \A m \in 1..n : client'[c].heard[m] # v
            BY <3>1, <3>3
          <5>2. client'[c].heard[n + 1] = v /\ \A m \in 1..(n + 1) : m \in 1..n \/ m = n + 1
            BY <3>1
          <5> QED  BY <4>2, <5>1, <5>2
        <4>3. (k \in 1..n \/ k = n + 1) /\ (l \in 1..n \/ l = n + 1)
          BY <3>1
        <4> QED  BY <4>1, <4>2, <4>3
      <3>5. ASSUME NEW k \in 1..(n + 1)
            PROVE  HasHeard(c, client[c].heard[k])'
        <4>1. CASE k = n + 1
          BY <2>4, <3>1, <3>2, <4>1
        <4>2. CASE k \in 1..n
          <5> PICK w \in Writes : w = client[c].heard[k]
            BY <2>3, <3>1, <4>2
          <5> QED  BY <2>1, <2>3, <2>4, <3>1, <4>2
        <4> QED  BY <3>1, <4>1, <4>2
      <3> QED  BY <3>1, <3>4, <3>5 DEF HeardWell
    <2> QED  BY <2>1, <2>5, <2>6, Sends, ClientRows
  <1> QED  BY <1>1 DEF ToldInv

LEMMA ToldByWriting ==
  ASSUME EventsTyped, EventsTyped', ToldInv, NEW w \in Writes,
         \/ \E i \in Instances : S!Commit(w, i)
         \/ S!Refresh(w) \/ S!Broadcast(w) \/ S!Publish(w) \/ S!PublishFails(w) \/ S!Abandon(w)
  PROVE  ToldInv'
  <1>1. writer[w] \in WriterRow /\ writer = [x \in Writes |-> writer[x]]
    BY DEF EventsTyped
  <1>2. ASSUME writer[w].at \in {"none", "committed", "read"}, UNCHANGED <<inbox, client>>,
               \A x \in Writes \ {w} : writer'[x] = writer[x]
        PROVE  ToldInv'
    BY <1>2, ToldRest
  <1>3. CASE (\E i \in Instances : S!Commit(w, i)) \/ S!Refresh(w)
    BY <1>1, <1>2, <1>3 DEF S!Commit, S!Refresh
  <1>4. CASE S!PublishFails(w) \/ S!Abandon(w)
    <2>1. UNCHANGED <<inbox, client>> /\ S!Step(w, "done") /\ writer[w].at \in {"told", "committed", "read"}
      BY <1>4 DEF S!PublishFails, S!Abandon
    <2>2. /\ writer'[w].at = "done" /\ writer'[w].on = writer[w].on
          /\ \A x \in Writes \ {w} : writer'[x] = writer[x]
      BY <2>1, WriterMoves
    <2> QED  BY <2>1, <2>2, ToldRest
  <1>5. CASE S!Broadcast(w)
    <2>1. /\ writer[w].at = "read" /\ S!Send(writer[w].on, S!EventOf(w)) /\ S!Step(w, "told") /\ UNCHANGED inbox
      BY <1>5 DEF S!Broadcast
    <2> PICK i \in Instances : i = writer[w].on
      BY <1>1, <2>1, WriterRows
    <2> PICK e \in Event : e = S!EventOf(w)
      BY <1>1, <2>1, WriterRows DEF S!EventOf, Event
    <2>2. e.id = w
      BY DEF S!EventOf
    <2>3. /\ writer'[w].at = "told" /\ writer'[w].on = i
          /\ \A x \in Writes \ {w} : writer'[x] = writer[x]
      BY <2>1, WriterMoves
    <2>4. ASSUME NEW j \in Instances
          PROVE  WaitsWell(j)'
      <3>1. WaitsWell(j) /\ inbox[j] \in Seq(Event) /\ inbox'[j] = inbox[j]
        BY <2>1 DEF ToldInv, EventsTyped
      <3>2. \A k \in DOMAIN inbox[j] : inbox[j][k].id \in Writes \ {w}
        <4> TAKE k \in DOMAIN inbox[j]
        <4>1. inbox[j][k] \in Event
          BY <3>1
        <4> QED  BY <2>1, <3>1, <4>1 DEF WaitsWell, Event
      <3> QED  BY <2>3, <3>1, <3>2 DEF WaitsWell
    <2>5. \A c \in Clients, x \in Writes : HasHeard(c, x) => HasHeard(c, x)'
      BY <2>1, <2>3 DEF HasHeard, Waits
    <2>6. \A c \in Clients : Home[c] = i => ~HasHeard(c, w) /\ HasHeard(c, w)'
      BY <2>1, <2>3 DEF HasHeard
    <2> QED  BY <2>1, <2>2, <2>4, <2>5, <2>6, ToldBySending
  <1>6. CASE S!Publish(w)
    <2>1. /\ writer[w].at = "told" /\ S!Step(w, "done") /\ UNCHANGED client
          /\ inbox' = [i \in Instances |->
                          IF i \in listening THEN Append(inbox[i], S!EventOf(w)) ELSE inbox[i]]
      BY <1>6 DEF S!Publish
    <2> PICK e \in Event : e = S!EventOf(w)
      BY <1>1, <2>1, WriterRows DEF S!EventOf, Event
    <2>2. e.id = w /\ e.origin = writer[w].on
      BY DEF S!EventOf
    <2>3. /\ writer'[w].at = "done" /\ writer'[w].on = writer[w].on
          /\ \A x \in Writes \ {w} : writer'[x] = writer[x]
      BY <2>1, WriterMoves
    <2>4. ASSUME NEW i \in Instances
          PROVE  WaitsWell(i)' /\ \A x \in Writes \ {w} : Waits(i, x)' => Waits(i, x)
      <3> DEFINE n == Len(inbox[i])
      <3>1. /\ WaitsWell(i) /\ inbox[i] \in Seq(Event) /\ n \in Nat /\ DOMAIN inbox[i] = 1..n
            /\ \A k \in 1..n : inbox[i][k] \in Event
        BY DEF ToldInv, EventsTyped
      <3>2. \A k \in 1..n : inbox[i][k].id \in Writes \ {w}
        <4> TAKE k \in 1..n
        <4> QED  BY <2>1, <3>1 DEF WaitsWell, Event
      <3>3. \A k \in 1..n : writer'[inbox[i][k].id] = writer[inbox[i][k].id]
        BY <2>3, <3>2
      <3>4. CASE i \notin listening
        <4>1. inbox'[i] = inbox[i]
          BY <2>1, <3>4
        <4> QED  BY <3>1, <3>3, <4>1 DEF WaitsWell, Waits
      <3>5. CASE i \in listening
        <4>1. inbox'[i] = Append(inbox[i], e)
          BY <2>1, <3>5
        <4>2. /\ DOMAIN inbox'[i] = 1..(n + 1) /\ inbox'[i][n + 1] = e
              /\ \A k \in 1..n : inbox'[i][k] = inbox[i][k]
          BY <3>1, <4>1
        <4> HIDE DEF n
        <4>3. \A k \in 1..(n + 1) : k = n + 1 \/ k \in 1..n
          BY <3>1
        <4>4. \A k \in 1..(n + 1) : /\ writer'[inbox'[i][k].id].at = "done"
                                    /\ inbox'[i][k].origin = writer'[inbox'[i][k].id].on
          BY <2>2, <2>3, <3>1, <3>3, <4>2, <4>3 DEF WaitsWell
        <4>5. \A k, l \in 1..(n + 1) : inbox'[i][k].id = inbox'[i][l].id => k = l
          BY <2>2, <3>1, <3>2, <4>2, <4>3 DEF WaitsWell
        <4>6. \A x \in Writes \ {w} : Waits(i, x)' => Waits(i, x)
          BY <2>2, <3>1, <4>2, <4>3 DEF Waits
        <4> QED  BY <4>2, <4>4, <4>5, <4>6 DEF WaitsWell
      <3> QED  BY <3>4, <3>5
    <2>5. ASSUME NEW c \in Clients, NEW x \in Writes, HasHeard(c, x)
          PROVE  HasHeard(c, x)'
      <3>1. Home[c] \in Instances
        BY EventsConstants DEF EventsAssumed
      <3>2. CASE x = w
        BY <2>1, <2>3, <2>5, <3>2 DEF HasHeard
      <3>3. CASE x # w
        BY <2>3, <2>4, <2>5, <3>1, <3>3 DEF HasHeard
      <3> QED  BY <3>2, <3>3
    <2>6. ASSUME NEW c \in Clients, client'[c].at # "off"
          PROVE  HeardWell(c)'
      <3>1. HeardWell(c) /\ client'[c] = client[c] /\ client[c] \in ClientRow
        BY <2>1, <2>6 DEF ToldInv, EventsTyped
      <3>2. client[c].heard \in Seq(Writes)
        BY <2>6, <3>1, ClientRows
      <3>3. ASSUME NEW k \in DOMAIN client'[c].heard
            PROVE  HasHeard(c, client[c].heard[k])'
        <4> PICK x \in Writes : x = client[c].heard[k]
          BY <3>1, <3>2, <3>3
        <4>1. HasHeard(c, x)'
          BY <2>5, <3>1, <3>3 DEF HeardWell
        <4>2. client'[c].heard[k] = x
          BY <3>1
        <4> QED  BY <4>1, <4>2 DEF HasHeard, Waits
      <3> QED  BY <3>1, <3>3 DEF HeardWell
    <2> QED  BY <2>4, <2>6 DEF ToldInv
  <1> QED  BY <1>3, <1>4, <1>5, <1>6

LEMMA ToldByRelay ==
  ASSUME EventsTyped, EventsTyped', ToldInv, NEW i \in Instances, S!Listen(i) \/ S!Break(i) \/ S!Relay(i)
  PROVE  ToldInv'
  <1>1. CASE S!Listen(i) \/ S!Break(i)
    <2>1. UNCHANGED <<writer, client>> /\ \A j \in Instances : inbox'[j] = inbox[j] \/ inbox'[j] = <<>>
      BY <1>1 DEF S!Listen, S!Break, EventsTyped
    <2> QED  BY <2>1, ToldRest
  <1>2. CASE S!Relay(i)
    <2> PICK e : e = Head(inbox[i])
      OBVIOUS
    <2>1. /\ UNCHANGED writer /\ inbox[i] # <<>> /\ inbox[i] \in Seq(Event)
          /\ inbox'[i] = Tail(inbox[i]) /\ \A j \in Instances \ {i} : inbox'[j] = inbox[j]
          /\ IF e.origin = i THEN UNCHANGED <<client, doubt>> ELSE S!Send(i, e)
      BY <1>2 DEF S!Relay, S!Own, EventsTyped
    <2>2. CASE e.origin = i
      BY <2>1, <2>2, ToldRest
    <2>3. CASE e.origin # i
      <3>1. e \in Event /\ e = inbox[i][1] /\ 1 \in DOMAIN inbox[i]
        BY <2>1
      <3> PICK w \in Writes : w = e.id
        BY <3>1 DEF Event
      <3>2. writer[w].at = "done" /\ writer[w].on # i /\ WaitsWell(i)
        BY <2>3, <3>1 DEF ToldInv, WaitsWell
      <3>3. \A k \in DOMAIN inbox'[i] : k \in Nat \ {0} /\ k + 1 \in DOMAIN inbox[i] /\ inbox'[i][k] = inbox[i][k + 1]
        BY <2>1
      <3>4. ~Waits(i, w)'
        BY <3>1, <3>2, <3>3 DEF Waits, WaitsWell
      <3>5. Waits(i, w)
        BY <3>1 DEF Waits
      <3>6. ASSUME NEW j \in Instances, NEW x \in Writes, Waits(j, x)'
            PROVE  Waits(j, x)
        <4>1. CASE j = i
          BY <3>3, <3>6, <4>1 DEF Waits
        <4>2. CASE j # i
          BY <2>1, <3>6, <4>2 DEF Waits
        <4> QED  BY <4>1, <4>2
      <3>7. ASSUME NEW j \in Instances
            PROVE  WaitsWell(j)'
        <4>1. CASE j = i
          <5>1. \A k \in DOMAIN inbox'[i] :
                   /\ writer[inbox'[i][k].id].at = "done" /\ inbox'[i][k].origin = writer[inbox'[i][k].id].on
            BY <3>2, <3>3 DEF WaitsWell
          <5>2. \A k, l \in DOMAIN inbox'[i] : inbox'[i][k].id = inbox'[i][l].id => k = l
            BY <2>1, ShorterInbox, <3>2 DEF WaitsWell
          <5> QED  BY <2>1, <4>1, <5>1, <5>2 DEF WaitsWell
        <4>2. CASE j # i
          BY <2>1, <4>2 DEF WaitsWell, ToldInv
        <4> QED  BY <4>1, <4>2
      <3>8. \A c \in Clients, x \in Writes : HasHeard(c, x) => HasHeard(c, x)'
        BY <2>1, <3>6, EventsConstants DEF HasHeard, EventsAssumed
      <3>9. \A c \in Clients : Home[c] = i => ~HasHeard(c, w) /\ HasHeard(c, w)'
        BY <2>1, <3>2, <3>4, <3>5 DEF HasHeard
      <3> QED  BY <2>1, <2>3, <3>1, <3>7, <3>8, <3>9, ToldBySending
    <2> QED  BY <2>2, <2>3
  <1> QED  BY <1>1, <1>2

LEMMA ToldByClient ==
  ASSUME EventsTyped, ToldInv, NEW c \in Clients,
         S!Load(c) \/ S!LoadFails(c) \/ S!Connect(c) \/ S!Disconnect(c)
  PROVE  ToldInv'
  BY ClientMoves, ToldRest

-----------------------------------------------------------------------------
(* Events: a client shows the committed task once all is delivered. Of the rows *)
(* that may still reach a client without doubt none is old, and as long as it    *)
(* does not show the committed row, that row is on its way or about to be read.  *)

Awaits(i, row) ==
    \/ \E w \in Writes : /\ row = writer[w].row
                         /\ writer[w].at = "read" \/ (writer[w].at = "told" /\ writer[w].on # i)
    \/ \E k \in DOMAIN inbox[i] : row = inbox[i][k].row /\ inbox[i][k].origin # i

LEMMA PendingRows ==
  ASSUME NEW i, NEW row
  PROVE  /\ row \in S!Pending(i) <=> Awaits(i, row)
         /\ row \in S!Pending(i)' <=> Awaits(i, row)'
  BY DEF S!Pending, S!ToSet, S!Own, Awaits

Changing == \E w \in Writes : writer[w].at = "committed"

Current(c) ==
    /\ \A row \in S!Pending(Home[c]) : row = version
    /\ client[c].view = version \/ S!Pending(Home[c]) # {} \/ Changing

CurrentInv ==
    /\ \A i \in Instances : \A row \in S!Pending(i) : row <= version
    /\ \A c \in Clients : client[c].at # "off" /\ c \notin doubt => Current(c)

\* The committed row is the same; a client without doubt missed nothing, or was
\* given the committed row.
LEMMA CurrentRest ==
  ASSUME EventsTyped, CurrentInv, UNCHANGED version, Changing => Changing',
         \A i \in Instances : S!Pending(i)' \subseteq S!Pending(i),
         \A c \in Clients : client'[c].at # "off" /\ c \notin doubt' =>
             \/ /\ client[c].at # "off" /\ c \notin doubt /\ client'[c].view = client[c].view
                /\ S!Pending(Home[c])' = S!Pending(Home[c])
             \/ client'[c].view = version /\ \A row \in S!Pending(Home[c]) : row = version
  PROVE  CurrentInv'
  <1>1. ASSUME NEW i \in Instances, NEW row \in S!Pending(i)'
        PROVE  row <= version'
    BY <1>1 DEF CurrentInv
  <1>2. ASSUME NEW c \in Clients, client'[c].at # "off", c \notin doubt'
        PROVE  Current(c)'
    <2>1. Home[c] \in Instances
      BY EventsConstants DEF EventsAssumed
    <2>2. CASE /\ client[c].at # "off" /\ c \notin doubt /\ client'[c].view = client[c].view
               /\ S!Pending(Home[c])' = S!Pending(Home[c])
      BY <2>2 DEF CurrentInv, Current
    <2>3. CASE client'[c].view = version /\ \A row \in S!Pending(Home[c]) : row = version
      BY <2>1, <2>3 DEF Current
    <2> QED  BY <1>2, <2>2, <2>3
  <1> QED  BY <1>1, <1>2 DEF CurrentInv

\* Nothing of what may reach the clients of i is lost or new.
LEMMA PendingStays ==
  ASSUME NEW i, \A row : Awaits(i, row)' <=> Awaits(i, row)
  PROVE  S!Pending(i)' = S!Pending(i)
  BY PendingRows

LEMMA CurrentByWriting ==
  ASSUME EventsTyped, EventsTyped', CurrentInv, NEW w \in Writes,
         \/ \E i \in Instances : S!Commit(w, i)
         \/ S!Refresh(w) \/ S!Broadcast(w) \/ S!Publish(w) \/ S!PublishFails(w) \/ S!Abandon(w)
  PROVE  CurrentInv'
  <1>1. writer[w] \in WriterRow /\ writer = [x \in Writes |-> writer[x]] /\ version \in Nat
    BY VersionsAreVersions DEF EventsTyped, Versions
  <1>2. \A c \in Clients : Home[c] \in Instances
    BY EventsConstants DEF EventsAssumed
  <1>3. \A i \in Instances : \A row \in S!Pending(i) : row <= version /\ row \in Nat
    <2> SUFFICES ASSUME NEW i \in Instances, NEW row \in S!Pending(i) PROVE row \in Nat
      BY DEF CurrentInv
    <2>1. Awaits(i, row)
      BY PendingRows
    <2>2. \A x \in Writes : writer[x].at \in {"read", "told"} => writer[x].row \in Versions
      BY WriterRows DEF EventsTyped
    <2>3. \A k \in DOMAIN inbox[i] : inbox[i][k] \in Event
      <3>1. inbox[i] \in Seq(Event)
        BY DEF EventsTyped
      <3> QED  BY <3>1
    <2>4. row \in Versions
      BY <2>1, <2>2, <2>3 DEF Awaits, Event
    <2> QED  BY <2>4, VersionsAreVersions DEF Versions
  <1>4. ASSUME NEW i \in Instances, S!Commit(w, i)
        PROVE  CurrentInv'
    <2>1. /\ writer[w].at = "none" /\ writer' = [writer EXCEPT ![w] = [at |-> "committed", on |-> i]]
          /\ version' = version + 1 /\ UNCHANGED <<inbox, client>>
          /\ doubt' = doubt \cup {c \in Clients : client[c].at # "off" /\ S!Pending(Home[c]) # {}}
      BY <1>4 DEF S!Commit, S!Linked
    <2>2. /\ writer'[w].at = "committed" /\ \A x \in Writes \ {w} : writer'[x] = writer[x]
      BY <1>1, <2>1
    <2>3. ASSUME NEW j \in Instances
          PROVE  S!Pending(j)' = S!Pending(j)
      BY <2>1, <2>2, PendingStays DEF Awaits
    <2>4. Changing'
      BY <2>2 DEF Changing
    <2>5. \A j \in Instances : \A row \in S!Pending(j)' : row <= version'
      BY <1>1, <1>3, <2>1, <2>3
    <2>6. ASSUME NEW c \in Clients, client'[c].at # "off", c \notin doubt'
          PROVE  Current(c)'
      <3>1. S!Pending(Home[c])' = {}
        BY <1>2, <2>1, <2>3, <2>6
      <3> QED  BY <2>4, <3>1 DEF Current
    <2> QED  BY <2>5, <2>6 DEF CurrentInv
  <1>5. CASE S!Refresh(w)
    <2>1. /\ writer[w].at = "committed" /\ UNCHANGED <<version, inbox, client, doubt>>
          /\ writer' = [writer EXCEPT ![w] = [at |-> "read", on |-> writer[w].on, row |-> version]]
      BY <1>1, <1>5 DEF S!Refresh
    <2>2. /\ writer'[w].at = "read" /\ writer'[w].row = version
          /\ \A x \in Writes \ {w} : writer'[x] = writer[x]
      BY <1>1, <2>1
    <2>3. ASSUME NEW j \in Instances
          PROVE  \A row : row \in S!Pending(j)' <=> row \in S!Pending(j) \/ row = version
      <3>1. \A row : Awaits(j, row)' <=> Awaits(j, row) \/ row = version
        BY <2>1, <2>2 DEF Awaits
      <3> QED  BY <3>1, PendingRows
    <2>4. \A j \in Instances : \A row \in S!Pending(j)' : row <= version'
      BY <1>1, <1>3, <2>1, <2>3
    <2>5. ASSUME NEW c \in Clients, client'[c].at # "off", c \notin doubt'
          PROVE  Current(c)'
      <3>1. \A row \in S!Pending(Home[c]) : row = version
        BY <2>1, <2>5 DEF CurrentInv, Current
      <3>2. S!Pending(Home[c])' # {} /\ \A row \in S!Pending(Home[c])' : row = version'
        BY <1>2, <2>1, <2>3, <3>1
      <3> QED  BY <3>2 DEF Current
    <2> QED  BY <2>4, <2>5 DEF CurrentInv
  <1>6. ASSUME writer[w].at \in {"read", "told"}, S!Step(w, IF writer[w].at = "read" THEN "told" ELSE "done")
        PROVE  Changing => Changing'
    <2>1. \A x \in Writes \ {w} : writer'[x] = writer[x]
      BY <1>6, WriterMoves
    <2> QED  BY <1>6, <2>1 DEF Changing
  <1>7. CASE S!Broadcast(w)
    <2>1. /\ writer[w].at = "read" /\ S!Send(writer[w].on, S!EventOf(w)) /\ S!Step(w, "told")
          /\ UNCHANGED <<version, inbox>>
      BY <1>7 DEF S!Broadcast
    <2> PICK i \in Instances : i = writer[w].on
      BY <1>1, <2>1, WriterRows
    <2> PICK e \in Event : e = S!EventOf(w)
      BY <1>1, <2>1, WriterRows DEF S!EventOf, Event
    <2>2. e.row = writer[w].row
      BY DEF S!EventOf
    <2>3. /\ writer'[w].at = "told" /\ writer'[w].on = i /\ writer'[w].row = e.row
          /\ \A x \in Writes \ {w} : writer'[x] = writer[x]
      BY <2>1, <2>2, WriterMoves
    <2>4. \A j \in Instances : S!Pending(j)' \subseteq S!Pending(j)
      <3>1. \A j \in Instances : \A row : Awaits(j, row)' => Awaits(j, row)
        BY <2>1, <2>2, <2>3 DEF Awaits
      <3> QED  BY <3>1, PendingRows
    <2>5. ASSUME NEW j \in Instances, j # i
          PROVE  S!Pending(j)' = S!Pending(j)
      BY <2>1, <2>2, <2>3, <2>5, PendingStays DEF Awaits
    <2>6. e.row \in S!Pending(i)
      BY <2>1, <2>2, PendingRows DEF Awaits
    <2>7. ASSUME NEW c \in Clients, client'[c].at # "off", c \notin doubt'
          PROVE  \/ /\ client[c].at # "off" /\ c \notin doubt /\ client'[c].view = client[c].view
                    /\ S!Pending(Home[c])' = S!Pending(Home[c])
                 \/ client'[c].view = version /\ \A row \in S!Pending(Home[c]) : row = version
      <3>1. client[c].at # "off" /\ c \notin doubt /\ Current(c) /\ client[c] \in ClientRow
        BY <2>1, <2>7, Sends DEF CurrentInv, EventsTyped
      <3>2. CASE Home[c] = i
        <4>1. client[c].at = "open"
          BY <2>1, <2>7, <3>1, <3>2, Sends, ClientRows
        <4>2. client'[c].view = e.row
          BY <2>1, <3>2, <4>1, Sends
        <4> QED  BY <2>6, <3>1, <3>2, <4>2 DEF Current
      <3>3. CASE Home[c] # i
        <4>1. client'[c] = client[c]
          BY <2>1, <3>3, Sends
        <4> QED  BY <1>2, <2>5, <3>1, <3>3, <4>1
      <3> QED  BY <3>2, <3>3
    <2> QED  BY <1>6, <2>1, <2>4, <2>7, CurrentRest
  <1>8. CASE S!Publish(w)
    <2>1. /\ writer[w].at = "told" /\ S!Step(w, "done") /\ UNCHANGED <<version, client>>
          /\ inbox' = [i \in Instances |->
                          IF i \in listening THEN Append(inbox[i], S!EventOf(w)) ELSE inbox[i]]
          /\ doubt' = doubt \cup {c \in Clients : /\ client[c].at # "off"
                                                   /\ Home[c] \in Instances \ (listening \cup {writer[w].on})}
      BY <1>8 DEF S!Publish, S!MissedAt, S!Linked
    <2> PICK e \in Event : e = S!EventOf(w)
      BY <1>1, <2>1, WriterRows DEF S!EventOf, Event
    <2>2. e.row = writer[w].row /\ e.origin = writer[w].on
      BY DEF S!EventOf
    <2>3. /\ writer'[w].at = "done" /\ \A x \in Writes \ {w} : writer'[x] = writer[x]
      BY <2>1, WriterMoves
    <2>4. ASSUME NEW i \in Instances
          PROVE  /\ S!Pending(i)' \subseteq S!Pending(i)
                 /\ i \in listening \/ i = writer[w].on => S!Pending(i)' = S!Pending(i)
      <3> DEFINE n == Len(inbox[i])
      <3>1. inbox[i] \in Seq(Event) /\ n \in Nat /\ DOMAIN inbox[i] = 1..n
        BY DEF EventsTyped
      <3>2. CASE i \notin listening
        <4>1. inbox'[i] = inbox[i]
          BY <2>1, <3>2
        <4>2. \A row : Awaits(i, row)' => Awaits(i, row)
          BY <2>1, <2>3, <4>1 DEF Awaits
        <4>3. i = writer[w].on => \A row : Awaits(i, row)' <=> Awaits(i, row)
          BY <2>1, <2>3, <4>1 DEF Awaits
        <4> QED  BY <3>2, <4>2, <4>3, PendingRows
      <3>3. CASE i \in listening
        <4>1. inbox'[i] = Append(inbox[i], e)
          BY <2>1, <3>3
        <4>2. /\ DOMAIN inbox'[i] = 1..(n + 1) /\ inbox'[i][n + 1] = e
              /\ \A k \in 1..n : inbox'[i][k] = inbox[i][k]
          BY <3>1, <4>1
        <4> HIDE DEF n
        <4>3. (\A k \in 1..(n + 1) : k = n + 1 \/ k \in 1..n) /\ n + 1 \in 1..(n + 1)
              /\ \A k \in 1..n : k \in 1..(n + 1)
          BY <3>1
        <4>4. \A row : (\E k \in 1..(n + 1) : row = inbox'[i][k].row /\ inbox'[i][k].origin # i)
                 <=> \/ \E k \in 1..n : row = inbox[i][k].row /\ inbox[i][k].origin # i
                     \/ row = e.row /\ e.origin # i
          BY <4>2, <4>3
        <4>5. \A row : Awaits(i, row)' <=> Awaits(i, row)
          BY <2>1, <2>2, <2>3, <3>1, <4>2, <4>4 DEF Awaits
        <4> QED  BY <4>5, PendingStays
      <3> QED  BY <3>2, <3>3
    <2>5. \A c \in Clients : client'[c].at # "off" /\ c \notin doubt' =>
             /\ client[c].at # "off" /\ c \notin doubt /\ client'[c].view = client[c].view
             /\ S!Pending(Home[c])' = S!Pending(Home[c])
      BY <1>2, <2>1, <2>4
    <2> QED  BY <1>6, <2>1, <2>4, <2>5, CurrentRest
  <1>9. CASE S!PublishFails(w)
    <2>1. /\ writer[w].at = "told" /\ S!Step(w, "done") /\ UNCHANGED <<version, inbox, client>>
          /\ doubt' = doubt \cup {c \in Clients : client[c].at # "off" /\ Home[c] \in Instances \ {writer[w].on}}
      BY <1>9 DEF S!PublishFails, S!MissedAt, S!Linked
    <2>2. /\ writer'[w].at = "done" /\ \A x \in Writes \ {w} : writer'[x] = writer[x]
      BY <2>1, WriterMoves
    <2>3. ASSUME NEW i \in Instances
          PROVE  S!Pending(i)' \subseteq S!Pending(i) /\ (i = writer[w].on => S!Pending(i)' = S!Pending(i))
      <3>1. \A row : Awaits(i, row)' => Awaits(i, row)
        BY <2>1, <2>2 DEF Awaits
      <3>2. i = writer[w].on => \A row : Awaits(i, row)' <=> Awaits(i, row)
        BY <2>1, <2>2 DEF Awaits
      <3> QED  BY <3>1, <3>2, PendingRows
    <2>4. \A c \in Clients : client'[c].at # "off" /\ c \notin doubt' =>
             /\ client[c].at # "off" /\ c \notin doubt /\ client'[c].view = client[c].view
             /\ S!Pending(Home[c])' = S!Pending(Home[c])
      BY <1>2, <2>1, <2>3
    <2> QED  BY <1>6, <2>1, <2>3, <2>4, CurrentRest
  <1>10. CASE S!Abandon(w)
    <2>1. /\ writer[w].at \in {"committed", "read"} /\ S!Step(w, "done") /\ UNCHANGED <<version, inbox, client>>
          /\ doubt' = doubt \cup {c \in Clients : client[c].at # "off" /\ Home[c] \in Instances}
      BY <1>10 DEF S!Abandon, S!MissedAt, S!Linked
    <2>2. /\ writer'[w].at = "done" /\ \A x \in Writes \ {w} : writer'[x] = writer[x]
      BY <2>1, WriterMoves
    <2>3. \A i \in Instances : S!Pending(i)' \subseteq S!Pending(i)
      <3>1. \A i, row : Awaits(i, row)' => Awaits(i, row)
        BY <2>1, <2>2 DEF Awaits
      <3> QED  BY <3>1, PendingRows
    <2>4. \A c \in Clients : ~(client'[c].at # "off" /\ c \notin doubt')
      BY <1>2, <2>1
    <2>5. \A i \in Instances : \A row \in S!Pending(i)' : row <= version'
      BY <1>3, <2>1, <2>3
    <2> QED  BY <2>4, <2>5 DEF CurrentInv
  <1> QED  BY <1>4, <1>5, <1>7, <1>8, <1>9, <1>10

LEMMA CurrentByRelay ==
  ASSUME EventsTyped, EventsTyped', CurrentInv, NEW i \in Instances, S!Listen(i) \/ S!Break(i) \/ S!Relay(i)
  PROVE  CurrentInv'
  <1>1. inbox[i] \in Seq(Event) /\ inbox = [j \in Instances |-> inbox[j]]
    BY DEF EventsTyped
  <1>2. UNCHANGED <<version, writer>> /\ (Changing => Changing')
    BY DEF S!Listen, S!Break, S!Relay, Changing
  <1>3. ASSUME \A j \in Instances \ {i} : inbox'[j] = inbox[j]
        PROVE  \A j \in Instances \ {i} : S!Pending(j)' = S!Pending(j)
    <2> TAKE j \in Instances \ {i}
    <2> QED  BY <1>2, <1>3, PendingStays DEF Awaits
  <1>4. ASSUME \A j \in Instances : S!Pending(j)' = S!Pending(j), UNCHANGED <<client, doubt>>
        PROVE  CurrentInv'
    BY <1>2, <1>4, CurrentRest, EventsConstants DEF EventsAssumed
  <1>5. CASE S!Listen(i)
    <2>1. UNCHANGED <<writer, inbox, client, doubt>>
      BY <1>5 DEF S!Listen
    <2>2. \A j \in Instances : S!Pending(j)' = S!Pending(j)
      BY <2>1, PendingStays DEF Awaits
    <2> QED  BY <1>4, <2>1, <2>2
  <1>6. CASE S!Break(i)
    <2>1. /\ inbox'[i] = <<>> /\ (\A j \in Instances \ {i} : inbox'[j] = inbox[j]) /\ UNCHANGED client
          /\ doubt \subseteq doubt'
          /\ (\E k \in DOMAIN inbox[i] : inbox[i][k].origin # i) =>
                \A c \in Clients : client[c].at # "off" /\ Home[c] = i => c \in doubt'
      BY <1>1, <1>6 DEF S!Break, S!MissedAt, S!Linked, S!Own, S!ToSet
    <2>2. S!Pending(i)' \subseteq S!Pending(i)
      <3>1. \A row : Awaits(i, row)' => Awaits(i, row)
        BY <1>2, <2>1 DEF Awaits
      <3> QED  BY <3>1, PendingRows
    <2>3. ASSUME \A k \in DOMAIN inbox[i] : inbox[i][k].origin = i
          PROVE  S!Pending(i)' = S!Pending(i)
      BY <1>2, <2>1, <2>3, PendingStays DEF Awaits
    <2>4. \A c \in Clients : client'[c].at # "off" /\ c \notin doubt' =>
             /\ client[c].at # "off" /\ c \notin doubt /\ client'[c].view = client[c].view
             /\ S!Pending(Home[c])' = S!Pending(Home[c])
      <3>1. \A c \in Clients : Home[c] \in Instances
        BY EventsConstants DEF EventsAssumed
      <3> QED  BY <1>3, <2>1, <2>3, <3>1
    <2> QED  BY <1>2, <1>3, <2>1, <2>2, <2>4, CurrentRest
  <1>7. CASE S!Relay(i)
    <2> PICK e : e = Head(inbox[i])
      OBVIOUS
    <2>1. /\ inbox[i] # <<>> /\ inbox'[i] = Tail(inbox[i]) /\ \A j \in Instances \ {i} : inbox'[j] = inbox[j]
          /\ IF e.origin = i THEN UNCHANGED <<client, doubt>> ELSE S!Send(i, e)
      BY <1>1, <1>7 DEF S!Relay, S!Own
    <2>2. /\ e \in Event /\ e = inbox[i][1] /\ 1 \in DOMAIN inbox[i]
          /\ \A k \in DOMAIN inbox'[i] : k + 1 \in DOMAIN inbox[i] /\ inbox'[i][k] = inbox[i][k + 1]
          /\ \A k \in DOMAIN inbox[i] : k = 1 \/ (k - 1 \in DOMAIN inbox'[i] /\ inbox[i][k] = inbox'[i][k - 1])
      BY <1>1, <2>1
    <2>3. S!Pending(i)' \subseteq S!Pending(i)
      <3>1. \A row : Awaits(i, row)' => Awaits(i, row)
        BY <1>2, <2>2 DEF Awaits
      <3> QED  BY <3>1, PendingRows
    <2>4. CASE e.origin = i
      <3>1. \A row : Awaits(i, row) => Awaits(i, row)'
        BY <1>2, <2>2, <2>4 DEF Awaits
      <3>2. S!Pending(i)' = S!Pending(i)
        BY <2>3, <3>1, PendingRows
      <3> QED  BY <1>3, <1>4, <2>1, <2>4, <3>2
    <2>5. CASE e.origin # i
      <3>1. e.row \in S!Pending(i)
        BY <2>2, <2>5, PendingRows DEF Awaits
      <3>2. ASSUME NEW c \in Clients, client'[c].at # "off", c \notin doubt'
            PROVE  \/ /\ client[c].at # "off" /\ c \notin doubt /\ client'[c].view = client[c].view
                      /\ S!Pending(Home[c])' = S!Pending(Home[c])
                   \/ client'[c].view = version /\ \A row \in S!Pending(Home[c]) : row = version
        <4>1. client[c].at # "off" /\ c \notin doubt /\ Current(c) /\ client[c] \in ClientRow
          BY <2>1, <2>2, <2>5, <3>2, Sends DEF CurrentInv, EventsTyped
        <4>2. CASE Home[c] = i
          <5>1. client[c].at = "open"
            BY <2>1, <2>2, <2>5, <3>2, <4>1, <4>2, Sends, ClientRows
          <5>2. client'[c].view = e.row
            BY <2>1, <2>2, <2>5, <4>2, <5>1, Sends
          <5> QED  BY <3>1, <4>1, <4>2, <5>2 DEF Current
        <4>3. CASE Home[c] # i
          <5>1. client'[c] = client[c] /\ Home[c] \in Instances \ {i}
            BY <2>1, <2>2, <2>5, <4>3, Sends, EventsConstants DEF EventsAssumed
          <5> QED  BY <1>3, <2>1, <4>1, <5>1
        <4> QED  BY <4>2, <4>3
      <3>3. \A j \in Instances : S!Pending(j)' \subseteq S!Pending(j)
        BY <1>3, <2>1, <2>3
      <3> QED  BY <1>2, <3>2, <3>3, CurrentRest
    <2> QED  BY <2>4, <2>5
  <1> QED  BY <1>5, <1>6, <1>7

LEMMA CurrentByClient ==
  ASSUME EventsTyped, CurrentInv, NEW c \in Clients,
         S!Load(c) \/ S!LoadFails(c) \/ S!Connect(c) \/ S!Disconnect(c)
  PROVE  CurrentInv'
  <1>1. \A d \in Clients : Home[d] \in Instances
    BY EventsConstants DEF EventsAssumed
  <1>2. UNCHANGED <<version, writer, inbox>> /\ (Changing => Changing')
    BY ClientMoves DEF Changing
  <1>3. \A j : S!Pending(j)' = S!Pending(j)
    BY <1>2, PendingStays DEF Awaits
  <1>4. ~S!Overtaken(c) => \A row \in S!Pending(Home[c]) : row = version
    <2>1. \A row \in S!Pending(Home[c]) : row <= version
      BY <1>1 DEF CurrentInv
    <2>2. \A row \in S!Pending(Home[c]) : row \in Nat
      <3> TAKE row \in S!Pending(Home[c])
      <3>1. Awaits(Home[c], row)
        BY PendingRows
      <3>2. \A x \in Writes : writer[x].at \in {"read", "told"} => writer[x].row \in Versions
        BY WriterRows DEF EventsTyped
      <3>3. \A k \in DOMAIN inbox[Home[c]] : inbox[Home[c]][k] \in Event
        <4>1. inbox[Home[c]] \in Seq(Event)
          BY <1>1 DEF EventsTyped
        <4> QED  BY <4>1
      <3>4. row \in Versions
        BY <3>1, <3>2, <3>3 DEF Awaits, Event
      <3> QED  BY <3>4, VersionsAreVersions DEF Versions
    <2>3. version \in Nat
      BY VersionsAreVersions DEF EventsTyped, Versions
    <2> QED  BY <2>1, <2>2, <2>3 DEF S!Overtaken
  <1>5. ASSUME NEW d \in Clients, client'[d].at # "off", d \notin doubt'
        PROVE  \/ /\ client[d].at # "off" /\ d \notin doubt /\ client'[d].view = client[d].view
                  /\ S!Pending(Home[d])' = S!Pending(Home[d])
               \/ client'[d].view = version /\ \A row \in S!Pending(Home[d]) : row = version
    <2>1. CASE d # c
      BY <1>3, <1>5, <2>1, ClientMoves
    <2>2. CASE d = c
      BY <1>3, <1>4, <1>5, <2>2, ClientMoves
    <2> QED  BY <2>1, <2>2
  <1> QED  BY <1>2, <1>3, <1>5, CurrentRest

EventsInv == EventsTyped /\ ToldInv /\ CurrentInv

LEMMA EventsRest == EventsInv /\ UNCHANGED events => EventsInv'
  <1> SUFFICES ASSUME EventsInv, UNCHANGED events PROVE EventsInv'
    OBVIOUS
  <1> USE DEF events
  <1>1. EventsTyped'
    BY DEF EventsInv, EventsTyped, Made
  <1>2. ToldInv'
    BY DEF EventsInv, ToldInv, WaitsWell, HeardWell, HasHeard, Waits
  <1>3. \A i : S!Pending(i)' = S!Pending(i)
    BY PendingStays DEF Awaits
  <1>4. CurrentInv'
    BY <1>3 DEF EventsInv, CurrentInv, Current, Changing
  <1> QED  BY <1>1, <1>2, <1>4 DEF EventsInv

LEMMA EventsStep == EventsInv /\ S!Next => EventsInv'
  <1> SUFFICES ASSUME EventsInv, S!Next PROVE EventsInv'
    OBVIOUS
  <1> USE DEF EventsInv
  <1>1. ASSUME NEW w \in Writes,
               \/ \E i \in Instances : S!Commit(w, i)
               \/ S!Refresh(w) \/ S!Broadcast(w) \/ S!Publish(w) \/ S!PublishFails(w) \/ S!Abandon(w)
        PROVE  EventsInv'
    <2>1. EventsTyped'
      BY <1>1, EventsWriteTyped
    <2> QED  BY <1>1, <2>1, ToldByWriting, CurrentByWriting
  <1>2. ASSUME NEW i \in Instances, S!Listen(i) \/ S!Break(i) \/ S!Relay(i)
        PROVE  EventsInv'
    <2>1. EventsTyped'
      BY <1>2, EventsRelayTyped
    <2> QED  BY <1>2, <2>1, ToldByRelay, CurrentByRelay
  <1>3. ASSUME NEW c \in Clients, S!Load(c) \/ S!LoadFails(c) \/ S!Connect(c) \/ S!Disconnect(c)
        PROVE  EventsInv'
    BY <1>3, ClientMoves, ToldByClient, CurrentByClient
  <1> QED  BY <1>1, <1>2, <1>3 DEF S!Next

THEOREM EventsInvariant == Spec => []EventsInv
  <1>1. Init => EventsInv
    <2> SUFFICES ASSUME Init PROVE EventsInv
      OBVIOUS
    <2>1. ToldInv
      BY EventsConstants DEF Init, S!Init, S!Off, ToldInv, WaitsWell, EventsAssumed
    <2>2. \A i \in Instances : S!Pending(i) = {}
      <3>1. \A i \in Instances : \A row : ~Awaits(i, row)
        BY DEF Init, S!Init, Awaits
      <3> QED  BY <3>1, PendingRows
    <2>3. CurrentInv
      BY <2>2 DEF Init, S!Init, S!Off, CurrentInv
    <2> QED  BY <2>1, <2>3, EventsInit DEF EventsInv
  <1>2. EventsInv /\ [Next]_<<people, models, events, plugins, side>> => EventsInv'
    BY EventsStep, EventsRest DEF Next, People, Models, Events, Tools
  <1> QED  BY <1>1, <1>2, PTL DEF Spec

\* A client that no event missed and no two changes crossed shows the committed
\* task once all is delivered, and is told of each change at most once, for any
\* number of instances, clients and changes (relay.py, manager.py, router.py).
THEOREM ClientsFollowTask == Spec => []ClientsFollow
  <1>1. EventsInv => ClientsFollow
    <2> SUFFICES ASSUME EventsInv PROVE ClientsFollow
      OBVIOUS
    <2>1. S!ClientIsCurrent
      BY DEF EventsInv, CurrentInv, Current, Changing, S!ClientIsCurrent, S!Settled
    <2>2. S!ToldOnce
      BY DEF EventsInv, ToldInv, HeardWell, S!ToldOnce, S!Linked, S!IsInjective
    <2> QED  BY <2>1, <2>2 DEF ClientsFollow, S!ClientsFollow
  <1> QED  BY <1>1, EventsInvariant, PTL

-----------------------------------------------------------------------------
(* Plugins: types                                                             *)

PluginsAssumed ==
    /\ Manifests \subseteq [Plugins -> [object : BOOLEAN, tools : SUBSET ToolNames]]
    /\ MaxUses \in Nat /\ MaxAttempts \in Nat \ {0}

LEMMA PluginsConstants == PluginsAssumed
  BY ConsoleAssumption DEF PluginsAssumed, P!PluginsAssumption

MountRow == [plugin : Plugins, on : {"on", "off"}, config : P!Configs]
PostRow == [to : Plugins, why : ToolNames \cup {"notice"}, call : 1..(MaxUses + 1), made : 0..(MaxAttempts - 1)]
LogRow == [call : 1..(MaxUses + 1), to : Plugins, why : ToolNames \cup {"notice"}, how : {"answer", "error"}]

Edited(e) ==
    /\ e.do \in {"none", "register", "change", "done"}
    /\ e.do = "register" => e.plugin \in Plugins
    /\ e.do = "change" =>
          /\ e.plugin \in listed /\ e.had \subseteq MountRow
          /\ e.on \in {"on", "off", "same"} /\ e.config \in P!Configs \cup {"same"}

\* A plugin is mounted once.
MountsTyped ==
    /\ manifest \in [Plugins -> [object : BOOLEAN, tools : SUBSET ToolNames]]
    /\ listed \subseteq Plugins
    /\ mounts \in Seq(MountRow) /\ \A i \in DOMAIN mounts : mounts[i].plugin \in listed
    /\ \A i, j \in DOMAIN mounts : mounts[i].plugin = mounts[j].plugin => i = j
    /\ edit = [r \in Patches |-> edit[r]] /\ \A r \in Patches : Edited(edit[r])

Posted == post # P!NoPost

\* What the task has loaded, and whom it has still to tell.
JobTyped ==
    /\ job.at \in {"waiting", "model", "ended", "telling"}
    /\ job.at = "model" =>
          /\ job = [at |-> "model", tools |-> job.tools, uses |-> job.uses] /\ job.uses \in 0..MaxUses
          /\ \A n \in DOMAIN job.tools : job.tools[n] \in listed
    /\ job.at = "telling" => job.targets \subseteq listed /\ due \subseteq job.targets
    /\ Posted => post \in PostRow /\ post.to \in listed
    /\ log \in Seq(LogRow)

LEMMA RowsAreSequence ==
  ASSUME NEW s, NEW n \in Nat, NEW R, s = [i \in 1..n |-> s[i]], \A i \in 1..n : s[i] \in R
  PROVE  s \in Seq(R) /\ DOMAIN s = 1..n /\ Len(s) = n
  <1>1. [i \in 1..n |-> s[i]] \in [1..n -> R]
    OBVIOUS
  <1>2. s \in [1..n -> R]
    BY <1>1
  <1> QED  BY <1>2

LEMMA CountingOfPlugins == \A T : P!Cardinality(T) = Cardinality(T)
  BY DEF P!Cardinality, Cardinality

LEMMA PluginsTypes == MountsTyped /\ JobTyped => P!TypeOK
  <1> SUFFICES ASSUME MountsTyped, JobTyped PROVE P!TypeOK
    OBVIOUS
  <1>1. mounts \in Seq([plugin : listed, on : {"on", "off"}, config : P!Configs])
    <2>1. ASSUME NEW i \in DOMAIN mounts
          PROVE  mounts[i] \in [plugin : listed, on : {"on", "off"}, config : P!Configs]
      <3>1. mounts[i] \in MountRow /\ mounts[i].plugin \in listed
        BY <2>1 DEF MountsTyped
      <3> QED  BY <3>1 DEF MountRow
    <2> PICK n \in Nat : n = Len(mounts)
      BY DEF MountsTyped
    <2>2. mounts = [i \in 1..n |-> mounts[i]]
      BY DEF MountsTyped
    <2> QED  BY <2>1, <2>2, RowsAreSequence
  <1>2. ASSUME NEW p \in Plugins
        PROVE  P!Cardinality(P!MountOf(p)) <= 1
    <2>1. \A i, j \in P!MountOf(p) : i = j
      BY DEF MountsTyped, P!MountOf
    <2>2. CASE P!MountOf(p) = {}
      BY <2>2, CountingOfPlugins, FS_EmptySet
    <2>3. CASE P!MountOf(p) # {}
      <3>1. PICK i : P!MountOf(p) = {i}
        BY <2>1, <2>3
      <3>2. Cardinality({i}) = 1
        BY FS_Singleton
      <3> QED  BY <3>1, <3>2, CountingOfPlugins
    <2> QED  BY <2>2, <2>3
  <1>3. Posted => post.to \in listed /\ post.made \in 0..(MaxAttempts - 1)
    BY DEF JobTyped, PostRow
  <1> QED  BY <1>1, <1>2, <1>3 DEF MountsTyped, JobTyped, Posted, P!TypeOK

LEMMA EditsTyped ==
  ASSUME MountsTyped, NEW r \in Patches,
         \/ P!Register(r) \/ P!Change(r)
         \/ \E p \in Plugins :
               \/ P!BeginRegister(r, p)
               \/ \E on \in {"on", "off", "same"}, config \in P!Configs \cup {"same"} :
                     P!BeginChange(r, p, on, config)
  PROVE  MountsTyped' /\ UNCHANGED <<manifest, job, post, due, log>> /\ listed \subseteq listed'
  <1> USE DEF MountsTyped
  <1>1. ASSUME NEW st, Edited(st), edit' = [edit EXCEPT ![r] = st], UNCHANGED <<manifest, listed, mounts>>
        PROVE  MountsTyped'
    <2>1. edit' = [q \in Patches |-> edit'[q]] /\ \A q \in Patches : Edited(edit'[q])
      BY <1>1
    <2> QED  BY <1>1, <2>1 DEF Edited
  <1>2. ASSUME NEW p \in Plugins, P!BeginRegister(r, p)
        PROVE  MountsTyped' /\ UNCHANGED <<manifest, job, post, due, log>> /\ listed \subseteq listed'
    <2>1. Edited([do |-> "register", plugin |-> p])
      BY DEF Edited
    <2> QED  BY <1>1, <1>2, <2>1 DEF P!BeginRegister, P!Reads
  <1>3. ASSUME NEW p \in Plugins, NEW on \in {"on", "off", "same"}, NEW config \in P!Configs \cup {"same"},
               P!BeginChange(r, p, on, config)
        PROVE  MountsTyped' /\ UNCHANGED <<manifest, job, post, due, log>> /\ listed \subseteq listed'
    <2> PICK had : had = {mounts[i] : i \in P!MountOf(p)}
      OBVIOUS
    <2>1. had \subseteq MountRow /\ p \in listed
      BY <1>3 DEF P!BeginChange, P!MountOf
    <2>2. Edited([do |-> "change", plugin |-> p, on |-> on, config |-> config, had |-> had])
      BY <2>1 DEF Edited
    <2> QED  BY <1>1, <1>3, <2>2 DEF P!BeginChange, P!Reads
  <1>4. \A q \in Patches : q # r => Edited(edit[q])
    OBVIOUS
  <1>5. ASSUME listed \subseteq listed', edit' = [edit EXCEPT ![r] = [do |-> "done"]]
        PROVE  edit' = [q \in Patches |-> edit'[q]] /\ \A q \in Patches : Edited(edit[q])'
    <2>1. edit' = [q \in Patches |-> edit'[q]] /\ edit'[r] = [do |-> "done"]
          /\ \A q \in Patches \ {r} : edit'[q] = edit[q]
      BY <1>5
    <2>2. ASSUME NEW q \in Patches PROVE Edited(edit[q])'
      <3>1. CASE q = r
        BY <2>1, <3>1 DEF Edited
      <3>2. CASE q # r
        BY <1>4, <1>5, <2>1, <3>2 DEF Edited
      <3> QED  BY <3>1, <3>2
    <2> QED  BY <2>1, <2>2
  <1>6. CASE P!Register(r)
    <2>1. /\ listed' = listed \cup {edit[r].plugin} /\ edit[r].plugin \in Plugins
          /\ edit' = [edit EXCEPT ![r] = [do |-> "done"]]
          /\ UNCHANGED <<manifest, mounts, job, post, due, log>>
      BY <1>6 DEF P!Register, P!Saves, Edited
    <2>2. listed \subseteq listed' /\ listed' \subseteq Plugins
      BY <2>1
    <2> QED  BY <1>5, <2>1, <2>2
  <1>7. CASE P!Change(r)
    <2> PICK e : e = edit[r]
      OBVIOUS
    <2>1. /\ e.do = "change" /\ Edited(e) /\ e.plugin \in listed /\ e.plugin \in Plugins
          /\ edit' = [edit EXCEPT ![r] = [do |-> "done"]]
          /\ UNCHANGED <<manifest, listed, job, post, due, log>>
      BY <1>7 DEF P!Change, P!Saves, Edited
    <2>2. ASSUME mounts' \in Seq(MountRow), \A i \in DOMAIN mounts' : mounts'[i].plugin \in listed,
                 \A i, j \in DOMAIN mounts' : mounts'[i].plugin = mounts'[j].plugin => i = j
          PROVE  MountsTyped'
      BY <1>5, <2>1, <2>2
    <2> PICK n \in Nat : n = Len(mounts)
      OBVIOUS
    <2>3. DOMAIN mounts = 1..n /\ \A i \in 1..n : mounts[i] \in MountRow
      OBVIOUS
    <2>4. CASE e.had # {}
      <3> PICK was : was = CHOOSE h \in e.had : TRUE
        OBVIOUS
      <3>1. mounts' = [i \in 1..n |->
                  IF mounts[i].plugin # e.plugin THEN mounts[i] ELSE
                  [mounts[i] EXCEPT !.on = P!Written(e.on, was.on, mounts[i].on),
                                    !.config = P!Written(e.config, was.config, mounts[i].config)]]
        BY <1>7, <2>3, <2>4 DEF P!Change
      <3>2. ASSUME NEW i \in 1..n
            PROVE  mounts'[i] \in MountRow /\ mounts'[i].plugin = mounts[i].plugin
        <4>1. CASE mounts[i].plugin # e.plugin
          BY <2>3, <3>1, <4>1
        <4>2. CASE mounts[i].plugin = e.plugin
          <5> PICK on : on = P!Written(e.on, was.on, mounts[i].on)
            OBVIOUS
          <5> PICK config : config = P!Written(e.config, was.config, mounts[i].config)
            OBVIOUS
          <5>1. mounts'[i] = [mounts[i] EXCEPT !.on = on, !.config = config]
            BY <3>1, <4>2
          <5>2. mounts[i] \in MountRow
            BY <2>3
          <5>3. on \in {"on", "off"} /\ config \in P!Configs
            BY <2>1, <5>2 DEF P!Written, Edited, MountRow
          <5> QED  BY <5>1, <5>2, <5>3 DEF MountRow
        <4> QED  BY <4>1, <4>2
      <3>3. mounts' = [i \in 1..n |-> mounts'[i]]
        <4> DEFINE now(i) ==
              IF mounts[i].plugin # e.plugin THEN mounts[i] ELSE
              [mounts[i] EXCEPT !.on = P!Written(e.on, was.on, mounts[i].on),
                                !.config = P!Written(e.config, was.config, mounts[i].config)]
        <4>1. mounts' = [i \in 1..n |-> now(i)]
          BY <3>1
        <4> HIDE DEF now
        <4> QED  BY <4>1
      <3>4. mounts' \in Seq(MountRow) /\ DOMAIN mounts' = 1..n
        BY <3>2, <3>3, RowsAreSequence
      <3> QED  BY <2>1, <2>2, <2>3, <3>2, <3>4
    <2>5. CASE e.had = {} /\ P!MountOf(e.plugin) # {}
      <3>1. mounts' = mounts
        BY <1>7, <2>5 DEF P!Change
      <3> QED  BY <2>1, <2>2, <3>1
    <2>6. CASE e.had = {} /\ P!MountOf(e.plugin) = {}
      <3> PICK row : row = [plugin |-> e.plugin, on |-> P!Given(e.on, "off"), config |-> P!Given(e.config, "none")]
        OBVIOUS
      <3>1. mounts' = Append(mounts, row)
        BY <1>7, <2>6 DEF P!Change
      <3>2. row \in MountRow /\ row.plugin = e.plugin
        BY <2>1 DEF P!Given, P!Configs, Edited, MountRow
      <3>3. /\ mounts' \in Seq(MountRow) /\ DOMAIN mounts' = 1..(n + 1) /\ mounts'[n + 1] = row
            /\ \A i \in 1..n : mounts'[i] = mounts[i]
        BY <2>3, <3>1, <3>2
      <3>4. \A i \in 1..n : mounts[i].plugin # e.plugin
        BY <2>3, <2>6 DEF P!MountOf
      <3>5. \A i \in 1..(n + 1) : i = n + 1 \/ i \in 1..n
        OBVIOUS
      <3>6. \A i \in 1..(n + 1) : mounts'[i].plugin \in listed
        BY <2>1, <2>3, <3>2, <3>3, <3>5
      <3>7. \A i, j \in 1..(n + 1) : mounts'[i].plugin = mounts'[j].plugin => i = j
        BY <2>3, <3>2, <3>3, <3>4, <3>5
      <3> QED  BY <2>1, <2>2, <3>3, <3>6, <3>7
    <2> QED  BY <2>4, <2>5, <2>6
  <1> QED  BY <1>2, <1>3, <1>6, <1>7

-----------------------------------------------------------------------------
(* Plugins: a request reaches the plugin it is for                            *)

Underway(c, p) == Posted /\ post.call = c /\ post.to = p

\* What is requested at each stage of the task; Told(p): p has been asked or is.
JobInv ==
    /\ job.at = "waiting" => log = <<>> /\ ~Posted /\ due = {}
    /\ job.at = "model" =>
          /\ due = {}
          /\ \A i \in DOMAIN log :
                log[i].call <= job.uses /\ log[i].why \in DOMAIN job.tools /\ log[i].to = job.tools[log[i].why]
          /\ Posted => post.call = job.uses /\ post.why \in DOMAIN job.tools /\ post.to = job.tools[post.why]
    /\ job.at = "ended" => ~Posted /\ due = {} /\ \A i \in DOMAIN log : log[i].call <= MaxUses
    /\ job.at = "telling" =>
          /\ \A i \in DOMAIN log : log[i].call = MaxUses + 1 => log[i].to \in job.targets \ due
          /\ Posted => post.call = MaxUses + 1 /\ post.to \in job.targets \ due
          /\ \A p \in job.targets \ due : P!Tries(MaxUses + 1, p) # {} \/ Underway(MaxUses + 1, p)

\* The request under way has failed as often as it was made; each other request
\* that was made is concluded.
TriesInv ==
    /\ Posted => /\ Cardinality(P!Tries(post.call, post.to)) = post.made
                 /\ \A i \in P!Tries(post.call, post.to) : log[i].how = "error"
    /\ \A i \in DOMAIN log :
          Underway(log[i].call, log[i].to) \/ P!Concluded(P!Tries(log[i].call, log[i].to))

\* The tools on offer are of mounted plugins.
LEMMA OfferIsOfMounted ==
  ASSUME MountsTyped, NEW n \in DOMAIN P!Offered
  PROVE  P!Offered[n] \in listed
  <1> DEFINE having == {i \in P!Enabled : P!Has(i, n)}
  <1>1. having \in SUBSET Nat /\ having # {}
    BY DEF MountsTyped, P!Offered, P!Enabled
  <1>2. \E i \in having : \A j \in having : i <= j
    BY <1>1, LeastExists
  <1>3. \E i \in P!Enabled : P!Has(i, n) /\ \A j \in P!Enabled : j < i => ~P!Has(j, n)
    <2>1. PICK i \in having : \A j \in having : i <= j
      BY <1>2
    <2>2. \A j \in having : ~(j < i)
      BY <1>1, <2>1
    <2> QED  BY <2>1, <2>2
  <1>4. PICK i \in P!Enabled : P!Offered[n] = mounts[i].plugin
    BY <1>3 DEF P!Offered
  <1> QED  BY <1>4 DEF P!Enabled, MountsTyped

LEMMA TargetsAreListed == MountsTyped => P!Targets \subseteq listed
  BY DEF MountsTyped, P!Targets, P!Enabled

LEMMA RequestIsPosted == \A row \in PostRow : row # P!NoPost
  <1> TAKE row \in PostRow
  <1>1. DOMAIN row = {"to", "why", "call", "made"}
    BY DEF PostRow
  <1>2. DOMAIN P!NoPost = {"to"}
    BY DEF P!NoPost
  <1>3. "made" \notin {"to"}
    OBVIOUS
  <1> QED  BY <1>1, <1>2, <1>3

\* A change of the mounts leaves the task alone.
LEMMA EditsLeaveJob ==
  ASSUME JobTyped, JobInv, TriesInv, UNCHANGED <<job, post, due, log>>, listed \subseteq listed'
  PROVE  JobTyped' /\ JobInv' /\ TriesInv'
  <1>1. JobTyped'
    BY DEF JobTyped, Posted
  <1>2. \A c, p : /\ Underway(c, p)' = Underway(c, p)
                  /\ P!Tries(c, p)' = P!Tries(c, p)
                  /\ P!Concluded(P!Tries(c, p))' = P!Concluded(P!Tries(c, p))
    BY DEF Underway, Posted, P!Tries, P!Concluded, P!Persistent
  <1>3. JobInv'
    BY <1>2 DEF JobInv, Posted
  <1>4. TriesInv'
    BY <1>2 DEF TriesInv, Posted
  <1> QED  BY <1>1, <1>3, <1>4

\* As long as the log stays the same and no request ends or begins, what was
\* made of each request does.
LEMMA TriesRest ==
  ASSUME TriesInv, UNCHANGED <<post, log>>
  PROVE  TriesInv'
  <1>1. \A c, p : /\ Underway(c, p)' = Underway(c, p)
                  /\ P!Tries(c, p)' = P!Tries(c, p)
                  /\ P!Concluded(P!Tries(c, p))' = P!Concluded(P!Tries(c, p))
    BY DEF Underway, Posted, P!Tries, P!Concluded, P!Persistent
  <1> QED  BY <1>1 DEF TriesInv, Posted

\* A request begins, that is the first of its call and plugin.
LEMMA TriesBegin ==
  ASSUME JobTyped, TriesInv, ~Posted, post' \in PostRow, post'.made = 0, UNCHANGED log,
         P!Tries(post'.call, post'.to) = {}
  PROVE  TriesInv'
  <1>1. \A c, p : /\ P!Tries(c, p)' = P!Tries(c, p)
                  /\ P!Concluded(P!Tries(c, p))' = P!Concluded(P!Tries(c, p))
    BY DEF P!Tries, P!Concluded, P!Persistent
  <1>2. P!Tries(post.call, post.to)' = {}
    BY DEF P!Tries
  <1>3. Cardinality(P!Tries(post.call, post.to)') = 0
    BY <1>2, FS_EmptySet
  <1>4. \A i \in DOMAIN log : P!Concluded(P!Tries(log[i].call, log[i].to))
    BY DEF TriesInv, Underway
  <1> QED  BY <1>1, <1>2, <1>3, <1>4 DEF TriesInv

\* The job's own steps, and the announcement.
LEMMA JobStep ==
  ASSUME MountsTyped, JobTyped, JobInv, TriesInv,
         \/ P!LoadTools \/ P!End \/ P!Announce
         \/ \E n \in ToolNames : P!UseTool(n)
         \/ \E p \in Plugins : P!TellNext(p)
  PROVE  JobTyped' /\ JobInv' /\ TriesInv' /\ UNCHANGED <<manifest, listed, mounts, edit>>
  <1> USE PluginsConstants DEF PluginsAssumed
  <1>0. \A i \in DOMAIN log : log[i].call \in 1..(MaxUses + 1)
    <2>1. \A i \in DOMAIN log : log[i] \in LogRow
      BY DEF JobTyped
    <2> QED  BY <2>1 DEF LogRow
  <1>1. CASE P!LoadTools
    <2> PICK tools : tools = P!Offered
      OBVIOUS
    <2>1. /\ job.at = "waiting" /\ log = <<>> /\ ~Posted /\ due = {}
          /\ job' = [at |-> "ended"] \/ job' = [at |-> "model", tools |-> tools, uses |-> 0]
          /\ UNCHANGED <<manifest, listed, mounts, edit, post, due, log>>
      BY <1>1 DEF P!LoadTools, JobInv
    <2>2. \A n \in DOMAIN tools : tools[n] \in listed
      BY OfferIsOfMounted
    <2>3. JobTyped'
      BY <2>1, <2>2 DEF JobTyped, Posted
    <2>4. JobInv'
      BY <2>1 DEF JobInv, Posted
    <2> QED  BY <2>1, <2>3, <2>4, TriesRest
  <1>2. CASE P!End
    <2>1. /\ job.at = "model" /\ ~Posted /\ due = {} /\ job' = [at |-> "ended"]
          /\ UNCHANGED <<manifest, listed, mounts, edit, post, due, log>>
      BY <1>2 DEF P!End, JobInv, Posted
    <2>2. \A i \in DOMAIN log : log[i].call <= MaxUses
      BY <1>0, <2>1 DEF JobInv, JobTyped
    <2>3. JobTyped'
      BY <2>1 DEF JobTyped, Posted
    <2>4. JobInv'
      BY <2>1, <2>2 DEF JobInv, Posted
    <2> QED  BY <2>1, <2>3, <2>4, TriesRest
  <1>3. CASE P!Announce
    <2> PICK targets : targets = P!Targets
      OBVIOUS
    <2>1. /\ job.at = "ended" /\ ~Posted /\ job' = [at |-> "telling", targets |-> targets] /\ due' = targets
          /\ UNCHANGED <<manifest, listed, mounts, edit, post, log>>
          /\ \A i \in DOMAIN log : log[i].call <= MaxUses
      BY <1>3 DEF P!Announce, JobInv
    <2>2. targets \subseteq listed
      BY TargetsAreListed
    <2>3. JobTyped'
      BY <2>1, <2>2 DEF JobTyped, Posted
    <2>4. \A i \in DOMAIN log : log[i].call # MaxUses + 1
      BY <1>0, <2>1
    <2>5. JobInv'
      BY <2>1, <2>4 DEF JobInv, Posted
    <2> QED  BY <2>1, <2>3, <2>5, TriesRest
  <1>4. ASSUME NEW n \in ToolNames, P!UseTool(n)
        PROVE  JobTyped' /\ JobInv' /\ TriesInv' /\ UNCHANGED <<manifest, listed, mounts, edit>>
    <2> PICK tools : tools = job.tools
      OBVIOUS
    <2> PICK uses \in 0..MaxUses : job = [at |-> "model", tools |-> tools, uses |-> uses]
      BY <1>4 DEF P!UseTool, JobTyped
    <2>1. /\ job.at = "model" /\ uses < MaxUses /\ ~Posted /\ due = {}
          /\ job' = [at |-> "model", tools |-> tools, uses |-> uses + 1]
          /\ UNCHANGED <<manifest, listed, mounts, edit, due, log>>
      BY <1>4 DEF P!UseTool, JobInv, Posted
    <2>2. /\ \A x \in DOMAIN tools : tools[x] \in listed
          /\ \A i \in DOMAIN log : log[i].call <= uses /\ log[i].why \in DOMAIN tools /\ log[i].to = tools[log[i].why]
      BY <2>1 DEF JobTyped, JobInv
    <2>3. uses + 1 \in 0..MaxUses /\ \A i \in DOMAIN log : log[i].call <= uses + 1 /\ log[i].call # uses + 1
      BY <1>0, <2>1, <2>2
    <2>4. CASE post' = P!NoPost
      <3>1. post = P!NoPost
        BY <2>1 DEF Posted
      <3>2. JobTyped'
        BY <2>1, <2>2, <2>3, <2>4 DEF JobTyped, Posted
      <3>3. JobInv'
        BY <2>1, <2>2, <2>3, <2>4 DEF JobInv, Posted
      <3> QED  BY <2>1, <2>4, <3>1, <3>2, <3>3, TriesRest
    <2>5. CASE post' # P!NoPost
      <3>1. P!Record(n) # {} /\ post' = [to |-> CHOOSE p \in P!Record(n) : TRUE, why |-> n, call |-> uses + 1, made |-> 0]
        BY <1>4, <2>5 DEF P!UseTool
      <3>2. n \in DOMAIN tools /\ P!Record(n) = {tools[n]}
        BY <3>1 DEF P!Record
      <3>3. post' = [to |-> tools[n], why |-> n, call |-> uses + 1, made |-> 0]
        BY <3>1, <3>2
      <3>4. tools[n] \in listed /\ tools[n] \in Plugins
        BY <2>2, <3>2 DEF MountsTyped
      <3>5. post' \in PostRow
        BY <2>3, <3>3, <3>4 DEF PostRow
      <3>6. JobTyped'
        BY <2>1, <2>2, <2>3, <3>3, <3>4, <3>5 DEF JobTyped, Posted
      <3>7. JobInv'
        BY <2>1, <2>2, <2>3, <3>2, <3>3 DEF JobInv, Posted
      <3>8. P!Tries(post'.call, post'.to) = {}
        BY <2>3, <3>3 DEF P!Tries
      <3>9. post'.made = 0
        BY <3>3
      <3> QED  BY <2>1, <3>5, <3>6, <3>7, <3>8, <3>9, TriesBegin
    <2> QED  BY <2>4, <2>5
  <1>5. ASSUME NEW p \in Plugins, P!TellNext(p)
        PROVE  JobTyped' /\ JobInv' /\ TriesInv' /\ UNCHANGED <<manifest, listed, mounts, edit>>
    <2> PICK targets : targets = job.targets
      OBVIOUS
    <2>1. /\ job.at = "telling" /\ p \in due /\ ~Posted /\ due' = due \ {p}
          /\ post' = [to |-> p, why |-> "notice", call |-> MaxUses + 1, made |-> 0]
          /\ UNCHANGED <<manifest, listed, mounts, edit, job, log>>
      BY <1>5 DEF P!TellNext, P!Announcement, Posted
    <2>2. post' \in PostRow
      BY <2>1 DEF PostRow
    <2>3. targets \subseteq listed /\ due \subseteq targets
      BY <2>1 DEF JobTyped
    <2>4. JobTyped'
      BY <2>1, <2>2, <2>3 DEF JobTyped, Posted
    <2>5. \A c, q : P!Tries(c, q)' = P!Tries(c, q)
      BY <2>1 DEF P!Tries
    <2>6. Posted'
      BY <2>2, RequestIsPosted DEF Posted
    <2>7. \A q : Underway(MaxUses + 1, q)' <=> q = p
      BY <2>1, <2>6 DEF Underway
    <2>8. /\ \A i \in DOMAIN log : log[i].call = MaxUses + 1 => log[i].to \in targets \ due
          /\ \A q \in targets \ due : P!Tries(MaxUses + 1, q) # {}
      BY <2>1 DEF JobInv, Underway
    <2>9. JobInv'
      BY <2>1, <2>3, <2>5, <2>7, <2>8 DEF JobInv
    <2>10. P!Tries(post'.call, post'.to) = {}
      BY <2>1, <2>8 DEF P!Tries
    <2>11. post'.made = 0
      BY <2>1
    <2> QED  BY <2>1, <2>2, <2>4, <2>9, <2>10, <2>11, TriesBegin
  <1> QED  BY <1>1, <1>2, <1>3, <1>4, <1>5

\* An attempt adds itself to those of its request, and to no others.
LEMMA AttemptIsLogged ==
  ASSUME JobTyped, NEW how \in {"answer", "error"}, P!Attempt(how)
  PROVE  \E n \in Nat :
           /\ n = Len(log) /\ DOMAIN log = 1..n /\ DOMAIN log' = 1..(n + 1) /\ log' \in Seq(LogRow)
           /\ log'[n + 1] = [call |-> post.call, to |-> post.to, why |-> post.why, how |-> how]
           /\ \A i \in 1..n : log'[i] = log[i]
           /\ \A c, p : P!Tries(c, p)' =
                 IF c = post.call /\ p = post.to THEN P!Tries(c, p) \cup {n + 1} ELSE P!Tries(c, p)
  <1>1. PICK n \in Nat : n = Len(log)
    BY DEF JobTyped
  <1> PICK row : row = [call |-> post.call, to |-> post.to, why |-> post.why, how |-> how]
    OBVIOUS
  <1>2. log' = Append(log, row) /\ log \in Seq(LogRow) /\ row \in LogRow
    BY DEF P!Attempt, P!Entry, JobTyped, Posted, PostRow, LogRow
  <1>3. /\ DOMAIN log = 1..n /\ DOMAIN log' = 1..(n + 1) /\ log' \in Seq(LogRow)
        /\ log'[n + 1] = row /\ \A i \in 1..n : log'[i] = log[i]
    BY <1>1, <1>2
  <1>4. \A i \in 1..(n + 1) : i \in 1..n \/ i = n + 1
    OBVIOUS
  <1>5. 1..(n + 1) = 1..n \cup {n + 1}
    OBVIOUS
  <1>6. row.call = post.call /\ row.to = post.to
    OBVIOUS
  <1>7. ASSUME NEW c, NEW p
        PROVE  P!Tries(c, p)' =
                 IF c = post.call /\ p = post.to THEN P!Tries(c, p) \cup {n + 1} ELSE P!Tries(c, p)
    BY <1>3, <1>5, <1>6 DEF P!Tries
  <1> QED  BY <1>1, <1>3, <1>7

LEMMA JobAttempt ==
  ASSUME JobTyped, JobInv, TriesInv, NEW how \in {"answer", "error"}, P!Attempt(how)
  PROVE  JobTyped' /\ JobInv' /\ TriesInv' /\ UNCHANGED <<manifest, listed, mounts, edit>>
  <1> USE PluginsConstants DEF PluginsAssumed
  <1>1. PICK n \in Nat :
           /\ n = Len(log) /\ DOMAIN log = 1..n /\ DOMAIN log' = 1..(n + 1) /\ log' \in Seq(LogRow)
           /\ log'[n + 1] = [call |-> post.call, to |-> post.to, why |-> post.why, how |-> how]
           /\ \A i \in 1..n : log'[i] = log[i]
           /\ \A c, p : P!Tries(c, p)' =
                 IF c = post.call /\ p = post.to THEN P!Tries(c, p) \cup {n + 1} ELSE P!Tries(c, p)
    BY AttemptIsLogged
  <1> PICK call \in Nat, to \in Plugins, why \in ToolNames \cup {"notice"}, made \in 0..(MaxAttempts - 1) :
          post = [to |-> to, why |-> why, call |-> call, made |-> made]
    BY DEF P!Attempt, JobTyped, Posted, PostRow
  <1>2. /\ Posted /\ UNCHANGED <<manifest, listed, mounts, edit, job, due>>
        /\ post' = IF how # "error" \/ made + 1 = MaxAttempts THEN P!NoPost
                   ELSE [to |-> to, why |-> why, call |-> call, made |-> made + 1]
    BY DEF P!Attempt, Posted
  <1>3. /\ log'[n + 1].call = call /\ log'[n + 1].to = to /\ log'[n + 1].why = why /\ log'[n + 1].how = how
    BY <1>1
  <1>4. \A i \in 1..(n + 1) : i \in 1..n \/ i = n + 1
    OBVIOUS
  <1>5. \A i \in 1..n : n + 1 # i /\ ~(n + 1 < i)
    OBVIOUS
  <1>6. Posted' => /\ how = "error" /\ made + 1 \in 0..(MaxAttempts - 1)
                   /\ post' = [to |-> to, why |-> why, call |-> call, made |-> made + 1]
    BY <1>2 DEF Posted
  <1>7. JobTyped'
    <2>1. Posted' => post' \in PostRow /\ post'.to \in listed
      BY <1>2, <1>6 DEF JobTyped, Posted, PostRow
    <2> QED  BY <1>1, <1>2, <2>1 DEF JobTyped
  <1>8. JobInv'
    <2>1. job.at # "waiting" /\ job.at # "ended"
      BY <1>2 DEF JobInv
    <2>2. ASSUME job.at = "model"
          PROVE  JobInv'
      <3> PICK tools, uses : tools = job.tools /\ uses = job.uses
        OBVIOUS
      <3>1. /\ due = {} /\ call = uses /\ why \in DOMAIN tools /\ to = tools[why] /\ uses <= uses
            /\ \A i \in 1..n : log[i].call <= uses /\ log[i].why \in DOMAIN tools /\ log[i].to = tools[log[i].why]
        BY <1>1, <1>2, <2>2 DEF JobInv
      <3>2. \A i \in 1..(n + 1) :
               log'[i].call <= uses /\ log'[i].why \in DOMAIN tools /\ log'[i].to = tools[log'[i].why]
        BY <1>1, <1>3, <1>4, <3>1
      <3> QED  BY <1>1, <1>2, <1>6, <2>2, <3>1, <3>2 DEF JobInv
    <2>3. ASSUME job.at = "telling"
          PROVE  JobInv'
      <3> PICK targets : targets = job.targets
        OBVIOUS
      <3>1. /\ call = MaxUses + 1 /\ to \in targets \ due
            /\ \A i \in 1..n : log[i].call = MaxUses + 1 => log[i].to \in targets \ due
            /\ \A p \in targets \ due : P!Tries(MaxUses + 1, p) # {} \/ Underway(MaxUses + 1, p)
        BY <1>1, <1>2, <2>3 DEF JobInv
      <3>2. \A i \in 1..(n + 1) : log'[i].call = MaxUses + 1 => log'[i].to \in targets \ due
        BY <1>1, <1>3, <1>4, <3>1
      <3>3. \A p \in targets \ due : P!Tries(MaxUses + 1, p)' # {}
        BY <1>1, <3>1 DEF Underway
      <3> QED  BY <1>1, <1>2, <1>6, <2>3, <3>1, <3>2, <3>3 DEF JobInv
    <2> QED  BY <2>1, <2>2, <2>3 DEF JobTyped
  <1>9. TriesInv'
    <2> PICK tries : tries = P!Tries(call, to)
      OBVIOUS
    <2>1. Cardinality(tries) = made /\ tries \subseteq 1..n /\ \A i \in tries : log[i].how = "error"
      BY <1>1, <1>2 DEF TriesInv, P!Tries
    <2>2. IsFiniteSet(tries) /\ n + 1 \notin tries
      <3>1. IsFiniteSet(1..n) /\ n + 1 \notin 1..n
        BY FS_Interval
      <3> QED  BY <2>1, <3>1, FS_Subset
    <2>3. Cardinality(tries \cup {n + 1}) = made + 1
      BY <2>1, <2>2, FS_AddElement
    <2>4. P!Tries(call, to)' = tries \cup {n + 1}
      BY <1>1
    <2>5. \A i \in tries : log'[i].how = "error"
      BY <1>1, <2>1
    <2>6. ASSUME Posted'
          PROVE  /\ Cardinality(P!Tries(post.call, post.to))' = post'.made
                 /\ \A i \in P!Tries(post.call, post.to)' : log'[i].how = "error"
      <3>1. P!Tries(post.call, post.to)' = tries \cup {n + 1} /\ post'.made = made + 1
        <4>1. P!Tries(post.call, post.to)' = P!Tries(call, to)'
          BY <1>6, <2>6 DEF P!Tries
        <4> QED  BY <1>6, <2>4, <2>6, <4>1
      <3>2. \A i \in tries \cup {n + 1} : log'[i].how = "error"
        BY <1>3, <1>6, <2>5, <2>6
      <3> QED  BY <2>3, <3>1, <3>2
    <2>7. ASSUME ~Posted'
          PROVE  P!Concluded(P!Tries(call, to))'
      <3>1. how # "error" \/ made + 1 = MaxAttempts
        <4> SUFFICES ASSUME how = "error", made + 1 # MaxAttempts PROVE FALSE
          OBVIOUS
        <4>1. post' = [to |-> to, why |-> why, call |-> call, made |-> made + 1]
          BY <1>2
        <4>2. made + 1 \in 0..(MaxAttempts - 1) /\ call \in 1..(MaxUses + 1)
          BY <1>2 DEF JobTyped, PostRow
        <4>3. post' \in PostRow
          BY <4>1, <4>2 DEF PostRow
        <4> QED  BY <2>7, <4>3, RequestIsPosted DEF Posted
      <3>2. made + 1 \in 1..MaxAttempts
        OBVIOUS
      <3>3. \A i, j \in tries \cup {n + 1} : i < j => log'[i].how = "error"
        BY <1>5, <2>1, <2>5
      <3> QED  BY <1>3, <2>3, <2>4, <3>1, <3>2, <3>3, CountingOfPlugins DEF P!Concluded, P!Persistent
    <2>8. ASSUME NEW i \in 1..(n + 1), log'[i].call = call, log'[i].to = to
          PROVE  Underway(log[i].call, log[i].to)' \/ P!Concluded(P!Tries(log[i].call, log[i].to))'
      BY <1>6, <2>7, <2>8 DEF Underway
    <2>9. ASSUME NEW i \in 1..(n + 1), ~(log'[i].call = call /\ log'[i].to = to)
          PROVE  P!Concluded(P!Tries(log[i].call, log[i].to))'
      <3> PICK c, p : c = log[i].call /\ p = log[i].to
        OBVIOUS
      <3>1. i \in 1..n /\ log'[i] = log[i] /\ ~(c = call /\ p = to)
        BY <1>1, <1>3, <1>4, <2>9
      <3>2. P!Concluded(P!Tries(c, p))
        BY <1>1, <3>1 DEF TriesInv, Underway
      <3>3. P!Tries(c, p)' = P!Tries(c, p) /\ P!Tries(c, p) \subseteq 1..n
        <4>1. P!Tries(c, p)' = P!Tries(c, p)
          BY <1>1, <3>1
        <4>2. DOMAIN log = 1..n
          BY <1>1
        <4> QED  BY <4>1, <4>2 DEF P!Tries
      <3>4. P!Concluded(P!Tries(c, p))'
        <4>1. \A j \in P!Tries(c, p) : j \in 1..n /\ log'[j] = log[j]
          BY <1>1, <3>3
        <4>2. P!Persistent(P!Tries(c, p))'
          BY <3>2, <3>3, <4>1 DEF P!Concluded, P!Persistent
        <4> QED  BY <3>2, <3>3, <4>1, <4>2 DEF P!Concluded
      <3>5. P!Tries(log[i].call, log[i].to)' = P!Tries(c, p)'
        BY <3>1 DEF P!Tries
      <3> QED  BY <3>4, <3>5 DEF P!Concluded, P!Persistent
    <2> QED  BY <1>1, <2>6, <2>8, <2>9 DEF TriesInv
  <1> QED  BY <1>2, <1>7, <1>8, <1>9

PluginsInv == MountsTyped /\ JobTyped /\ JobInv /\ TriesInv

LEMMA PluginsRest == PluginsInv /\ UNCHANGED plugins => PluginsInv'
  <1> SUFFICES ASSUME PluginsInv, UNCHANGED plugins PROVE PluginsInv'
    OBVIOUS
  <1> USE DEF PluginsInv, plugins
  <1>1. MountsTyped'
    BY DEF MountsTyped, Edited
  <1> QED  BY <1>1, EditsLeaveJob

LEMMA PluginsStep == PluginsInv /\ P!Next => PluginsInv'
  <1> SUFFICES ASSUME PluginsInv, P!Next PROVE PluginsInv'
    OBVIOUS
  <1> USE DEF PluginsInv
  <1>1. ASSUME NEW r \in Patches,
               \/ P!Register(r) \/ P!Change(r)
               \/ \E p \in Plugins :
                     \/ P!BeginRegister(r, p)
                     \/ \E on \in {"on", "off", "same"}, config \in P!Configs \cup {"same"} :
                           P!BeginChange(r, p, on, config)
        PROVE  PluginsInv'
    <2>1. MountsTyped' /\ UNCHANGED <<manifest, job, post, due, log>> /\ listed \subseteq listed'
      BY <1>1, EditsTyped
    <2> QED  BY <2>1, EditsLeaveJob
  <1>2. ASSUME UNCHANGED <<manifest, listed, mounts, edit>> PROVE MountsTyped'
    BY <1>2 DEF MountsTyped, Edited
  <1>3. ASSUME \/ P!LoadTools \/ P!End \/ P!Announce
               \/ \E n \in ToolNames : P!UseTool(n)
               \/ \E p \in Plugins : P!TellNext(p)
        PROVE  PluginsInv'
    BY <1>2, <1>3, JobStep
  <1>4. ASSUME NEW how \in {"answer", "error"}, P!Attempt(how) PROVE PluginsInv'
    BY <1>2, <1>4, JobAttempt
  <1> QED  BY <1>1, <1>3, <1>4 DEF P!Next

THEOREM PluginsInvariant == Spec => []PluginsInv
  <1>1. Init => PluginsInv
    <2> SUFFICES ASSUME Init PROVE PluginsInv
      OBVIOUS
    <2> USE DEF Init, P!Init
    <2>1. MountsTyped
      BY PluginsConstants DEF PluginsAssumed, MountsTyped, Edited
    <2>2. JobTyped
      BY DEF JobTyped, Posted
    <2>3. JobInv /\ TriesInv
      BY DEF JobInv, TriesInv, Posted
    <2> QED  BY <2>1, <2>2, <2>3 DEF PluginsInv
  <1>2. PluginsInv /\ [Next]_<<people, models, events, plugins, side>> => PluginsInv'
    BY PluginsStep, PluginsRest DEF Next, People, Models, Events, Tools
  <1> QED  BY <1>1, <1>2, PTL DEF Spec

\* However plugins are mounted and changed meanwhile, a call of a tool reaches
\* the plugin that the model was offered it of, no request is made more than
\* MaxAttempts times or again once it is answered, and the end of the task is
\* told to every plugin enabled at its announcement, for any number of plugins,
\* tools, calls and attempts (tools.py, webhook.py).
THEOREM RequestsArrive == Spec => []RequestsReachTheirPlugin
  <1>1. PluginsInv => RequestsReachTheirPlugin
    <2> SUFFICES ASSUME PluginsInv PROVE RequestsReachTheirPlugin
      OBVIOUS
    <2> USE DEF PluginsInv
    <2>1. ASSUME NEW i \in DOMAIN log
          PROVE  P!Persistent(P!Tries(log[i].call, log[i].to))
      <3>1. CASE Underway(log[i].call, log[i].to)
        <4> PICK tries : tries = P!Tries(log[i].call, log[i].to)
          OBVIOUS
        <4>1. /\ Cardinality(tries) = post.made /\ \A j \in tries : log[j].how = "error"
              /\ post.made \in 0..(MaxAttempts - 1)
          BY <3>1 DEF TriesInv, Underway, JobTyped, PostRow
        <4>2. i \in tries /\ tries \subseteq DOMAIN log
          BY DEF P!Tries
        <4>3. IsFiniteSet(tries)
          <5> PICK n \in Nat : DOMAIN log = 1..n
            BY DEF JobTyped
          <5>1. IsFiniteSet(1..n)
            BY FS_Interval
          <5> QED  BY <4>2, <5>1, FS_Subset
        <4>4. Cardinality(tries) # 0
          BY <4>2, <4>3, FS_EmptySet
        <4>5. Cardinality(tries) \in 1..MaxAttempts
          BY <4>1, <4>4, PluginsConstants DEF PluginsAssumed
        <4> QED  BY <4>1, <4>5, CountingOfPlugins DEF P!Persistent
      <3>2. CASE P!Concluded(P!Tries(log[i].call, log[i].to))
        BY <3>2 DEF P!Concluded
      <3> QED  BY <3>1, <3>2 DEF TriesInv
    <2>2. ASSUME job.at = "telling", due = {}, ~Posted,
                 NEW told, told = {log[i].to : i \in {j \in DOMAIN log : log[j].call = P!Announcement}}
          PROVE  told = job.targets /\ \A p \in told : P!Concluded(P!Tries(P!Announcement, p))
      <3>1. told \subseteq job.targets
        BY <2>2 DEF JobInv, P!Announcement
      <3>2. job.targets \subseteq told
        BY <2>2 DEF JobInv, P!Announcement, Underway, P!Tries
      <3>3. \A p \in told : P!Concluded(P!Tries(P!Announcement, p))
        BY <2>2 DEF TriesInv, Underway
      <3> QED  BY <3>1, <3>2, <3>3
    <2>3. job.at = "model" =>
             \A i \in DOMAIN log : log[i].why \in DOMAIN job.tools /\ log[i].to = job.tools[log[i].why]
      BY DEF JobInv
    <2> QED  BY <2>1, <2>2, <2>3 DEF RequestsReachTheirPlugin, P!RequestsReachTheirPlugin, Posted
  <1> QED  BY <1>1, PluginsInvariant, PTL
-----------------------------------------------------------------------------
(* All four                                                                   *)

LEMMA ModelsTypes == ModelsTyped /\ CallInv => G!TypeOK
  BY DEF ModelsTyped, CallInv, OnItsWay, Changed, G!TypeOK

\* The rows of every side keep the columns and values that the code reads.
THEOREM TypeCorrect == Spec => []TypeOK
  <1>1. PeopleInv /\ ModelsInv /\ EventsInv /\ PluginsInv => TypeOK
    BY PeopleTypes, ModelsTypes, EventsTypes, PluginsTypes
       DEF PeopleInv, ModelsInv, EventsInv, PluginsInv, TypeOK
  <1> QED  BY <1>1, PeopleInvariant, ModelsInvariant, EventsInvariant, PluginsInvariant, PTL
=============================================================================
