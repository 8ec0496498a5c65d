------------------------------ MODULE Accounts ------------------------------
(***************************************************************************)
(* Users and what their tokens let them do: app/routers/auth.py (sign-up,  *)
(* log-in, me), app/auth.py (create_access_token, get_current_user,        *)
(* require_role) and the token check of /ws/telemetry in app/main.py.      *)
(*                                                                         *)
(* A token is signed and never stored: it lives with its holder until it   *)
(* expires, whatever becomes of the account. Promotion, deactivation and   *)
(* deletion are statements an administrator runs on ems_users. A name      *)
(* stands for the two unique columns; ids come from a sequence and are     *)
(* never used again.                                                       *)
(***************************************************************************)
EXTENDS Integers, FiniteSets

CONSTANTS
    Clients,    \* the sides of the connections: each has one request at a time
    Names,      \* usernames
    Roles,      \* the roles that sign-ups and administrators name
    Age,        \* settings.access_token_expire_minutes
    Latency,    \* bound: how long the query of a log-in may take
    MaxUsers,   \* bound: accounts ever created
    MaxTokens,  \* bound: tokens issued
    MaxAdmin,   \* bound: statements of the administrator
    MaxNow      \* bound: the clock stops here

RoleRank == [viewer |-> 0, operator |-> 1, admin |-> 2]
Ids == 1..MaxUsers
\* What the endpoints ask for: get_current_user alone (me), or require_role.
Needs == {"any", "operator"}

ASSUME AccountsAssumption ==
    /\ "none" \notin Names
    /\ Age \in Nat /\ Latency \in Nat
    /\ MaxUsers \in Nat /\ MaxTokens \in Nat /\ MaxAdmin \in Nat /\ MaxNow \in Nat

VARIABLES
    locked,      \* settings.lock_signup_role
    now,         \* the time
    users,       \* ems_users: the row of each id, or NoRow
    last,        \* the last id the sequence has given
    tokens,      \* the tokens that were issued
    pc,          \* where the request of a client is
    token,       \* the token it carries
    need,        \* the role the endpoint requires
    id, row,     \* what the SELECT has returned
    began,       \* when the request began
    seen,        \* history: the rows its token's account has had since then
    granted,     \* history: the accounts that chose their role while sign-ups were
                 \* open, or whose role an administrator has set
    lastActive,  \* history: when each account was last active
    admin        \* history: statements of the administrator

table == <<users, last, granted, lastActive, admin>>
request == <<pc, token, need, id, row, began, seen>>
vars == <<locked, now, tokens, table, request>>

NoRow == [name |-> "none", role |-> "none", active |-> FALSE]
NoToken == [sub |-> 0, name |-> "none", role |-> "none", exp |-> 0]

Init ==
    /\ locked \in BOOLEAN
    /\ now = 0 /\ last = 0 /\ tokens = {} /\ admin = 0
    /\ users = [i \in Ids |-> NoRow]
    /\ lastActive = [i \in Ids |-> 0] /\ granted = {}
    /\ pc = [c \in Clients |-> "idle"]
    /\ token = [c \in Clients |-> NoToken]
    /\ need = [c \in Clients |-> "any"]
    /\ id = [c \in Clients |-> 0]
    /\ row = [c \in Clients |-> NoRow]
    /\ began = [c \in Clients |-> 0]
    /\ seen = [c \in Clients |-> {}]

-----------------------------------------------------------------------------
(* The table ems_users.                                                    *)

Registered(i) == users[i] # NoRow

\* The effect of any statement on row i: a request in flight may come to see it.
Write(i, r) ==
    /\ users' = [users EXCEPT ![i] = r]
    /\ seen' = [c \in Clients |->
                  IF token[c].sub = i /\ pc[c] # "idle" THEN seen[c] \cup {r} ELSE seen[c]]
    /\ lastActive' = IF r.active THEN [lastActive EXCEPT ![i] = now] ELSE lastActive
    /\ UNCHANGED <<locked, now, tokens, pc, token, need, id, row, began>>

\* Mutation: the role of the request is honoured although sign-ups are locked.
SignupRoleAny(r) == r
SignupRole(r) == IF locked THEN "viewer" ELSE r

\* Mutation: the unique index covers active accounts only.
TakenByActive(n) == \E i \in Ids : users[i].active /\ users[i].name = n
\* UniqueViolationError: 409, and nothing changes.
Taken(n) == \E i \in Ids : Registered(i) /\ users[i].name = n

\* The INSERT of signup is one statement.
Signup(n, r) ==
    /\ last < MaxUsers /\ ~Taken(n)
    /\ last' = last + 1
    /\ Write(last', [name |-> n, role |-> SignupRole(r), active |-> TRUE])
    /\ granted' = IF locked THEN granted ELSE granted \cup {last'}
    /\ UNCHANGED admin

SetRole(q, r) == [q EXCEPT !.role = r]
Toggle(q) == [q EXCEPT !.active = ~@]

\* The administrator, with SQL.
Administer ==
    /\ admin < MaxAdmin /\ admin' = admin + 1
    /\ \E i \in Ids :
          /\ Registered(i)
          /\ \/ \E r \in Roles \ {users[i].role} :
                   Write(i, SetRole(users[i], r)) /\ granted' = granted \cup {i}
             \/ Write(i, Toggle(users[i])) /\ UNCHANGED granted
             \/ Write(i, NoRow) /\ UNCHANGED granted
    /\ UNCHANGED last

-----------------------------------------------------------------------------
(* Requests.                                                               *)

Begin(c, where, t, n, rows) ==
    /\ pc[c] = "idle"
    /\ pc' = [pc EXCEPT ![c] = where]
    /\ token' = [token EXCEPT ![c] = t]
    /\ need' = [need EXCEPT ![c] = n]
    /\ began' = [began EXCEPT ![c] = now]
    /\ seen' = [seen EXCEPT ![c] = rows]

\* The response is sent, and the locals of the request are gone.
End(c) ==
    /\ pc' = [pc EXCEPT ![c] = "idle"]
    /\ token' = [token EXCEPT ![c] = NoToken]
    /\ need' = [need EXCEPT ![c] = "any"]
    /\ id' = [id EXCEPT ![c] = 0]
    /\ row' = [row EXCEPT ![c] = NoRow]
    /\ began' = [began EXCEPT ![c] = 0]
    /\ seen' = [seen EXCEPT ![c] = {}]

\* login: SELECT ... WHERE username = $1.
LoginRead(c, i) ==
    /\ Registered(i)
    /\ Begin(c, "verify", NoToken, "any", {})
    /\ id' = [id EXCEPT ![c] = i]
    /\ row' = [row EXCEPT ![c] = users[i]]
    /\ UNCHANGED <<locked, now, tokens, table>>

\* create_access_token, after the check of is_active and the password.
LoginDone(c) ==
    /\ pc[c] = "verify" /\ row[c].active
    /\ Cardinality(tokens) < MaxTokens
    /\ tokens' = tokens \cup {[sub |-> id[c], name |-> row[c].name,
                               role |-> row[c].role, exp |-> now + Age]}
    /\ End(c)
    /\ UNCHANGED <<locked, now, table>>

\* 401: inactive, or a wrong password.
LoginRefused(c) ==
    /\ pc[c] = "verify"
    /\ End(c)
    /\ UNCHANGED <<locked, now, tokens, table>>

\* jwt.decode of get_current_user: the signature and exp.
Ask(c, t, n) ==
    /\ now < t.exp
    /\ Begin(c, "asking", t, n, {users[t.sub]})
    /\ UNCHANGED <<locked, now, tokens, id, row, table>>

\* Mutation: the account is looked up by the name in the token.
FoundByName(c) == {i \in Ids : Registered(i) /\ users[i].name = token[c].name}
\* SELECT ... WHERE id = $1.
Found(c) == {i \in Ids : Registered(i) /\ i = token[c].sub}

Read(c) ==
    /\ pc[c] = "asking"
    /\ \/ \E i \in Found(c) :
             /\ id' = [id EXCEPT ![c] = i]
             /\ row' = [row EXCEPT ![c] = users[i]]
       \/ Found(c) = {} /\ row' = [row EXCEPT ![c] = NoRow] /\ UNCHANGED id
    /\ pc' = [pc EXCEPT ![c] = "checking"]
    /\ UNCHANGED <<locked, now, tokens, token, need, began, seen, table>>

Rank(r) == IF r \in DOMAIN RoleRank THEN RoleRank[r] ELSE -1
\* The role is the one of the row, not the one in the token.
EntitledTo(r, n) == r.active /\ (n # "any" => Rank(r.role) >= RoleRank[n])
HasRole(c) == EntitledTo(row[c], need[c])

\* 401 or 403, or the endpoint runs: the role is not looked at again, not even
\* between the writes of a batch.
Check(c) ==
    /\ pc[c] = "checking"
    /\ \/ /\ HasRole(c)
          /\ pc' = [pc EXCEPT ![c] = "acting"]
          /\ UNCHANGED <<token, need, id, row, began, seen>>
       \/ ~HasRole(c) /\ End(c)
    /\ UNCHANGED <<locked, now, tokens, table>>

\* Mutation: the expiry is not verified.
WsAcceptsAny(t) == TRUE
WsAccepts(t) == now < t.exp

\* /ws/telemetry decodes the token when it accepts the connection, reads no user,
\* and streams until the client leaves or a query fails.
WsConnect(c, t) ==
    /\ WsAccepts(t)
    /\ Begin(c, "streaming", t, "any", {})
    /\ UNCHANGED <<locked, now, tokens, id, row, table>>

Finish(c) ==
    /\ pc[c] \in {"acting", "streaming"}
    /\ End(c)
    /\ UNCHANGED <<locked, now, tokens, table>>

\* 409 for a name that is taken, 401 for a name nobody has or an expired token.
Refused == UNCHANGED vars

Tick ==
    /\ now < MaxNow /\ now' = now + 1
    /\ \A c \in Clients : pc[c] = "verify" => now < began[c] + Latency
    /\ lastActive' = [i \in Ids |-> IF users[i].active THEN now' ELSE lastActive[i]]
    /\ UNCHANGED <<locked, tokens, users, last, granted, admin, request>>

\* The process restarts, with sign-ups open or locked: "handy for first setup" and
\* "production" (config.py:55-56). Requests end, tokens stay with their holders.
Restart ==
    /\ locked' \in BOOLEAN
    /\ pc' = [c \in Clients |-> "idle"]
    /\ token' = [c \in Clients |-> NoToken]
    /\ need' = [c \in Clients |-> "any"]
    /\ id' = [c \in Clients |-> 0]
    /\ row' = [c \in Clients |-> NoRow]
    /\ began' = [c \in Clients |-> 0]
    /\ seen' = [c \in Clients |-> {}]
    /\ UNCHANGED <<now, tokens, table>>

Next ==
    \/ \E n \in Names, r \in Roles : Signup(n, r)
    \/ Administer \/ Refused \/ Tick \/ Restart
    \/ \E c \in Clients :
          \/ \E i \in Ids : LoginRead(c, i)
          \/ LoginDone(c) \/ LoginRefused(c)
          \/ \E t \in tokens : WsConnect(c, t) \/ \E n \in Needs : Ask(c, t, n)
          \/ Read(c) \/ Check(c) \/ Finish(c)

Spec == Init /\ [][Next]_vars

-----------------------------------------------------------------------------
(* Properties *)

Row == [name : Names, role : Roles \cup {"viewer"}, active : BOOLEAN] \cup {NoRow}
Token == [sub : Ids, name : Names, role : Roles \cup {"viewer"}, exp : Int]

\* Types; no two accounts share a name; an id above `last` was never used; a request
\* that got past the decoding carries a token that was issued.
TypeOK ==
    /\ locked \in BOOLEAN /\ now \in Int /\ last \in 0..MaxUsers
    /\ users \in [Ids -> Row]
    /\ \A i, j \in Ids :
          /\ i > last => users[i] = NoRow
          /\ Registered(i) /\ users[i].name = users[j].name => i = j
    /\ tokens \subseteq Token
    /\ pc \in [Clients -> {"idle", "verify", "asking", "checking", "acting", "streaming"}]
    /\ token \in [Clients -> Token \cup {NoToken}] /\ need \in [Clients -> Needs]
    /\ id \in [Clients -> Ids \cup {0}] /\ row \in [Clients -> Row]
    /\ began \in [Clients -> Int] /\ seen \in [Clients -> SUBSET Row]
    /\ \A c \in Clients : /\ pc[c] = "verify" => id[c] \in Ids
                          /\ pc[c] \notin {"idle", "verify"} => token[c] \in tokens
    /\ granted \subseteq Ids /\ lastActive \in [Ids -> Int] /\ admin \in 0..MaxAdmin

\* "Command endpoints require operator+" (auth.py:4): whatever happened to the account
\* since the log-in - demoted, deactivated, deleted, its name taken by somebody else -
\* an endpoint only runs if the very account that logged in was active and had the
\* role at some instant of this request.
ActsOnlyIfEntitled ==
    \A c \in Clients : pc[c] = "acting" => \E r \in seen[c] : EntitledTo(r, need[c])

\* "In production force new users to viewer; promotion is an admin-only DB action"
\* (routers/auth.py:18-19): no command runs for an account that was made while sign-ups
\* were locked and that no administrator has promoted, whatever the lock was before and
\* after. The accounts of the first set-up keep the role they chose.
NoSelfPromotion ==
    \A c \in Clients :
        pc[c] = "acting" /\ need[c] = "operator" => token[c].sub \in granted

\* The WebSocket never asks the table, so a deactivated account can still open it; but
\* only until the last token it can have got has expired.
ExposureBounded ==
    \A c \in Clients : pc[c] \in {"streaming", "acting"} =>
        began[c] < lastActive[token[c].sub] + Latency + Age
=============================================================================
