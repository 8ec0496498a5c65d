------------------------ MODULE AuthenticationProofs ------------------------
(***************************************************************************)
(* Who may do what, in both directions. Accounts, the users of this        *)
(* backend, for any clients, names, roles, token age and latency: no       *)
(* endpoint runs for an account that was not entitled to it during the     *)
(* request, a locked sign-up gives no power, and the exposure of a         *)
(* deactivated account is bounded. GatewayToken, this backend as a user of *)
(* the gateway, for any tasks and handlers that share the header: the      *)
(* number of logins is bounded by what became useless and what failed.     *)
(***************************************************************************)
EXTENDS Accounts, GatewayToken, TLAPS, FiniteSetTheorems

-----------------------------------------------------------------------------
(* Types.                                                                  *)

LEMMA RowFacts ==
    /\ NoRow \in Row /\ ~NoRow.active /\ NoRow.name = "none" /\ NoRow.role = "none"
    /\ NoToken.sub = 0
    /\ \A r \in Row : r # NoRow => r.name \in Names /\ r.role \in Roles \cup {"viewer"}
    /\ \A r \in Row : r.active \in BOOLEAN
<1>1. ASSUME NEW r \in Row, r # NoRow
      PROVE  r.name \in Names /\ r.role \in Roles \cup {"viewer"} /\ r.active \in BOOLEAN
  <2>1. r \in [name : Names, role : Roles \cup {"viewer"}, active : BOOLEAN]
    BY <1>1 DEF Row
  <2> QED
    BY <2>1
<1>2. NoRow \in Row /\ NoRow.active = FALSE /\ NoRow.name = "none" /\ NoRow.role = "none"
  BY DEF Row, NoRow
<1>3. NoToken.sub = 0
  BY DEF NoToken
<1> QED
  BY <1>1, <1>2, <1>3

LEMMA RowChanges ==
    ASSUME NEW q \in Row, q # NoRow
    PROVE  /\ Toggle(q) \in Row /\ Toggle(q).name = q.name /\ Toggle(q).role = q.role
           /\ \A r \in Roles : /\ SetRole(q, r) \in Row /\ SetRole(q, r).name = q.name
                               /\ SetRole(q, r).role = r
<1>1. q \in [name : Names, role : Roles \cup {"viewer"}, active : BOOLEAN]
  BY DEF Row
<1>2. Toggle(q) \in Row /\ Toggle(q).name = q.name /\ Toggle(q).role = q.role
  BY <1>1 DEF Toggle, Row
<1>3. ASSUME NEW r \in Roles
      PROVE  SetRole(q, r) \in Row /\ SetRole(q, r).name = q.name /\ SetRole(q, r).role = r
  BY <1>1 DEF SetRole, Row
<1> QED
  BY <1>2, <1>3

\* A statement on one row that leaves the other rows, and the names in use, apart.
LEMMA WriteKeepsTypes ==
    ASSUME TypeOK, NEW i \in Ids, NEW r \in Row, Write(i, r),
           last' \in 0..MaxUsers, last' >= last, i <= last',
           granted' \subseteq Ids, admin' \in 0..MaxAdmin,
           r # NoRow => \A j \in Ids : Registered(j) /\ users[j].name = r.name => j = i
    PROVE  TypeOK'
<1>1. users' \in [Ids -> Row] /\ seen' \in [Clients -> SUBSET Row]
  BY DEF TypeOK, Write
<1>2. lastActive' \in [Ids -> Int]
  BY DEF TypeOK, Write
<1>3. ASSUME NEW j \in Ids, NEW k \in Ids
      PROVE  /\ j > last' => users'[j] = NoRow
             /\ users'[j] # NoRow /\ users'[j].name = users'[k].name => j = k
  <2>1. /\ users'[i] = r
        /\ \A m \in Ids \ {i} : users'[m] = users[m]
    BY DEF TypeOK, Write
  <2>2. j > last' => users'[j] = NoRow
    <3>1. SUFFICES ASSUME j > last' PROVE users'[j] = NoRow
      OBVIOUS
    <3>2. /\ i \in Int /\ j \in Int /\ last \in Int /\ last' \in Int
      BY AccountsAssumption DEF TypeOK, Ids
    <3>3. j # i /\ j > last
      BY <3>1, <3>2
    <3> QED
      BY <3>3, <2>1 DEF TypeOK
  <2>3. users'[j] # NoRow /\ users'[j].name = users'[k].name => j = k
    <3>1. ASSUME users'[j] # NoRow, users'[j].name = users'[k].name
          PROVE  users'[k] # NoRow
      BY <3>1, <1>1, RowFacts, AccountsAssumption
    <3>2. CASE j = i
      BY <3>1, <3>2, <2>1 DEF Registered
    <3>3. CASE k = i /\ j # i
      BY <3>1, <3>3, <2>1 DEF Registered
    <3>4. CASE k # i /\ j # i
      BY <3>4, <2>1 DEF TypeOK, Registered
    <3> QED
      BY <3>2, <3>3, <3>4
  <2> QED
    BY <2>2, <2>3
<1> QED
  BY <1>1, <1>2, <1>3 DEF TypeOK, Write, Registered

LEMMA TypeInit == Init => TypeOK
<1> SUFFICES ASSUME Init PROVE TypeOK
  OBVIOUS
<1>1. users \in [Ids -> Row] /\ row \in [Clients -> Row]
  BY RowFacts DEF Init
<1>2. \A i \in Ids : ~Registered(i)
  BY DEF Init, Registered
<1>3. 0 \in 0..MaxUsers /\ 0 \in 0..MaxAdmin
  BY AccountsAssumption
<1> QED
  BY <1>1, <1>2, <1>3 DEF Init, TypeOK, Registered, Needs

\* The request of one client moves on; the table stays as it is.
LEMMA RequestKeepsTypes ==
    ASSUME TypeOK, UNCHANGED <<locked, now, table, users>>,
           tokens' \subseteq Token,
           pc' \in [Clients -> {"idle", "verify", "asking", "checking", "acting", "streaming"}],
           token' \in [Clients -> Token \cup {NoToken}], need' \in [Clients -> Needs],
           id' \in [Clients -> Ids \cup {0}], row' \in [Clients -> Row],
           began' \in [Clients -> Int], seen' \in [Clients -> SUBSET Row],
           \A c \in Clients : /\ pc'[c] = "verify" => id'[c] \in Ids
                              /\ pc'[c] \notin {"idle", "verify"} => token'[c] \in tokens'
    PROVE  TypeOK'
  BY DEF TypeOK, table, Registered

LEMMA TypeNext == TypeOK /\ [Next]_vars => TypeOK'
<1> SUFFICES ASSUME TypeOK, [Next]_vars PROVE TypeOK'
  OBVIOUS
<1>1. ASSUME NEW n \in Names, NEW r \in Roles, Signup(n, r) PROVE TypeOK'
  <2> DEFINE new == [name |-> n, role |-> SignupRole(r), active |-> TRUE]
  <2>1. new \in Row /\ new # NoRow /\ new.name = n
    BY AccountsAssumption DEF Row, NoRow, SignupRole
  <2>2. last' \in Ids /\ last' = last + 1 /\ last' \in 0..MaxUsers
    BY <1>1, AccountsAssumption DEF Signup, TypeOK, Ids
  <2>3. \A j \in Ids : Registered(j) => users[j].name # n
    BY <1>1 DEF Signup, Taken
  <2>4. Write(last', new) /\ admin' = admin
    BY <1>1 DEF Signup
  <2>6. granted' \subseteq Ids
    BY <1>1, <2>2 DEF Signup, TypeOK
  <2>5. last \in Int /\ last' >= last
    BY <2>2, AccountsAssumption DEF TypeOK
  <2> HIDE DEF new
  <2> QED
    BY <2>1, <2>2, <2>3, <2>4, <2>5, <2>6, WriteKeepsTypes DEF TypeOK
<1>2. ASSUME Administer PROVE TypeOK'
  <2>1. PICK i \in Ids : Registered(i) /\
            \/ \E r \in Roles \ {users[i].role} :
                   Write(i, SetRole(users[i], r)) /\ granted' = granted \cup {i}
            \/ Write(i, Toggle(users[i])) /\ UNCHANGED granted
            \/ Write(i, NoRow) /\ UNCHANGED granted
    BY <1>2 DEF Administer
  <2>2. /\ last' = last /\ granted' \subseteq Ids
        /\ admin' \in 0..MaxAdmin
    BY <1>2, <2>1, AccountsAssumption DEF Administer, TypeOK
  <2>3. last' \in 0..MaxUsers /\ last' >= last /\ i <= last'
    BY <2>1, <2>2, AccountsAssumption DEF TypeOK, Registered, Ids
  <2>4. /\ users[i] \in Row /\ users[i] # NoRow
        /\ \A j \in Ids : Registered(j) /\ users[j].name = users[i].name => j = i
    BY <2>1 DEF TypeOK, Registered
  <2>5. ASSUME NEW new \in Row, Write(i, new), new = NoRow \/ new.name = users[i].name
        PROVE  TypeOK'
    BY <2>2, <2>3, <2>4, <2>5, WriteKeepsTypes
  <2> QED
    BY <2>1, <2>4, <2>5, RowChanges, RowFacts
<1>3. CASE Tick
  BY <1>3 DEF TypeOK, Tick, request, Registered
<1>4. ASSUME NEW c \in Clients, NEW i \in Ids, LoginRead(c, i) PROVE TypeOK'
  <2>1. NoToken \in Token \cup {NoToken} /\ "any" \in Needs /\ users[i] \in Row
    BY DEF Needs, TypeOK
  <2> QED
    BY <1>4, <2>1, RequestKeepsTypes DEF LoginRead, Begin, TypeOK, table
<1>5. ASSUME NEW c \in Clients, End(c), UNCHANGED <<locked, now, table>>,
             tokens \subseteq tokens', tokens' \subseteq Token
      PROVE  TypeOK'
  BY <1>5, RowFacts, RequestKeepsTypes DEF End, TypeOK, table, Needs
<1>6. ASSUME NEW c \in Clients, LoginDone(c) PROVE TypeOK'
  <2> DEFINE t == [sub |-> id[c], name |-> row[c].name, role |-> row[c].role, exp |-> now + Age]
  <2>1. row[c] \in Row /\ row[c] # NoRow
    BY <1>6, RowFacts DEF LoginDone, TypeOK
  <2>2. id[c] \in Ids
    BY <1>6 DEF LoginDone, TypeOK
  <2>3. t \in Token
    BY <2>1, <2>2, RowFacts, AccountsAssumption DEF Token, TypeOK
  <2>4. tokens' = tokens \cup {t}
    BY <1>6 DEF LoginDone
  <2> HIDE DEF t
  <2> QED
    BY <1>5, <1>6, <2>3, <2>4 DEF LoginDone, TypeOK
<1>7. ASSUME NEW c \in Clients, LoginRefused(c) \/ Finish(c) PROVE TypeOK'
  BY <1>5, <1>7 DEF LoginRefused, Finish, TypeOK
<1>8. ASSUME NEW c \in Clients, NEW t \in tokens, NEW n \in Needs, Ask(c, t, n)
      PROVE  TypeOK'
  <2>1. t \in Token /\ users[t.sub] \in Row
    BY DEF Token, TypeOK
  <2> QED
    BY <1>8, <2>1, RequestKeepsTypes DEF Ask, Begin, TypeOK, table
<1>9. ASSUME NEW c \in Clients, NEW t \in tokens, WsConnect(c, t) PROVE TypeOK'
  BY <1>9, RequestKeepsTypes DEF WsConnect, Begin, TypeOK, table, Needs
<1>10. ASSUME NEW c \in Clients, Read(c) PROVE TypeOK'
  <2>1. \A i \in Found(c) : i \in Ids /\ users[i] \in Row
    BY DEF Found, TypeOK
  <2> QED
    BY <1>10, <2>1, RowFacts, RequestKeepsTypes DEF Read, TypeOK, table
<1>11. ASSUME NEW c \in Clients, Check(c) PROVE TypeOK'
  <2>1. CASE HasRole(c)
    BY <1>11, <2>1, RequestKeepsTypes DEF Check, TypeOK, table
  <2>2. CASE ~HasRole(c)
    BY <1>5, <1>11, <2>2 DEF Check, TypeOK
  <2> QED
    BY <2>1, <2>2
<1>12. CASE UNCHANGED vars
  BY <1>12, RequestKeepsTypes DEF vars, table, request, TypeOK
<1>13. CASE Restart
  BY <1>13, RowFacts DEF Restart, TypeOK, table, Registered, Needs
<1> QED
  BY <1>1, <1>2, <1>3, <1>4, <1>6, <1>7, <1>8, <1>9, <1>10, <1>11, <1>12, <1>13
  DEF Next, Refused

\* No two accounts share a name, an id is used once, and every request that got past
\* the decoding carries a token that was issued, for any clients, names and roles.
THEOREM AccountsTypeCorrect == Spec => []TypeOK
  BY TypeInit, TypeNext, PTL DEF Spec

-----------------------------------------------------------------------------
(* Entitlement: the row a request reads is one its account had meanwhile.  *)

SeenInv ==
    \A c \in Clients :
        /\ pc[c] = "asking" => users[token[c].sub] \in seen[c]
        /\ pc[c] = "checking" => row[c] \in seen[c] \cup {NoRow}
        /\ pc[c] = "acting" => \E r \in seen[c] : EntitledTo(r, need[c])

LEMMA SeenWrite ==
    ASSUME TypeOK, SeenInv, NEW i \in Ids, NEW r \in Row, Write(i, r)
    PROVE  SeenInv'
<1> SUFFICES ASSUME NEW c \in Clients
             PROVE  /\ pc[c] = "asking" => users'[token[c].sub] \in seen'[c]
                    /\ pc[c] = "checking" => row[c] \in seen'[c] \cup {NoRow}
                    /\ pc[c] = "acting" => \E q \in seen'[c] : EntitledTo(q, need[c])
  BY DEF SeenInv, Write, EntitledTo
<1>1. seen[c] \subseteq seen'[c]
  BY DEF Write, TypeOK
<1>2. ASSUME pc[c] = "asking" PROVE users'[token[c].sub] \in seen'[c]
  <2>1. token[c].sub \in Ids
    BY <1>2 DEF TypeOK, Token
  <2>2. users[token[c].sub] \in seen[c]
    BY <1>2 DEF SeenInv
  <2>3. CASE token[c].sub = i
    BY <1>2, <2>3 DEF Write, TypeOK
  <2>4. CASE token[c].sub # i
    BY <1>1, <2>1, <2>2, <2>4 DEF Write, TypeOK
  <2> QED
    BY <2>3, <2>4
<1> QED
  BY <1>1, <1>2 DEF SeenInv

LEMMA SeenNext == TypeOK /\ SeenInv /\ [Next]_vars => SeenInv'
<1> SUFFICES ASSUME TypeOK, SeenInv, [Next]_vars PROVE SeenInv'
  OBVIOUS
<1>1. ASSUME NEW n \in Names, NEW r \in Roles, Signup(n, r) PROVE SeenInv'
  <2> DEFINE new == [name |-> n, role |-> SignupRole(r), active |-> TRUE]
  <2>1. new \in Row /\ last' \in Ids /\ Write(last', new)
    BY <1>1, AccountsAssumption DEF Row, SignupRole, Signup, TypeOK, Ids
  <2> HIDE DEF new
  <2> QED
    BY <2>1, SeenWrite
<1>2. CASE Administer
  <2>1. PICK i \in Ids : Registered(i) /\
            \/ \E r \in Roles : Write(i, SetRole(users[i], r))
            \/ Write(i, Toggle(users[i]))
            \/ Write(i, NoRow)
    BY <1>2 DEF Administer
  <2>2. users[i] \in Row /\ users[i] # NoRow
    BY <2>1 DEF TypeOK, Registered
  <2> QED
    BY <2>1, <2>2, RowChanges, RowFacts, SeenWrite
<1>3. CASE Tick
  BY <1>3 DEF Tick, request, SeenInv, EntitledTo
<1>4. ASSUME NEW c \in Clients,
             \/ \E i \in Ids : LoginRead(c, i)
             \/ LoginDone(c) \/ LoginRefused(c) \/ Finish(c)
             \/ \E t \in tokens : WsConnect(c, t)
      PROVE  SeenInv'
  BY <1>4 DEF LoginRead, LoginDone, LoginRefused, Finish, WsConnect, Begin, End, SeenInv,
              TypeOK, EntitledTo, table
<1>5. ASSUME NEW c \in Clients, NEW t \in tokens, NEW n \in Needs, Ask(c, t, n)
      PROVE  SeenInv'
  BY <1>5 DEF Ask, Begin, SeenInv, TypeOK, EntitledTo, table
<1>6. ASSUME NEW c \in Clients, Read(c) PROVE SeenInv'
  <2>1. users[token[c].sub] \in seen[c]
    BY <1>6 DEF Read, SeenInv
  <2>2. row'[c] \in seen[c] \cup {NoRow}
    BY <1>6, <2>1 DEF Read, Found, TypeOK
  <2> QED
    BY <1>6, <2>2 DEF Read, SeenInv, TypeOK, EntitledTo, table
<1>7. ASSUME NEW c \in Clients, Check(c) PROVE SeenInv'
  <2>1. CASE HasRole(c)
    <3>1. row[c] \in seen[c] /\ EntitledTo(row[c], need[c])
      BY <1>7, <2>1, RowFacts DEF Check, SeenInv, HasRole, EntitledTo
    <3> QED
      BY <1>7, <2>1, <3>1 DEF Check, SeenInv, TypeOK, EntitledTo, table
  <2>2. CASE ~HasRole(c)
    BY <1>7, <2>2 DEF Check, End, SeenInv, TypeOK, EntitledTo, table
  <2> QED
    BY <2>1, <2>2
<1>8. CASE UNCHANGED vars
  BY <1>8 DEF vars, table, request, SeenInv, EntitledTo
<1>9. CASE Restart
  BY <1>9 DEF Restart, SeenInv
<1> QED
  BY <1>1, <1>2, <1>3, <1>4, <1>5, <1>6, <1>7, <1>8, <1>9 DEF Next, Refused

\* Whatever happens to an account between its log-in and the use of its token, an
\* endpoint runs only if that account was active and had the role during the request.
THEOREM EntitledRequests == Spec => []ActsOnlyIfEntitled
<1>1. Init => SeenInv
  BY DEF Init, SeenInv
<1>2. SeenInv => ActsOnlyIfEntitled
  BY DEF SeenInv, ActsOnlyIfEntitled
<1> QED
  BY <1>1, <1>2, SeenNext, AccountsTypeCorrect, PTL DEF Spec

-----------------------------------------------------------------------------
(* Power: chosen while sign-ups are open, or given by the administrator.    *)

Powerful(r) == Rank(r.role) >= RoleRank["operator"]

PowerInv ==
    /\ \A i \in Ids : Powerful(users[i]) => i \in granted
    /\ \A c \in Clients :
          /\ pc[c] = "checking" /\ Powerful(row[c]) => token[c].sub \in granted
          /\ pc[c] = "acting" /\ need[c] = "operator" => token[c].sub \in granted

LEMMA RankFacts ==
    /\ Rank("viewer") = 0 /\ Rank("none") = -1 /\ RoleRank["operator"] = 1
    /\ \A r : r.role \in {"none", "viewer"} => ~Powerful(r)
<1>1. DOMAIN RoleRank = {"viewer", "operator", "admin"}
  BY DEF RoleRank
<1>2. RoleRank["viewer"] = 0 /\ RoleRank["operator"] = 1
  BY DEF RoleRank
<1>3. Rank("viewer") = 0 /\ Rank("none") = -1
  BY <1>1, <1>2 DEF Rank
<1>4. ASSUME NEW r, r.role \in {"none", "viewer"} PROVE ~Powerful(r)
  <2>1. Rank(r.role) \in {-1, 0}
    BY <1>3, <1>4
  <2> QED
    BY <1>2, <2>1 DEF Powerful
<1> QED
  BY <1>2, <1>3, <1>4

LEMMA PowerWrite ==
    ASSUME TypeOK, PowerInv, NEW i \in Ids, NEW r \in Row, Write(i, r),
           granted \subseteq granted',
           Powerful(r) => i \in granted'
    PROVE  PowerInv'
<1>1. ASSUME NEW j \in Ids, Powerful(users'[j]) PROVE j \in granted'
  <2>1. CASE j = i
    BY <1>1, <2>1 DEF Write, TypeOK
  <2>2. CASE j # i
    <3>1. users'[j] = users[j]
      BY <2>2 DEF Write, TypeOK
    <3> QED
      BY <1>1, <3>1 DEF PowerInv
  <2> QED
    BY <2>1, <2>2
<1> QED
  BY <1>1 DEF PowerInv, Write, Powerful

LEMMA PowerNext == TypeOK /\ PowerInv /\ [Next]_vars => PowerInv'
<1> SUFFICES ASSUME TypeOK, PowerInv, [Next]_vars PROVE PowerInv'
  OBVIOUS
<1>1. ASSUME NEW n \in Names, NEW r \in Roles, Signup(n, r) PROVE PowerInv'
  <2> DEFINE new == [name |-> n, role |-> SignupRole(r), active |-> TRUE]
  <2>1. /\ new \in Row /\ last' \in Ids /\ Write(last', new)
        /\ granted' = IF locked THEN granted ELSE granted \cup {last'}
    BY <1>1, AccountsAssumption DEF Row, SignupRole, Signup, TypeOK, Ids
  <2>2. locked => ~Powerful(new)
    BY RankFacts DEF SignupRole
  <2> HIDE DEF new
  <2> QED
    BY <2>1, <2>2, PowerWrite
<1>2. CASE Administer
  <2>1. PICK i \in Ids : Registered(i) /\
            \/ \E r \in Roles : Write(i, SetRole(users[i], r)) /\ granted' = granted \cup {i}
            \/ Write(i, Toggle(users[i])) /\ granted' = granted
            \/ Write(i, NoRow) /\ granted' = granted
    BY <1>2 DEF Administer
  <2>2. users[i] \in Row /\ users[i] # NoRow
    BY <2>1 DEF TypeOK, Registered
  <2>3. Toggle(users[i]).role = users[i].role /\ Toggle(users[i]) \in Row
    BY <2>2, RowChanges
  <2>4. Powerful(Toggle(users[i])) => i \in granted
    BY <2>3 DEF PowerInv, Powerful
  <2>5. NoRow \in Row /\ ~Powerful(NoRow)
    BY RowFacts, RankFacts DEF NoRow
  <2>6. \A r \in Roles : SetRole(users[i], r) \in Row
    BY <2>2, RowChanges
  <2> QED
    BY <2>1, <2>3, <2>4, <2>5, <2>6, PowerWrite
<1>3. CASE Tick
  BY <1>3 DEF Tick, request, PowerInv, Powerful
<1>4. ASSUME NEW c \in Clients, LoginDone(c) \/ LoginRefused(c) \/ Finish(c)
      PROVE  PowerInv'
  BY <1>4 DEF LoginDone, LoginRefused, Finish, End, PowerInv, TypeOK, Powerful, table
<1>5. ASSUME NEW c \in Clients,
             \/ \E i \in Ids : LoginRead(c, i)
             \/ \E t \in tokens : WsConnect(c, t) \/ \E n \in Needs : Ask(c, t, n)
      PROVE  PowerInv'
  <2>1. /\ pc'[c] \in {"verify", "streaming", "asking"}
        /\ \A d \in Clients \ {c} : /\ pc'[d] = pc[d] /\ row'[d] = row[d]
                                    /\ token'[d] = token[d] /\ need'[d] = need[d]
        /\ UNCHANGED <<users, granted>>
    BY <1>5 DEF LoginRead, WsConnect, Ask, Begin, TypeOK, table
  <2> QED
    BY <2>1 DEF PowerInv, Powerful
<1>6. ASSUME NEW c \in Clients, Read(c) PROVE PowerInv'
  <2>1. token[c].sub \in Ids
    BY <1>6 DEF Read, TypeOK, Token
  <2>2. Powerful(row'[c]) => token[c].sub \in granted
    <3>1. row'[c] = NoRow \/ row'[c] = users[token[c].sub]
      BY <1>6 DEF Read, Found, TypeOK
    <3>2. CASE row'[c] = NoRow
      BY <3>2, RankFacts DEF NoRow
    <3>3. CASE row'[c] = users[token[c].sub]
      BY <3>3, <2>1 DEF PowerInv
    <3> QED
      BY <3>1, <3>2, <3>3
  <2> QED
    BY <1>6, <2>2 DEF Read, PowerInv, TypeOK, Powerful, table
<1>7. ASSUME NEW c \in Clients, Check(c) PROVE PowerInv'
  <2>1. CASE HasRole(c)
    <3>1. need[c] = "operator" => Powerful(row[c])
      BY <2>1 DEF HasRole, EntitledTo, Powerful
    <3> QED
      BY <1>7, <2>1, <3>1 DEF Check, PowerInv, TypeOK, Powerful, table
  <2>2. CASE ~HasRole(c)
    BY <1>7, <2>2 DEF Check, End, PowerInv, TypeOK, Powerful, table
  <2> QED
    BY <2>1, <2>2
<1>8. CASE UNCHANGED vars
  BY <1>8 DEF vars, table, request, PowerInv, Powerful
<1>9. CASE Restart
  BY <1>9 DEF Restart, PowerInv, Powerful, table
<1> QED
  BY <1>1, <1>2, <1>3, <1>4, <1>5, <1>6, <1>7, <1>8, <1>9 DEF Next, Refused

\* No sequence of sign-ups, log-ins, requests and restarts with sign-ups open or locked
\* lets a command run for an account made while they were locked whose role no
\* administrator has set.
THEOREM PowerIsGranted == Spec => []NoSelfPromotion
<1>1. Init => PowerInv
  BY RankFacts DEF Init, PowerInv, NoRow
<1>2. PowerInv => NoSelfPromotion
  BY DEF PowerInv, NoSelfPromotion
<1> QED
  BY <1>1, <1>2, PowerNext, AccountsTypeCorrect, PTL DEF Spec

-----------------------------------------------------------------------------
(* Exposure: a token dies at most Latency + Age after its account did.     *)

Outlived(i) == lastActive[i] + Latency + Age

ExposureInv ==
    /\ \A i \in Ids : lastActive[i] <= now /\ (users[i].active => lastActive[i] = now)
    /\ \A t \in tokens : t.exp <= Outlived(t.sub)
    /\ \A c \in Clients :
          /\ pc[c] = "verify" =>
                /\ now <= began[c] + Latency
                /\ row[c].active => began[c] <= lastActive[id[c]]
          /\ pc[c] \notin {"idle", "verify"} => began[c] < Outlived(token[c].sub)

\* While nobody's request changes, it is enough that the last activity moves forward.
LEMMA ExposureKept ==
    ASSUME TypeOK, ExposureInv,
           UNCHANGED <<tokens, request>> \/ UNCHANGED <<tokens, pc, began, id, row, token>>,
           now' \in Int, lastActive' \in [Ids -> Int],
           \A i \in Ids : /\ lastActive[i] <= lastActive'[i] /\ lastActive'[i] <= now'
                          /\ users'[i].active => lastActive'[i] = now',
           \A c \in Clients : pc[c] = "verify" => now' <= began[c] + Latency
    PROVE  ExposureInv'
<1>0. UNCHANGED <<tokens, pc, began, id, row, token>>
  BY DEF request
<1>1. ASSUME NEW i \in Ids PROVE Outlived(i) <= Outlived(i)'
  BY AccountsAssumption DEF Outlived, TypeOK
<1>2. ASSUME NEW t \in tokens PROVE t.exp <= Outlived(t.sub)'
  <2>1. t.sub \in Ids /\ t.exp \in Int
    BY DEF TypeOK, Token
  <2> QED
    BY <1>1, <2>1, AccountsAssumption DEF ExposureInv, TypeOK, Outlived
<1>3. ASSUME NEW c \in Clients, pc[c] \notin {"idle", "verify"}
      PROVE  began[c] < Outlived(token[c].sub)'
  <2>1. token[c].sub \in Ids
    BY <1>3 DEF TypeOK, Token
  <2>2. Outlived(token[c].sub) <= Outlived(token[c].sub)'
    BY <1>0, <1>1, <2>1
  <2>3. began[c] < Outlived(token[c].sub)
    BY <1>3 DEF ExposureInv
  <2>4. began[c] \in Int /\ Outlived(token[c].sub) \in Int /\ Outlived(token[c].sub)' \in Int
    BY <1>0, <2>1, AccountsAssumption DEF TypeOK, Outlived
  <2> QED
    BY <2>2, <2>3, <2>4
<1>4. ASSUME NEW c \in Clients, pc[c] = "verify", row[c].active
      PROVE  began[c] <= lastActive'[id[c]]
  <2>1. id[c] \in Ids
    BY <1>4 DEF TypeOK
  <2> QED
    BY <1>4, <2>1 DEF ExposureInv, TypeOK
<1> QED
  BY <1>0, <1>2, <1>3, <1>4 DEF ExposureInv, Outlived

LEMMA ExposureWrite ==
    ASSUME TypeOK, ExposureInv, NEW i \in Ids, NEW r \in Row, Write(i, r)
    PROVE  ExposureInv'
<1>1. \A c \in Clients : pc[c] = "verify" => now <= began[c] + Latency
  BY DEF ExposureInv
<1>2. now \in Int /\ lastActive \in [Ids -> Int] /\ users \in [Ids -> Row]
  BY DEF TypeOK
<1>3. now' = now /\ UNCHANGED <<tokens, pc, began, id, row, token>>
  BY DEF Write
<1>4. lastActive' \in [Ids -> Int]
  BY <1>2 DEF Write
<1>5. ASSUME NEW j \in Ids
      PROVE  /\ lastActive[j] <= lastActive'[j] /\ lastActive'[j] <= now
             /\ users'[j].active => lastActive'[j] = now
  BY <1>2 DEF Write, ExposureInv
<1> QED
  BY <1>1, <1>2, <1>3, <1>4, <1>5, ExposureKept

LEMMA ExposureNext == TypeOK /\ ExposureInv /\ [Next]_vars => ExposureInv'
<1> SUFFICES ASSUME TypeOK, ExposureInv, [Next]_vars PROVE ExposureInv'
  OBVIOUS
<1>1. ASSUME NEW n \in Names, NEW r \in Roles, Signup(n, r) PROVE ExposureInv'
  <2> DEFINE new == [name |-> n, role |-> SignupRole(r), active |-> TRUE]
  <2>1. new \in Row /\ last' \in Ids /\ Write(last', new)
    BY <1>1, AccountsAssumption DEF Row, SignupRole, Signup, TypeOK, Ids
  <2> HIDE DEF new
  <2> QED
    BY <2>1, ExposureWrite
<1>2. CASE Administer
  <2>1. PICK i \in Ids : Registered(i) /\
            \/ \E r \in Roles : Write(i, SetRole(users[i], r))
            \/ Write(i, Toggle(users[i]))
            \/ Write(i, NoRow)
    BY <1>2 DEF Administer
  <2>2. users[i] \in Row /\ users[i] # NoRow
    BY <2>1 DEF TypeOK, Registered
  <2> QED
    BY <2>1, <2>2, RowChanges, RowFacts, ExposureWrite
<1>3. CASE Tick
  <2>1. /\ now \in Int /\ now' = now + 1 /\ UNCHANGED <<tokens, request>>
        /\ lastActive \in [Ids -> Int] /\ users' = users
        /\ lastActive' = [i \in Ids |-> IF users[i].active THEN now' ELSE lastActive[i]]
    BY <1>3 DEF Tick, TypeOK
  <2>2. lastActive' \in [Ids -> Int] /\ now' \in Int
    BY <2>1
  <2>3. ASSUME NEW i \in Ids
        PROVE  /\ lastActive[i] <= lastActive'[i] /\ lastActive'[i] <= now'
               /\ users'[i].active => lastActive'[i] = now'
    BY <2>1 DEF ExposureInv
  <2>4. \A c \in Clients : pc[c] = "verify" => now' <= began[c] + Latency
    BY <1>3, <2>1, AccountsAssumption DEF Tick, TypeOK
  <2> QED
    BY <2>1, <2>2, <2>3, <2>4, ExposureKept
<1>4. ASSUME NEW c \in Clients, NEW i \in Ids, LoginRead(c, i) PROVE ExposureInv'
  <2>1. now <= now + Latency /\ (users[i].active => now <= lastActive[i])
    BY AccountsAssumption DEF TypeOK, ExposureInv
  <2> QED
    BY <1>4, <2>1 DEF LoginRead, Begin, ExposureInv, TypeOK, Outlived, table
<1>5. ASSUME NEW c \in Clients, LoginDone(c) PROVE ExposureInv'
  <2> DEFINE t == [sub |-> id[c], name |-> row[c].name, role |-> row[c].role, exp |-> now + Age]
  <2>1. id[c] \in Ids /\ pc[c] = "verify" /\ row[c].active
    BY <1>5 DEF LoginDone, TypeOK
  <2>2. now <= began[c] + Latency /\ began[c] <= lastActive[id[c]]
    BY <2>1 DEF ExposureInv
  <2>3. now \in Int /\ began[c] \in Int /\ lastActive[id[c]] \in Int
    BY <2>1 DEF TypeOK
  <2>4. t.exp <= Outlived(t.sub)
    BY <2>2, <2>3, AccountsAssumption DEF Outlived
  <2>5. tokens' = tokens \cup {t}
    BY <1>5 DEF LoginDone
  <2> HIDE DEF t
  <2> QED
    BY <1>5, <2>4, <2>5 DEF LoginDone, End, ExposureInv, TypeOK, Outlived, table
<1>6. ASSUME NEW c \in Clients, LoginRefused(c) \/ Finish(c) PROVE ExposureInv'
  BY <1>6 DEF LoginRefused, Finish, End, ExposureInv, TypeOK, Outlived, table
<1>7. ASSUME NEW c \in Clients, NEW t \in tokens,
             WsConnect(c, t) \/ \E n \in Needs : Ask(c, t, n)
      PROVE  ExposureInv'
  <2>1. now < t.exp /\ t.exp <= Outlived(t.sub)
    BY <1>7 DEF WsConnect, WsAccepts, Ask, ExposureInv
  <2>2. now \in Int /\ t.exp \in Int /\ Outlived(t.sub) \in Int
    BY AccountsAssumption DEF TypeOK, Token, Outlived
  <2>3. now < Outlived(t.sub)
    BY <2>1, <2>2
  <2> QED
    BY <1>7, <2>3 DEF WsConnect, Ask, Begin, ExposureInv, TypeOK, Outlived, table
<1>8. ASSUME NEW c \in Clients, Read(c) PROVE ExposureInv'
  BY <1>8 DEF Read, ExposureInv, TypeOK, Outlived, table
<1>9. ASSUME NEW c \in Clients, Check(c) PROVE ExposureInv'
  <2>1. CASE HasRole(c)
    BY <1>9, <2>1 DEF Check, ExposureInv, TypeOK, Outlived, table
  <2>2. CASE ~HasRole(c)
    BY <1>9, <2>2 DEF Check, End, ExposureInv, TypeOK, Outlived, table
  <2> QED
    BY <2>1, <2>2
<1>10. CASE UNCHANGED vars
  BY <1>10 DEF vars, table, request, ExposureInv, Outlived
<1>11. CASE Restart
  BY <1>11 DEF Restart, ExposureInv, Outlived, table
<1> QED
  BY <1>1, <1>2, <1>3, <1>4, <1>5, <1>6, <1>7, <1>8, <1>9, <1>10, <1>11 DEF Next, Refused

\* A deactivated or deleted account opens no stream and runs no endpoint later than the
\* latency of a log-in and the age of a token after it was last active.
THEOREM ExposureIsBounded == Spec => []ExposureBounded
<1>1. Init => ExposureInv
  BY DEF Init, ExposureInv, NoRow, Ids
<1>2. ExposureInv => ExposureBounded
  BY DEF ExposureInv, ExposureBounded, Outlived
<1> QED
  BY <1>1, <1>2, ExposureNext, AccountsTypeCorrect, PTL DEF Spec

-----------------------------------------------------------------------------
(* The gateway's token: how often the backend logs in.                     *)
(* A login is due to everyone who has been refused, or will be. Whatever   *)
(* makes a token useless, or loses a login, adds one for each client at    *)
(* most; a login granted takes one away. So the logins granted and those   *)
(* due together grow with the expiries and faults alone.                   *)

TokenTypes ==
    /\ creds \in {"none", "user", "both"}
    /\ header \in Nat /\ issued \in Nat /\ expiries \in Nat /\ faults \in Nat
    /\ valid \subseteq 1..issued /\ header <= issued
    /\ awaits \in [Callers -> {"idle", "first", "retry", "login", "granted"}]
    /\ carried \in [Callers -> Nat]
    /\ \A c \in Commands : awaits[c] \in {"idle", "first"}
    /\ \A c \in Callers : carried[c] <= issued

\* A token on its way back from a login is nowhere else.
TokensFresh ==
    \A d \in Callers : awaits[d] = "granted" /\ carried[d] # 0 =>
        /\ carried[d] # header
        /\ \A c \in Callers \ {d} : carried[c] # carried[d]

\* The clients that log in, or will do so when their request ends, unless a good
\* token comes into the header before they take it.
Owes(c) ==
    \/ awaits[c] = "login"
    \/ awaits[c] = "first" /\ carried[c] \notin valid
    \/ awaits[c] # "granted" /\ header \notin valid
Owing == {c \in Retrying : Owes(c)}

\* The logins whose token was useless before it reached the header: each of them may
\* make every client log in once more.
Late == {d \in Callers : awaits[d] = "granted" /\ carried[d] \notin valid}

All == Cardinality(Retrying)
Due == issued + Cardinality(Owing) + Cardinality(Late) * All
DueBounded == Due <= 1 + (1 + expiries + faults) * All

TokenInv == TokenTypes /\ TokensFresh /\ DueBounded

\* The sets are finite, now and after a step.
LEMMA TokenSets ==
    /\ IsFiniteSet(Retrying) /\ All \in Nat /\ IsFiniteSet(Callers)
    /\ IsFiniteSet(Owing) /\ Cardinality(Owing) \in Nat
    /\ IsFiniteSet(Late) /\ Cardinality(Late) \in Nat
    /\ "startup" \in Retrying /\ "startup" \notin Commands
    /\ Owing \subseteq Callers
<1>1. "startup" \in Retrying /\ "startup" \notin Commands
  BY TokenAssumption DEF Retrying
<1>2. IsFiniteSet(Callers)
  <2>1. IsFiniteSet((Pollers \cup Handlers \cup Commands) \cup {"startup"})
    BY TokenAssumption, FS_AddElement
  <2>2. Callers = (Pollers \cup Handlers \cup Commands) \cup {"startup"}
    BY DEF Callers, Retrying
  <2> QED
    BY <2>1, <2>2
<1>3. IsFiniteSet(Retrying)
  BY <1>2, FS_Subset DEF Callers
<1>4. Owing \subseteq Callers /\ Late \subseteq Callers
  BY DEF Owing, Late, Callers
<1>5. IsFiniteSet(Owing) /\ IsFiniteSet(Late)
  BY <1>2, <1>4, FS_Subset
<1>6. All \in Nat
  BY <1>3, FS_CardinalityType DEF All
<1> QED
  BY <1>1, <1>2, <1>3, <1>4, <1>5, <1>6, FS_CardinalityType

LEMMA TokenSetsNext ==
    /\ IsFiniteSet(Owing') /\ Cardinality(Owing') \in Nat
    /\ IsFiniteSet(Late') /\ Cardinality(Late') \in Nat
<1>1. Owing' \subseteq Callers /\ Late' \subseteq Callers
  BY DEF Owing, Late, Callers
<1> QED
  BY <1>1, TokenSets, FS_Subset, FS_CardinalityType

\* A step that makes nobody's debt larger, and one that a fault or an expiry pays for.
LEMMA DuePaid ==
    ASSUME TokenTypes, TokenTypes', DueBounded,
           \/ expiries' + faults' = expiries + faults /\ Due' <= Due
           \/ expiries' + faults' = expiries + faults + 1 /\ Due' <= Due + All
    PROVE  DueBounded'
<1> DEFINE bill(n) == (1 + n) * All
<1>1. expiries + faults \in Nat /\ All \in Nat
  BY TokenSets DEF TokenTypes
<1>2. \A n \in Nat : bill(n) \in Nat /\ bill(n + 1) = bill(n) + All
  BY <1>1
<1>3. Due \in Nat /\ Due' \in Nat
  BY TokenSets, TokenSetsNext DEF Due, TokenTypes, All
<1>4. Due <= 1 + bill(expiries + faults)
  BY <1>1 DEF DueBounded, TokenTypes
<1>5. Due' <= 1 + bill(expiries' + faults') => DueBounded'
  BY DEF DueBounded, All, TokenTypes
<1> HIDE DEF bill
<1> QED
  BY <1>1, <1>2, <1>3, <1>4, <1>5

\* What becomes due when nobody else owes anything.
LEMMA DueKept ==
    ASSUME TokenTypes, TokenTypes', issued' = issued,
           Owing' \subseteq Owing, Late' \subseteq Late
    PROVE  Due' <= Due
<1>1. Cardinality(Owing') <= Cardinality(Owing) /\ Cardinality(Late') <= Cardinality(Late)
  BY TokenSets, FS_Subset
<1>2. Cardinality(Late') * All <= Cardinality(Late) * All
  BY <1>1, TokenSets, TokenSetsNext
<1> QED
  BY <1>1, <1>2, TokenSets, TokenSetsNext DEF Due, TokenTypes, All

\* Everybody may owe a login more, and nothing else becomes due.
LEMMA DueForAll ==
    ASSUME TokenTypes, TokenTypes', issued' = issued,
           Owing' \subseteq Owing \cup Retrying, Late' \subseteq Late
    PROVE  Due' <= Due + All
<1>1. /\ IsFiniteSet(Owing \cup Retrying)
      /\ Cardinality(Owing \cup Retrying)
            = Cardinality(Owing) + Cardinality(Retrying) - Cardinality(Owing \cap Retrying)
  BY TokenSets, FS_Union
<1>2. Cardinality(Owing \cap Retrying) \in Nat
  BY TokenSets, FS_Subset, FS_CardinalityType
<1>3. Cardinality(Owing') <= Cardinality(Owing \cup Retrying)
  BY <1>1, FS_Subset
<1>4. Cardinality(Owing') <= Cardinality(Owing) + All
  BY <1>1, <1>2, <1>3, TokenSets, TokenSetsNext DEF All
<1>5. Cardinality(Late') <= Cardinality(Late)
  BY TokenSets, FS_Subset
<1>6. Cardinality(Late') * All <= Cardinality(Late) * All
  BY <1>5, TokenSets, TokenSetsNext
<1> QED
  BY <1>4, <1>6, TokenSets, TokenSetsNext DEF Due, TokenTypes, All

\* One login more may be late.
LEMMA DueForLate ==
    ASSUME TokenTypes, TokenTypes', issued' = issued, NEW d,
           Owing' \subseteq Owing, Late' \subseteq Late \cup {d}
    PROVE  Due' <= Due + All
<1>1. Cardinality(Owing') <= Cardinality(Owing)
  BY TokenSets, FS_Subset
<1>2. /\ IsFiniteSet(Late \cup {d})
      /\ Cardinality(Late \cup {d})
            = IF d \in Late THEN Cardinality(Late) ELSE Cardinality(Late) + 1
  BY TokenSets, FS_AddElement
<1>3. Cardinality(Late') <= Cardinality(Late \cup {d})
  BY <1>2, FS_Subset
<1>4. Cardinality(Late \cup {d}) \in Nat
  BY <1>2, FS_CardinalityType
<1>5. Cardinality(Late') <= Cardinality(Late) + 1
  BY <1>2, <1>3, <1>4, TokenSets, TokenSetsNext
<1>6. Cardinality(Late') * All <= (Cardinality(Late) + 1) * All
  BY <1>5, TokenSets, TokenSetsNext
<1>7. (Cardinality(Late) + 1) * All = Cardinality(Late) * All + All
  BY TokenSets
<1> QED
  BY <1>1, <1>6, <1>7, TokenSets, TokenSetsNext DEF Due, TokenTypes, All

\* A late token reaches the header: now everybody owes a login, as was foreseen.
LEMMA DueForLateStored ==
    ASSUME TokenTypes, TokenTypes', issued' = issued, NEW d \in Late,
           Owing' \subseteq Owing \cup Retrying, Late' \subseteq Late \ {d}
    PROVE  Due' <= Due
<1>1. /\ IsFiniteSet(Owing \cup Retrying)
      /\ Cardinality(Owing \cup Retrying)
            = Cardinality(Owing) + Cardinality(Retrying) - Cardinality(Owing \cap Retrying)
  BY TokenSets, FS_Union
<1>2. Cardinality(Owing \cap Retrying) \in Nat
  BY TokenSets, FS_Subset, FS_CardinalityType
<1>3. Cardinality(Owing') <= Cardinality(Owing \cup Retrying)
  BY <1>1, FS_Subset
<1>4. Cardinality(Owing') <= Cardinality(Owing) + All
  BY <1>1, <1>2, <1>3, TokenSets, TokenSetsNext DEF All
<1>5. IsFiniteSet(Late \ {d}) /\ Cardinality(Late \ {d}) = Cardinality(Late) - 1
  BY TokenSets, FS_RemoveElement
<1>6. Cardinality(Late') <= Cardinality(Late \ {d})
  BY <1>5, FS_Subset
<1>7. Cardinality(Late') + 1 <= Cardinality(Late)
  BY <1>5, <1>6, TokenSets, TokenSetsNext
<1>8. (Cardinality(Late') + 1) * All <= Cardinality(Late) * All
  BY <1>7, TokenSets, TokenSetsNext
<1>9. (Cardinality(Late') + 1) * All = Cardinality(Late') * All + All
  BY TokenSets, TokenSetsNext
<1> QED
  BY <1>4, <1>8, <1>9, TokenSets, TokenSetsNext DEF Due, TokenTypes, All

\* The login that was owed is granted.
LEMMA DueGranted ==
    ASSUME TokenTypes, TokenTypes', issued' = issued + 1, NEW c \in Owing,
           Owing' \subseteq Owing \ {c}, Late' \subseteq Late
    PROVE  Due' <= Due
<1>1. IsFiniteSet(Owing \ {c}) /\ Cardinality(Owing \ {c}) = Cardinality(Owing) - 1
  BY TokenSets, FS_RemoveElement
<1>2. Cardinality(Owing') <= Cardinality(Owing \ {c})
  BY <1>1, FS_Subset
<1>3. Cardinality(Owing') + 1 <= Cardinality(Owing)
  BY <1>1, <1>2, TokenSets, TokenSetsNext
<1>4. Cardinality(Late') <= Cardinality(Late)
  BY TokenSets, FS_Subset
<1>5. Cardinality(Late') * All <= Cardinality(Late) * All
  BY <1>4, TokenSets, TokenSetsNext
<1> QED
  BY <1>3, <1>5, TokenSets, TokenSetsNext DEF Due, TokenTypes, All

LEMMA TokenStarts == TokenInit => TokenInv
<1> SUFFICES ASSUME TokenInit PROVE TokenInv
  OBVIOUS
<1>1. /\ creds \in {"none", "user", "both"} /\ issued \in {0, 1} /\ header = issued
      /\ valid = 1..issued /\ expiries = 0 /\ faults = 0
      /\ carried = [c \in Callers |-> 0]
      /\ awaits = [c \in Callers |->
                 IF c = "startup" /\ creds = "both" THEN "login" ELSE "idle"]
  BY DEF TokenInit
<1>2. "startup" \in Callers /\ Commands \subseteq Callers /\ "startup" \notin Commands
  BY TokenSets DEF Callers
<1>3. TokenTypes
  BY <1>1, <1>2 DEF TokenTypes
<1>4. TokensFresh
  BY <1>1 DEF TokensFresh
<1>5. Late = {}
  BY <1>1 DEF Late
<1>6. Cardinality(Late) = 0 /\ Cardinality(Late) * All = 0
  BY <1>5, TokenSets, FS_EmptySet
<1>7. (1 + expiries + faults) * All = All
  BY <1>1, TokenSets
<1>8. All >= 1
  <2>1. {"startup"} \subseteq Retrying /\ Cardinality({"startup"}) = 1
    BY TokenSets, FS_Singleton
  <2>2. Cardinality({"startup"}) <= Cardinality(Retrying)
    BY <2>1, TokenSets, FS_Subset
  <2> QED
    BY <2>1, <2>2 DEF All
<1>9. CASE issued = 1
  <2>1. header \in valid
    BY <1>1, <1>9
  <2>2. Owing \subseteq {"startup"}
    BY <1>1, <2>1 DEF Owing, Owes, Callers
  <2>3. Cardinality(Owing) <= 1
    <3>1. IsFiniteSet({"startup"}) /\ Cardinality({"startup"}) = 1
      BY FS_Singleton
    <3> QED
      BY <2>2, <3>1, FS_Subset
  <2> QED
    BY <1>3, <1>4, <1>6, <1>7, <1>8, <1>9, <2>3, TokenSets DEF Due, TokenInv, DueBounded
<1>10. CASE issued = 0
  <2>1. Cardinality(Owing) <= All
    BY TokenSets, FS_Subset DEF Owing, All
  <2> QED
    BY <1>3, <1>4, <1>6, <1>7, <1>10, <2>1, TokenSets DEF Due, TokenInv, DueBounded
<1> QED
  BY <1>1, <1>9, <1>10

LEMMA TokenTypesNext == TokenInv /\ [TokenNext]_tokenVars => TokenTypes'
<1> SUFFICES ASSUME TokenInv, [TokenNext]_tokenVars PROVE TokenTypes'
  OBVIOUS
<1>0. /\ TokenTypes /\ Commands \subseteq Callers
      /\ "startup" \in Callers /\ "startup" \notin Commands
  BY TokenSets DEF TokenInv, Callers
<1>1. ASSUME NEW c \in Callers, Call(c) PROVE TokenTypes'
  BY <1>0, <1>1 DEF Call, Goto, config, gateway, TokenTypes
<1>2. ASSUME NEW c \in Callers, Accepted(c) PROVE TokenTypes'
  BY <1>0, <1>2 DEF Accepted, Ends, Goto, config, gateway, TokenTypes
<1>3. ASSUME NEW c \in Callers, Unauthorised(c) PROVE TokenTypes'
  <2>1. \E w \in {"idle", "login", "retry"}, t \in {0, header} :
            Goto(c, w, t) /\ (c \in Commands => w = "idle")
    BY <1>3 DEF Unauthorised, AfterRefusal, Ends
  <2>2. UNCHANGED <<creds, header, faults, issued, valid, expiries>>
    BY <1>3 DEF Unauthorised, config, gateway
  <2> QED
    BY <1>0, <2>1, <2>2 DEF Goto, TokenTypes
<1>4. ASSUME NEW c \in Callers, LoginGranted(c) PROVE TokenTypes'
  BY <1>0, <1>4 DEF LoginGranted, Goto, config, TokenTypes
<1>5. ASSUME NEW c \in Callers, LoginEmpty(c) PROVE TokenTypes'
  BY <1>0, <1>5 DEF LoginEmpty, Goto, config, gateway, TokenTypes
<1>6. ASSUME NEW c \in Callers, LoginStored(c) PROVE TokenTypes'
  <2>1. awaits[c] = "granted" /\ \E w \in {"idle", "retry"}, t \in {0, carried[c]} : Goto(c, w, t)
    BY <1>6 DEF LoginStored, Ends
  <2>2. header' = carried[c] /\ UNCHANGED <<creds, faults, issued, valid, expiries>>
    BY <1>6 DEF LoginStored, Store, config, gateway
  <2> QED
    BY <1>0, <2>1, <2>2 DEF Goto, TokenTypes
<1>7. ASSUME NEW c \in Callers, Raises(c) PROVE TokenTypes'
  BY <1>0, <1>7 DEF Raises, Ends, Goto, config, gateway, TokenTypes
<1>8. CASE Expire
  BY <1>0, <1>8 DEF Expire, config, TokenTypes
<1>9. CASE Open \/ Opened \/ StreamLost \/ UNCHANGED tokenVars
  <2>1. /\ UNCHANGED <<creds, header, issued, valid, awaits, carried, expiries>>
        /\ faults' = faults \/ faults' = faults + 1
    BY <1>9 DEF Open, Opened, StreamLost, gateway, config, tokenVars
  <2>2. faults' \in Nat
    BY <1>0, <2>1 DEF TokenTypes
  <2> QED
    BY <1>0, <2>1, <2>2 DEF TokenTypes
<1> QED
  BY <1>1, <1>2, <1>3, <1>4, <1>5, <1>6, <1>7, <1>8, <1>9 DEF TokenNext, ClientSteps

LEMMA TokensFreshNext == TokenInv /\ [TokenNext]_tokenVars => TokensFresh'
<1> SUFFICES ASSUME TokenInv, [TokenNext]_tokenVars PROVE TokensFresh'
  OBVIOUS
<1>0. TokenTypes /\ TokensFresh
  BY DEF TokenInv
<1>1. ASSUME NEW c \in Callers, Call(c) PROVE TokensFresh'
  BY <1>0, <1>1 DEF Call, Goto, config, gateway, TokenTypes, TokensFresh
<1>2. ASSUME NEW c \in Callers, Accepted(c) PROVE TokensFresh'
  BY <1>0, <1>2 DEF Accepted, Ends, Goto, config, gateway, TokenTypes, TokensFresh
<1>3. ASSUME NEW c \in Callers, Unauthorised(c) PROVE TokensFresh'
  BY <1>0, <1>3 DEF Unauthorised, AfterRefusal, Ends, Goto, config, gateway, TokenTypes, TokensFresh
<1>4. ASSUME NEW c \in Callers, LoginGranted(c) PROVE TokensFresh'
  <2>1. \A d \in Callers : carried[d] # issued + 1 /\ header # issued + 1
    BY <1>0 DEF TokenTypes
  <2> QED
    BY <1>0, <1>4, <2>1 DEF LoginGranted, Goto, config, TokenTypes, TokensFresh
<1>5. ASSUME NEW c \in Callers, LoginEmpty(c) PROVE TokensFresh'
  BY <1>0, <1>5 DEF LoginEmpty, Goto, config, gateway, TokenTypes, TokensFresh
<1>6. ASSUME NEW c \in Callers, LoginStored(c) PROVE TokensFresh'
  BY <1>0, <1>6 DEF LoginStored, Store, Ends, Goto, config, gateway, TokenTypes, TokensFresh
<1>7. ASSUME NEW c \in Callers, Raises(c) PROVE TokensFresh'
  BY <1>0, <1>7 DEF Raises, Ends, Goto, config, gateway, TokenTypes, TokensFresh
<1>8. CASE Expire \/ Open \/ Opened \/ StreamLost \/ UNCHANGED tokenVars
  BY <1>0, <1>8 DEF Expire, Open, Opened, StreamLost, gateway, tokenVars, TokensFresh
<1> QED
  BY <1>1, <1>2, <1>3, <1>4, <1>5, <1>6, <1>7, <1>8 DEF TokenNext, ClientSteps

LEMMA DueNext == TokenInv /\ TokenTypes' /\ [TokenNext]_tokenVars => DueBounded'
<1> SUFFICES ASSUME TokenInv, TokenTypes', [TokenNext]_tokenVars PROVE DueBounded'
  OBVIOUS
<1>0. /\ TokenTypes /\ TokensFresh /\ DueBounded
      /\ "startup" \notin Commands /\ Retrying \subseteq Callers
  BY TokenSets DEF TokenInv, Callers
<1>owing. ASSUME NEW c
          PROVE  /\ c \in Owing <=> c \in Retrying /\ Owes(c)
                 /\ c \in Owing' <=> c \in Retrying /\ Owes(c)'
  BY DEF Owing
<1>1. ASSUME NEW c \in Callers, Call(c) PROVE DueBounded'
  <2>1. Owing' \subseteq Owing
    BY <1>0, <1>owing, <1>1 DEF Call, Goto, gateway, TokenTypes, Owes
  <2>2. Late' \subseteq Late
    BY <1>0, <1>1 DEF Call, Goto, gateway, TokenTypes, Late
  <2>3. UNCHANGED <<issued, expiries, faults>>
    BY <1>1 DEF Call, gateway
  <2> QED
    BY <1>0, <2>1, <2>2, <2>3, DueKept, DuePaid
<1>2. ASSUME NEW c \in Callers, Accepted(c) PROVE DueBounded'
  <2>1. Owing' \subseteq Owing
    BY <1>0, <1>owing, <1>2 DEF Accepted, Ends, Goto, gateway, TokenTypes, Owes
  <2>2. Late' \subseteq Late
    BY <1>0, <1>2 DEF Accepted, Ends, Goto, gateway, TokenTypes, Late
  <2>3. UNCHANGED <<issued, expiries, faults>>
    BY <1>2 DEF Accepted, gateway
  <2> QED
    BY <1>0, <2>1, <2>2, <2>3, DueKept, DuePaid
<1>3. ASSUME NEW c \in Callers, Unauthorised(c) PROVE DueBounded'
  <2>1. Owing' \subseteq Owing
    BY <1>0, <1>owing, <1>3 DEF Unauthorised, AfterRefusal, Ends, Goto, gateway, TokenTypes, Owes
  <2>2. Late' \subseteq Late
    BY <1>0, <1>3 DEF Unauthorised, AfterRefusal, Ends, Goto, gateway, TokenTypes, Late
  <2>3. UNCHANGED <<issued, expiries, faults>>
    BY <1>3 DEF Unauthorised, gateway
  <2> QED
    BY <1>0, <2>1, <2>2, <2>3, DueKept, DuePaid
<1>4. ASSUME NEW c \in Callers, LoginGranted(c) PROVE DueBounded'
  <2>1. c \in Owing
    BY <1>0, <1>owing, <1>4 DEF LoginGranted, TokenTypes, Owes, Callers
  <2>2. Owing' \subseteq Owing \ {c}
    BY <1>0, <1>owing, <1>4 DEF LoginGranted, Goto, TokenTypes, Owes
  <2>3. Late' \subseteq Late
    BY <1>0, <1>4 DEF LoginGranted, Goto, TokenTypes, Late
  <2>4. issued' = issued + 1 /\ UNCHANGED <<expiries, faults>>
    BY <1>4 DEF LoginGranted
  <2> QED
    BY <1>0, <2>1, <2>2, <2>3, <2>4, DueGranted, DuePaid
<1>5. ASSUME NEW c \in Callers, LoginEmpty(c) PROVE DueBounded'
  <2>1. Owing' \subseteq Owing
    BY <1>0, <1>owing, <1>5 DEF LoginEmpty, Goto, gateway, TokenTypes, Owes
  <2>2. Late' \subseteq Late \cup {c}
    BY <1>0, <1>5 DEF LoginEmpty, Goto, gateway, TokenTypes, Late
  <2>3. UNCHANGED <<issued, expiries>> /\ faults' = faults + 1
    BY <1>5 DEF LoginEmpty, gateway
  <2>4. expiries' + faults' = expiries + faults + 1
    BY <1>0, <2>3 DEF TokenTypes
  <2> QED
    BY <1>0, <2>1, <2>2, <2>3, <2>4, DueForLate, DuePaid
<1>6. ASSUME NEW c \in Callers, LoginStored(c) PROVE DueBounded'
  <2>0. UNCHANGED <<issued, expiries, faults>>
    BY <1>6 DEF LoginStored, gateway
  <2>1. CASE carried[c] \in valid
    <3>1. Owing' \subseteq Owing
      BY <1>0, <1>owing, <1>6, <2>1 DEF LoginStored, Store, Ends, Goto, gateway, TokenTypes, Owes
    <3>2. Late' \subseteq Late
      BY <1>0, <1>6 DEF LoginStored, Ends, Goto, gateway, TokenTypes, Late
    <3> QED
      BY <1>0, <2>0, <3>1, <3>2, DueKept, DuePaid
  <2>2. CASE carried[c] \notin valid
    <3>1. Owing' \subseteq Owing \cup Retrying
      BY <1>0, <1>owing, <1>6 DEF LoginStored, Ends, Goto, TokenTypes
    <3>2. c \in Late /\ Late' \subseteq Late \ {c}
      BY <1>0, <1>6, <2>2 DEF LoginStored, Ends, Goto, gateway, TokenTypes, Late
    <3> QED
      BY <1>0, <2>0, <3>1, <3>2, DueForLateStored, DuePaid
  <2> QED
    BY <2>1, <2>2
<1>7. ASSUME NEW c \in Callers, Raises(c) PROVE DueBounded'
  <2>1. Owing' \subseteq Owing \cup Retrying
    BY <1>0, <1>owing, <1>7 DEF Raises, Ends, Goto, TokenTypes
  <2>2. Late' \subseteq Late
    BY <1>0, <1>7 DEF Raises, Ends, Goto, gateway, TokenTypes, Late
  <2>3. UNCHANGED <<issued, expiries>> /\ faults' = faults + 1
    BY <1>7 DEF Raises, gateway
  <2>4. expiries' + faults' = expiries + faults + 1
    BY <1>0, <2>3 DEF TokenTypes
  <2> QED
    BY <1>0, <2>1, <2>2, <2>3, <2>4, DueForAll, DuePaid
<1>8. CASE Expire
  <2>1. PICK t \in valid : valid' = valid \ {t}
    BY <1>8 DEF Expire
  <2>2. /\ t # 0 /\ expiries' = expiries + 1
        /\ UNCHANGED <<header, issued, awaits, carried, faults>>
    BY <1>0, <1>8, <2>1 DEF Expire, TokenTypes
  <2>3. expiries' + faults' = expiries + faults + 1
    BY <1>0, <2>2 DEF TokenTypes
  <2>4. CASE \E d \in Callers : awaits[d] = "granted" /\ carried[d] = t
    <3>1. PICK d \in Callers : awaits[d] = "granted" /\ carried[d] = t
      BY <2>4
    <3>2. header # t /\ \A c \in Callers \ {d} : carried[c] # t
      BY <1>0, <2>2, <3>1 DEF TokensFresh
    <3>3. Owing' \subseteq Owing
      BY <1>0, <1>owing, <2>1, <2>2, <3>1, <3>2 DEF Owes
    <3>4. Late' \subseteq Late \cup {d}
      BY <2>1, <2>2, <3>2 DEF Late
    <3> QED
      BY <1>0, <2>2, <2>3, <3>3, <3>4, DueForLate, DuePaid
  <2>5. CASE ~\E d \in Callers : awaits[d] = "granted" /\ carried[d] = t
    <3>1. Owing' \subseteq Owing \cup Retrying
      BY <1>owing, <2>2
    <3>2. Late' \subseteq Late
      BY <2>1, <2>2, <2>5 DEF Late
    <3> QED
      BY <1>0, <2>2, <2>3, <3>1, <3>2, DueForAll, DuePaid
  <2> QED
    BY <2>4, <2>5
<1>9. CASE StreamLost
  <2>1. UNCHANGED <<header, issued, valid, awaits, carried, expiries>> /\ faults' = faults + 1
    BY <1>9 DEF StreamLost, gateway
  <2>2. Owing' \subseteq Owing \cup Retrying
    BY <1>owing, <2>1
  <2>3. Late' \subseteq Late
    BY <2>1 DEF Late
  <2>4. expiries' + faults' = expiries + faults + 1
    BY <1>0, <2>1 DEF TokenTypes
  <2> QED
    BY <1>0, <2>1, <2>2, <2>3, <2>4, DueForAll, DuePaid
<1>10. CASE Open \/ Opened \/ UNCHANGED tokenVars
  <2>1. UNCHANGED <<header, issued, valid, awaits, carried, expiries, faults>>
    BY <1>10 DEF Open, Opened, gateway, tokenVars
  <2>2. Owing' \subseteq Owing
    BY <1>owing, <2>1 DEF Owes
  <2>3. Late' \subseteq Late
    BY <2>1 DEF Late
  <2> QED
    BY <1>0, <2>1, <2>2, <2>3, DueKept, DuePaid
<1> QED
  BY <1>1, <1>2, <1>3, <1>4, <1>5, <1>6, <1>7, <1>8, <1>9, <1>10 DEF TokenNext, ClientSteps

\* However the clients interleave, a token that became useless costs one login of each of
\* them at most, and so does a request that raised: a 401 starts no storm of logins.
THEOREM NoLoginStorm == TokenSpec => []LoginsBounded
<1>1. TokenInv => LoginsBounded
  <2> SUFFICES ASSUME TokenInv PROVE LoginsBounded
    OBVIOUS
  <2>1. Cardinality(Late) * All \in Nat
    BY TokenSets
  <2>2. issued <= Due
    BY <2>1, TokenSets DEF Due, TokenInv, TokenTypes
  <2>3. Due <= 1 + (1 + expiries + faults) * All /\ (1 + expiries + faults) * All \in Nat
    BY TokenSets DEF TokenInv, DueBounded, TokenTypes
  <2>4. issued \in Nat /\ Due \in Nat
    BY <2>1, TokenSets DEF Due, TokenInv, TokenTypes
  <2> QED
    BY <2>2, <2>3, <2>4 DEF LoginsBounded, All
<1>2. TokenInv /\ [TokenNext]_tokenVars => TokenInv'
  BY TokenTypesNext, TokensFreshNext, DueNext DEF TokenInv
<1> QED
  BY <1>1, <1>2, TokenStarts, PTL DEF TokenSpec
=============================================================================
