---------------------------- MODULE CommandAudit ----------------------------
(***************************************************************************)
(* The command paths to the gateway and their audit trail:                 *)
(*   "write"    POST /api/commands/ems/write   (routers/ems_commands.py)   *)
(*   "batch"    POST /api/commands/ems/batch   (routers/ems_commands.py)   *)
(*   "command"  POST /api/assets/{id}/commands (routers/commands.py)       *)
(* with the re-login of GatewayClient._post, over a database whose         *)
(* statements may raise, a gateway whose answers may get lost, and crashes *)
(* of the process. Handlers run concurrently; a step ends at an await.     *)
(***************************************************************************)
EXTENDS Naturals, Sequences, FiniteSets

CONSTANTS
    Requests,         \* the requests of a behaviour
    Kind,             \* request -> "write", "batch" or "command"
    Writes,           \* request -> the sequence of its writes: does it name a target?
    KnownAsset,       \* request -> the asset of a "command" is in ems_assets
    Northbound,       \* settings.gateway_type = "northbound"
    Credentials,      \* settings.gateway_username is set
    MaxFaults,        \* bound: statements that raise
    MaxExpiries       \* bound: times the gateway token expires

ASSUME CommandAssumption ==
    /\ \A r \in Requests :
          /\ Kind[r] \in {"write", "batch", "command"}
          /\ Writes[r] \in Seq(BOOLEAN) /\ Writes[r] # <<>>
          /\ Kind[r] # "batch" => Len(Writes[r]) = 1
          /\ KnownAsset[r] \in BOOLEAN
    /\ Northbound \in BOOLEAN /\ Credentials \in BOOLEAN
    /\ MaxFaults \in Nat /\ MaxExpiries \in Nat

VARIABLES
    continueOnError, \* request -> body.continue_on_error
    pc,         \* where each handler is suspended, or how it ended
    results,    \* the local `results`: the statuses of the finished writes
    status,     \* the local `status` of the present write
    odd,        \* the gateway answered it with JSON that is not an object
    attempt,    \* how often _post has posted the present write
    registered, \* ems_system is in ems_assets
    audit,      \* request -> write -> status in ems_command_audit, or "none"
    executed,   \* request -> write -> how often the gateway carried it out
    token,      \* the gateway accepts the Authorization header of the client
    faults, expiries

locals == <<continueOnError, pc, results, status, odd, attempt>>
vars == <<locals, registered, audit, executed, token, faults, expiries>>

Ended == {"answered", "rejected", "failed", "crashed"}

Init ==
    /\ continueOnError \in [Requests -> BOOLEAN]
    /\ pc = [r \in Requests |-> "new"]
    /\ results = [r \in Requests |-> <<>>]
    /\ status = [r \in Requests |-> "error"]
    /\ odd = [r \in Requests |-> FALSE]
    /\ attempt = [r \in Requests |-> 0]
    /\ registered \in BOOLEAN
    /\ audit = [r \in Requests |-> [i \in DOMAIN Writes[r] |-> "none"]]
    /\ executed = [r \in Requests |-> [i \in DOMAIN Writes[r] |-> 0]]
    /\ token \in BOOLEAN
    /\ faults = 0 /\ expiries = 0

-----------------------------------------------------------------------------
Ems(r) == Kind[r] # "command"

Current(r) == Len(results[r]) + 1

Goto(r, where) == pc' = [pc EXCEPT ![r] = where]

\* A statement succeeds, or raises with or without having been committed.
Outcomes == {o \in [done : BOOLEAN, committed : BOOLEAN] : o.done => o.committed}

Executes(o) ==
    \/ o.done /\ UNCHANGED faults
    \/ ~o.done /\ faults < MaxFaults /\ faults' = faults + 1

\* An exception of the database leaves the handler: the client gets a 500.
NextOr500(r, o, where) == Goto(r, IF o.done THEN where ELSE "failed")

-----------------------------------------------------------------------------
(* Up to the gateway call *)

\* _require_northbound and the 422 of write_register; the 404 of send_command.
Accepted(r) ==
    IF Ems(r) THEN Northbound /\ (Kind[r] = "write" => Writes[r][1]) ELSE KnownAsset[r]

\* The SELECT of the user, and that of the asset in send_command, may raise: a 500.
Accept(r) ==
    /\ pc[r] = "new"
    /\ \/ /\ Goto(r, IF ~Accepted(r) THEN "rejected" ELSE IF Ems(r) THEN "register" ELSE "insert")
          /\ UNCHANGED faults
       \/ Goto(r, "failed") /\ faults < MaxFaults /\ faults' = faults + 1
    /\ UNCHANGED <<continueOnError, results, status, odd, attempt, registered, audit, executed, token,
                   expiries>>

\* _ensure_ems_asset
Register(r, o) ==
    /\ pc[r] = "register" /\ Executes(o)
    /\ registered' = (registered \/ o.committed)
    /\ NextOr500(r, o, "insert")
    /\ UNCHANGED <<continueOnError, results, status, odd, attempt, audit, executed, token, expiries>>

Recorded(r, value) == [audit EXCEPT ![r][Current(r)] = value]

\* Mutation: a failing audit insert is logged and the command sent all the same.
ForwardAnyway(r, o) == Goto(r, "post")
ForwardIfAudited(r, o) == NextOr500(r, o, "post")

\* INSERT ... 'pending' RETURNING id; the row refers to ems_assets.
InsertAudit(r, o) ==
    /\ pc[r] = "insert" /\ Executes(o)
    /\ o.committed /\ Ems(r) => registered
    /\ audit' = IF o.committed THEN Recorded(r, "pending") ELSE audit
    /\ ForwardIfAudited(r, o)
    /\ status' = [status EXCEPT ![r] = "error"]
    /\ odd' = [odd EXCEPT ![r] = FALSE]
    /\ attempt' = [attempt EXCEPT ![r] = 1]
    /\ UNCHANGED <<continueOnError, results, registered, executed, token, expiries>>

-----------------------------------------------------------------------------
(* The gateway call *)

\* What the client may see of an authorised command: success, refusal, a success
\* that is not JSON, JSON that is not an object, or nothing (timeout, broken
\* connection). The gateway reports success only of a command it carried out.
Answers == {"ok", "refused", "raw", "list", "lost"}

\* Mutation: the status starts out as "ok" and only a refusal corrects it.
StatusUnlessRefused(r, answer) == IF answer = "refused" THEN "error" ELSE "ok"
\* send_command takes a success without a status for "ok", _write_one does not.
StatusOf(r, answer) ==
    IF answer = "ok" \/ (answer = "raw" /\ ~Ems(r)) THEN "ok" ELSE "error"

\* Mutation: a lost answer is retried like a 401.
AfterAnswerRetry(r, answer) == IF answer = "lost" /\ attempt[r] = 1 THEN "login" ELSE "update"
AfterAnswer(r, answer) == "update"

PostAnswered(r, did, answer) ==
    /\ pc[r] = "post" /\ token
    /\ answer \in {"ok", "raw"} => did
    /\ executed' = IF did THEN [executed EXCEPT ![r][Current(r)] = @ + 1] ELSE executed
    /\ status' = [status EXCEPT ![r] = StatusOf(r, answer)]
    /\ odd' = [odd EXCEPT ![r] = (answer = "list")]
    /\ Goto(r, AfterAnswer(r, answer))
    /\ UNCHANGED <<continueOnError, results, attempt, registered, audit, token, faults, expiries>>

\* Mutation: every 401 leads to a login, the second one too.
RetriesAlways(r) == Ems(r) /\ Credentials
\* _post logs in again after the first 401; send_command does not use _post.
Retries(r) == Ems(r) /\ Credentials /\ attempt[r] = 1

PostUnauthorised(r) ==
    /\ pc[r] = "post" /\ ~token
    /\ Goto(r, IF Retries(r) THEN "login" ELSE "update")
    /\ UNCHANGED <<continueOnError, results, status, odd, attempt, registered, audit, executed, token,
                   faults, expiries>>

\* Without a token the connection may break as well; the gateway does nothing.
PostUnreachable(r) ==
    /\ pc[r] = "post" /\ ~token
    /\ Goto(r, "update")
    /\ UNCHANGED <<continueOnError, results, status, odd, attempt, registered, audit, executed, token,
                   faults, expiries>>

\* login(): the gateway grants a token it accepts, or answers without one ("" is
\* stored); or the login raises and the header stays.
Login(r, granted) ==
    /\ pc[r] = "login"
    /\ token' = granted
    /\ Goto(r, "post")
    /\ attempt' = [attempt EXCEPT ![r] = IF @ < 2 THEN @ + 1 ELSE @]
    /\ UNCHANGED <<continueOnError, results, status, odd, registered, audit, executed, faults, expiries>>

LoginRaises(r) ==
    /\ pc[r] = "login"
    /\ Goto(r, "update")
    /\ UNCHANGED <<continueOnError, results, status, odd, attempt, registered, audit, executed, token,
                   faults, expiries>>

-----------------------------------------------------------------------------
(* The result *)

\* Mutation: `break` is missing.
MoreWritesAlways(r) == Current(r) < Len(Writes[r])
MoreWrites(r) == Current(r) < Len(Writes[r]) /\ (status[r] = "ok" \/ continueOnError[r])

\* Mutation: the UPDATE has lost its WHERE id.
UpdatedAll(r) ==
    [q \in Requests |-> [i \in DOMAIN Writes[q] |->
        IF audit[q][i] = "none" THEN "none" ELSE status[r]]]
Updated(r) == Recorded(r, status[r])

\* UPDATE ems_command_audit; then the next write, or the reply. The reply of a
\* "command" cannot carry a JSON value that is not an object: it becomes a 500.
UpdateAudit(r, o) ==
    /\ pc[r] = "update" /\ Executes(o)
    /\ audit' = IF o.committed THEN Updated(r) ELSE audit
    /\ results' = IF o.done THEN [results EXCEPT ![r] = Append(@, status[r])] ELSE results
    /\ NextOr500(r, o, IF MoreWrites(r) THEN "register"
                       ELSE IF ~Ems(r) /\ odd[r] THEN "failed" ELSE "answered")
    /\ UNCHANGED <<continueOnError, status, odd, attempt, registered, executed, token, expiries>>

\* `ok` of the batch reply.
BatchOk(r) ==
    (\A i \in DOMAIN results[r] : results[r][i] = "ok") /\ Len(results[r]) = Len(Writes[r])

-----------------------------------------------------------------------------
TokenExpires ==
    /\ token /\ expiries < MaxExpiries
    /\ token' = FALSE /\ expiries' = expiries + 1
    /\ UNCHANGED <<locals, registered, audit, executed, faults>>

\* The process dies; nothing on start-up looks at pending audit rows.
Crash ==
    /\ \E r \in Requests : pc[r] \notin Ended \cup {"new"}
    /\ pc' = [r \in Requests |-> IF pc[r] \in Ended \cup {"new"} THEN pc[r] ELSE "crashed"]
    /\ UNCHANGED <<continueOnError, results, status, odd, attempt, registered, audit, executed, token,
                   faults, expiries>>

Handle(r) ==
    \/ Accept(r)
    \/ \E o \in Outcomes : Register(r, o) \/ InsertAudit(r, o) \/ UpdateAudit(r, o)
    \/ \E did \in BOOLEAN, answer \in Answers : PostAnswered(r, did, answer)
    \/ PostUnauthorised(r) \/ PostUnreachable(r)
    \/ \E granted \in BOOLEAN : Login(r, granted)
    \/ LoginRaises(r)

Next == (\E r \in Requests : Handle(r)) \/ TokenExpires \/ Crash

Spec == Init /\ [][Next]_vars

\* Every gateway call ends by its timeout and every statement by an answer.
FairSpec == Spec /\ \A r \in Requests : WF_vars(Handle(r))

-----------------------------------------------------------------------------
(* Properties *)

\* "Every command is written to ems_command_audit before it is forwarded"
\* (commands.py:3): nothing is carried out that has no row.
AuditedBeforeExecuted ==
    \A r \in Requests : \A i \in DOMAIN Writes[r] :
        executed[r][i] > 0 => audit[r][i] # "none"

\* One audit row stands for at most one execution: the only POST that is repeated
\* is one the gateway refused with a 401, whatever else goes wrong.
ExecutedAtMostOnce ==
    \A r \in Requests : \A i \in DOMAIN Writes[r] : executed[r][i] <= 1

\* A row, a result or a batch that says "ok" has been carried out.
OkMeansExecuted ==
    \A r \in Requests :
        /\ \A i \in DOMAIN Writes[r] : audit[r][i] = "ok" => executed[r][i] = 1
        /\ pc[r] = "answered" /\ BatchOk(r) =>
              \A i \in DOMAIN Writes[r] : executed[r][i] = 1

\* What a client is told is what the audit trail says, row by row, and a write that
\* was not reached has no row.
ReplyMatchesAudit ==
    \A r \in Requests : pc[r] = "answered" =>
        \A i \in DOMAIN Writes[r] :
            audit[r][i] = IF i <= Len(results[r]) THEN results[r][i] ELSE "none"

\* Without continue_on_error a batch reaches a write only when all the writes
\* before it are known to have been carried out.
BatchStopsAtError ==
    \A r \in Requests : ~continueOnError[r] =>
        \A i \in DOMAIN Writes[r] : audit[r][i] # "none" =>
            \A j \in 1..(i - 1) : audit[r][j] = "ok"

\* The trail is append-only (commands.py:5): no row disappears, a row with a
\* result never changes again.
AuditIsAppendOnly ==
    [][\A r \in Requests : \A i \in DOMAIN Writes[r] :
          /\ audit[r][i] # "none" => audit'[r][i] # "none"
          /\ audit[r][i] \in {"ok", "error"} => audit'[r][i] = audit[r][i]]_vars

\* Every request that arrives is answered, refused, or dies with the process.
EveryRequestEnds == \A r \in Requests : <>(pc[r] \in Ended)
=============================================================================
