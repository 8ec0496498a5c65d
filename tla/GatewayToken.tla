---------------------------- MODULE GatewayToken ----------------------------
(***************************************************************************)
(* The bearer token of the gateway in app/gateway_client.py: one header of *)
(* one httpx client, shared by the tasks and request handlers of the       *)
(* process. `_get` and `_post` log in again after a 401 and repeat the     *)
(* request once; `send_command` and `stream_telemetry` do not. The start   *)
(* of the process is a client of its own, which logs in first and then     *)
(* reads the asset list, and for a legacy gateway the keys of each asset   *)
(* (app/bootstrap.py), before the worker and the handlers begin.           *)
(*                                                                         *)
(* A token is its number in the order of issue; token 0 is what the header *)
(* holds before any login, or after one that answered without a token.     *)
(* The names are apart from those of Accounts, beside which it is proved.  *)
(***************************************************************************)
EXTENDS Naturals, FiniteSets

CONSTANTS
    Pollers,     \* the loops of NorthIngestor that call _get for ever
    Handlers,    \* request handlers that call _get or _post on demand
    Commands,    \* request handlers that call send_command
    KeyRequests, \* the assets whose keys the start-up asks for
    MaxExpiries, \* bound: tokens that expire in a behaviour
    MaxFaults    \* bound: logins without a token, requests that raise, lost streams

ASSUME TokenAssumption ==
    /\ IsFiniteSet(Pollers \cup Handlers \cup Commands)
    /\ "startup" \notin Pollers \cup Handlers \cup Commands
    /\ KeyRequests \in Nat /\ MaxExpiries \in Nat /\ MaxFaults \in Nat

Retrying == Pollers \cup Handlers \cup {"startup"}
Callers == Retrying \cup Commands

Up == KeyRequests + 2

VARIABLES
    northbound,  \* settings.gateway_type: pollers, or the stream
    creds,       \* which of gateway_username and gateway_password are set
    boot,        \* the start-up: 0 logs in, 1 reads the assets, 2.. the keys, Up is over
    header,      \* the token in self._client.headers["Authorization"]
    issued,      \* tokens the gateway has issued
    valid,       \* the tokens it accepts
    awaits,      \* the request each client awaits
    carried,     \* the token in the request, or in the answer of the login
    stream,      \* the SSE connection: "down", "opening", "up"
    opening,     \* the token the connection was opened with
    expiries, faults

gateway == <<issued, valid, expiries>>
config  == <<northbound, creds>>
sse     == <<stream, opening>>
tokenVars == <<config, boot, header, awaits, carried, sse, faults, gateway>>

\* gateway_api_token may be empty, stale or good; lifespan logs in first, if it can.
TokenInit ==
    /\ northbound \in BOOLEAN /\ creds \in {"none", "user", "both"}
    /\ boot = IF creds = "both" THEN 0 ELSE 1
    /\ \E good \in BOOLEAN :
          /\ issued = IF good THEN 1 ELSE 0
          /\ header = issued /\ valid = 1..issued
    /\ awaits = [c \in Callers |->
                   IF c = "startup" /\ creds = "both" THEN "login" ELSE "idle"]
    /\ carried = [c \in Callers |-> 0]
    /\ stream = "down" /\ opening = 0
    /\ expiries = 0 /\ faults = 0

-----------------------------------------------------------------------------
Started == boot = Up
Goto(c, where, token) ==
    /\ awaits' = [awaits EXCEPT ![c] = where]
    /\ carried' = [carried EXCEPT ![c] = token]

\* What the start-up does after a request of its own. The assets of the NorthBound
\* gateway have no keys to be read; a failed asset list ends the sync, and so does a
\* statement that raises, but keys that cannot be read are passed over.
NextBoot(ok) ==
    IF boot = 0 THEN {1}
    ELSE IF boot = 1 /\ (northbound \/ ~ok) THEN {Up}
    ELSE {boot + 1, Up}

\* The request of c is over.
Ends(c, ok) ==
    /\ Goto(c, "idle", 0)
    /\ IF c = "startup" THEN boot' \in NextBoot(ok) ELSE UNCHANGED boot

\* self._client.get or .post: the request takes the header as it is now.
Call(c) ==
    /\ awaits[c] = "idle"
    /\ IF c = "startup" THEN boot \in 1..(Up - 1) ELSE Started
    /\ c \in Pollers => northbound
    /\ Goto(c, "first", header)
    /\ UNCHANGED <<boot, header, faults, gateway, config, sse>>

Accepted(c) ==
    /\ awaits[c] \in {"first", "retry"} /\ carried[c] \in valid
    /\ Ends(c, TRUE)
    /\ UNCHANGED <<header, faults, gateway, config, sse>>

\* Mutation: a 401 is final.
AfterRefusalNever(c) == "idle"
\* A 401 leads to one login, and a second one to the caller's raise_for_status.
\* Without a password login() returns at once and the same token is sent again.
AfterRefusal(c) ==
    IF awaits[c] = "retry" \/ c \in Commands \/ creds = "none" THEN "idle"
    ELSE IF creds = "both" THEN "login" ELSE "retry"

Unauthorised(c) ==
    /\ awaits[c] \in {"first", "retry"} /\ carried[c] \notin valid
    /\ IF AfterRefusal(c) = "idle"
         THEN Ends(c, FALSE)
         ELSE /\ Goto(c, AfterRefusal(c), IF AfterRefusal(c) = "retry" THEN header ELSE 0)
              /\ UNCHANGED boot
    /\ UNCHANGED <<header, faults, gateway, config, sse>>

\* The gateway answers the login; its answer is still on the way.
LoginGranted(c) ==
    /\ awaits[c] = "login"
    /\ issued' = issued + 1 /\ valid' = valid \cup {issued'}
    /\ Goto(c, "granted", issued')
    /\ UNCHANGED <<boot, header, expiries, faults, config, sse>>

\* A 200 without an access_token.
LoginEmpty(c) ==
    /\ awaits[c] = "login" /\ faults < MaxFaults /\ faults' = faults + 1
    /\ Goto(c, "granted", 0)
    /\ UNCHANGED <<boot, header, gateway, config, sse>>

\* Mutation: the new token is used, but not kept.
StoreNothing(c) == UNCHANGED header
Store(c) == header' = carried[c]

\* The header is set and the request repeated without an await in between; the login
\* of lifespan repeats none.
LoginStored(c) ==
    /\ awaits[c] = "granted"
    /\ Store(c)
    /\ IF c = "startup" /\ boot = 0
         THEN Ends(c, TRUE)
         ELSE Goto(c, "retry", carried[c]) /\ UNCHANGED boot
    /\ UNCHANGED <<faults, gateway, config, sse>>

\* A timeout, a refused login or a lost answer: the exception leaves the call,
\* and its caller (a poll loop, a 502, the warnings of the start-up) goes on.
Raises(c) ==
    /\ awaits[c] # "idle" /\ faults < MaxFaults /\ faults' = faults + 1
    /\ Ends(c, FALSE)
    /\ UNCHANGED <<header, gateway, config, sse>>

Expire ==
    /\ expiries < MaxExpiries /\ expiries' = expiries + 1
    /\ \E t \in valid : valid' = valid \ {t}
    /\ UNCHANGED <<config, boot, header, issued, awaits, carried, sse, faults>>

-----------------------------------------------------------------------------
(* stream_telemetry: a client of its own with a copy of the header; run()  *)
(* opens it again and again.                                               *)

\* Mutation: the copy is made once.
StreamTokenOnce == IF opening = 0 THEN header ELSE opening
StreamToken == header

Open ==
    /\ Started /\ ~northbound /\ stream = "down"
    /\ stream' = "opening" /\ opening' = StreamToken
    /\ UNCHANGED <<config, boot, header, awaits, carried, faults, gateway>>

\* The token is looked at when the connection is made, never later.
Opened ==
    /\ stream = "opening"
    /\ stream' = IF opening \in valid THEN "up" ELSE "down"
    /\ UNCHANGED <<config, boot, header, awaits, carried, opening, faults, gateway>>

StreamLost ==
    /\ stream # "down" /\ faults < MaxFaults /\ faults' = faults + 1
    /\ stream' = "down"
    /\ UNCHANGED <<config, boot, header, awaits, carried, opening, gateway>>

ClientSteps(c) ==
    \/ Accepted(c) \/ Unauthorised(c) \/ Raises(c)
    \/ LoginGranted(c) \/ LoginEmpty(c) \/ LoginStored(c)

TokenNext ==
    \/ \E c \in Callers : Call(c) \/ ClientSteps(c)
    \/ Expire \/ Open \/ Opened \/ StreamLost

TokenSpec == TokenInit /\ [][TokenNext]_tokenVars

\* Every request ends (the client has a timeout) and so does the start-up; pollers never
\* stop polling, run() never stops reconnecting; nobody need ever use the API.
FairSpec ==
    /\ TokenSpec
    /\ \A c \in Callers : WF_tokenVars(ClientSteps(c))
    /\ \A c \in Pollers \cup {"startup"} : WF_tokenVars(Call(c))
    /\ WF_tokenVars(Open \/ Opened)

-----------------------------------------------------------------------------
(* Properties *)

\* "One automatic re-login retry on 401" (gateway_client.py:36): however the clients
\* interleave, each of them, the start-up with all its requests counted as one, logs in
\* at most once at first, at most once per token that became useless, and
\* once more per request that raised; one expiry does not start a storm of logins,
\* although late answers may put an older token back into the header.
LoginsBounded ==
    issued <= 1 + (1 + expiries + faults) * Cardinality(Retrying)

\* "Re-login when the token expires" (config.py:21): with pollers at work, whatever
\* expired and whichever login failed, in the end no request is refused any more,
\* not even one that never logs in itself.
RefusalsCease ==
    northbound /\ creds = "both" => <>[][\A c \in Callers : ~Unauthorised(c)]_tokenVars

\* The stream has no login of its own, but it looks at the header whenever it opens:
\* once the header holds a good token for good, the stream comes up and stays.
StreamFollowsHeader ==
    ~northbound /\ <>[](header \in valid) => <>[](stream = "up")
=============================================================================
