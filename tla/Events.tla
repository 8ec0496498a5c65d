------------------------------- MODULE Events -------------------------------
(***************************************************************************)
(* ems_asset_events and its two writers: the sync of app/routers/events.py *)
(* on request, and the alarm task of NorthIngestor.                        *)
(*                                                                         *)
(* An entry of the gateway's log is a record of the columns the code looks *)
(* at. The code joins the columns of a key with '|' and hashes the text;   *)
(* here a key is the tuple of the columns, which tells the same entries    *)
(* apart as long as no column has a '|' in it. The asset is registered:    *)
(* one that is not makes every INSERT raise, which any INSERT may do here. *)
(***************************************************************************)
EXTENDS Integers, FiniteSets, Sequences, FiniteSetsExt

CONSTANTS
    Syncs,      \* clients that call POST /assets/{id}/events/sync
    Entries,    \* possible log entries: [ts, type, command, message, status]
    Alarms,     \* alarms of the gateway: [ts, code, message]
    Limit,      \* the limit of a sync
    MaxLog,     \* bound: entries in the gateway's log
    MaxFaults   \* bound: INSERTs that raise

ASSUME EventsAssumption ==
    /\ IsFiniteSet(Syncs) /\ IsFiniteSet(Alarms)
    /\ Entries \subseteq [ts : Int, type : STRING, command : STRING,
                          message : STRING, status : STRING]
    /\ Alarms \subseteq [ts : Int, code : STRING, message : STRING]
    /\ Limit \in Nat /\ MaxLog \in Nat /\ MaxFaults \in Nat

VARIABLES
    log,        \* the gateway's log of the asset, oldest first
    table,      \* the rows of ems_asset_events
    pc,         \* where the sync of a client is
    rows,       \* its local `rows`
    next,       \* the index of the row it inserts next
    inserted,   \* its local `inserted`
    alarmSeen,  \* NorthIngestor._alarm_dedupe
    reported,   \* history: rows that the replies of finished syncs have counted
    unreported, \* history: rows stored by syncs that ended without a reply
    faults

sync == <<pc, rows, next, inserted>>
history == <<reported, unreported, faults>>
vars == <<log, table, sync, alarmSeen, history>>

Init ==
    /\ log = <<>> /\ table = {} /\ alarmSeen = {}
    /\ pc = [s \in Syncs |-> "idle"]
    /\ rows = [s \in Syncs |-> <<>>]
    /\ next = [s \in Syncs |-> 1]
    /\ inserted = [s \in Syncs |-> 0]
    /\ reported = 0 /\ unreported = 0 /\ faults = 0

-----------------------------------------------------------------------------
\* Mutation: the key that the module's docstring names.
KeyWithoutMessage(e) == <<"log", e.ts, e.type, e.command>>
DedupeKey(e) == <<"log", e.ts, e.type, e.command, e.message>>
AlarmKey(a) == <<"alarm", a.ts, a.code, a.message>>

\* A row: its key and what it is about. The other columns play no part in the sync.
EventRow(e) == [key |-> DedupeKey(e), of |-> e]
AlarmRow(a) == [key |-> AlarmKey(a), of |-> a]

\* INSERT ... ON CONFLICT (dedupe_key) DO NOTHING
Conflict(r) == \E q \in table : q.key = r.key
Insert(r) == table' = IF Conflict(r) THEN table ELSE table \cup {r}

\* The gateway logs something.
Log(e) ==
    /\ Len(log) < MaxLog
    /\ log' = Append(log, e)
    /\ UNCHANGED <<table, sync, alarmSeen, history>>

\* get_log_events answers with the newest entries.
Newest == SubSeq(log, Max({1, Len(log) - Limit + 1}), Len(log))

Fetch(s) ==
    /\ pc[s] = "idle"
    /\ pc' = [pc EXCEPT ![s] = "inserting"]
    /\ rows' = [rows EXCEPT ![s] = Newest]
    /\ next' = [next EXCEPT ![s] = 1]
    /\ inserted' = [inserted EXCEPT ![s] = 0]
    /\ UNCHANGED <<log, table, alarmSeen, history>>

\* Mutation: a row that was there already is counted, too.
CountEvery(s) == inserted[s] + 1
\* result.endswith("1"): "INSERT 0 1" or "INSERT 0 0".
Count(s) == IF Conflict(EventRow(rows[s][next[s]])) THEN inserted[s] ELSE inserted[s] + 1

\* One iteration of the loop of sync_events.
Upsert(s) ==
    /\ pc[s] = "inserting" /\ next[s] <= Len(rows[s])
    /\ Insert(EventRow(rows[s][next[s]]))
    /\ inserted' = [inserted EXCEPT ![s] = Count(s)]
    /\ next' = [next EXCEPT ![s] = @ + 1]
    /\ UNCHANGED <<log, pc, rows, alarmSeen, history>>

Reply(s) ==
    /\ pc[s] = "inserting" /\ next[s] > Len(rows[s])
    /\ pc' = [pc EXCEPT ![s] = "ok"]
    /\ reported' = reported + inserted[s]
    /\ UNCHANGED <<log, table, rows, next, inserted, alarmSeen, unreported, faults>>

\* The INSERT raises, with or without having been committed: a 500.
UpsertRaises(s) ==
    /\ pc[s] = "inserting" /\ next[s] <= Len(rows[s])
    /\ faults < MaxFaults /\ faults' = faults + 1
    /\ pc' = [pc EXCEPT ![s] = "failed"]
    /\ \/ UNCHANGED table /\ unreported' = unreported + inserted[s]
       \/ /\ Insert(EventRow(rows[s][next[s]]))
          /\ unreported' = unreported + Count(s)
    /\ UNCHANGED <<log, rows, next, inserted, alarmSeen, reported>>

\* The client has the reply and may sync again.
Again(s) ==
    /\ pc[s] \in {"ok", "failed"}
    /\ pc' = [pc EXCEPT ![s] = "idle"]
    /\ rows' = [rows EXCEPT ![s] = <<>>]
    /\ next' = [next EXCEPT ![s] = 1]
    /\ inserted' = [inserted EXCEPT ![s] = 0]
    /\ UNCHANGED <<log, table, alarmSeen, history>>

\* One alarm of _sync_alarms; the INSERT may raise, and the alarm stays marked.
StoreAlarm(a) ==
    /\ AlarmKey(a) \notin alarmSeen
    /\ alarmSeen' = alarmSeen \cup {AlarmKey(a)}
    /\ \/ Insert(AlarmRow(a)) /\ UNCHANGED faults
       \/ faults < MaxFaults /\ faults' = faults + 1 /\ UNCHANGED table
    /\ UNCHANGED <<log, sync, reported, unreported>>

\* The counts of the syncs under way: a pair <<s, n>> for the n-th row that s counted.
Uncounted ==
    UNION {{s} \X (1..inserted[s]) : s \in {c \in Syncs : pc[c] = "inserting"}}

\* The process restarts: syncs end without a reply, the alarm task forgets.
Restart ==
    /\ faults < MaxFaults /\ faults' = faults + 1
    /\ alarmSeen' = {}
    /\ unreported' = unreported + Cardinality(Uncounted)
    /\ pc' = [s \in Syncs |-> IF pc[s] = "inserting" THEN "failed" ELSE pc[s]]
    /\ UNCHANGED <<log, table, rows, next, inserted, reported>>

Next ==
    \/ \E e \in Entries : Log(e)
    \/ \E s \in Syncs : Fetch(s) \/ Upsert(s) \/ Reply(s) \/ UpsertRaises(s) \/ Again(s)
    \/ \E a \in Alarms : StoreAlarm(a)
    \/ Restart

Spec == Init /\ [][Next]_vars

-----------------------------------------------------------------------------
(* Properties *)

EventRows == {r \in table : r.key[1] = "log"}

\* The same event as the code tells them apart: a status may be filled in later.
SameEvent(e, f) ==
    /\ e.ts = f.ts /\ e.type = f.type
    /\ e.command = f.command /\ e.message = f.message

\* A sync that answers "ok" has left every event it fetched in the table, whoever
\* stored it, and whatever else was stored or failed meanwhile.
SyncedIsStored ==
    \A s \in Syncs : pc[s] = "ok" =>
        \A i \in DOMAIN rows[s] : \E r \in EventRows : SameEvent(r.of, rows[s][i])

\* The `inserted` of the replies add up to the rows in the table, but for the rows of
\* syncs that ended without a reply: no row is counted by two clients.
CountsAddUp ==
    Cardinality(EventRows) = reported + unreported + Cardinality(Uncounted)
=============================================================================
