---------------------------- MODULE NorthIngest -----------------------------
(***************************************************************************)
(* Acquisition from the NorthBound gateway (app/north_ingestion.py): the   *)
(* start of the process, the poll loop of NorthIngestor.run with           *)
(* _handle_key_signals, _ensure_asset, _ingest_asset and                   *)
(* _maybe_upsert_dict, and the alarm task with _sync_alarms, over a        *)
(* database whose statements may raise with or without having been         *)
(* committed, and across restarts of the process.                          *)
(*                                                                         *)
(* A step is one awaited statement together with the code up to the next   *)
(* await. The rows handed over at the end of an asset are the business of  *)
(* SampleWriter; here only the newest row of each signal is kept.          *)
(***************************************************************************)
EXTENDS Integers, Sequences, FiniteSets, Functions

CONSTANTS
    AssetOrder,   \* the assets of a key-signals response, in order
    SignalsOf,    \* asset -> its signals in order; a signal belongs to one asset
    Values,       \* the scalar values a signal may have
    Alarms,       \* the alarms the gateway may list
    AssetOfAlarm, \* alarm -> asset_id
    MaxChanges,   \* bound: changes of a value or an alarm list at the gateway
    MaxFaults,    \* bound: statements that raise
    MaxRestarts   \* bound: restarts of the process

Assets == Range(AssetOrder)
Signals == UNION {Range(SignalsOf[a]) : a \in Assets}

None == "none"

ASSUME NorthAssumption ==
    /\ AssetOrder \in Seq(Assets)
    /\ DOMAIN SignalsOf = Assets /\ DOMAIN AssetOfAlarm = Alarms
    /\ \A a \in Assets : SignalsOf[a] \in Seq(Range(SignalsOf[a]))
    /\ None \notin Values
    /\ MaxChanges \in Nat /\ MaxFaults \in Nat /\ MaxRestarts \in Nat

VARIABLES
    \* the gateway
    reading,      \* signal -> its present value
    listed,       \* the alarms it lists
    \* the poll loop
    pc,           \* start-up: "sync", "load"; then "idle" or what is awaited: "ensure",
                  \* "latest", "signal"; "dead" once run has ended by an exception
    data,         \* the response being ingested
    todo,         \* its assets still to be ingested
    sigs,         \* the signals of the present asset still to be looked at
    rows,         \* the local `rows`: signal -> value
    \* the alarm loop
    alarmsTodo,   \* the alarms of the response still to be looked at
    \* the ingestor object
    assetsSeen,   \* self._assets_seen
    dictSeen,     \* self._dict_seen
    alarmDedupe,  \* self._alarm_dedupe
    lastStored,   \* self._last_stored: signal -> value
    \* the database
    assets,       \* ems_assets
    latestState,  \* ems_asset_latest_state: signal -> value shown
    dictionary,   \* ems_telemetry_field_dictionary
    newest,       \* ems_telemetry_samples: the newest row of each signal
    events,       \* ems_asset_events: the alarms whose dedupe_key has a row
    \* bounds
    changes, faults, restarts,
    earlier       \* the faults met by earlier processes

gateway == <<reading, listed, changes>>
poller  == <<pc, data, todo, sigs, rows>>
memory  == <<assetsSeen, dictSeen, alarmDedupe, lastStored>>
tables  == <<assets, latestState, dictionary, newest, events>>
process == <<restarts, earlier>>
vars == <<gateway, poller, alarmsTodo, memory, tables, faults, process>>

Nothing == [s \in Signals |-> None]

Init ==
    /\ reading \in [Signals -> Values] /\ listed = {}
    /\ pc = "sync" /\ data = Nothing /\ todo = <<>> /\ sigs = <<>> /\ rows = <<>>
    /\ alarmsTodo = {}
    /\ assetsSeen = {} /\ dictSeen = {} /\ alarmDedupe = {} /\ lastStored = <<>>
    /\ assets = {} /\ latestState = Nothing /\ dictionary = {} /\ newest = Nothing
    /\ events = {}
    /\ changes = 0 /\ faults = 0 /\ restarts = 0 /\ earlier = 0

-----------------------------------------------------------------------------
(* A statement ends in one of three ways; `done` is what the caller sees.  *)

Outcomes == [done : BOOLEAN, committed : BOOLEAN]

Executes(o) ==
    \/ o.done /\ o.committed /\ UNCHANGED faults
    \/ ~o.done /\ faults < MaxFaults /\ faults' = faults + 1

\* The local state of the poll is gone.
Dropped == todo' = <<>> /\ sigs' = <<>> /\ rows' = <<>> /\ data' = Nothing

\* The exception reaches the poll loop: the rest of the response is dropped.
PollFails == pc' = "idle" /\ Dropped

-----------------------------------------------------------------------------
(* The start of the process *)

\* sync_assets_north registers the first n assets: the gateway did not answer
\* (n = 0) or a statement raised on the way, and run_bootstrap goes on.
SyncAssets(n) ==
    /\ pc = "sync" /\ pc' = "load"
    /\ assets' = assets \cup {AssetOrder[i] : i \in 1..n}
    /\ UNCHANGED <<data, todo, sigs, rows, latestState, dictionary, newest, events,
                   gateway, alarmsTodo, memory, faults, process>>

\* `await self.load_field_dictionary()` stands outside the try of run: if it raises,
\* the task ends before either loop has begun, and the API lives on without it.
LoadDictionary(o) ==
    /\ pc = "load" /\ Executes(o)
    /\ pc' = IF o.done THEN "idle" ELSE "dead"
    /\ UNCHANGED <<data, todo, sigs, rows, gateway, alarmsTodo, memory, tables, process>>

Running == pc \notin {"sync", "load", "dead"}

-----------------------------------------------------------------------------
(* The poll loop *)

Asset == Head(todo)

\* A fetch that fails changes nothing and is left out.
Poll ==
    /\ pc = "idle"
    /\ data' = reading /\ todo' = AssetOrder
    /\ pc' = IF AssetOrder = <<>> THEN "idle" ELSE "ensure"
    /\ UNCHANGED <<sigs, rows, gateway, alarmsTodo, memory, tables, faults, process>>

\* Mutation: the asset counts as seen before it is registered.
SeenAfter(o) == assetsSeen' = assetsSeen \cup {Asset}
Seen(o) == assetsSeen' = IF o.done THEN assetsSeen \cup {Asset} ELSE assetsSeen

EnsureAsset(o) ==
    /\ pc = "ensure" /\ Executes(o)
    /\ assets' = IF o.committed THEN assets \cup {Asset} ELSE assets
    /\ Seen(o)
    /\ \/ o.done /\ pc' = "latest" /\ UNCHANGED <<data, todo, sigs, rows>>
       \/ ~o.done /\ PollFails
    /\ UNCHANGED <<dictSeen, alarmDedupe, lastStored, latestState, dictionary, newest, events,
                   gateway, alarmsTodo, process>>

OfAsset(s) == s \in Range(SignalsOf[Asset])

\* Mutation: the snapshot is only written for an asset that is not cached yet.
ShownOnce(s) == IF OfAsset(s) /\ latestState[s] = None THEN data[s] ELSE latestState[s]
Shown(s) == IF OfAsset(s) THEN data[s] ELSE latestState[s]

RefreshLatest(o) ==
    /\ pc = "latest" /\ Executes(o)
    /\ latestState' = IF o.committed THEN [s \in Signals |-> Shown(s)] ELSE latestState
    /\ \/ o.done /\ pc' = "signal" /\ sigs' = SignalsOf[Asset] /\ UNCHANGED <<data, todo, rows>>
       \/ ~o.done /\ PollFails
    /\ UNCHANGED <<memory, assets, dictionary, newest, events, gateway, alarmsTodo, process>>

Put(f, x, v) == [y \in DOMAIN f \cup {x} |-> IF y = x THEN v ELSE f[y]]

\* _changed_enough for a value that differs, is new or whose heartbeat is due.
Gate(s, heartbeatDue) ==
    IF s \notin DOMAIN lastStored \/ heartbeatDue \/ lastStored[s] # data[s]
      THEN lastStored' = Put(lastStored, s, data[s]) /\ rows' = Put(rows, s, data[s])
      ELSE UNCHANGED <<lastStored, rows>>

\* Mutation: every signal of the asset counts as seen with the first one.
MarkedAll(s) == dictSeen \cup Range(sigs)
Marked(s) == dictSeen \cup {s}

\* One iteration of the signal loop: the dictionary entry the first time, then
\* the gate. A dictionary entry that fails stays marked as seen.
Signal(o, heartbeatDue) ==
    /\ pc = "signal" /\ sigs # <<>>
    /\ LET s == Head(sigs) IN
       \/ /\ s \in dictSeen /\ o.done /\ o.committed
          /\ Gate(s, heartbeatDue) /\ sigs' = Tail(sigs)
          /\ UNCHANGED <<pc, data, todo, dictSeen, dictionary, faults>>
       \/ /\ s \notin dictSeen /\ Executes(o)
          /\ dictSeen' = Marked(s)
          /\ dictionary' = IF o.committed THEN dictionary \cup {s} ELSE dictionary
          /\ \/ /\ o.done /\ Gate(s, heartbeatDue) /\ sigs' = Tail(sigs)
                /\ UNCHANGED <<pc, data, todo>>
             \/ ~o.done /\ PollFails /\ UNCHANGED lastStored
    /\ UNCHANGED <<assetsSeen, alarmDedupe, assets, latestState, newest, events,
                   gateway, alarmsTodo, process>>

\* Mutation: the rows are forgotten.
AppendedNone == newest
Appended == [s \in Signals |-> IF s \in DOMAIN rows THEN rows[s] ELSE newest[s]]

\* `if rows: async with self._buffer_lock: ...extend(rows)`, and the next asset.
HandOver ==
    /\ pc = "signal" /\ sigs = <<>>
    /\ newest' = Appended
    /\ rows' = <<>> /\ todo' = Tail(todo)
    /\ IF Tail(todo) = <<>> THEN pc' = "idle" /\ data' = Nothing
                            ELSE pc' = "ensure" /\ UNCHANGED data
    /\ UNCHANGED <<sigs, memory, assets, latestState, dictionary, events,
                   gateway, alarmsTodo, faults, process>>

-----------------------------------------------------------------------------
(* The alarm task *)

PollAlarms ==
    /\ Running /\ alarmsTodo = {} /\ listed # {}
    /\ alarmsTodo' = listed
    /\ UNCHANGED <<gateway, poller, memory, tables, faults, process>>

\* An alarm of an asset the poller has not registered yet, or one already handled.
Skipped(al) == AssetOfAlarm[al] \notin assetsSeen \/ al \in alarmDedupe

SkipAlarm(al) ==
    /\ al \in alarmsTodo /\ Skipped(al)
    /\ alarmsTodo' = alarmsTodo \ {al}
    /\ UNCHANGED <<gateway, poller, memory, tables, faults, process>>

\* INSERT ... ON CONFLICT (dedupe_key) DO NOTHING, which refers to ems_assets. An
\* exception ends the pass over the response; the alarm stays marked as handled.
InsertAlarm(al, o) ==
    /\ al \in alarmsTodo /\ ~Skipped(al) /\ Executes(o)
    /\ o.committed => AssetOfAlarm[al] \in assets
    /\ alarmDedupe' = alarmDedupe \cup {al}
    /\ events' = IF o.committed THEN events \cup {al} ELSE events
    /\ alarmsTodo' = IF o.done THEN alarmsTodo \ {al} ELSE {}
    /\ UNCHANGED <<assetsSeen, dictSeen, lastStored, assets, latestState, dictionary, newest,
                   gateway, poller, process>>

-----------------------------------------------------------------------------
(* The gateway and the process *)

Change ==
    /\ changes < MaxChanges /\ changes' = changes + 1
    /\ \/ \E s \in Signals, v \in Values :
              reading[s] # v /\ reading' = [reading EXCEPT ![s] = v] /\ UNCHANGED listed
       \/ \E al \in Alarms \ listed : listed' = listed \cup {al} /\ UNCHANGED reading
    /\ UNCHANGED <<poller, alarmsTodo, memory, tables, faults, process>>

\* The process dies and a new one starts, with empty memory on the same database.
\* Rows it handed over but had not flushed are SampleWriter's to account for.
Restart ==
    /\ restarts < MaxRestarts /\ restarts' = restarts + 1 /\ earlier' = faults
    /\ pc' = "sync" /\ Dropped /\ alarmsTodo' = {}
    /\ assetsSeen' = {} /\ dictSeen' = {} /\ alarmDedupe' = {} /\ lastStored' = <<>>
    /\ UNCHANGED <<gateway, tables, faults>>

PollStep ==
    \/ \E n \in 0..Len(AssetOrder) : SyncAssets(n)
    \/ Poll
    \/ \E o \in Outcomes : LoadDictionary(o) \/ EnsureAsset(o) \/ RefreshLatest(o)
    \/ \E o \in Outcomes, due \in BOOLEAN : Signal(o, due)
    \/ HandOver

AlarmStep ==
    \/ PollAlarms
    \/ \E al \in Alarms : SkipAlarm(al) \/ \E o \in Outcomes : InsertAlarm(al, o)

Next == PollStep \/ AlarmStep \/ Change \/ Restart

Spec == Init /\ [][Next]_vars

\* Both tasks keep running: the sleeps end, the gateway and the pool answer.
FairSpec == Spec /\ WF_vars(PollStep) /\ WF_vars(AlarmStep)

-----------------------------------------------------------------------------
(* Properties *)

\* The alarm task trusts _assets_seen instead of the database: every asset in it
\* has its row, so an alarm never breaks the foreign key and ends the pass.
SeenIsRegistered == assetsSeen \subseteq assets

\* Marks are set before the statements they stand for (_dict_seen, _alarm_dedupe),
\* so a statement that raises is not repeated by its process. What that costs is at
\* most one dictionary entry of a signal with history, or one alarm, for each
\* statement that raised, in whatever order the two tasks and restarts meet them.
Undescribed == {s \in Signals : newest[s] # None /\ s \notin dictionary}
LostAlarms  == alarmDedupe \ events
FaultCostsOne == Cardinality(Undescribed) + Cardinality(LostAlarms) <= faults

\* "Latest-state is ALWAYS updated regardless" (ingestion.py:20): history never
\* shows a value that the latest-state cache has not shown first.
LatestLeadsHistory ==
    [][\A s \in Signals : newest'[s] # newest[s] => latestState[s] = newest'[s]]_vars

\* Without faults what is remembered as stored is the newest row whenever the
\* poller sleeps: the next reading is compared with what the table holds.
HealthyHistory ==
    faults = 0 /\ pc = "idle" => \A s \in DOMAIN lastStored : newest[s] = lastStored[s]

\* A statement that raises costs a poll and a crash costs the process: once the
\* gateway's values settle, the latest-state cache shows them, unless the load of
\* the dictionary has ended the worker: "keep polling through outages"
\* (north_ingestion.py:52) does not reach that far.
LatestCatchesUp ==
    <>[](pc # "dead") => <>[](\A s \in Signals : latestState[s] = reading[s])

\* If the last process meets no fault, the history catches up and every listed alarm
\* is stored, whatever was lost before it: alarms and dictionary entries that an
\* earlier process gave up are made good by the restart.
HistoryCatchesUp ==
    <>[](faults = earlier)
        => <>[](/\ \A s \in Signals : newest[s] = reading[s] /\ s \in dictionary
                /\ listed \subseteq events)
=============================================================================
