---------------------------- MODULE LegacyIngest -----------------------------
(***************************************************************************)
(* The life of the legacy worker: the start-up of app/main.py and          *)
(* app/bootstrap.py (gateway, field dictionary, assets, keys), the cache   *)
(* of the store_history flags, and the stream loop of Ingestor.run with    *)
(* _consume_stream, _handle_packet and _handle_asset, over statements that *)
(* may raise with or without a commit, broken streams and restarts.        *)
(*                                                                         *)
(* Start-up writes several rows per step: nobody else is running then. The *)
(* rows handed to the writer are SampleWriter's and ChangeGate's business; *)
(* here `written` says of which fields there were any, and whether the     *)
(* object they came in named its asset type.                               *)
(***************************************************************************)
EXTENDS Packets, FiniteSets

CONSTANTS
    AssetOrder,    \* the assets of the gateway's /api/assets, in order
    FieldsOf,      \* asset -> its fields; a field belongs to one asset type
    Canonical,     \* the fields of field_spec.py
    LiveOnly,      \* those among them with store_history False
    Shapes,        \* the packets the gateway may send
    Values,        \* the readings an asset may have
    MaxChanges,    \* bound: changes of a reading
    MaxEdits,      \* bound: flags the operator clears
    MaxFaults,     \* bound: requests and statements that raise
    MaxRestarts    \* bound: crashes of the process

Assets == Range(AssetOrder)
Fields == UNION {FieldsOf[a] : a \in Assets}

None == "none"
Blank == "blank"

ASSUME LegacyAssumption ==
    /\ AssetOrder \in Seq(Assets)
    /\ DOMAIN FieldsOf = Assets
    /\ LiveOnly \subseteq Canonical /\ Canonical \subseteq Fields
    /\ {None, Blank} \cap Values = {}
    /\ MaxChanges \in Nat /\ MaxEdits \in Nat /\ MaxFaults \in Nat /\ MaxRestarts \in Nat

VARIABLES
    reading,      \* gateway: asset -> its present reading
    pc,           \* what the process is doing
    packet,       \* the packet being handled
    todo,         \* its collected objects still to be handled: [id, shown, typed]
    cache,        \* self._store_history
    registered,   \* ems_assets
    dictionary,   \* ems_telemetry_field_dictionary: field -> store_history
    latestState,  \* ems_asset_latest_state: asset -> what it shows
    cleared,      \* history: the fields whose flag the operator has cleared
    ruled,        \* history: those cleared before this process started
    written,      \* history: <<field, typed>> of what this process has handed to the writer
    changes, edits, faults, restarts

gateway == <<reading, changes>>
operator == <<cleared, edits>>
worker == <<packet, todo, cache, written>>
tables == <<registered, dictionary, latestState>>
vars == <<gateway, operator, worker, tables, pc, ruled, faults, restarts>>

NoPacket == <<>>
Ingesting == {"connect", "stream", "handle", "backoff"}

Init ==
    /\ reading \in [Assets -> Values]
    /\ pc = "down" /\ packet = NoPacket /\ todo = <<>> /\ cache = <<>>
    /\ registered = {} /\ dictionary = <<>> /\ latestState = [a \in Assets |-> None]
    /\ cleared = {} /\ ruled = {} /\ written = {}
    /\ changes = 0 /\ edits = 0 /\ faults = 0 /\ restarts = 0

-----------------------------------------------------------------------------
Faultless == UNCHANGED faults
Faulty == faults < MaxFaults /\ faults' = faults + 1

\* A statement or a request returns, or raises with or without its effect.
Outcomes == {o \in [done : BOOLEAN, committed : BOOLEAN] : o.done => o.committed}
Executes(o) == IF o.done THEN Faultless ELSE Faulty

\* An upsert of the flags of S: those that value gives, or as they are.
Flagged(S, value(_)) ==
    [f \in DOMAIN dictionary \cup S |-> IF f \in S THEN value(f) ELSE dictionary[f]]

-----------------------------------------------------------------------------
(* Start-up *)

Start ==
    /\ pc = "down" /\ pc' = "register"
    /\ ruled' = cleared
    /\ UNCHANGED <<gateway, operator, worker, tables, faults, restarts>>

\* An exception here ends the lifespan: the process exits.
RegisterGateway(o) ==
    /\ pc = "register" /\ Executes(o)
    /\ pc' = IF o.done THEN "seed" ELSE "down"
    /\ UNCHANGED <<gateway, operator, worker, tables, ruled, restarts>>

\* Mutation: seeding happens inside the try of run_bootstrap.
AfterSeedAlways(done) == "sync"
AfterSeed(done) == IF done THEN "sync" ELSE "down"

\* seed_field_dictionary: one upsert per field of the spec, all or the first ones.
Seed(S) ==
    /\ pc = "seed"
    /\ IF S = Canonical THEN Faultless ELSE Faulty
    /\ dictionary' = Flagged(S, LAMBDA f : f \notin LiveOnly)
    /\ pc' = AfterSeed(S = Canonical)
    /\ UNCHANGED <<gateway, operator, worker, registered, latestState, ruled, restarts>>

\* sync_assets: the first n assets; fewer than all means that it raised.
SyncAssets(n) ==
    /\ pc = "sync"
    /\ IF n = Len(AssetOrder) THEN Faultless ELSE Faulty
    /\ registered' = registered \cup {AssetOrder[i] : i \in 1..n}
    /\ pc' = IF n = Len(AssetOrder) THEN "keys" ELSE "load"
    /\ UNCHANGED <<gateway, operator, worker, dictionary, latestState, ruled, restarts>>

\* Mutation: the upsert of a key sets store_history to its default.
KeyFlagDefault(f) == TRUE
\* A new key gets the default, a known one keeps its flag.
KeyFlag(f) == f \in DOMAIN dictionary => dictionary[f]

\* sync_field_dictionary: an asset whose keys cannot be fetched, or that is offline
\* and lists none, is passed over (it counts as a fault here);
\* a statement that raises ends it. Either way start-up goes on.
SyncKeys(S) ==
    /\ pc = "keys"
    /\ IF S = Fields THEN Faultless ELSE Faulty
    /\ dictionary' = Flagged(S, KeyFlag)
    /\ pc' = "load"
    /\ UNCHANGED <<gateway, operator, worker, registered, latestState, ruled, restarts>>

\* load_field_dictionary, outside the try of run: if it raises the worker is gone
\* while the API lives on.
LoadDictionary(o) ==
    /\ pc = "load" /\ Executes(o)
    /\ cache' = IF o.done THEN dictionary ELSE cache
    /\ pc' = IF o.done THEN "connect" ELSE "dead"
    /\ UNCHANGED <<gateway, operator, packet, todo, written, tables, ruled, restarts>>

-----------------------------------------------------------------------------
(* The stream *)

Connect(o) ==
    /\ pc = "connect" /\ Executes(o)
    /\ pc' = IF o.done THEN "stream" ELSE "backoff"
    /\ UNCHANGED <<gateway, operator, worker, tables, ruled, restarts>>

\* What telemetry_json will show of an object.
Shows(obj) == IF HasData(obj) THEN reading[obj.of] ELSE Blank

\* One object per asset of the packet, in the order in which they are handled.
Collected == [p \in Shapes |-> Normalised(p)]

Receive(p) ==
    /\ pc = "stream"
    /\ todo' = [i \in DOMAIN Collected[p] |->
                   [id |-> Collected[p][i].id, shown |-> Shows(Collected[p][i].obj),
                    typed |-> Collected[p][i].obj.typed]]
    /\ IF todo' = <<>> THEN UNCHANGED <<pc, packet>> ELSE pc' = "handle" /\ packet' = p
    /\ UNCHANGED <<gateway, operator, cache, written, tables, ruled, faults, restarts>>

\* Mutation: the exception leaves run.
OnErrorDies == "dead"
\* `except Exception` in run: the rest of the packet is lost, the stream is reopened.
OnError == "backoff"

\* The stream breaks, or delivers JSON that is not an object.
StreamFails ==
    /\ pc = "stream" /\ pc' = OnError
    /\ UNCHANGED <<gateway, operator, worker, tables, ruled, faults, restarts>>

\* The gateway ends the response: run reconnects at once.
StreamEnds ==
    /\ pc = "stream" /\ pc' = "connect"
    /\ UNCHANGED <<gateway, operator, worker, tables, ruled, faults, restarts>>

\* The flags are looked up under the asset_type of the object. One that has none finds
\* nothing under (None, field), and what is not found is stored.
ShouldStore(typed, f) == typed /\ f \in DOMAIN cache => cache[f]

\* The upsert of the latest state refers to ems_assets and raises for an id that is
\* not there; after it the fields with history go to the writer.
HandleAsset(o) ==
    /\ pc = "handle"
    /\ LET a == Head(todo).id  shown == Head(todo).shown  typed == Head(todo).typed IN
       /\ IF a \in registered THEN Executes(o) ELSE ~o.committed /\ Faultless
       /\ latestState' = IF o.committed THEN [latestState EXCEPT ![a] = shown] ELSE latestState
       /\ written' = IF o.done /\ shown # Blank
                       THEN written \cup {<<f, typed>> : f \in {g \in FieldsOf[a] : ShouldStore(typed, g)}}
                       ELSE written
    /\ todo' = IF o.done THEN Tail(todo) ELSE <<>>
    /\ pc' = IF ~o.done THEN OnError ELSE IF Tail(todo) = <<>> THEN "stream" ELSE "handle"
    /\ packet' = IF pc' = "handle" THEN packet ELSE NoPacket
    /\ UNCHANGED <<gateway, operator, cache, registered, dictionary, ruled, restarts>>

Reconnect ==
    /\ pc = "backoff" /\ pc' = "connect"
    /\ UNCHANGED <<gateway, operator, worker, tables, ruled, faults, restarts>>

-----------------------------------------------------------------------------
(* The surroundings *)

Change ==
    /\ changes < MaxChanges /\ changes' = changes + 1
    /\ \E a \in Assets : \E v \in Values \ {reading[a]} : reading' = [reading EXCEPT ![a] = v]
    /\ UNCHANGED <<operator, worker, tables, pc, ruled, faults, restarts>>

\* "set it `false` for noisy fields you only need live" (README.md:122)
ClearFlag ==
    /\ edits < MaxEdits /\ edits' = edits + 1
    /\ \E f \in DOMAIN dictionary :
          dictionary' = [dictionary EXCEPT ![f] = FALSE] /\ cleared' = cleared \cup {f}
    /\ UNCHANGED <<gateway, worker, registered, latestState, pc, ruled, faults, restarts>>

\* The process dies or is stopped.
Crash ==
    /\ pc # "down" /\ restarts < MaxRestarts /\ restarts' = restarts + 1
    /\ pc' = "down" /\ packet' = NoPacket /\ todo' = <<>> /\ cache' = <<>> /\ written' = {}
    /\ UNCHANGED <<gateway, operator, tables, ruled, faults>>

Boot ==
    \/ Start
    \/ \E o \in Outcomes : RegisterGateway(o) \/ LoadDictionary(o)
    \/ \E S \in SUBSET Canonical : Seed(S)
    \/ \E n \in 0..Len(AssetOrder) : SyncAssets(n)
    \/ \E S \in SUBSET Fields : SyncKeys(S)

Work == Reconnect \/ \E o \in Outcomes : Connect(o) \/ HandleAsset(o)

Next ==
    \/ Boot \/ Work
    \/ \E p \in Shapes : Receive(p)
    \/ StreamFails \/ StreamEnds
    \/ Change \/ ClearFlag \/ Crash

Spec == Init /\ [][Next]_vars

\* The packets that carry the readings of an asset and nothing else.
EventsOf ==
    [a \in Assets |-> {p \in Shapes :
        /\ Len(Collected[p]) = 1
        /\ LET c == Collected[p][1] IN c.id = a /\ c.obj.of = a /\ HasData(c.obj)}]

\* Somebody starts the process; its tasks run, requests and statements end. The
\* gateway streams the event of each asset over and over: a worker that is back at
\* the stream again and again gets to see one.
FairSpec ==
    /\ Spec /\ WF_vars(Boot) /\ WF_vars(Work)
    /\ \A a \in Assets : SF_vars(\E p \in EventsOf[a] : Receive(p))

-----------------------------------------------------------------------------
(* Properties *)

\* "Runs BEFORE the gateway sync so we have full field metadata even when an asset
\* is offline" (bootstrap.py:18-20): a field the spec keeps out of the history is
\* not written from the first packet on, however the start-up failed, by objects that
\* name their asset type. Those that do not, as in the packets of the mock, are
\* historised whatever the flag says.
LiveOnlyStayLive == \A f \in LiveOnly : <<f, TRUE>> \notin written

\* A flag the operator has cleared on a field that is not in the spec survives every
\* later start-up, and the processes started after that write no history of it, for
\* objects that name their asset type. On a field of the spec it does not: the next
\* start-up seeds it again.
ClearedKeyHonoured == \A f \in ruled \ Canonical : <<f, TRUE>> \notin written

\* "preferring objects with data" (ingestion.py:165): a packet that carries data of
\* an asset never leaves an empty placeholder as the latest state of it. What a packet
\* without its data may do is the matter of EmptyObjectsIgnored below.
DataNotBlanked ==
    [][\A a \in Assets : latestState'[a] = Blank /\ latestState[a] # Blank =>
          \A i \in DOMAIN Offers(packet) :
              LET offer == Offers(packet)[i] IN
              IdOf(offer[1], offer[2]) = a => ~HasData(offer[2])]_vars

\* "Keep the worker alive" (ingestion.py:124): as long as the process keeps ingesting,
\* or stays up and nothing has raised, the latest state of every registered asset agrees with
\* the gateway again and again, whatever packets and broken streams come in between.
LatestCatchesUp ==
    <>[](pc \in Ingesting \/ (pc # "down" /\ faults = 0)) =>
        \A a \in Assets : []<>(a \in registered => latestState[a] = reading[a])

\* "never trust the short dict key as the id (FK crash) -- use the inner `asset_id`,
\* else map the short key, else skip. Empty objects are ignored" (ingestion.py:163):
\* with every asset registered no packet makes the foreign key fail.
ForeignKeyHolds ==
    pc = "handle" /\ registered = Assets => Head(todo).id \in registered

\* "Empty objects are ignored" (ingestion.py:163-164): an asset whose readings are the
\* latest state is not blanked. A placeholder under a full id, in a packet that has no
\* data of that asset, is collected and stored.
EmptyObjectsIgnored ==
    [][\A a \in Assets : latestState[a] \in Values => latestState'[a] # Blank]_vars
=============================================================================
