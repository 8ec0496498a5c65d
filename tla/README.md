# A TLA+ model of the EMS backend

The backend (`src/`, Python, FastAPI + asyncpg + httpx) stands between the web
APIs of an energy gateway and a dashboard. It ingests telemetry into
TimescaleDB, serves it, and passes operator commands on to the gateway with an
audit trail. One process, one event loop, one connection pool, no tests in the
repository. Two kinds of gateway are supported, chosen by `gateway_type`:
`ems` (a server-sent event stream, "legacy" below) and `northbound` (polled).

## 1. Inventory

| component | state | operations | interacts with |
|---|---|---|---|
| Batched writer, `ingestion.py:262-297` | `_buffer`, `_buffer_lock`, `_stop`, the table `ems_telemetry_samples` | hand over the rows of an asset, flush by size, flush by timer, re-queue, drain | both ingestors inherit it; two tasks share the lock; the lifespan cancels |
| Change gate, `ingestion.py:56-114` | `_last_stored` | decide whether a reading becomes a row | called by both row loops, without an await |
| Legacy ingestor, `ingestion.py` | `_store_history`, latest state | load flags, consume the stream, normalise packets, upsert the latest state, build rows | gateway stream, writer, gate, tables with foreign keys |
| NorthBound ingestor, `north_ingestion.py` | `_assets_seen`, `_dict_seen`, `_alarm_dedupe` | poll signals, register assets, refresh latest state, build the dictionary, poll alarms | as above; its poll loop and its alarm task share the three sets |
| Bootstrap, `bootstrap.py`, `field_spec.py` | gateway, assets, field dictionary tables | register, seed, sync assets, sync keys | runs before the worker; what fails here is not repeated |
| Lifespan, `main.py:29-61` | the ingest task | start-up in order, stop + cancel + await | everything |
| Gateway client, `gateway_client.py` | the `Authorization` header | login, GET/POST with one re-login, legacy command, stream | shared by the worker and all handlers |
| EMS commands, `routers/ems_commands.py` | `ems_command_audit`, `ems_system` asset | write, batch | gateway client, database |
| Command proxy, `routers/commands.py` | `ems_command_audit` | send, list | gateway client, database |
| Events sync, `routers/events.py` | `ems_asset_events` | pull and upsert events | same table and unique key as the alarm task |
| Users, `auth.py`, `routers/auth.py` | `ems_users` | login, current user, roles | guards the command endpoints |
| Timeseries, `routers/telemetry.py` | none | raw or one-minute aggregate | reads what the writer stored |
| Frontend streams, dashboard, asset reads, `main.py:97-376`, `routers/assets.py` | none that is read | SELECTs | read the latest state |
| Schema, `db/schema.sql` | tables, foreign and unique keys | - | guards of every statement |

What makes it hard, and what would make it right:

* **Writer.** A flush holds the lock over an `await`; a failing INSERT may have
  been committed; a shutdown cancels tasks at any await. Right means: every row
  that passed the gate is stored, in order, duplicated only by an ambiguous
  commit, or is known to be dropped by the shutdown.
* **Gate.** What is remembered must be what was stored. Right means: a reader
  who holds the last row is never further off than the deadband or later than
  the heartbeat.
* **Legacy ingestor and bootstrap.** Ids in three places of a packet, a start-up
  in which any step may fail, flags in a table, a spec and a cache. Right means:
  no packet breaks a foreign key or blanks an asset that has data, flags are
  obeyed, and the worker always comes back to the stream.
* **NorthBound ingestor.** Two tasks, statements that fail between marking
  something as seen and writing it. Right means: foreign keys hold, a statement
  that raises costs no more than what it was to write, latest state leads the
  history and catches up.
* **Gateway token.** One header of one client, renewed by whoever sees a 401
  first, while answers arrive late. Right means: clients do not chase each other
  with logins, and once tokens stop expiring nobody is refused any more.
* **Commands.** An audit row before and after a call whose outcome may be
  unknown, a token that expires under concurrent handlers. Right means: nothing
  is executed without a row, twice, or while its row denies it.
* **Events.** Two writers and a unique key whose columns decide what is the same
  event. Right means: nothing an answered sync has fetched is missing, the counts of
  the replies are true, and the key is the one that is documented.
* **Users.** A token outlives what it says of its account. Right means: the row
  decides and not the token, a role comes from an administrator once sign-ups are
  locked, and a token shows a stream no longer than its age after the account was last active.
* **Charts.** A row is rare (gate), late (buffer), lost (shutdown) or averaged
  (aggregate). Right means: a chart is not empty where the field was polled, and
  its two sources tell the same minutes.

Not all of this is what the code does: section 3 lists where it departs.

`PROJECT.json` lists each component with its status, and 40 hazards at their lines.

## 2. Modules

| module | models | proofs |
|---|---|---|
| `HistoryLog` | what the writer promises: an at-least-once FIFO log | |
| `SampleWriter` | the writer and the shutdown of both ingestors | `SampleWriterProofs` |
| `ChangeGate` (`MCChangeGate`) | the gate and the row loops around it | `ChangeGateProofs` |
| `NorthIngest` (`MCNorthIngest`) | start-up, poll loop, alarm task, restarts | `NorthIngestProofs` |
| `Packets`, `LegacyIngest` (`MCLegacyIngest`) | packet normaliser; start-up, flag cache, stream loop, restarts | `LegacyIngestProofs` |
| `CommandAudit` (`MCCommandAudit`) | the three command endpoints, re-login, crashes | `CommandAuditProofs` |
| `GatewayToken` | the bearer token all clients of the gateway share | `AuthenticationProofs` |
| `Events` (`MCEvents`) | events sync and alarm task on one table | `EventsProofs` |
| `Accounts` (`MCAccounts`) | sign-up, log-in, tokens, role checks, the WebSocket | `AuthenticationProofs` |
| `History` (`MCHistory`) | gate + buffer + table + aggregate + timeseries endpoint | `HistoryProofs` |

A step of every module is the code between two awaits that may suspend, so the
interleavings of the event loop are those of the steps. A database statement is
one step with three outcomes: it returns; it raises without effect; it raises
although it was committed. An operator whose comment begins "Mutation" is not
part of the model: it is what a plausible mistake in that place would look like,
and each property is known to fail for one of them.

**SampleWriter.** `pc` says where the tasks `run` and `flusher` are suspended:
`idle` (sleeping, or waiting for packets), `waiting` for the lock, `flushing`
(inside the INSERT), and for `run` also `joining` the flusher and `draining`.
`Historise` is the end of `_handle_asset` / `_ingest_asset`: the rows of one
asset go into the buffer under the lock, and a full buffer is flushed.
`FlusherWakes` is one round of `_flush_loop`. `FlushOk` and `FlushFails` are the
end of `_flush_locked`; `executemany` is one implicit transaction. `Stop` is
`stop()` followed by `cancel()`; `RunCancelled` and `FlusherCancelled` unwind
the task where it is, with or without the INSERT having been committed.
`northbound` chooses between the two `run` methods: only the NorthBound one
cancels its flusher. `Turn` expresses that `asyncio.Lock` hands itself over in
FIFO order. A row is its arrival number. As a re-queue happens under the lock,
and nobody adds to the buffer without it, the buffer is empty whenever a batch
is put back (`LockDiscipline`).

**ChangeGate.** A reading is a JSON kind and an integer; a boolean is the number it
is in Python, in the unit of the numbers (the instances count in quarters, so `TRUE`
is 4). `Report` is one
iteration of a row loop with `_changed_enough`; `Tick` lets time pass and moves
the device clock, whose timestamps the heartbeat uses, by up to `MaxSkew`.
`StandsFor` is the promise of the docstring: within the deadband for numbers, any
change for everything else. `BoolsApart` is the hypothesis under which the code keeps
it: the deadband is smaller than the difference between a boolean and what it is
compared with, as the default of 0 is.

**NorthIngest.** A process starts with `SyncAssets` (`sync_assets_north`, which may stop
half-way and is not repeated) and `LoadDictionary`, which stands outside the `try` of
`run`: if it raises, `pc` is `dead` and neither task runs again in this process. From
then on `pc` names the statement the poll loop awaits next; `Poll`,
`EnsureAsset`, `RefreshLatest`, `Signal` and `HandOver` follow the code in order,
and a statement that raises ends the poll (`PollFails`). `earlier` counts the faults
of the processes before this one. `SkipAlarm` and a
`Signal` whose entry is known are steps of their own although the code does not
await there: the model has more interleavings than the program, never fewer. Whether a
heartbeat is due is a free choice. Rows handed over count as stored: from there on they are
SampleWriter's.

**Packets / LegacyIngest.** A packet is an object that may hold others under
its sibling keys and under `assets`; an object has an inner id or none, the asset
it is about, a body (`data`, `spread` over the object, `empty`), and an asset type
or none (`typed`). `Normalised`
is the dict that `_handle_packet` collects. `Seed`, `SyncAssets` and `SyncKeys`
may stop anywhere: they run alone, so a whole loop is one step that has done any
part of its work. `HandleAsset` guards the upsert by the foreign key. An object without
a type finds no flag (`ShouldStore`), hence `written` says of each field whether the
object had one. `ruled` are
the fields whose flag the operator had cleared when the process started.

**CommandAudit.** Each request is a handler with its own `pc`; a `write` and a
`command` are a batch of one. `PostAnswered` separates what the gateway did from
what the client learns. `continueOnError` is chosen per request. A write is only a
Boolean: does it name a register?

**GatewayToken.** A token is its number in the order of issue. `awaits` is the request
of a client that is under way: `first`, `login`, `granted` (the login was answered, the
answer has not been stored), `retry`. Between `LoginGranted` and `LoginStored` the
answer is under way, so logins overtake each other. `creds` covers the three
configurations: no user name (a 401 is final), both (log in and repeat), a user
name without a password (`login` returns at once and the request is repeated with
the header as it is). The start-up is a client, too: it logs in, then reads the asset
list and the keys of each asset (`boot`), and each of these requests logs in again after
a 401; only then do the worker, the stream and the handlers begin (`Started`). `Open` and `Opened` are the stream, which copies the header.

**Events.** `Fetch`, `Upsert`, `Reply` are `sync_events`, one row per step; the counts
of the syncs under way are kept together as a set of pairs (`Uncounted`), so that what
a restart loses is a cardinality;
`StoreAlarm` is one alarm of the other writer. A dedupe key is the tuple of the
hashed columns (the code joins them with `|` before it hashes them, which is the same
as long as no column contains one); the other columns of a row play no part in the sync.

**Accounts.** `LoginRead` and `LoginDone` are the two halves of a log-in, around the
check of the password, which may take `Latency`; `Ask`, `Read`, `Check` are the
dependencies `get_current_user` and `require_role`, and `Finish` ends whatever
they admitted. `Administer` is SQL by hand: roles, `is_active`, deletion; the
backend has no endpoint for these. `Restart` starts the process again with
`LOCK_SIGNUP_ROLE` on or off, so that a first set-up with open sign-ups may come before
production. `seen`, `granted` and `lastActive` are history.

**History.** Instantiates `ChangeGate` and composes it with the rest of the way:
`Report` is a reading that goes through the gate into the buffer, `ReportRaises` one
whose statement raises behind the gate, `Flush` a successful `_flush_locked`,
`Restart` a process that dies with its buffer and its memory. The refresh policy of
the aggregate runs with `Tick`. An average is represented by the rows it averages.

## 3. Runs

| run | bounds | shows |
|---|---|---|
| `writer` | batch 2, up to 3 rows per asset, 5 rows, 2 failing INSERTs, both gateways | 17 000 states; eight properties, among them the refinement of `HistoryLog` and two liveness properties |
| `gate` | two assets with the same field key, seven readings of four kinds in quarters, deadband 1/4, heartbeat 2, clock error 1, 4 instants | 295 000 states; held value, gap |
| `north` | two assets with two and one signals, an alarm, 2 changes, 1 fault, 1 restart | 500 000 states; foreign key, cost of a fault, latest state before history, liveness |
| `command` | a batch of three next to a command, 1 failing statement, 1 expiry, any crash | 122 000 states; six properties of the trail, and every request ends |
| `legacy` | two assets, three fields, seven packets, 2 faults, 1 change, 1 cleared flag, 1 restart | 333 000 states; flags, placeholders, liveness |
| `token` | the start-up with one asset, a poller, a handler, a legacy command, the stream, 2 expiries, 2 faults, all credentials, both gateways | 112 000 states; logins bounded, refusals cease, the stream follows the header |
| `accounts` | two clients, two names, two accounts, one token of age 1, log-ins of up to 1, 2 statements of the administrator, 3 instants, any restarts | 1 915 000 states; entitlement, promotion, exposure |
| `events` | two clients, four entries of which three share a time, two alarms, limit 2, a log of 3, 1 fault | 1 155 000 states; syncs complete, counts |
| `history` | a field that is a number or a text, heartbeat 2, minutes of 2 instants, a refresh window of 4, raw up to 2, 5 instants, 2 losses | 1 020 000 states; losses repaired, charts not empty, aggregate and rows agree |
| `writer_stop_loses` | violation | a shutdown loses the batch whose INSERT it cancels |
| `legacy_foreign_key` | violation | a short key is taken for an asset id |
| `legacy_blank` | violation | a placeholder blanks the latest state |

Why these bounds. The writer needs a batch that one hand-over fills and one that
two hand-overs fill, a row left over for the drain, and two faults so that a
re-queued batch fails again. The gate needs two readings within the deadband and
two outside it, both booleans more than the deadband apart, two kinds, a heartbeat that
is due and one that is not after a clock correction. NorthIngest needs an asset whose signal loop is interrupted
with a row already collected, an asset after it, and a fault that may fall on the
start-up, on a mark, or on an ambiguous commit. A batch of three has a write
before and one after a failing one. LegacyIngest has a field of the spec that is
live-only, one that is not, and one that is not in the spec; its packets are the
shapes the docstring of `_handle_packet` lists, with the order of data and
placeholder both ways round. GatewayToken needs two clients that log in at the
same time, a second expiry while the answer to the first login is under way, and a
start-up that reads both the asset list and keys.
Accounts needs a name that is taken again by a second account while a token of the
first lives, and a clock that reaches the age of a token plus the slowest log-in;
one token is enough, as nothing relates two. Events needs two entries that differ
in the message alone, two that differ in the status alone, and a log longer than
the limit. History needs a minute that leaves the refresh window while a row of it
is still in the buffer, and two losses so that a repair is lost too.

`command` runs one EMS handler next to a legacy command; two EMS handlers that
share a re-login are in `token`, and the proofs of `CommandAuditProofs` hold for any
set of requests.

`CHECK_DEADLOCK FALSE` is set for `LegacyIngest` and `NorthIngest`: when
`load_field_dictionary` raises, the ingest task ends and the program really
stays without one; and for `History`, whose clock stops at its bound.

### Findings

Three runs end in a violation: each states what a comment of the repository says,
quoted at the property, and TLC shows how the code departs from it. `PROJECT.json`
has the lines.

* A shutdown may drop the rows of a batch whose INSERT it cancels
  (`north_ingestion.py:58`, `main.py:57`), although the code says "final drain".
* A short dict key is taken for an asset id (`ingestion.py:171`): a combined packet
  with `{}` placeholders makes the upsert of a placeholder fail, and the worker
  reconnects.
* A placeholder under a full id, `{"assets": {"bms_1": {}}}`, in a packet without data of
  that asset is stored as its latest state (`ingestion.py:175-180`), although "empty
  objects are ignored". What does hold is that a packet with data of an asset does not
  blank it (`DataNotBlanked`).

Departures the models contain. The properties are stated around them, and say so:

* A bool is an `int` (`ingestion.py:107`), so booleans are subject to the numeric
  deadband, against "text/bool: any change" (`ingestion.py:18-19`): with a deadband of 1
  a boolean that flips is not stored before the heartbeat. The default of 0 hides it.
  `HeldValueIsCurrent` asks for any change of a boolean, and is claimed where
  `BoolsApart` holds, as in the run.
* A dictionary load that raises (`north_ingestion.py:43`) ends polling and alarms for
  good, next to the comment "keep polling through outages"; the API shows the last state
  for ever. `LatestCatchesUp` of both ingestors therefore excludes a dead worker.
* The stream is opened again and again with an expired token
  (`gateway_client.py:137`): the client "re-logins when the token expires"
  (`config.py:20-21`) everywhere but there and in `send_command`. A token that expires
  after the start-up, whose own requests would renew it, keeps the stream of a legacy
  worker down until some handler's request logs in; `StreamFollowsHeader` says that this
  suffices.
* An object without `asset_type`, as the mock sends them, finds no `store_history` flag
  (`ingestion.py:90,204`) and is historised as a whole. `LiveOnlyStayLive` and
  `ClearedKeyHonoured` speak of the objects that have one.
* Every start-up with a legacy gateway sets the flags of the spec's fields again
  (`bootstrap.py:34`), over those an operator has cleared as `README.md:122` tells him to.
  `ClearedKeyHonoured` speaks of the other fields.
* The docstring of `events.py` names asset, time, type and command as the key; the code
  hashes the message, too, which is what keeps two steps of one command apart.
  `SyncedIsStored` would fail with the key of the docstring.

Departures that follow from a line or two and that no module repeats:

* `north_ingestion.py:119`: a dictionary upsert that raises drops rows which
  `_last_stored` already counts; `History` (`ReportRaises`) shows that the damage
  lasts until the heartbeat and no longer.
* `ems_commands.py:97`: when the UPDATE raises, an executed write keeps a pending row.
* `ems_commands.py:131`: a batch forwards writes that name no register, which the
  single write refuses with a 422.

## 4. Fairness

* `SampleWriter`: weak fairness of every task step: the event loop resumes ready
  tasks, `asyncio.sleep` ends, the pool answers. No fairness of `Historise` and
  `Stop`: packets need not come, the process need not be stopped. Faults are
  bounded by `MaxFaults`; a database that is down for ever stores nothing.
* `NorthIngest`: weak fairness of the start-up with the poll loop and of the alarm task,
  each as a whole. `LatestCatchesUp` is claimed for a process whose dictionary load did
  not raise; `HistoryCatchesUp` when the last process meets no fault, since a
  statement that raises may cost a row until the next heartbeat and an alarm
  until the next restart, which makes good what earlier processes lost.
* `LegacyIngest`: weak fairness of the start-up and the worker, and strong
  fairness of receiving, for each asset, a packet that carries only its
  readings: the gateway sends the event of each asset over and over, and a
  worker that is at the stream again and again sees one. `LatestCatchesUp` is
  claimed for a process that keeps ingesting, or stays up and met no fault.
* `CommandAudit`: weak fairness of each handler: the HTTP client has a timeout,
  statements return. A crash ends its requests.
* `GatewayToken`: weak fairness of what a client does once it has sent a request,
  of the start-up, and of the pollers' and the stream's next attempt: both are `while`
  loops with a sleep. None of `Call` by a handler or a command: nobody has to ask. `RefusalsCease`
  is claimed for the NorthBound gateway with credentials, where the poller is the
  one that repairs the header; expiries and faults are bounded, as a gateway that
  never accepts a token refuses for ever.

## 5. Proofs

Checked by TLAPS for every value of the constants, from the named assumption of
each module and nothing else; a theorem that needs more says so in its statement.

* `WriterTypeCorrect`, `WriterLockSafe`, `WriterConservesRows`. `TypeOK` is
  inductive; `LockDiscipline` is inductive with it, because a cancellation frees
  the lock in the step that unwinds its owner; `FifoConservation` needs both,
  since a re-queue in front of the buffer keeps the order only as long as the
  buffer is empty while a batch is in flight. The argument per step is one of
  associativity of `\o`, collected in a few lemmas.
* `WriterImplementsLog`: `SampleWriter` implements `HistoryLog`, where what is pending
  is the batch in flight, the buffer and the rows of a waiting asset. A hand-over is
  `Record`, an INSERT that was committed is `Store` of a prefix (with the prefix kept
  pending when the answer was lost), a cancellation is `Abandon` of a segment, which
  only a closed log may do: hence the invariant `JoinsAfterStop`. Everything else
  stutters, because moving rows between buffer and batch keeps their concatenation.
* `WriterFlushesInTime` (`BatchTrigger`) and `WriterDrains` (`DrainComplete`). The first
  needs that the buffer stays below the threshold also while the lock is held; the
  second that `run` drains after the flusher has ended (`EndsInOrder`) and that no
  step forgets a row (`NoRowForgotten`), which unlike `FifoConservation` still holds
  after a cancellation.
* `WriterBoundsDuplicates` (`DuplicatesBounded`). `CopiesInv` counts how often each row
  is in the table: at most once and once more per fault, once less while it is pending,
  that is in flight, in the buffer or waiting; no row is pending twice. Every step of
  the writer is one of five moves of rows (`WriterMoves`: record, store, store with the
  batch kept, drop, nothing), from which both this and `WriterImplementsLog` follow;
  only the third makes a copy, and it costs a fault.
* `GateSafe` (`TypeOK`, `HeldValueIsCurrent`) and `GapIsBounded` (`GapBounded`). The
  strengthening `GateInv` adds that what is remembered of a field is its newest row
  (`MemoryIsTable`) and that no row is stamped later than the present device clock allows
  (`StampsBounded`). Both assume that the worker is the NorthBound one or that no
  reading is an object; `GateSafe` assumes `BoolsApart`, too. Without the first the
  theorems are false for the legacy worker, without the second for a deadband of 1 or more.
* `AlarmsSafe` (`SeenIsRegistered`) and `LatestLeads` (`LatestLeadsHistory`). `NorthInv`
  adds what the poll loop has done so far to the present asset: inside the signal loop its
  latest state shows the response, and the collected rows are readings of the response.
* `FaultsAreCheap` (`FaultCostsOne`). `CostInv` counts the signals that are marked or have
  a row but no entry together with the alarms that are marked but not stored: a step adds
  one to either set only if a statement raises in it, and a restart, which clears the
  marks, adds none.
* `HealthyRunIsRecorded` (`HealthyHistory`). `HealthInv` says of a history without
  faults: what `_last_stored` remembers is among the collected rows of the present
  asset or is the newest row.
* `AuditTrailSound` (`AuditedBeforeExecuted`, `ExecutedAtMostOnce`,
  `OkMeansExecuted`; `NothingUnaudited` and `OkIsTrue` single out two of them).
  `CommandInv` relates, for each write, its position to the position of the handler:
  writes after the present one have neither a row nor an execution, and the
  present one has been executed at most as often as its `pc` allows.
* `ReplyIsTrail` (`ReplyMatchesAudit`) and `BatchesStop` (`BatchStopsAtError`). `ReplyInv`
  stands on `CommandInv` and adds that rows and results of the finished writes agree
  and that all results of a running batch that stops at errors are "ok".
* `TrailOnlyGrows` (`AuditIsAppendOnly`), an action property. By `CommandInv` the INSERT
  of a write finds no row and its UPDATE finds one without a result; all other steps,
  a crash among them, leave the trail alone.
* `AccountsTypeCorrect`, `EntitledRequests` (`ActsOnlyIfEntitled`), `PowerIsGranted`
  (`NoSelfPromotion`), `ExposureIsBounded` (`ExposureBounded`). The first needs that
  no row lies beyond the sequence of ids and that an active request carries a token
  that was issued; the others that the row a request has read is one of those seen
  since it began and belongs to the account its token names, that a role above viewer
  was chosen while sign-ups were open or set by an administrator, and that a token or a log-in under
  way is no younger than the last moment its account was active.
* `AnsweredSyncIsComplete` (`SyncedIsStored`).
  The invariant says that equal keys mean equal rows, that a row has the key of its
  entry, and that a sync has a row in the table for every index it has passed.
* `RepliesCountEachRowOnce` (`CountsAddUp`). `CountInv` adds that the rows of the log and
  the pairs of `Uncounted` are finite sets: an `Upsert` adds one to each or to neither,
  according to the unique key; a reply or a failure takes away the pairs of one client,
  as many as it has counted (`SyncEnds`); a row of the alarm task is not of the log.
* `LossesHeal` (`LossIsRepaired`), under the hypotheses of `GateSafe`. The steps of `History` are steps of `ChangeGate`, so `GateInv` holds of the
  whole path (`GateKeeps`); `HeldInv` adds that the newest row that passed the gate is in
  the buffer or the table, unless it is the one that was lost or the process has
  forgotten the field, and that no row there is newer.
* `ChartsAreNeverEmpty` (`ChartHasPoint`), where no reading is an object and
  `Heartbeat <= RawMaxSpan`: the invariant (`WindowsInv`) says that a window of the
  length of the heartbeat that was polled throughout has a row; `ReportCovers` shows
  that a reading that is not stored has found the row of a reading less than a
  heartbeat ago. The hypotheses are needed: the NorthBound worker leaves objects out of
  the history, so a field that is one for the whole window has no row there, and a longer
  heartbeat would be charted from the aggregate, which leaves out the newest rows.
* `AggregateIsComplete` (`ChartsAgree`), without any hypothesis. `AggInv`: a numeric row
  that was stored in time is in the aggregate once the window of the policy has
  passed over its minute, and the aggregate has stored rows only. It rests on the
  assumption that the window is at least as wide as a minute and its end offset.
* `NoLoginStorm` (`LoginsBounded`). A login is due to each client that is logging in,
  that will be refused, or that would be with the present header (`Owing`), and to all
  of them once more for a token that became useless on its way back from a login
  (`Late`). The sum of the logins granted and those due (`Due`) grows by at most one per
  client with an expiry or a fault and never otherwise: a login that is granted was
  due. That an expiry hits the header, or one token on its way, but not both, needs
  `TokensFresh`.
* `LiveOnlyKept` (`LiveOnlyStayLive`) and `ClearedKeyKept` (`ClearedKeyHonoured`).
  `FlagsInv` says where a field is kept out of the history at each stage: its flag is
  off in the dictionary from the seed to the load and in the cache from then on, the
  flags an operator has cleared outside the spec are off in the dictionary for ever,
  and a process that is not ingesting has written nothing. Both speak of objects that
  name their asset type; the packet normaliser plays no part in them.

Only model-checked: all liveness (fairness and ENABLED are outside the prover's
reach), and `DataNotBlanked`, an action property about the result of a fold over the
objects of a packet: what the fold computes for every packet takes an induction over
data, which the provers cannot do. The three violations are TLC's as well. Every
invariant and every other action property a passing run checks has its theorem.

Type invariants. `Accounts!TypeOK` is checked and proved, because it also says that
no two accounts share a name. `SampleWriter!TypeOK` and `ChangeGate!TypeOK` are proved
and not checked again by the runs; the other modules type their variables inside the
invariants of their proofs, or by the properties the runs check.

## 6. Not modelled

* NaN, timestamps with and without an offset mixed in one subtraction, a row the
  database always refuses, an asset whose statement always raises: these stop or
  starve a worker, and are listed as hazards with a note.
* Objects with nothing but envelope keys.
* Columns of a log entry that contain a `|`, which could give two events one key.
* A start-up of a NorthBound process whose `register_gateway` raises: the process exits
  before anything else is done, so it is as if it had not been started. In `LegacyIngest`
  the step is modelled.
* A gateway that revokes older tokens when it issues one: the code says nothing of
  it, and two clients could then log in against each other.
* Passwords, signatures and e-mail addresses: a name stands for both unique columns.
* The inside of TimescaleDB: chunks, compression, real-time aggregation, the
  schedule of the refresh beyond its window. An average is not computed.
* Two processes on one database; nothing in the deployment starts a second one.
* Reads that are one SELECT, formats, presets, CORS, logging, retention, settings
  and catalogues beyond the values the modules take as constants.

## 7. What is left

1. A row the database always refuses, and an asset whose statement always raises, as
   fault classes of `SampleWriter` and `NorthIngest`.
2. An abstract worker that obeys the flags, with the packet normaliser left open, and
   `LegacyIngest` as a refinement of it.
