---------------------------- MODULE SampleWriter ----------------------------
(***************************************************************************)
(* The batched time-series writer of app/ingestion.py, shared by both      *)
(* ingestors: `_buffer`, `_buffer_lock`, `_flush_loop`, `_flush`,          *)
(* `_flush_locked`, and the shutdown protocol of Ingestor.run and          *)
(* NorthIngestor.run as the lifespan of app/main.py drives it.             *)
(*                                                                         *)
(* Two asyncio tasks share the buffer: "run" (Ingestor.run, which consumes *)
(* the stream or polls, and drains at the end) and "flusher"               *)
(* (_flush_loop). A step is the code between two awaits that can suspend.  *)
(* A row is its arrival number: the writer never looks inside a row.       *)
(***************************************************************************)
EXTENDS Naturals, Sequences, FiniteSets, Functions

CONSTANTS
    BatchSize,    \* settings.ingest_batch_size
    MaxPerAsset,  \* bound: rows one asset contributes at a time
    MaxRows,      \* bound: rows historised in a behaviour
    MaxFaults     \* bound: INSERTs that raise in a behaviour

ASSUME WriterAssumption ==
    /\ BatchSize \in Nat \ {0}
    /\ MaxPerAsset \in Nat /\ MaxRows \in Nat /\ MaxFaults \in Nat

Tasks == {"run", "flusher"}

VARIABLES
    northbound,  \* settings.gateway_type = "northbound": which `run` is used
    pc,          \* where each task is suspended
    lock,        \* the task inside `async with self._buffer_lock`, or "none"
    buffer,      \* self._buffer
    batch,       \* the local `batch` of _flush_locked, per task
    rows,        \* the local `rows` of the run task while it waits for the lock
    samples,     \* the table ems_telemetry_samples, in insertion order
    stop,        \* self._stop
    historised,  \* history: every row the change gate let through, in order
    acked,       \* history: the rows whose INSERT returned normally, in order
    lost,        \* history: the rows a cancellation dropped
    faults       \* history: INSERTs that raised

vars == <<northbound, pc, lock, buffer, batch, rows, samples, stop,
          historised, acked, lost, faults>>

Init ==
    /\ northbound \in BOOLEAN
    /\ pc = [t \in Tasks |-> "idle"]
    /\ lock = "none"
    /\ buffer = <<>>
    /\ batch = [t \in Tasks |-> <<>>]
    /\ rows = <<>>
    /\ samples = <<>>
    /\ stop = FALSE
    /\ historised = <<>> /\ acked = <<>> /\ lost = {} /\ faults = 0

-----------------------------------------------------------------------------
Other(t) == IF t = "run" THEN "flusher" ELSE "run"

\* asyncio.Lock is FIFO: the waiter a release has woken resumes before the task
\* that released the lock is back at it (there is a real await in between).
Turn(t) == ~(lock = "none" /\ pc[Other(t)] = "waiting")

\* A mutation used by the runs: the buffer is touched outside `async with`.
LockIgnored == TRUE
LockFree == lock = "none"

\* cancel() was called on t: t runs nothing but its CancelledError from now on.
\* The lifespan cancels "run"; only NorthIngestor.run cancels the flusher.
Cancelled(t) ==
    IF t = "run" THEN stop /\ pc["run"] \in {"idle", "waiting", "flushing"}
                 ELSE northbound /\ pc["run"] = "joining"

\* _flush_loop looks at _stop after each flush; the final drain ends `run`.
Resume(t) ==
    IF pc[t] = "draining" \/ (t = "flusher" /\ stop) THEN "ended" ELSE "idle"

\* Mutation: `batch` is copied, the buffer not reset.
StartFlushCopied(t, content, where) ==
    /\ lock' = t
    /\ batch' = [batch EXCEPT ![t] = content]
    /\ buffer' = content
    /\ pc' = [pc EXCEPT ![t] = where]
\* The head of _flush_locked: the buffer is swapped out, then the INSERT awaited.
StartFlush(t, content, where) ==
    /\ lock' = t
    /\ batch' = [batch EXCEPT ![t] = content]
    /\ buffer' = <<>>
    /\ pc' = [pc EXCEPT ![t] = where]

\* Leaving `async with self._buffer_lock` without a flush.
Release(t, content) ==
    /\ lock' = "none"
    /\ buffer' = content
    /\ pc' = [pc EXCEPT ![t] = Resume(t)]
    /\ UNCHANGED batch

-----------------------------------------------------------------------------
(* The run task: handing over the rows of one asset.                       *)

Fresh(k) == [i \in 1..k |-> Len(historised) + i]

\* Mutation: an off-by-one in the threshold.
BatchOverfull(content) == Len(content) > BatchSize
BatchFull(content) == Len(content) >= BatchSize

HandOver(rs) ==
    IF BatchFull(buffer \o rs) THEN StartFlush("run", buffer \o rs, "flushing")
                               ELSE Release("run", buffer \o rs)

Historise(k) ==
    /\ pc["run"] = "idle" /\ ~stop /\ Turn("run")
    /\ Len(historised) + k <= MaxRows
    /\ historised' = historised \o Fresh(k)
    /\ \/ LockFree /\ HandOver(Fresh(k)) /\ UNCHANGED rows
       \/ /\ ~LockFree
          /\ rows' = Fresh(k)
          /\ pc' = [pc EXCEPT !["run"] = "waiting"]
          /\ UNCHANGED <<lock, buffer, batch>>
    /\ UNCHANGED <<northbound, samples, stop, acked, lost, faults>>

RunAcquires ==
    /\ pc["run"] = "waiting" /\ ~stop
    /\ lock = "none"
    /\ HandOver(rows)
    /\ rows' = <<>>
    /\ UNCHANGED <<northbound, samples, stop, historised, acked, lost, faults>>

-----------------------------------------------------------------------------
(* The flusher task: sleep, then _flush.                                   *)

FlushBody(t, where) ==
    IF buffer = <<>> THEN Release(t, buffer) ELSE StartFlush(t, buffer, where)

FlusherWakes ==
    /\ pc["flusher"] = "idle" /\ ~Cancelled("flusher") /\ Turn("flusher")
    /\ \/ LockFree /\ FlushBody("flusher", "flushing")
       \/ /\ ~LockFree
          /\ pc' = [pc EXCEPT !["flusher"] = "waiting"]
          /\ UNCHANGED <<lock, buffer, batch>>
    /\ UNCHANGED <<northbound, rows, samples, stop, historised, acked, lost, faults>>

FlusherAcquires ==
    /\ pc["flusher"] = "waiting" /\ ~Cancelled("flusher")
    /\ lock = "none"
    /\ FlushBody("flusher", "flushing")
    /\ UNCHANGED <<northbound, rows, samples, stop, historised, acked, lost, faults>>

-----------------------------------------------------------------------------
(* The INSERT of a batch: executemany runs in one implicit transaction, so *)
(* it stores all of the batch or nothing; when it raises, or is cancelled, *)
(* the transaction may nevertheless have been committed.                   *)

Flushing(t) == pc[t] \in {"flushing", "draining"} /\ ~Cancelled(t)

\* Mutation: the batch is executed one statement at a time and partly committed.
InsertedOneByOne(t, committed) ==
    IF committed THEN samples \o batch[t] ELSE samples \o SubSeq(batch[t], 2, Len(batch[t]))
Inserted(t, committed) == IF committed THEN samples \o batch[t] ELSE samples

FlushOk(t) ==
    /\ Flushing(t)
    /\ samples' = Inserted(t, TRUE)
    /\ acked' = acked \o batch[t]
    /\ batch' = [batch EXCEPT ![t] = <<>>]
    /\ lock' = "none"
    /\ pc' = [pc EXCEPT ![t] = Resume(t)]
    /\ UNCHANGED <<northbound, buffer, rows, stop, historised, lost, faults>>

\* Mutation: the batch is not re-queued.
RequeuedNothing(t) == buffer
Requeued(t) == batch[t] \o buffer

FlushFails(t, committed) ==
    /\ Flushing(t)
    /\ faults < MaxFaults
    /\ faults' = faults + 1
    /\ samples' = Inserted(t, committed)
    /\ buffer' = Requeued(t)
    /\ batch' = [batch EXCEPT ![t] = <<>>]
    /\ lock' = "none"
    /\ pc' = [pc EXCEPT ![t] = Resume(t)]
    /\ UNCHANGED <<northbound, rows, stop, historised, acked, lost>>

-----------------------------------------------------------------------------
(* Shutdown. The lifespan calls stop() and cancel() without yielding, then *)
(* awaits the run task. CancelledError is not an Exception: the re-queue   *)
(* of _flush_locked does not run, the `async with` releases the lock.      *)

Stop ==
    /\ ~stop
    /\ stop' = TRUE
    /\ UNCHANGED <<northbound, pc, lock, buffer, batch, rows, samples, historised,
                   acked, lost, faults>>

\* Mutation: an explicit acquire() whose release() a cancellation skips.
FreedNever(t) == lock
Freed(t) == IF lock = t THEN "none" ELSE lock

\* t dies where it is suspended; what it held locally goes with it.
Unwind(t, dropped, committed, where) ==
    /\ samples' = Inserted(t, committed)
    /\ lost' = lost \cup Range(dropped)
    /\ batch' = [batch EXCEPT ![t] = <<>>]
    /\ lock' = Freed(t)
    /\ pc' = [pc EXCEPT ![t] = where]
    /\ UNCHANGED <<northbound, buffer, stop, historised, acked, faults>>

RunCancelled(committed) ==
    /\ Cancelled("run")
    /\ Unwind("run", batch["run"] \o rows, committed, "joining")
    /\ rows' = <<>>

FlusherCancelled(committed) ==
    /\ Cancelled("flusher") /\ pc["flusher"] # "ended"
    /\ Unwind("flusher", batch["flusher"], committed, "ended")
    /\ UNCHANGED rows

\* `await flusher` has returned: the final `await self._flush()`.
\* Mutation: run does not wait for the flusher.
FlusherNotJoined == TRUE
FlusherJoined == pc["flusher"] = "ended"

Drain ==
    /\ pc["run"] = "joining" /\ FlusherJoined /\ lock = "none"
    /\ IF buffer = <<>>
         THEN pc' = [pc EXCEPT !["run"] = "ended"] /\ UNCHANGED <<lock, buffer, batch>>
         ELSE StartFlush("run", buffer, "draining")
    /\ UNCHANGED <<northbound, rows, samples, stop, historised, acked, lost, faults>>

-----------------------------------------------------------------------------
DbReplies(t) == FlushOk(t) \/ \E committed \in BOOLEAN : FlushFails(t, committed)

Next ==
    \/ \E k \in 1..MaxPerAsset : Historise(k)
    \/ RunAcquires
    \/ FlusherWakes
    \/ FlusherAcquires
    \/ \E t \in Tasks : DbReplies(t)
    \/ Stop
    \/ \E committed \in BOOLEAN : RunCancelled(committed) \/ FlusherCancelled(committed)
    \/ Drain

Spec == Init /\ [][Next]_vars

\* The event loop resumes every ready task, the flush timer fires and the pool
\* answers every query. Nothing obliges packets to come or the process to stop.
Fairness ==
    /\ WF_vars(RunAcquires) /\ WF_vars(FlusherWakes) /\ WF_vars(FlusherAcquires)
    /\ \A t \in Tasks : WF_vars(DbReplies(t))
    /\ WF_vars(\E c \in BOOLEAN : RunCancelled(c))
    /\ WF_vars(\E c \in BOOLEAN : FlusherCancelled(c))
    /\ WF_vars(Drain)

FairSpec == Spec /\ Fairness

-----------------------------------------------------------------------------
(* Properties *)

Values == 1..MaxRows

\* Every variable keeps its type; only the run task joins or drains.
TypeOK ==
    /\ northbound \in BOOLEAN
    /\ pc["run"] \in {"idle", "waiting", "flushing", "joining", "draining", "ended"}
    /\ pc["flusher"] \in {"idle", "waiting", "flushing", "ended"}
    /\ DOMAIN pc = Tasks /\ DOMAIN batch = Tasks
    /\ lock \in Tasks \cup {"none"}
    /\ buffer \in Seq(Values) /\ rows \in Seq(Values)
    /\ batch["run"] \in Seq(Values) /\ batch["flusher"] \in Seq(Values)
    /\ samples \in Seq(Values) /\ historised \in Seq(Values) /\ acked \in Seq(Values)
    /\ Len(historised) <= MaxRows
    /\ stop \in BOOLEAN
    /\ lost \subseteq Values
    /\ faults \in 0..MaxFaults

\* The lock is held exactly while its owner awaits an INSERT, nobody adds to the
\* buffer meanwhile, a batch exists only under the lock, and run keeps rows of its
\* own only while it queues for it.
LockDiscipline ==
    /\ \A t \in Tasks : lock = t <=> pc[t] \in {"flushing", "draining"}
    /\ \A t \in Tasks : batch[t] # <<>> => lock = t
    /\ lock # "none" => buffer = <<>>
    /\ rows # <<>> => pc["run"] = "waiting"

\* The two batches; LockDiscipline makes one of them empty.
InFlight == batch["flusher"] \o batch["run"]

\* Until a cancellation drops something, the acknowledged rows, the batch in
\* flight, the buffer and the rows of a waiting asset are, in this order, all
\* the rows the gate let through: failed flushes and hand-overs that overlap them
\* neither lose, double nor reorder a row.
FifoConservation ==
    lost = {} => acked \o InFlight \o buffer \o rows = historised

\* A row is stored at most once, plus once more for every INSERT that raised:
\* the only duplicates come from a commit whose answer was lost.
DuplicatesBounded ==
    \A r \in Range(samples) :
        Cardinality({i \in DOMAIN samples : samples[i] = r}) <= 1 + faults

\* Without faults the buffer never rests at or above the batch threshold.
BatchTrigger == faults = 0 /\ lock = "none" => Len(buffer) < BatchSize

\* When run has returned nobody is writing any more, the lock is free, and what is
\* neither stored nor dropped by a cancellation is in the buffer because the
\* final INSERT itself raised.
DrainComplete ==
    pc["run"] = "ended" =>
        /\ lock = "none" /\ pc["flusher"] = "ended" /\ InFlight = <<>>
        /\ Range(historised) \subseteq Range(samples) \cup lost \cup Range(buffer)
        /\ faults = 0 => buffer = <<>>

\* Every row that entered the writer is stored, unless the process is stopped.
EventuallyStored ==
    \A r \in Values : r \in Range(historised) ~> r \in Range(samples) \/ stop

\* A stopped worker returns: flusher and run do not wait for each other forever.
ShutdownCompletes == stop ~> pc["run"] = "ended"

\* The writer implements the at-least-once FIFO log.
Log == INSTANCE HistoryLog WITH
          pending <- InFlight \o buffer \o rows, stored <- samples, closing <- stop
ImplementsHistoryLog == Log!Spec

\* What ingestion.py:131 ("final drain") and ingestion.py:295 ("so we don't drop
\* data between retries") say of a shutdown with a healthy database.
StopLosesNothing ==
    pc["run"] = "ended" /\ faults = 0 => Range(historised) \subseteq Range(samples)
=============================================================================
