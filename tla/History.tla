------------------------------ MODULE History -------------------------------
(***************************************************************************)
(* From a reading to a chart. The change gate (module ChangeGate) feeds    *)
(* the buffer of the writer, the writer ems_telemetry_samples, the refresh *)
(* policy of db/schema.sql the one-minute aggregate, and the endpoint of   *)
(* routers/telemetry.py reads one of the two.                              *)
(*                                                                         *)
(* A field is polled at most once per instant. A database that refuses     *)
(* rows is one where Flush does not happen for a while. The clocks agree;  *)
(* ChangeGate has the ones that do not.                                    *)
(***************************************************************************)
EXTENDS Integers

CONSTANTS
    Fields, Readings, StoreOnChange, Heartbeat, Deadband, Northbound,
    MaxNow,      \* as in ChangeGate
    Bucket,      \* the width of time_bucket: one minute
    StartOffset, \* start_offset of the refresh policy: three hours
    EndOffset,   \* end_offset: one minute
    RawMaxSpan,  \* _RAW_MAX_SPAN: six hours
    MaxFaults    \* bound: hand-overs that raise, and restarts

VARIABLES
    now, lastStored, latest,  \* as in ChangeGate
    passed,    \* the newest row of each field that passed the gate
    reported,  \* the fields polled at this instant
    buffer,    \* self._buffer: rows handed over and not yet stored
    samples,   \* ems_telemetry_samples: rows with the time they were stored
    agg,       \* the rows whose averages ems_telemetry_1m holds
    gap,       \* history: when each field last went a whole instant without a poll
    raisedAt,  \* history: when a row of each field was last lost behind the gate
    diedAt,    \* history: when the process last died
    faults

vars == <<now, lastStored, latest, passed, reported, buffer, samples, agg,
          gap, raisedAt, diedAt, faults>>

Gate == INSTANCE ChangeGate WITH table <- passed, skew <- 0, MaxSkew <- 0

ASSUME HistoryAssumption ==
    /\ Readings \subseteq [kind : Gate!Kinds, v : Int]
    /\ StoreOnChange \in BOOLEAN /\ Northbound \in BOOLEAN
    /\ Deadband \in Nat /\ MaxNow \in Nat /\ MaxFaults \in Nat
    /\ Bucket \in Nat \ {0} /\ StartOffset \in Nat /\ EndOffset \in Nat
    /\ StartOffset >= Bucket + EndOffset
    /\ RawMaxSpan \in Nat /\ Heartbeat \in Nat \ {0}

NoRow == Gate!NoRow

Init ==
    /\ Gate!Init
    /\ reported = {} /\ buffer = {} /\ samples = {} /\ agg = {}
    /\ gap = [f \in Fields |-> -1]
    /\ raisedAt = [f \in Fields |-> -Heartbeat] /\ diedAt = -1
    /\ faults = 0

-----------------------------------------------------------------------------
RowOf(f, p) == [f |-> f, val |-> p.val, ts |-> p.ts]
Poll(f, x) ==
    /\ f \notin reported /\ reported' = reported \cup {f}
    /\ Gate!Report(f, x)

\* A reading goes through the gate and, if it passes, into the buffer.
Report(f, x) ==
    /\ Poll(f, x)
    /\ buffer' = buffer \cup
          IF passed'[f] = passed[f] THEN {} ELSE {RowOf(f, passed'[f])}
    /\ UNCHANGED <<samples, agg, gap, raisedAt, diedAt, faults>>

\* The gate has let a row through, then a statement raises before the hand-over.
ReportRaises(f, x) ==
    /\ faults < MaxFaults /\ faults' = faults + 1
    /\ Poll(f, x) /\ passed'[f] # passed[f]
    /\ raisedAt' = [raisedAt EXCEPT ![f] = now]
    /\ UNCHANGED <<buffer, samples, agg, gap, diedAt>>

Flush ==
    /\ buffer # {} /\ buffer' = {}
    /\ samples' = samples \cup
          {[f |-> r.f, val |-> r.val, ts |-> r.ts, stored |-> now] : r \in buffer}
    /\ UNCHANGED <<now, lastStored, latest, passed, reported, agg, gap, raisedAt, diedAt,
                   faults>>

\* Mutation: what was remembered survives the restart.
RememberedSurvives == UNCHANGED lastStored
\* A new process starts with an empty _last_stored.
Forgotten == Gate!Restart

\* The process is killed, or a cancelled INSERT takes its batch along.
Restart ==
    /\ faults < MaxFaults /\ faults' = faults + 1
    /\ Forgotten
    /\ buffer' = {}
    /\ diedAt' = now
    /\ UNCHANGED <<now, latest, passed, reported, samples, agg, gap, raisedAt>>

-----------------------------------------------------------------------------
BucketOf(ts) == (ts \div Bucket) * Bucket

\* Mutation: the buckets are refreshed once, when they leave the end of the window.
RefreshedOnce(b, t) == b + Bucket + EndOffset = t
\* A refresh at time t covers the whole buckets between its two offsets.
Refreshed(b, t) == t - StartOffset <= b /\ b + Bucket <= t - EndOffset

IsNumeric(r) == r.val.kind = "num"

\* The policy runs every schedule_interval, here with every tick.
Tick ==
    /\ Gate!Tick
    /\ reported' = {}
    /\ gap' = [f \in Fields |-> IF f \in reported THEN gap[f] ELSE now]
    /\ agg' = {r \in agg : ~Refreshed(BucketOf(r.ts), now')} \cup
              {r \in samples : IsNumeric(r) /\ Refreshed(BucketOf(r.ts), now')}
    /\ UNCHANGED <<buffer, samples, raisedAt, diedAt, faults>>

Next ==
    \/ \E f \in Fields, x \in Readings : Report(f, x) \/ ReportRaises(f, x)
    \/ Flush \/ Restart \/ Tick

Spec == Init /\ [][Next]_vars

-----------------------------------------------------------------------------
(* The endpoint.                                                           *)

UseAgg(resolution, span) ==
    resolution = "1m" \/ (resolution = "auto" /\ span > RawMaxSpan)

RawRows(f, start, end) == {r \in samples : r.f = f /\ r.ts \in start..end}
AggBuckets(f, start, end) ==
    {BucketOf(r.ts) : r \in {q \in agg : q.f = f}} \cap start..end

\* timeseries: the times of its points.
Points(f, start, end, resolution) ==
    IF UseAgg(resolution, end - start) THEN AggBuckets(f, start, end)
                                       ELSE {r.ts : r \in RawRows(f, start, end)}

-----------------------------------------------------------------------------
(* Properties *)

\* "So gaps stay bounded and liveness is clear" (config.py:40): a reader who
\* holds the newest row of a field is right about its newest reading, unless a row was
\* lost: by a statement that raised behind the gate, and then only until the heartbeat,
\* or with the buffer of a process that died, and then only until the next reading.
LossIsRepaired ==
    \A f \in Fields :
        latest[f] # NoRow /\ Gate!IsScalar(latest[f].val) =>
            \/ \E r \in buffer \cup samples :
                  /\ r.f = f /\ Gate!StandsFor(r.val, latest[f].val)
                  /\ \A q \in buffer \cup samples : q.f = f => q.ts <= r.ts
            \/ latest[f].at < raisedAt[f] + Heartbeat
            \/ ~Gate!Remembered(f)

\* A chart of a field that was polled throughout is never empty if it is as long as the
\* heartbeat, although a constant field is hardly ever stored, and across restarts:
\* one row of the window is stored, or still in the buffer.
ChartHasPoint ==
    \A f \in Fields : \A start \in 0..now :
        LET end == start + Heartbeat - 1 IN
        /\ end < now \/ (end = now /\ f \in reported)
        /\ gap[f] < start /\ raisedAt[f] < start /\ diedAt < start
        => Points(f, start, end, "auto") # {} \/ \E r \in buffer : r.f = f /\ r.ts \in start..end

OnTime(r) == r.stored < BucketOf(r.ts) + StartOffset

\* The switch to the aggregate above six hours neither loses nor invents a minute: once
\* the refresh has had its time, the aggregate has the minutes that have numeric rows,
\* provided none was stored later than the window of the policy reaches back.
ChartsAgree ==
    \A f \in Fields : \A start \in 0..now : \A end \in start..now :
        LET raw == {r \in RawRows(f, start, end + Bucket - 1) :
                        IsNumeric(r) /\ BucketOf(r.ts) \in start..end} IN
        (end + Bucket + EndOffset <= now /\ \A r \in raw : OnTime(r) /\ r.stored < now)
            => Points(f, start, end, "1m") = {BucketOf(r.ts) : r \in raw}
=============================================================================
