----------------------------- MODULE ChangeGate -----------------------------
(***************************************************************************)
(* Change-based storage of app/ingestion.py: which readings of a field     *)
(* become rows of ems_telemetry_samples (`_classify`, `_changed_enough`,   *)
(* `_last_stored`, and the row loops of `_handle_asset` and                *)
(* NorthIngestor._ingest_asset around them).                               *)
(*                                                                         *)
(* The gate runs without an await, so a reading is one step. A field is an *)
(* (asset_id, field_key) pair; a reading is a record of the JSON kind and  *)
(* an integer: the value in units as fine as needed, so that a boolean is  *)
(* 0 or the number of units in 1, and a label for texts and objects.       *)
(* Null readings and _SKIP_KEYS never reach the gate and are left out.     *)
(***************************************************************************)
EXTENDS Integers

CONSTANTS
    Fields,         \* the (asset_id, field_key) pairs the gateway reports
    Readings,       \* the values it may report: records [kind, v]
    StoreOnChange,  \* settings.store_on_change
    Heartbeat,      \* settings.store_heartbeat_seconds
    Deadband,       \* settings.numeric_deadband
    Northbound,     \* settings.gateway_type = "northbound"
    MaxSkew,        \* bound: how far ahead of ours the device clock may be
    MaxNow          \* bound: the clock of this process stops here

Kinds == {"num", "bool", "text", "json"}

ASSUME GateAssumption ==
    /\ Readings \subseteq [kind : Kinds, v : Int]
    /\ StoreOnChange \in BOOLEAN /\ Northbound \in BOOLEAN
    /\ Heartbeat \in Nat /\ Deadband \in Nat
    /\ MaxSkew \in Nat /\ MaxNow \in Nat

VARIABLES
    now,         \* the time at this process
    skew,        \* the device clock is now + skew; it may be set back
    lastStored,  \* self._last_stored: [val, ts] for the fields seen since the start
    table,       \* the newest row of each field in ems_telemetry_samples
    latest       \* history: the newest reading of each field

vars == <<now, skew, lastStored, table, latest>>

NoRow == <<>>

Init ==
    /\ now = 0 /\ skew \in 0..MaxSkew
    /\ lastStored = <<>>
    /\ table = [f \in Fields |-> NoRow]
    /\ latest = [f \in Fields |-> NoRow]

-----------------------------------------------------------------------------
\* _classify leaves `scalar` None for lists and objects.
IsScalar(x) == x.kind # "json"

\* isinstance(x, (int, float)): in Python a bool is an int.
IsNumber(x) == x.kind \in {"num", "bool"}

Differs(x, y) ==
    IF IsNumber(x) /\ IsNumber(y)
      THEN x.v - y.v > Deadband \/ y.v - x.v > Deadband
      ELSE x # y

\* Mutation: the heartbeat fires one second late.
HeartbeatLate(last, ts) == ts - last.ts > Heartbeat
HeartbeatDue(last, ts) == ts - last.ts >= Heartbeat

Key(f) == f

\* self._last_stored[key] = (scalar, ts)
Put(f, x, ts) ==
    [k \in DOMAIN lastStored \cup {Key(f)} |->
        IF k = Key(f) THEN [val |-> x, ts |-> ts] ELSE lastStored[k]]

Remembered(f) == Key(f) \in DOMAIN lastStored

ChangedEnough(f, x, ts) ==
    \/ ~StoreOnChange
    \/ ~Remembered(f)
    \/ HeartbeatDue(lastStored[Key(f)], ts)
    \/ Differs(x, lastStored[Key(f)].val)

\* Mutation: every reading is remembered (a slow drift is never stored).
RememberAlways(f, x, ts) == lastStored' = Put(f, x, ts)
\* What _changed_enough leaves in _last_stored.
Remember(f, x, ts) ==
    IF StoreOnChange /\ ChangedEnough(f, x, ts)
      THEN lastStored' = Put(f, x, ts)
      ELSE UNCHANGED lastStored

Insert(f, x, ts) == table' = [table EXCEPT ![f] = [val |-> x, ts |-> ts, at |-> now]]

\* One iteration of the row loop: the legacy worker stores structural values as
\* they are, the NorthBound one skips them.
Report(f, x) ==
    LET ts == now + skew IN
    /\ latest' = [latest EXCEPT ![f] = [val |-> x, ts |-> ts, at |-> now]]
    /\ \/ /\ IsScalar(x)
          /\ Remember(f, x, ts)
          /\ IF ChangedEnough(f, x, ts) THEN Insert(f, x, ts) ELSE UNCHANGED table
       \/ /\ ~IsScalar(x)
          /\ IF Northbound THEN UNCHANGED table ELSE Insert(f, x, ts)
          /\ UNCHANGED lastStored
    /\ UNCHANGED <<now, skew>>

\* Time passes; the device clock may be corrected.
Tick ==
    /\ now < MaxNow /\ now' = now + 1
    /\ skew' \in 0..MaxSkew
    /\ UNCHANGED <<lastStored, table, latest>>

\* The process restarts: __init__ starts with an empty _last_stored.
Restart ==
    /\ lastStored' = <<>>
    /\ UNCHANGED <<now, skew, table, latest>>

Next ==
    \/ \E f \in Fields, x \in Readings : Report(f, x)
    \/ Tick
    \/ Restart

Spec == Init /\ [][Next]_vars

-----------------------------------------------------------------------------
(* Properties *)

Row == [val : Readings, ts : Int, at : Int]

\* Types; what is remembered of a field is its newest row.
TypeOK ==
    /\ now \in Int /\ skew \in 0..MaxSkew
    /\ DOMAIN lastStored \subseteq Fields
    /\ \A f \in DOMAIN lastStored : lastStored[f] \in [val : Readings, ts : Int]
    /\ table \in [Fields -> Row \cup {NoRow}]
    /\ latest \in [Fields -> Row \cup {NoRow}]

\* What a reader who holds the last row y may rely on, by ingestion.py:17-19: "a
\* historised field is only written when its value changes (numeric: beyond
\* numeric_deadband; text/bool: any change)".
StandsFor(y, x) ==
    IF x.kind = "num" /\ y.kind = "num"
      THEN x.v \in (y.v - Deadband)..(y.v + Deadband)
      ELSE x = y

\* "Chart readers should hold the last value between points" (ingestion.py:20-21):
\* the newest row of a field stands for its newest scalar reading, however slowly
\* the value drifts, whatever the device clock does, and across restarts.
HeldValueIsCurrent ==
    \A f \in Fields : latest[f] # NoRow /\ IsScalar(latest[f].val) =>
        table[f] # NoRow /\ StandsFor(table[f].val, latest[f].val)

\* What that takes of the readings: the gate compares a boolean as the number it is in
\* Python, so it must be further than the deadband from anything else reported. With a
\* numeric_deadband of 1 or more the code breaks the promise for booleans.
BoolsApart ==
    \A x, y \in Readings : x.kind = "bool" /\ x # y => Differs(x, y) /\ Differs(y, x)

\* "The heartbeat bounds any gap" (ingestion.py:21): when a field is reported, its
\* newest row is of this instant or younger than the heartbeat plus what the device
\* clock may have been set back.
GapBounded ==
    \A f \in Fields : latest[f] # NoRow /\ IsScalar(latest[f].val) =>
        /\ table[f] # NoRow
        /\ \/ table[f].at = latest[f].at
           \/ latest[f].at - table[f].at < Heartbeat + MaxSkew
=============================================================================
