-------------------------- MODULE ChangeGateProofs --------------------------
(***************************************************************************)
(* The change gate for every set of fields and readings, every heartbeat,  *)
(* deadband and clock error.                                               *)
(***************************************************************************)
EXTENDS ChangeGate, TLAPS

\* What the worker remembers of a field is its newest row.
MemoryIsTable ==
    \A f \in DOMAIN lastStored :
        /\ table[f] # NoRow
        /\ table[f].val = lastStored[f].val /\ table[f].ts = lastStored[f].ts

\* Rows are stamped by a device clock that runs at most MaxSkew ahead.
StampsBounded ==
    \A f \in Fields : table[f] # NoRow =>
        table[f].at <= table[f].ts /\ table[f].ts <= table[f].at + MaxSkew

GateInv ==
    /\ TypeOK /\ MemoryIsTable /\ StampsBounded
    /\ StoreOnChange \/ DOMAIN lastStored = {}
    /\ BoolsApart => HeldValueIsCurrent
    /\ GapBounded

\* A row is not the mark for no row.
LEMMA RowIsNotNoRow ==
    ASSUME NEW v, NEW t, NEW a
    PROVE  [val |-> v, ts |-> t, at |-> a] # NoRow
  BY DEF NoRow

LEMMA GateInit == Init => GateInv
  BY GateAssumption
  DEF Init, GateInv, TypeOK, MemoryIsTable, StampsBounded, HeldValueIsCurrent, GapBounded

\* A reading that is not stored is close to what is remembered, and early.
LEMMA UnstoredIsClose ==
    ASSUME GateInv, NEW f \in Fields, NEW x \in Readings, ~ChangedEnough(f, x, now + skew)
    PROVE  /\ table[f] # NoRow /\ table[f] \in Row
           /\ BoolsApart => StandsFor(table[f].val, x)
           /\ now - table[f].at < Heartbeat + MaxSkew
  <1>1. f \in DOMAIN lastStored /\ StoreOnChange
    BY DEF ChangedEnough, Remembered, Key
  <1>2. /\ table[f] # NoRow /\ table[f] \in Row
        /\ table[f].val = lastStored[f].val /\ table[f].ts = lastStored[f].ts
    BY <1>1 DEF GateInv, MemoryIsTable, TypeOK
  <1>3. ~Differs(x, table[f].val) /\ now + skew - table[f].ts < Heartbeat
    <2>1. ~Differs(x, lastStored[f].val) /\ ~HeartbeatDue(lastStored[f], now + skew)
      BY Zenon DEF ChangedEnough, Key
    <2>2. now \in Int /\ skew \in Int /\ table[f].ts \in Int
      BY <1>2, GateAssumption DEF GateInv, TypeOK, Row
    <2>3. now + skew - table[f].ts < Heartbeat
      BY <1>2, <2>1, <2>2, GateAssumption DEF HeartbeatDue
    <2> QED
      BY <1>2, <2>1, <2>3, Zenon
  <1>4. BoolsApart => StandsFor(table[f].val, x)
    <2> SUFFICES ASSUME BoolsApart PROVE StandsFor(table[f].val, x)
      OBVIOUS
    <2>1. /\ table[f].val \in Readings /\ x.v \in Int /\ table[f].val.v \in Int
          /\ x.kind \in Kinds /\ table[f].val.kind \in Kinds
      BY <1>2, GateAssumption DEF Row
    <2>2. CASE x.kind = "num" /\ table[f].val.kind = "num"
      BY <1>3, <2>1, <2>2, GateAssumption DEF StandsFor, Differs, IsNumber
    <2>3. CASE x.kind = "bool" \/ table[f].val.kind = "bool"
      BY <1>3, <2>1, <2>3 DEF StandsFor, BoolsApart
    <2>4. CASE x.kind \in {"text", "json"} \/ table[f].val.kind \in {"text", "json"}
      BY <1>3, <2>4 DEF StandsFor, Differs, IsNumber
    <2> QED
      BY <2>1, <2>2, <2>3, <2>4 DEF Kinds
  <1>5. now - table[f].at < Heartbeat + MaxSkew
    <2>1. /\ table[f].at \in Int /\ table[f].ts \in Int /\ now \in Int
          /\ skew \in Int /\ skew >= 0 /\ table[f].ts <= table[f].at + MaxSkew
      BY <1>2, GateAssumption DEF GateInv, TypeOK, StampsBounded, Row
    <2> QED
      BY <1>3, <2>1, GateAssumption
  <1> QED
    BY <1>2, <1>4, <1>5

\* A reading stands for itself.
LEMMA StandsForItself ==
    ASSUME NEW x \in Readings
    PROVE  StandsFor(x, x)
  BY GateAssumption DEF StandsFor

LEMMA GateReport ==
    ASSUME Northbound \/ \A x \in Readings : IsScalar(x),
           GateInv, NEW f \in Fields, NEW x \in Readings, Report(f, x)
    PROVE  GateInv'
  <1> DEFINE ts == now + skew
  <1> DEFINE row == [val |-> x, ts |-> ts, at |-> now]
  <1>1. ts \in Int /\ row \in Row /\ row # NoRow /\ now <= ts /\ ts <= now + MaxSkew
    <2>1. now \in Int /\ skew \in Int /\ 0 <= skew /\ skew <= MaxSkew
      BY GateAssumption DEF GateInv, TypeOK
    <2> QED
      BY <2>1, GateAssumption, RowIsNotNoRow DEF Row
  <1>2. latest' = [latest EXCEPT ![f] = row] /\ UNCHANGED <<now, skew>>
    BY DEF Report
  <1>3. latest' \in [Fields -> Row \cup {NoRow}] /\ latest'[f] = row
        /\ \A g \in Fields \ {f} : latest'[g] = latest[g]
    BY <1>1, <1>2 DEF GateInv, TypeOK
  <1>4. CASE IsScalar(x) /\ ChangedEnough(f, x, ts)
    <2>1. table' = [table EXCEPT ![f] = row]
      BY <1>4 DEF Report, Insert
    <2>2. table' \in [Fields -> Row \cup {NoRow}] /\ table'[f] = row
          /\ \A g \in Fields \ {f} : table'[g] = table[g]
      BY <1>1, <2>1 DEF GateInv, TypeOK
    <2>3. CASE StoreOnChange
      <3>1. lastStored' = Put(f, x, ts)
        BY <1>4, <2>3 DEF Report, Remember
      <3>2. /\ DOMAIN lastStored' = DOMAIN lastStored \cup {f}
            /\ lastStored'[f] = [val |-> x, ts |-> ts]
            /\ \A g \in DOMAIN lastStored \ {f} : lastStored'[g] = lastStored[g]
        BY <3>1 DEF Put, Key
      <3>3. TypeOK'
        BY <1>1, <1>2, <1>3, <2>2, <3>2 DEF GateInv, TypeOK
      <3>4. MemoryIsTable'
        BY <1>1, <2>2, <3>2 DEF GateInv, TypeOK, MemoryIsTable
      <3>5. StampsBounded'
        BY <1>1, <2>2 DEF GateInv, StampsBounded
      <3>6. (BoolsApart => HeldValueIsCurrent') /\ GapBounded'
        BY <1>1, <1>3, <2>2, StandsForItself DEF GateInv, HeldValueIsCurrent, GapBounded
      <3> QED
        BY <2>3, <3>3, <3>4, <3>5, <3>6 DEF GateInv
    <2>4. CASE ~StoreOnChange
      <3>1. lastStored' = lastStored /\ DOMAIN lastStored = {}
        BY <1>4, <2>4 DEF Report, Remember, GateInv
      <3>2. TypeOK' /\ MemoryIsTable'
        BY <1>2, <1>3, <2>2, <3>1 DEF GateInv, TypeOK, MemoryIsTable
      <3>3. StampsBounded'
        BY <1>1, <2>2 DEF GateInv, StampsBounded
      <3>4. (BoolsApart => HeldValueIsCurrent') /\ GapBounded'
        BY <1>1, <1>3, <2>2, StandsForItself DEF GateInv, HeldValueIsCurrent, GapBounded
      <3> QED
        BY <3>1, <3>2, <3>3, <3>4 DEF GateInv
    <2> QED
      BY <2>3, <2>4
  <1>5. CASE IsScalar(x) /\ ~ChangedEnough(f, x, ts)
    <2>1. table' = table /\ lastStored' = lastStored
      BY <1>5 DEF Report, Remember
    <2>2. TypeOK' /\ MemoryIsTable' /\ StampsBounded'
      BY <1>2, <1>3, <2>1 DEF GateInv, TypeOK, MemoryIsTable, StampsBounded
    <2>3. (BoolsApart => HeldValueIsCurrent') /\ GapBounded'
      BY <1>3, <1>5, <2>1, UnstoredIsClose DEF GateInv, HeldValueIsCurrent, GapBounded
    <2> QED
      BY <2>1, <2>2, <2>3 DEF GateInv
  <1>6. CASE ~IsScalar(x)
    <2>1. table' = table /\ lastStored' = lastStored
      BY <1>6 DEF Report
    <2>2. TypeOK' /\ MemoryIsTable' /\ StampsBounded'
      BY <1>2, <1>3, <2>1 DEF GateInv, TypeOK, MemoryIsTable, StampsBounded
    <2>3. (BoolsApart => HeldValueIsCurrent') /\ GapBounded'
      BY <1>3, <1>6, <2>1 DEF GateInv, HeldValueIsCurrent, GapBounded
    <2> QED
      BY <2>1, <2>2, <2>3 DEF GateInv
  <1> QED
    BY <1>4, <1>5, <1>6

LEMMA GateStep ==
    ASSUME Northbound \/ \A x \in Readings : IsScalar(x), GateInv, [Next]_vars
    PROVE  GateInv'
  <1>1. CASE Tick
    <2>1. now' \in Int /\ skew' \in 0..MaxSkew
      BY <1>1 DEF Tick, GateInv, TypeOK
    <2> QED
      BY <1>1, <2>1
      DEF Tick, GateInv, TypeOK, MemoryIsTable, StampsBounded, HeldValueIsCurrent, GapBounded
  <1>2. CASE Restart
    BY <1>2
    DEF Restart, GateInv, TypeOK, MemoryIsTable, StampsBounded, HeldValueIsCurrent, GapBounded
  <1>3. CASE UNCHANGED vars
    BY <1>3
    DEF vars, GateInv, TypeOK, MemoryIsTable, StampsBounded, HeldValueIsCurrent, GapBounded
  <1> QED
    BY <1>1, <1>2, <1>3, GateReport DEF Next

LEMMA GateInvariant ==
    ASSUME Northbound \/ \A x \in Readings : IsScalar(x)
    PROVE  Spec => []GateInv
  <1>1. GateInv /\ [Next]_vars => GateInv'
    BY GateStep
  <1> QED
    BY <1>1, GateInit, PTL DEF Spec

\* Where no field is structural, or the worker skips structural values, and no boolean
\* is within the deadband of another reading: the newest row of a field stands for its
\* newest scalar reading, numbers up to the deadband and all others exactly.
THEOREM GateSafe ==
    ASSUME Northbound \/ \A x \in Readings : IsScalar(x), BoolsApart
    PROVE  Spec => [](TypeOK /\ HeldValueIsCurrent)
  <1>1. GateInv => TypeOK /\ HeldValueIsCurrent
    BY DEF GateInv
  <1> QED
    BY <1>1, GateInvariant, PTL

\* A field that is reported never rests on a row older than the heartbeat plus the
\* error of the device clock, whatever its readings.
THEOREM GapIsBounded ==
    ASSUME Northbound \/ \A x \in Readings : IsScalar(x)
    PROVE  Spec => []GapBounded
  <1>1. GateInv => GapBounded
    BY DEF GateInv
  <1> QED
    BY <1>1, GateInvariant, PTL
=============================================================================
