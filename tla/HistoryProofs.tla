--------------------------- MODULE HistoryProofs ----------------------------
(***************************************************************************)
(* From a reading to a chart, for every set of fields and readings, every  *)
(* heartbeat, deadband, bucket and policy window, any number of lost rows  *)
(* and restarts, and a database that is away for any length of time.       *)
(***************************************************************************)
EXTENDS History, TLAPS

\* What has been proved of the change gate, for clocks that agree.
Safe == INSTANCE ChangeGateProofs WITH table <- passed, skew <- 0, MaxSkew <- 0

LEMMA SafeGate == Safe!GateAssumption
  BY HistoryAssumption DEF Safe!GateAssumption, Safe!Kinds, Gate!Kinds

LEMMA SameGate ==
    /\ Gate!Init <=> Safe!Init
    /\ Gate!Tick <=> Safe!Tick
    /\ Gate!Restart <=> Safe!Restart
    /\ \A f, x : Gate!Report(f, x) <=> Safe!Report(f, x)
  BY DEF Gate!Init, Safe!Init, Gate!NoRow, Safe!NoRow, Gate!Tick, Safe!Tick, Gate!Restart,
         Safe!Restart, Gate!Report, Safe!Report, Gate!Remember, Safe!Remember,
         Gate!ChangedEnough, Safe!ChangedEnough, Gate!Remembered, Safe!Remembered, Gate!Key,
         Safe!Key, Gate!HeartbeatDue, Safe!HeartbeatDue, Gate!Differs, Safe!Differs,
         Gate!IsNumber, Safe!IsNumber, Gate!IsScalar, Safe!IsScalar, Gate!Put, Safe!Put,
         Gate!Insert, Safe!Insert

\* The gate of the whole path is the gate that was proved safe.
LEMMA GateKeeps ==
    ASSUME Northbound \/ \A x \in Readings : Gate!IsScalar(x), Safe!GateInv, [Next]_vars
    PROVE  Safe!GateInv'
  <1>0. Northbound \/ \A x \in Readings : Safe!IsScalar(x)
    BY DEF Gate!IsScalar, Safe!IsScalar
  <1>1. [Safe!Next]_(Safe!vars)
    <2>1. CASE \E f \in Fields, x \in Readings : Report(f, x) \/ ReportRaises(f, x)
      BY <2>1, SameGate DEF Report, ReportRaises, Poll, Safe!Next
    <2>2. CASE Restart
      BY <2>2, SameGate DEF Restart, Forgotten, Safe!Next
    <2>3. CASE Tick
      BY <2>3, SameGate DEF Tick, Safe!Next
    <2>4. CASE Flush \/ UNCHANGED vars
      BY <2>4 DEF Flush, vars, Safe!vars
    <2> QED
      BY <2>1, <2>2, <2>3, <2>4 DEF Next
  <1> QED
    BY <1>0, <1>1, SafeGate, Safe!GateStep

LEMMA GateStarts == Init => Safe!GateInv
  BY SameGate, SafeGate, Safe!GateInit DEF Init

-----------------------------------------------------------------------------
(* The rows between the gate and the table                                 *)

Rows == buffer \cup samples

IsRowOf(r, f, p) == r.f = f /\ r.val = p.val /\ r.ts = p.ts

\* Times are numbers; a field that was not polled at this instant has no row of it.
ClockInv ==
    /\ now \in Nat /\ diedAt \in Int
    /\ gap \in [Fields -> Int] /\ raisedAt \in [Fields -> Int]
    /\ DOMAIN passed = Fields
    /\ \A f \in Fields : passed[f] # NoRow =>
          passed[f].ts \in Int /\ passed[f].ts <= now /\ (f \notin reported => passed[f].ts < now)

\* What the gate remembers is the newest row behind it, or that row was lost.
HeldInv ==
    /\ \A f \in DOMAIN lastStored \cap Fields :
          raisedAt[f] = passed[f].ts \/ \E r \in Rows : IsRowOf(r, f, passed[f])
    /\ \A r \in Rows :
          /\ r.f \in Fields /\ r.ts \in Int
          /\ passed[r.f] # NoRow /\ r.ts <= passed[r.f].ts

\* A reading passes the gate as a row of this instant, or leaves no trace in it.
LEMMA PollCases ==
    ASSUME ClockInv, NEW f \in Fields, NEW x \in Readings, Poll(f, x)
    PROVE  /\ UNCHANGED now /\ reported' = reported \cup {f} /\ f \notin reported
           /\ DOMAIN lastStored' \subseteq DOMAIN lastStored \cup {f}
           /\ \A g \in Fields \ {f} : passed'[g] = passed[g]
           /\ \/ /\ passed' = [passed EXCEPT ![f] = [val |-> x, ts |-> now, at |-> now]]
                 /\ passed'[f] # passed[f] /\ passed'[f] # NoRow
                 /\ passed'[f].ts = now /\ passed'[f].val = x
              \/ /\ passed' = passed /\ lastStored' = lastStored
                 /\ Gate!IsScalar(x) => ~Safe!ChangedEnough(f, x, now + 0)
  <1> DEFINE row == [val |-> x, ts |-> now + 0, at |-> now]
  <1>1. Safe!Report(f, x) /\ reported' = reported \cup {f} /\ f \notin reported
    BY SameGate DEF Poll
  <1>2. UNCHANGED now /\ now + 0 = now
    BY <1>1 DEF Safe!Report, ClockInv
  <1>3. DOMAIN lastStored' \subseteq DOMAIN lastStored \cup {f}
    BY <1>1 DEF Safe!Report, Safe!Remember, Safe!Put, Safe!Key
  <1>4. \/ passed' = [passed EXCEPT ![f] = row]
        \/ /\ passed' = passed /\ lastStored' = lastStored
           /\ Gate!IsScalar(x) => ~Safe!ChangedEnough(f, x, now + 0)
    BY <1>1 DEF Safe!Report, Safe!Remember, Safe!Insert, Safe!IsScalar, Gate!IsScalar
  <1>5. CASE passed' = [passed EXCEPT ![f] = row]
    <2>1. passed'[f] = row /\ \A g \in Fields \ {f} : passed'[g] = passed[g]
      BY <1>5 DEF ClockInv
    <2>2. row # NoRow /\ row.ts = now /\ row.val = x /\ row = [val |-> x, ts |-> now, at |-> now]
      BY <1>2 DEF NoRow, Gate!NoRow
    <2>3. passed[f] # row
      BY <1>1, <2>2 DEF ClockInv
    <2> QED
      BY <1>1, <1>2, <1>3, <1>5, <2>1, <2>2, <2>3
  <1>6. CASE passed' = passed
    BY <1>1, <1>2, <1>3, <1>4, <1>5, <1>6
  <1> QED
    BY <1>4, <1>5, <1>6

LEMMA RowsInit == Init => ClockInv /\ HeldInv
  BY HistoryAssumption DEF Init, Gate!Init, ClockInv, HeldInv, Rows, Gate!NoRow, NoRow

\* The clock, for the steps that move it and for those that poll.
LEMMA ClockStep == ClockInv /\ [Next]_vars => ClockInv'
  <1> SUFFICES ASSUME ClockInv, [Next]_vars PROVE ClockInv'
    OBVIOUS
  <1> USE DEF NoRow, Gate!NoRow
  <1>1. ASSUME NEW f \in Fields, NEW x \in Readings, Report(f, x) \/ ReportRaises(f, x)
        PROVE  ClockInv'
    <2>1. Poll(f, x) /\ UNCHANGED <<gap, diedAt>> /\ raisedAt' \in [Fields -> Int]
      BY <1>1 DEF Report, ReportRaises, ClockInv
    <2>2. DOMAIN passed' = Fields
      BY <2>1, PollCases DEF ClockInv
    <2>3. ASSUME NEW g \in Fields, passed'[g] # NoRow
          PROVE  passed'[g].ts \in Int /\ passed'[g].ts <= now
                 /\ (g \notin reported' => passed'[g].ts < now)
      <3>1. CASE passed'[g] = passed[g]
        BY <2>1, <2>3, <3>1, PollCases DEF ClockInv
      <3>2. CASE passed'[g] # passed[g]
        BY <2>1, <3>2, PollCases DEF ClockInv
      <3> QED
        BY <3>1, <3>2
    <2> QED
      BY <2>1, <2>2, <2>3, PollCases DEF ClockInv
  <1>2. CASE Tick
    <2>1. now' = now + 1 /\ UNCHANGED <<passed, diedAt, raisedAt>> /\ reported' = {}
          /\ gap' \in [Fields -> Int]
      BY <1>2 DEF Tick, Gate!Tick, ClockInv
    <2> QED
      BY <2>1 DEF ClockInv
  <1>3. CASE Restart
    BY <1>3 DEF Restart, Forgotten, Gate!Restart, ClockInv
  <1>4. CASE Flush \/ UNCHANGED vars
    BY <1>4 DEF Flush, vars, ClockInv
  <1> QED
    BY <1>1, <1>2, <1>3, <1>4 DEF Next

\* A flush changes nothing about which rows there are.
LEMMA FlushKeepsRows ==
    ASSUME Flush, NEW f, NEW v, NEW t
    PROVE  (\E r \in Rows : r.f = f /\ r.val = v /\ r.ts = t)
             <=> (\E r \in Rows' : r.f = f /\ r.val = v /\ r.ts = t)
  <1> DEFINE Stored(r) == [f |-> r.f, val |-> r.val, ts |-> r.ts, stored |-> now]
  <1>1. Rows' = samples \cup {Stored(r) : r \in buffer}
    BY DEF Flush, Rows
  <1>2. \A r : Stored(r).f = r.f /\ Stored(r).val = r.val /\ Stored(r).ts = r.ts
    OBVIOUS
  <1> HIDE DEF Stored
  <1>3. \A r \in buffer : Stored(r) \in Rows'
    BY <1>1
  <1>4. \A q \in Rows' : q \in samples \/ \E r \in buffer : q = Stored(r)
    BY <1>1
  <1>5. samples \subseteq Rows'
    BY <1>1
  <1> QED
    BY <1>2, <1>3, <1>4, <1>5 DEF Rows

LEMMA PollHeld ==
    ASSUME ClockInv, HeldInv, NEW f \in Fields, NEW x \in Readings,
           Report(f, x) \/ ReportRaises(f, x)
    PROVE  HeldInv'
  <1> DEFINE new == RowOf(f, passed'[f])
  <1>1. Poll(f, x) /\ UNCHANGED samples
        /\ (UNCHANGED raisedAt \/ raisedAt' = [raisedAt EXCEPT ![f] = now])
    BY DEF Report, ReportRaises
  <1>2. /\ Rows \subseteq Rows' /\ Rows' \subseteq Rows \cup {new}
        /\ passed'[f] # passed[f] => new \in Rows' \/ raisedAt'[f] = now
        /\ passed'[f] = passed[f] => Rows' = Rows /\ UNCHANGED raisedAt
    <2>1. CASE Report(f, x)
      BY <2>1 DEF Report, Rows
    <2>2. CASE ReportRaises(f, x)
      BY <2>2 DEF ReportRaises, Rows, ClockInv
    <2> QED
      BY <2>1, <2>2
  <1>3. new.f = f /\ new.val = passed'[f].val /\ new.ts = passed'[f].ts
    BY DEF RowOf
  <1>4. CASE passed' = passed /\ lastStored' = lastStored
    BY <1>2, <1>4 DEF HeldInv
  <1>5. CASE passed'[f] # passed[f]
    <2>1. /\ passed'[f] # NoRow /\ passed'[f].ts = now /\ now \in Int
          /\ \A g \in Fields \ {f} : passed'[g] = passed[g] /\ raisedAt'[g] = raisedAt[g]
          /\ DOMAIN lastStored' \subseteq DOMAIN lastStored \cup {f}
      BY <1>1, <1>5, PollCases DEF ClockInv
    <2>2. ASSUME NEW r \in Rows'
          PROVE  r.f \in Fields /\ r.ts \in Int /\ passed'[r.f] # NoRow /\ r.ts <= passed'[r.f].ts
      <3>1. CASE r = new
        BY <1>3, <2>1, <3>1
      <3>2. CASE r \in Rows /\ r.f # f
        BY <2>1, <3>2 DEF HeldInv
      <3>3. CASE r \in Rows /\ r.f = f
        <4>1. r.ts \in Int /\ passed[f] # NoRow /\ r.ts <= passed[f].ts
          BY <3>3 DEF HeldInv
        <4>2. passed[f].ts \in Int /\ passed[f].ts <= now
          BY <4>1 DEF ClockInv
        <4> QED
          BY <2>1, <3>3, <4>1, <4>2
      <3> QED
        BY <1>2, <2>2, <3>1, <3>2, <3>3
    <2>3. ASSUME NEW g \in DOMAIN lastStored' \cap Fields
          PROVE  raisedAt'[g] = passed'[g].ts \/ \E r \in Rows' : IsRowOf(r, g, passed'[g])
      <3>1. CASE g = f
        BY <1>2, <1>3, <1>5, <2>1, <3>1 DEF IsRowOf
      <3>2. CASE g # f
        BY <1>2, <2>1, <2>3, <3>2 DEF HeldInv
      <3> QED
        BY <3>1, <3>2
    <2> QED
      BY <2>2, <2>3 DEF HeldInv
  <1> QED
    BY <1>1, <1>4, <1>5, PollCases

LEMMA HeldStep == ClockInv /\ HeldInv /\ [Next]_vars => HeldInv'
  <1> SUFFICES ASSUME ClockInv, HeldInv, [Next]_vars PROVE HeldInv'
    OBVIOUS
  <1>1. CASE Flush
    <2>1. UNCHANGED <<lastStored, passed, raisedAt>>
      BY <1>1 DEF Flush
    <2>2. ASSUME NEW f \in DOMAIN lastStored \cap Fields
          PROVE  raisedAt[f] = passed[f].ts \/ \E r \in Rows' : IsRowOf(r, f, passed[f])
      BY <1>1, FlushKeepsRows DEF HeldInv, IsRowOf
    <2>3. ASSUME NEW r \in Rows'
          PROVE  \E q \in Rows : q.f = r.f /\ q.ts = r.ts
      <3>1. \E q \in Rows' : q.f = r.f /\ q.val = r.val /\ q.ts = r.ts
        BY <2>3
      <3>2. \E q \in Rows : q.f = r.f /\ q.val = r.val /\ q.ts = r.ts
        BY <1>1, <3>1, FlushKeepsRows
      <3> QED
        BY <3>2
    <2> QED
      BY <2>1, <2>2, <2>3 DEF HeldInv
  <1>2. CASE Restart
    <2>1. DOMAIN lastStored' = {} /\ UNCHANGED <<samples, passed>> /\ Rows' \subseteq Rows
      BY <1>2 DEF Restart, Forgotten, Gate!Restart, Rows
    <2> QED
      BY <2>1 DEF HeldInv
  <1>3. CASE Tick \/ UNCHANGED vars
    <2>1. UNCHANGED <<lastStored, passed, raisedAt, buffer, samples>>
      BY <1>3 DEF Tick, Gate!Tick, vars
    <2> QED
      BY <2>1 DEF HeldInv, Rows
  <1> QED
    BY <1>1, <1>2, <1>3, PollHeld DEF Next

-----------------------------------------------------------------------------
(* A lost row                                                              *)

PathInv == Safe!GateInv /\ ClockInv /\ HeldInv

LEMMA PathInvariant ==
    ASSUME Northbound \/ \A x \in Readings : Gate!IsScalar(x)
    PROVE  Spec => []PathInv
  <1>1. Init => PathInv
    BY GateStarts, RowsInit DEF PathInv
  <1>2. PathInv /\ [Next]_vars => PathInv'
    BY GateKeeps, ClockStep, HeldStep DEF PathInv
  <1> QED
    BY <1>1, <1>2, PTL DEF Spec

\* Whatever was lost behind the gate, and however long the database was away: the
\* newest row of a field stands for its newest scalar reading, until the heartbeat
\* after a statement that raised, or until the next reading after a restart. As in
\* ChangeGate, booleans must be further than the deadband from other readings.
THEOREM LossesHeal ==
    ASSUME Northbound \/ \A x \in Readings : Gate!IsScalar(x), Gate!BoolsApart
    PROVE  Spec => []LossIsRepaired
  <1>0. Safe!BoolsApart
    BY DEF Safe!BoolsApart, Gate!BoolsApart, Safe!Differs, Gate!Differs, Safe!IsNumber,
           Gate!IsNumber
  <1>1. PathInv => LossIsRepaired
    <2> SUFFICES ASSUME PathInv, NEW f \in Fields, latest[f] # NoRow,
                        Gate!IsScalar(latest[f].val), Gate!Remembered(f)
                 PROVE  \/ \E r \in Rows :
                              /\ r.f = f /\ Gate!StandsFor(r.val, latest[f].val)
                              /\ \A q \in Rows : q.f = f => q.ts <= r.ts
                        \/ latest[f].at < raisedAt[f] + Heartbeat
      BY DEF LossIsRepaired, Rows
    <2>1. /\ passed[f] # NoRow /\ Gate!StandsFor(passed[f].val, latest[f].val)
          /\ passed[f].at = latest[f].at \/ latest[f].at - passed[f].at < Heartbeat + 0
      BY <1>0 DEF PathInv, Safe!GateInv, Safe!HeldValueIsCurrent, Safe!GapBounded, Gate!NoRow, NoRow,
             Safe!NoRow, Gate!IsScalar, Safe!IsScalar, Gate!StandsFor, Safe!StandsFor
    <2>2. /\ passed[f].at \in Int /\ passed[f].ts = passed[f].at /\ latest[f].at \in Int
          /\ Heartbeat \in Nat \ {0}
      <3>1. passed[f] \in Safe!Row /\ latest[f] \in Safe!Row
        BY <2>1 DEF PathInv, Safe!GateInv, Safe!TypeOK, NoRow, Gate!NoRow, Safe!NoRow
      <3>2. passed[f].at \in Int /\ passed[f].ts \in Int /\ latest[f].at \in Int
        BY <3>1 DEF Safe!Row
      <3>3. passed[f].at <= passed[f].ts /\ passed[f].ts <= passed[f].at + 0
        BY <2>1 DEF PathInv, Safe!GateInv, Safe!StampsBounded, NoRow, Gate!NoRow, Safe!NoRow
      <3> QED
        BY <3>2, <3>3, HistoryAssumption
    <2>3. f \in DOMAIN lastStored
      BY DEF Gate!Remembered, Gate!Key
    <2>4. CASE raisedAt[f] = passed[f].ts
      BY <2>1, <2>2, <2>4
    <2>5. ASSUME NEW r \in Rows, IsRowOf(r, f, passed[f])
          PROVE  /\ r.f = f /\ Gate!StandsFor(r.val, latest[f].val)
                 /\ \A q \in Rows : q.f = f => q.ts <= r.ts
      BY <2>1, <2>5 DEF PathInv, HeldInv, IsRowOf
    <2> QED
      BY <2>3, <2>4, <2>5 DEF PathInv, HeldInv
  <1> QED
    BY <1>1, PathInvariant, PTL

-----------------------------------------------------------------------------
(* A chart as long as the heartbeat                                        *)

\* A window that has passed, of a field that was polled throughout and of which no
\* row was lost since its start.
Covered(f, start, end) ==
    /\ end < now \/ (end = now /\ f \in reported)
    /\ gap[f] < start /\ raisedAt[f] < start /\ diedAt < start

RowIn(f, start, end) == \E r \in Rows : r.f = f /\ r.ts \in start..end

WindowsInv ==
    \A f \in Fields : \A start \in 0..now :
        Covered(f, start, start + Heartbeat - 1) => RowIn(f, start, start + Heartbeat - 1)

\* A window of the present instant begins less than a heartbeat ago, so a reading
\* that leaves no row has found a younger one.
LEMMA ReportCovers ==
    ASSUME PathInv, NEW f \in Fields, NEW x \in Readings, Gate!IsScalar(x), Report(f, x),
           NEW start \in 0..now, start + Heartbeat - 1 = now, raisedAt[f] < start
    PROVE  RowIn(f, start, start + Heartbeat - 1)'
  <1> DEFINE end == start + Heartbeat - 1
  <1>1. /\ Poll(f, x) /\ ClockInv /\ UNCHANGED samples
        /\ start \in Int /\ now \in Int /\ start <= now /\ Heartbeat \in Nat \ {0}
    BY HistoryAssumption DEF Report, PathInv, ClockInv
  <1>2. CASE passed'[f] # passed[f]
    <2>1. RowOf(f, passed'[f]) \in Rows'
      BY <1>2 DEF Report, Rows
    <2>2. passed'[f].ts \in start..end
      BY <1>1, <1>2, PollCases
    <2> QED
      BY <2>1, <2>2 DEF RowIn, RowOf
  <1>3. CASE passed' = passed /\ ~Safe!ChangedEnough(f, x, now + 0)
    <2>1. passed[f] # Safe!NoRow /\ passed[f] \in Safe!Row /\ now - passed[f].at < Heartbeat + 0
      BY <1>3, SafeGate, Safe!UnstoredIsClose DEF PathInv
    <2>2. f \in DOMAIN lastStored
      BY <1>3 DEF Safe!ChangedEnough, Safe!Remembered, Safe!Key
    <2>3. passed[f].at \in Int /\ passed[f].ts \in Int /\ passed[f].at <= passed[f].ts
      BY <2>1 DEF Safe!Row, PathInv, Safe!GateInv, Safe!StampsBounded
    <2>4. passed[f].ts <= now
      BY <2>1 DEF PathInv, ClockInv, NoRow, Gate!NoRow, Safe!NoRow
    <2>5. passed[f].ts \in start..end /\ passed[f].ts >= start
      BY <1>1, <2>1, <2>3, <2>4
    <2>6. raisedAt[f] \in Int
      BY <1>1 DEF ClockInv
    <2>7. PICK r \in Rows : IsRowOf(r, f, passed[f])
      BY <2>2, <2>3, <2>5, <2>6, <1>1 DEF PathInv, HeldInv
    <2>8. r \in Rows'
      BY <2>7 DEF Report, Rows
    <2> QED
      BY <2>5, <2>7, <2>8 DEF RowIn, IsRowOf
  <1> QED
    BY <1>1, <1>2, <1>3, PollCases

LEMMA WindowsInit == Init => WindowsInv
  <1> SUFFICES ASSUME Init, NEW f \in Fields, NEW start \in 0..now,
                      Covered(f, start, start + Heartbeat - 1)
               PROVE  FALSE
    BY DEF WindowsInv
  <1>1. now = 0 /\ reported = {} /\ Heartbeat \in Nat \ {0}
    BY HistoryAssumption DEF Init, Gate!Init
  <1> QED
    BY <1>1 DEF Covered

\* A step that only adds rows and neither moves the clock nor polls.
LEMMA SameWindows ==
    ASSUME WindowsInv, UNCHANGED <<now, reported, gap, raisedAt, diedAt>>,
           \A r \in Rows : \E q \in Rows' : q.f = r.f /\ q.ts = r.ts
    PROVE  WindowsInv'
  BY DEF WindowsInv, Covered, RowIn

LEMMA WindowsStep ==
    ASSUME \A x \in Readings : Gate!IsScalar(x), PathInv, WindowsInv, [Next]_vars
    PROVE  WindowsInv'
  <1>0. /\ now \in Nat /\ Heartbeat \in Nat \ {0} /\ diedAt \in Int
        /\ \A f \in Fields : gap[f] \in Int /\ raisedAt[f] \in Int
    BY HistoryAssumption DEF PathInv, ClockInv
  <1>1. ASSUME NEW g \in Fields, NEW x \in Readings, Report(g, x) PROVE WindowsInv'
    <2>1. /\ UNCHANGED <<now, gap, raisedAt, diedAt>> /\ reported' = reported \cup {g}
          /\ Rows \subseteq Rows'
      BY <1>1, PollCases DEF Report, Rows, PathInv
    <2> SUFFICES ASSUME NEW f \in Fields, NEW start \in 0..now,
                        Covered(f, start, start + Heartbeat - 1)'
                 PROVE  RowIn(f, start, start + Heartbeat - 1)'
      BY <2>1 DEF WindowsInv
    <2>2. CASE Covered(f, start, start + Heartbeat - 1)
      BY <2>1, <2>2 DEF WindowsInv, RowIn
    <2>3. CASE ~Covered(f, start, start + Heartbeat - 1)
      <3>1. f = g /\ start + Heartbeat - 1 = now /\ raisedAt[f] < start
        BY <2>1, <2>3 DEF Covered
      <3> QED
        BY <1>1, <3>1, ReportCovers
    <2> QED
      BY <2>2, <2>3
  <1>2. ASSUME NEW g \in Fields, NEW x \in Readings, ReportRaises(g, x) PROVE WindowsInv'
    <2>1. /\ UNCHANGED <<now, gap, diedAt, buffer, samples>> /\ reported' = reported \cup {g}
          /\ raisedAt' = [raisedAt EXCEPT ![g] = now]
      BY <1>2, PollCases DEF ReportRaises, PathInv
    <2>2. Rows' = Rows
      BY <2>1 DEF Rows
    <2> SUFFICES ASSUME NEW f \in Fields, NEW start \in 0..now,
                        Covered(f, start, start + Heartbeat - 1)'
                 PROVE  RowIn(f, start, start + Heartbeat - 1)'
      BY <2>1 DEF WindowsInv
    <2>3. f # g
      BY <1>0, <2>1 DEF Covered, PathInv, ClockInv
    <2>4. Covered(f, start, start + Heartbeat - 1)
      BY <2>1, <2>3 DEF Covered, PathInv, ClockInv
    <2> QED
      BY <2>2, <2>4 DEF WindowsInv, RowIn
  <1>3. CASE Flush
    <2>1. \A r \in Rows : \E q \in Rows' : q.f = r.f /\ q.ts = r.ts
      <3> SUFFICES ASSUME NEW r \in Rows PROVE \E q \in Rows' : q.f = r.f /\ q.ts = r.ts
        OBVIOUS
      <3>1. \E q \in Rows : q.f = r.f /\ q.val = r.val /\ q.ts = r.ts
        OBVIOUS
      <3>2. \E q \in Rows' : q.f = r.f /\ q.val = r.val /\ q.ts = r.ts
        BY <1>3, <3>1, FlushKeepsRows
      <3> QED
        BY <3>2
    <2> QED
      BY <1>3, <2>1, SameWindows DEF Flush
  <1>4. CASE Restart
    <2>1. diedAt' = now /\ now' = now
      BY <1>4 DEF Restart
    <2> QED
      BY <1>0, <2>1 DEF WindowsInv, Covered
  <1>5. CASE Tick
    <2>1. /\ now' = now + 1 /\ reported' = {} /\ UNCHANGED <<raisedAt, diedAt, buffer, samples>>
          /\ gap' = [f \in Fields |-> IF f \in reported THEN gap[f] ELSE now]
      BY <1>5 DEF Tick, Gate!Tick
    <2>2. Rows' = Rows
      BY <2>1 DEF Rows
    <2> SUFFICES ASSUME NEW f \in Fields, NEW start \in 0..now',
                        Covered(f, start, start + Heartbeat - 1)'
                 PROVE  RowIn(f, start, start + Heartbeat - 1)'
      BY DEF WindowsInv
    <2>3. start + Heartbeat - 1 < now + 1 /\ start \in 0..now
      BY <1>0, <2>1 DEF Covered
    <2>4. gap[f] < start /\ (f \in reported \/ now < start)
      BY <1>0, <2>1, <2>3 DEF Covered
    <2>5. Covered(f, start, start + Heartbeat - 1)
      BY <1>0, <2>1, <2>3, <2>4 DEF Covered
    <2> QED
      BY <2>2, <2>3, <2>5 DEF WindowsInv, RowIn
  <1>6. CASE UNCHANGED vars
    <2>1. Rows' = Rows
      BY <1>6 DEF vars, Rows
    <2> QED
      BY <1>6, <2>1, SameWindows DEF vars
  <1> QED
    BY <1>1, <1>2, <1>3, <1>4, <1>5, <1>6 DEF Next

\* A constant field is hardly ever stored, and yet no chart as long as the heartbeat is
\* empty: each such window of a field that was polled throughout has a row, however
\* often the process was restarted before it and however long rows wait for the table.
\* Structural readings have no rows of the NorthBound worker; a window beyond six hours
\* would be read from the aggregate, which lags behind.
THEOREM ChartsAreNeverEmpty ==
    ASSUME \A x \in Readings : Gate!IsScalar(x), Heartbeat <= RawMaxSpan
    PROVE  Spec => []ChartHasPoint
  <1>1. Init => PathInv /\ WindowsInv
    BY GateStarts, RowsInit, WindowsInit DEF PathInv
  <1>2. PathInv /\ WindowsInv /\ [Next]_vars => (PathInv /\ WindowsInv)'
    BY GateKeeps, ClockStep, HeldStep, WindowsStep DEF PathInv
  <1>3. PathInv /\ WindowsInv => ChartHasPoint
    <2> SUFFICES ASSUME PathInv, WindowsInv, NEW f \in Fields, NEW start \in 0..now,
                        Covered(f, start, start + Heartbeat - 1)
                 PROVE  \/ Points(f, start, start + Heartbeat - 1, "auto") # {}
                        \/ \E r \in buffer : r.f = f /\ r.ts \in start..(start + Heartbeat - 1)
      BY DEF ChartHasPoint, Covered
    <2> DEFINE end == start + Heartbeat - 1
    <2>1. PICK r \in Rows : r.f = f /\ r.ts \in start..end
      BY DEF WindowsInv, RowIn
    <2>2. ~UseAgg("auto", end - start)
      <3>1. Heartbeat \in Nat /\ Heartbeat <= RawMaxSpan /\ RawMaxSpan \in Nat /\ start \in Int
        BY HistoryAssumption DEF PathInv, ClockInv
      <3>2. end - start = Heartbeat - 1
        BY <3>1
      <3> QED
        BY <3>1, <3>2 DEF UseAgg
    <2>3. CASE r \in samples
      <3>1. r \in RawRows(f, start, end)
        BY <2>1, <2>3 DEF RawRows
      <3> QED
        BY <2>2, <3>1 DEF Points
    <2>4. CASE r \in buffer
      BY <2>1, <2>4
    <2> QED
      BY <2>3, <2>4 DEF Rows
  <1> QED
    BY <1>1, <1>2, <1>3, PTL DEF Spec

-----------------------------------------------------------------------------
(* The aggregate                                                           *)

\* A time lies in its bucket.
LEMMA InBucket ==
    ASSUME NEW t \in Int
    PROVE  /\ BucketOf(t) \in Int
           /\ BucketOf(t) <= t /\ t <= BucketOf(t) + Bucket - 1
  BY HistoryAssumption DEF BucketOf

\* The aggregate holds rows of the table, and every numeric row that was stored in
\* time and whose bucket has been refreshed since.
AggInv ==
    /\ now \in Nat /\ DOMAIN passed = Fields
    /\ \A r \in Rows : r.ts \in Int
    /\ \A r \in samples : r.stored \in Int /\ r.stored <= now
    /\ \A r \in agg : r \in samples /\ IsNumeric(r)
    /\ \A r \in samples :
          /\ IsNumeric(r) /\ OnTime(r) /\ r.stored < now
          /\ BucketOf(r.ts) + Bucket + EndOffset <= now
          => r \in agg

LEMMA AggInit == Init => AggInv
  BY DEF Init, Gate!Init, AggInv, Rows

\* When the window of the policy has passed a bucket, it has covered it before.
LEMMA TickAgg ==
    ASSUME AggInv, Tick
    PROVE  AggInv'
  <1>1. /\ now' = now + 1 /\ now \in Nat /\ UNCHANGED <<passed, buffer, samples>>
        /\ agg' = {r \in agg : ~Refreshed(BucketOf(r.ts), now + 1)} \cup
                  {r \in samples : IsNumeric(r) /\ Refreshed(BucketOf(r.ts), now + 1)}
    BY DEF Tick, Gate!Tick, AggInv
  <1>2. ASSUME NEW r \in samples, IsNumeric(r), OnTime(r), r.stored < now + 1,
               BucketOf(r.ts) + Bucket + EndOffset <= now + 1
        PROVE  r \in agg'
    <2>1. CASE Refreshed(BucketOf(r.ts), now + 1)
      BY <1>1, <1>2, <2>1
    <2>2. CASE ~Refreshed(BucketOf(r.ts), now + 1)
      <3>0. /\ BucketOf(r.ts) \in Int /\ r.stored \in Int
            /\ Bucket \in Nat /\ StartOffset \in Nat /\ EndOffset \in Nat
            /\ StartOffset >= Bucket + EndOffset
        BY InBucket, HistoryAssumption DEF AggInv, Rows
      <3>1. BucketOf(r.ts) < now + 1 - StartOffset
        BY <1>1, <1>2, <2>2, <3>0 DEF Refreshed
      <3>2. r.stored < now /\ BucketOf(r.ts) + Bucket + EndOffset <= now
        BY <1>1, <1>2, <3>0, <3>1 DEF OnTime
      <3>3. r \in agg
        BY <1>2, <3>2 DEF AggInv
      <3> QED
        BY <1>1, <2>2, <3>3
    <2> QED
      BY <2>1, <2>2
  <1>3. \A r \in agg' : r \in samples /\ IsNumeric(r)
    BY <1>1 DEF AggInv
  <1>4. \A r \in samples : r.stored \in Int /\ r.stored <= now + 1
    BY <1>1 DEF AggInv
  <1>5. /\ now' \in Nat /\ DOMAIN passed' = Fields
        /\ \A r \in Rows' : r.ts \in Int
    BY <1>1 DEF AggInv, Rows
  <1> QED
    BY <1>1, <1>2, <1>3, <1>4, <1>5 DEF AggInv, OnTime

LEMMA AggStep == ClockInv /\ HeldInv /\ AggInv /\ [Next]_vars => AggInv'
  <1> SUFFICES ASSUME ClockInv, HeldInv, AggInv, [Next]_vars PROVE AggInv'
    OBVIOUS
  <1>1. HeldInv' /\ ClockInv'
    BY ClockStep, HeldStep
  <1>2. now' \in Nat /\ DOMAIN passed' = Fields /\ \A r \in Rows' : r.ts \in Int
    BY <1>1 DEF HeldInv, ClockInv
  <1>3. ASSUME UNCHANGED <<now, samples, agg>> PROVE AggInv'
    BY <1>2, <1>3 DEF AggInv, OnTime
  <1>4. CASE Flush
    <2>1. /\ UNCHANGED <<now, agg>> /\ samples \subseteq samples'
          /\ \A r \in samples' : r \in samples \/ r.stored = now
      BY <1>4 DEF Flush
    <2>2. \A r \in samples' : r.stored \in Int /\ r.stored <= now
      BY <2>1 DEF AggInv
    <2>3. \A r \in samples' : r.stored < now => r \in samples
      BY <2>1 DEF AggInv
    <2> QED
      BY <1>2, <2>1, <2>2, <2>3 DEF AggInv, OnTime
  <1>5. ASSUME NEW f \in Fields, NEW x \in Readings, Report(f, x) \/ ReportRaises(f, x)
        PROVE  AggInv'
    BY <1>3, <1>5, PollCases DEF Report, ReportRaises
  <1>6. CASE Restart \/ UNCHANGED vars
    BY <1>3, <1>6 DEF Restart, vars
  <1> QED
    BY <1>4, <1>5, <1>6, TickAgg DEF Next

\* Beyond six hours a chart shows the same minutes as below: every bucket with a
\* numeric row, and no other, provided no row was stored behind the policy's window.
THEOREM AggregateIsComplete == Spec => []ChartsAgree
  <1>1. Init => ClockInv /\ HeldInv /\ AggInv
    BY RowsInit, AggInit
  <1>2. ClockInv /\ HeldInv /\ AggInv /\ [Next]_vars => (ClockInv /\ HeldInv /\ AggInv)'
    BY ClockStep, HeldStep, AggStep
  <1>3. AggInv => ChartsAgree
    <2> SUFFICES ASSUME AggInv, NEW f \in Fields, NEW start \in 0..now, NEW end \in start..now
                 PROVE  LET raw == {r \in RawRows(f, start, end + Bucket - 1) :
                                       IsNumeric(r) /\ BucketOf(r.ts) \in start..end} IN
                        (end + Bucket + EndOffset <= now
                           /\ \A r \in raw : OnTime(r) /\ r.stored < now)
                        => Points(f, start, end, "1m") = {BucketOf(r.ts) : r \in raw}
      BY DEF ChartsAgree
    <2> DEFINE raw == {r \in RawRows(f, start, end + Bucket - 1) :
                          IsNumeric(r) /\ BucketOf(r.ts) \in start..end}
    <2> SUFFICES ASSUME end + Bucket + EndOffset <= now,
                        \A r \in raw : OnTime(r) /\ r.stored < now
                 PROVE  AggBuckets(f, start, end) = {BucketOf(r.ts) : r \in raw}
      BY DEF Points, UseAgg
    <2>0. /\ start \in Int /\ end \in Int /\ now \in Nat /\ Bucket \in Nat /\ EndOffset \in Nat
      BY HistoryAssumption DEF AggInv
    <2>1. ASSUME NEW r \in agg, r.f = f, BucketOf(r.ts) \in start..end PROVE r \in raw
      <3>1. r \in samples /\ IsNumeric(r) /\ r.ts \in Int
        BY <2>1 DEF AggInv, Rows
      <3>2. r.ts \in start..(end + Bucket - 1)
        BY <2>0, <2>1, <3>1, InBucket
      <3> QED
        BY <2>1, <3>1, <3>2 DEF RawRows
    <2>2. ASSUME NEW r \in raw PROVE r \in agg /\ r.f = f /\ BucketOf(r.ts) \in start..end
      <3>1. r \in samples /\ r.f = f /\ IsNumeric(r) /\ BucketOf(r.ts) \in start..end
        BY <2>2 DEF RawRows
      <3>2. BucketOf(r.ts) + Bucket + EndOffset <= now
        BY <2>0, <3>1
      <3> QED
        BY <2>2, <3>1, <3>2 DEF AggInv
    <2> QED
      BY <2>1, <2>2 DEF AggBuckets
  <1> QED
    BY <1>1, <1>2, <1>3, PTL DEF Spec
=============================================================================
