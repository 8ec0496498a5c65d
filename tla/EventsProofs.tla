---------------------------- MODULE EventsProofs ----------------------------
(***************************************************************************)
(* What holds of Events for any number of concurrent syncs, any log and    *)
(* any alarms: an answered sync has stored what it fetched, and the counts *)
(* of the replies add up to the rows.                                      *)
(***************************************************************************)
EXTENDS Events, TLAPS, SequenceTheorems, FiniteSetTheorems

-----------------------------------------------------------------------------
(* Keys and rows.                                                          *)

LEMMA KeyFacts ==
    ASSUME NEW e, NEW f
    PROVE  /\ EventRow(e).key = DedupeKey(e) /\ EventRow(e).of = e
           /\ DedupeKey(e)[1] = "log"
           /\ DedupeKey(e) = DedupeKey(f) <=> SameEvent(e, f)
  BY DEF EventRow, DedupeKey, SameEvent

LEMMA AlarmKeyFacts ==
    ASSUME NEW a
    PROVE  AlarmRow(a).key[1] = "alarm"
  BY DEF AlarmRow, AlarmKey

IsRow(r) == r \in {EventRow(e) : e \in Entries} \cup {AlarmRow(a) : a \in Alarms}
TableOK ==
    /\ \A r \in table : IsRow(r)
    /\ \A q, r \in table : q.key = r.key => q = r

\* A row of the table with a sync's key is the row of some log entry.
LEMMA LogRows ==
    ASSUME TableOK, NEW r \in table, r.key[1] = "log"
    PROVE  \E e \in Entries : r = EventRow(e)
  BY AlarmKeyFacts DEF TableOK, IsRow

LEMMA InsertKeeps ==
    ASSUME TableOK, NEW r, IsRow(r), Insert(r)
    PROVE  TableOK' /\ table \subseteq table' /\ \E q \in table' : q.key = r.key
<1>1. CASE Conflict(r)
  BY <1>1 DEF Insert, Conflict, TableOK, IsRow
<1>2. CASE ~Conflict(r)
  BY <1>2 DEF Insert, Conflict, TableOK, IsRow
<1> QED
  BY <1>1, <1>2

-----------------------------------------------------------------------------
(* The invariant: a sync has stored what it has gone past.                 *)

LEMMA NewestIsSeq == ASSUME log \in Seq(Entries) PROVE Newest \in Seq(Entries)
<1> DEFINE from == Max({1, Len(log) - Limit + 1})
<1>1. Len(log) \in Nat /\ Limit \in Nat
  BY EventsAssumption
<1>2. \E m \in {1, Len(log) - Limit + 1} : \A n \in {1, Len(log) - Limit + 1} : m >= n
  BY <1>1
<1>3. from \in {1, Len(log) - Limit + 1} /\ from >= 1
  BY <1>1, <1>2 DEF Max
<1>4. from \in Int /\ from >= 1
  BY <1>1, <1>3
<1> HIDE DEF from
<1>5. SubSeq(log, from, Len(log)) \in Seq(Entries)
  BY <1>1, <1>4, SubSeqProperties
<1> QED
  BY <1>5 DEF Newest, from

Stored(e) == \E r \in table : r.key = DedupeKey(e)

SyncTypes ==
    /\ log \in Seq(Entries)
    /\ pc \in [Syncs -> {"idle", "inserting", "ok", "failed"}]
    /\ rows \in [Syncs -> Seq(Entries)]
    /\ next \in [Syncs -> Nat]

Progress(s) ==
    /\ pc[s] \in {"inserting", "ok"} =>
          \A j \in DOMAIN rows[s] : j < next[s] => Stored(rows[s][j])
    /\ pc[s] = "inserting" => next[s] >= 1
    /\ pc[s] = "ok" => \A j \in DOMAIN rows[s] : j < next[s]

EventsInv == SyncTypes /\ TableOK /\ \A s \in Syncs : Progress(s)

LEMMA EventsInit == Init => EventsInv
  BY DEF Init, EventsInv, SyncTypes, TableOK, Progress

\* Rows are only added, so what is stored stays stored.
LEMMA TableGrows ==
    ASSUME EventsInv, TableOK', table \subseteq table', log' \in Seq(Entries),
           UNCHANGED <<rows, next>>, pc' \in [Syncs -> {"idle", "inserting", "ok", "failed"}],
           \A s \in Syncs : pc'[s] \in {pc[s], "failed"}
    PROVE  EventsInv'
<1>1. ASSUME NEW e, Stored(e) PROVE Stored(e)'
  BY <1>1 DEF Stored
<1>2. ASSUME NEW s \in Syncs PROVE Progress(s)'
  BY <1>1 DEF EventsInv, Progress
<1> QED
  BY <1>2 DEF EventsInv, SyncTypes

\* The rows of one sync are inserted one by one.
LEMMA UpsertKeeps ==
    ASSUME EventsInv, NEW s \in Syncs, Upsert(s)
    PROVE  EventsInv'
<1> DEFINE e == rows[s][next[s]]
<1>1. /\ next[s] \in DOMAIN rows[s] /\ next[s] \in Nat /\ e \in Entries
      /\ pc[s] = "inserting" /\ rows[s] \in Seq(Entries)
  BY DEF Upsert, EventsInv, SyncTypes, Progress
<1>2. Insert(EventRow(e)) /\ IsRow(EventRow(e))
  BY <1>1 DEF Upsert, IsRow
<1>3. TableOK' /\ table \subseteq table' /\ \E q \in table' : q.key = EventRow(e).key
  BY <1>2, InsertKeeps DEF EventsInv
<1>4. \E q \in table' : q.key = DedupeKey(e)
  BY <1>3, KeyFacts
<1>5. ASSUME NEW f, Stored(f) PROVE \E q \in table' : q.key = DedupeKey(f)
  BY <1>3, <1>5 DEF Stored
<1>6. next' = [next EXCEPT ![s] = @ + 1] /\ UNCHANGED <<log, pc, rows>>
  BY DEF Upsert
<1>7. ASSUME NEW c \in Syncs, c # s PROVE Progress(c)'
  BY <1>5, <1>6, <1>7 DEF EventsInv, SyncTypes, Progress, Stored
<1>8. Progress(s)'
  <2>1. ASSUME NEW j \in DOMAIN rows[s], j < next[s] + 1
        PROVE  \E q \in table' : q.key = DedupeKey(rows[s][j])
    <3>1. CASE j = next[s]
      BY <1>4, <3>1
    <3>2. CASE j # next[s]
      <4>1. j < next[s]
        BY <1>1, <2>1, <3>2
      <4>2. Stored(rows[s][j])
        BY <1>1, <4>1 DEF EventsInv, Progress
      <4> QED
        BY <1>5, <4>2
    <3> QED
      BY <3>1, <3>2
  <2>2. next'[s] = next[s] + 1 /\ next[s] + 1 >= 1
    BY <1>1, <1>6 DEF EventsInv, SyncTypes
  <2> QED
    BY <1>1, <1>6, <2>1, <2>2 DEF Progress, Stored
<1> QED
  BY <1>3, <1>6, <1>7, <1>8 DEF EventsInv, SyncTypes

LEMMA EventsNext == EventsInv /\ [Next]_vars => EventsInv'
<1> SUFFICES ASSUME EventsInv, [Next]_vars PROVE EventsInv'
  OBVIOUS
<1>1. ASSUME NEW e \in Entries, Log(e) PROVE EventsInv'
  <2>1. log' \in Seq(Entries)
    BY <1>1 DEF Log, EventsInv, SyncTypes
  <2>2. TableOK'
    BY <1>1 DEF Log, EventsInv, TableOK, IsRow
  <2> QED
    BY <1>1, <2>1, <2>2, TableGrows DEF Log, sync, EventsInv, SyncTypes
<1>2. ASSUME NEW s \in Syncs, Fetch(s) PROVE EventsInv'
  <2>1. Newest \in Seq(Entries)
    BY NewestIsSeq DEF EventsInv, SyncTypes
  <2>2. Progress(s)'
    BY <1>2, <2>1 DEF Fetch, EventsInv, SyncTypes, Progress
  <2>3. ASSUME NEW c \in Syncs, c # s PROVE Progress(c)'
    BY <1>2, <2>3 DEF Fetch, EventsInv, SyncTypes, Progress, Stored
  <2>4. TableOK'
    BY <1>2 DEF Fetch, EventsInv, TableOK, IsRow
  <2> QED
    BY <1>2, <2>1, <2>2, <2>3, <2>4 DEF Fetch, EventsInv, SyncTypes
<1>3. ASSUME NEW s \in Syncs, Upsert(s) PROVE EventsInv'
  BY <1>3, UpsertKeeps
<1>4. ASSUME NEW s \in Syncs, Reply(s) PROVE EventsInv'
  <2>1. \A j \in DOMAIN rows[s] : j < next[s]
    BY <1>4 DEF Reply, EventsInv, SyncTypes
  <2>2. \A c \in Syncs : Progress(c)'
    BY <1>4, <2>1 DEF Reply, EventsInv, SyncTypes, Progress, Stored
  <2>3. TableOK'
    BY <1>4 DEF Reply, EventsInv, TableOK, IsRow
  <2> QED
    BY <1>4, <2>2, <2>3 DEF Reply, EventsInv, SyncTypes
<1>5. ASSUME NEW s \in Syncs, UpsertRaises(s) PROVE EventsInv'
  <2> DEFINE e == rows[s][next[s]]
  <2>1. e \in Entries /\ IsRow(EventRow(e))
    BY <1>5 DEF UpsertRaises, EventsInv, SyncTypes, Progress, IsRow
  <2>2. TableOK' /\ table \subseteq table'
    <3>1. CASE UNCHANGED table
      BY <3>1 DEF EventsInv, TableOK, IsRow
    <3>2. CASE Insert(EventRow(e))
      BY <2>1, <3>2, InsertKeeps DEF EventsInv
    <3> QED
      BY <1>5, <3>1, <3>2 DEF UpsertRaises
  <2> QED
    BY <1>5, <2>2, TableGrows DEF UpsertRaises, EventsInv, SyncTypes
<1>6. ASSUME NEW s \in Syncs, Again(s) PROVE EventsInv'
  <2>1. \A c \in Syncs : Progress(c)'
    BY <1>6 DEF Again, EventsInv, SyncTypes, Progress, Stored
  <2>2. TableOK'
    BY <1>6 DEF Again, EventsInv, TableOK, IsRow
  <2> QED
    BY <1>6, <2>1, <2>2 DEF Again, EventsInv, SyncTypes
<1>7. ASSUME NEW a \in Alarms, StoreAlarm(a) PROVE EventsInv'
  <2>1. IsRow(AlarmRow(a))
    BY DEF IsRow
  <2>2. TableOK' /\ table \subseteq table'
    <3>1. CASE UNCHANGED table
      BY <3>1 DEF EventsInv, TableOK, IsRow
    <3>2. CASE Insert(AlarmRow(a))
      BY <2>1, <3>2, InsertKeeps DEF EventsInv
    <3> QED
      BY <1>7, <3>1, <3>2 DEF StoreAlarm
  <2> QED
    BY <1>7, <2>2, TableGrows DEF StoreAlarm, sync, EventsInv, SyncTypes
<1>8. CASE Restart
  BY <1>8, TableGrows DEF Restart, EventsInv, SyncTypes, TableOK, IsRow
<1>9. CASE UNCHANGED vars
  BY <1>9, TableGrows DEF vars, sync, history, EventsInv, SyncTypes, TableOK, IsRow
<1> QED
  BY <1>1, <1>2, <1>3, <1>4, <1>5, <1>6, <1>7, <1>8, <1>9 DEF Next

-----------------------------------------------------------------------------
(* The theorems.                                                           *)

\* An answered sync has left every event it fetched in the table, for any number of
\* clients and any failures meanwhile.
THEOREM AnsweredSyncIsComplete == Spec => []SyncedIsStored
<1>1. EventsInv => SyncedIsStored
  <2> SUFFICES ASSUME EventsInv, NEW s \in Syncs, pc[s] = "ok", NEW i \in DOMAIN rows[s]
               PROVE  \E r \in EventRows : SameEvent(r.of, rows[s][i])
    BY DEF SyncedIsStored
  <2>1. PICK r \in table : r.key = DedupeKey(rows[s][i])
    BY DEF EventsInv, Progress, Stored
  <2>2. r.key[1] = "log" /\ r \in EventRows
    BY <2>1, KeyFacts DEF EventRows
  <2>3. PICK e \in Entries : r = EventRow(e)
    BY <2>2, LogRows DEF EventsInv
  <2>4. SameEvent(r.of, rows[s][i])
    BY <2>1, <2>3, KeyFacts
  <2> QED
    BY <2>2, <2>4
<1> QED
  BY <1>1, EventsInit, EventsNext, PTL DEF Spec

-----------------------------------------------------------------------------
(* Counting. The rows of the log are as many as the counts that were       *)
(* answered, lost or are still under way; the latter are a set of pairs,   *)
(* so that a step adds one or takes away those of one client.              *)

CountTypes ==
    /\ inserted \in [Syncs -> Nat]
    /\ reported \in Nat /\ unreported \in Nat
    /\ IsFiniteSet(EventRows) /\ IsFiniteSet(Uncounted)

CountInv == EventsInv /\ CountTypes /\ CountsAddUp

LEMMA UncountedPairs ==
    ASSUME NEW p
    PROVE  p \in Uncounted <=>
               \E s \in Syncs : \E n \in 1..inserted[s] : pc[s] = "inserting" /\ p = <<s, n>>
  BY DEF Uncounted

\* The pairs of one client are as many as it has counted.
LEMMA PairsOf ==
    ASSUME NEW s, NEW n \in Nat
    PROVE  IsFiniteSet({s} \X (1..n)) /\ Cardinality({s} \X (1..n)) = n
<1>1. IsFiniteSet({s}) /\ Cardinality({s}) = 1
  BY FS_Singleton
<1>2. IsFiniteSet(1..n) /\ Cardinality(1..n) = n
  BY FS_Interval
<1>3. Cardinality({s} \X (1..n)) = 1 * n
  BY <1>1, <1>2, FS_Product
<1>4. IsFiniteSet({s} \X (1..n))
  BY <1>1, <1>2, FS_Product
<1> QED
  BY <1>3, <1>4

\* The sync of a client ends: its counts are no longer under way.
LEMMA SyncEnds ==
    ASSUME CountInv, NEW s \in Syncs, pc[s] = "inserting", UNCHANGED inserted,
           NEW r, r # "inserting", pc' = [pc EXCEPT ![s] = r]
    PROVE  /\ IsFiniteSet(Uncounted')
           /\ Cardinality(Uncounted) = Cardinality(Uncounted') + inserted[s]
           /\ inserted[s] \in Nat /\ Cardinality(Uncounted') \in Nat
<1> DEFINE own == {s} \X (1..inserted[s])
<1>1. pc \in [Syncs -> {"idle", "inserting", "ok", "failed"}] /\ inserted[s] \in Nat
  BY DEF CountInv, EventsInv, SyncTypes, CountTypes
<1>2. IsFiniteSet(own) /\ Cardinality(own) = inserted[s]
  BY <1>1, PairsOf
<1>3. ASSUME NEW p
      PROVE  p \in Uncounted' <=>
                 \E c \in Syncs : \E n \in 1..inserted[c] : pc'[c] = "inserting" /\ p = <<c, n>>
  BY DEF Uncounted
<1>4. \A c \in Syncs : pc'[c] = "inserting" <=> c # s /\ pc[c] = "inserting"
  BY <1>1
<1>5. \A p : p \in own <=> \E n \in 1..inserted[s] : p = <<s, n>>
  OBVIOUS
<1>6. \A p : p \in Uncounted' <=> p \in Uncounted /\ p \notin own
  BY <1>3, <1>4, <1>5, UncountedPairs
<1>7. \A p \in own : p \in Uncounted
  BY <1>5, UncountedPairs
<1> HIDE DEF own
<1>8. Uncounted' = Uncounted \ own
  BY <1>6
<1>9. Uncounted \cap own = own
  BY <1>7
<1>10. IsFiniteSet(Uncounted)
  BY DEF CountInv, CountTypes
<1>11. /\ IsFiniteSet(Uncounted')
       /\ Cardinality(Uncounted') = Cardinality(Uncounted) - Cardinality(own)
  BY <1>8, <1>9, <1>10, FS_Difference
<1>12. Cardinality(Uncounted) \in Nat /\ Cardinality(Uncounted') \in Nat
  BY <1>10, <1>11, FS_CardinalityType
<1> QED
  BY <1>1, <1>2, <1>11, <1>12

\* An INSERT of a log entry adds one row unless its key is there, and Count says which.
LEMMA InsertCounts ==
    ASSUME CountInv, NEW s \in Syncs, NEW e, e = rows[s][next[s]], Insert(EventRow(e))
    PROVE  /\ IsFiniteSet(EventRows')
           /\ Count(s) \in Nat
           /\ Cardinality(EventRows') - Cardinality(EventRows) = Count(s) - inserted[s]
           /\ Count(s) \in {inserted[s], inserted[s] + 1}
<1>1. inserted[s] \in Nat /\ IsFiniteSet(EventRows) /\ Cardinality(EventRows) \in Nat
  BY FS_CardinalityType DEF CountInv, CountTypes
<1>2. CASE Conflict(EventRow(e))
  <2>1. table' = table /\ Count(s) = inserted[s]
    BY <1>2 DEF Insert, Count
  <2>2. EventRows' = EventRows
    BY <2>1 DEF EventRows
  <2> QED
    BY <1>1, <2>1, <2>2
<1>3. CASE ~Conflict(EventRow(e))
  <2>1. table' = table \cup {EventRow(e)} /\ Count(s) = inserted[s] + 1
    BY <1>3 DEF Insert, Count
  <2>2. EventRow(e).key[1] = "log"
    BY KeyFacts
  <2>3. EventRows' = EventRows \cup {EventRow(e)}
    BY <2>1, <2>2 DEF EventRows
  <2>4. EventRow(e) \notin EventRows
    BY <1>3 DEF Conflict, EventRows
  <2>5. IsFiniteSet(EventRows') /\ Cardinality(EventRows') = Cardinality(EventRows) + 1
    BY <1>1, <2>3, <2>4, FS_AddElement
  <2> QED
    BY <1>1, <2>1, <2>5
<1> QED
  BY <1>2, <1>3

LEMMA CountInit == Init => CountInv
<1> SUFFICES ASSUME Init PROVE CountInv
  OBVIOUS
<1>1. EventRows = {}
  BY DEF Init, EventRows
<1>2. \A s \in Syncs : pc[s] # "inserting"
  BY DEF Init
<1>3. Uncounted = {}
  BY <1>2, UncountedPairs
<1>4. IsFiniteSet({}) /\ Cardinality({}) = 0
  BY FS_EmptySet
<1>5. inserted \in [Syncs -> Nat] /\ reported = 0 /\ unreported = 0
  BY DEF Init
<1> QED
  BY <1>1, <1>3, <1>4, <1>5, EventsInit DEF CountInv, CountTypes, CountsAddUp

\* A step that keeps the rows of the log and the counts under way.
LEMMA CountKept ==
    ASSUME CountInv, EventsInv', UNCHANGED <<reported, unreported>>,
           EventRows' = EventRows, Uncounted' = Uncounted, inserted' \in [Syncs -> Nat]
    PROVE  CountInv'
  BY DEF CountInv, CountTypes, CountsAddUp

\* One iteration of the loop adds as many rows as it counts.
LEMMA UpsertCounts ==
    ASSUME CountInv, EventsInv', NEW s \in Syncs, Upsert(s)
    PROVE  CountInv'
<1> DEFINE n == inserted[s]
<1>1. /\ pc[s] = "inserting" /\ Insert(EventRow(rows[s][next[s]]))
      /\ inserted' = [inserted EXCEPT ![s] = Count(s)]
      /\ UNCHANGED <<pc, reported, unreported>>
  BY DEF Upsert, history
<1>2. /\ inserted \in [Syncs -> Nat] /\ n \in Nat /\ reported \in Nat /\ unreported \in Nat
      /\ IsFiniteSet(EventRows) /\ IsFiniteSet(Uncounted)
      /\ Cardinality(EventRows) = reported + unreported + Cardinality(Uncounted)
  BY DEF CountInv, CountTypes, CountsAddUp
<1>3. /\ IsFiniteSet(EventRows') /\ Count(s) \in Nat /\ Count(s) \in {n, n + 1}
      /\ Cardinality(EventRows') - Cardinality(EventRows) = Count(s) - n
  BY <1>1, InsertCounts
<1>4. inserted' \in [Syncs -> Nat] /\ inserted'[s] = Count(s)
  BY <1>1, <1>2, <1>3
<1>5. \A c \in Syncs : c # s => inserted'[c] = inserted[c]
  BY <1>1, <1>2
<1>6. ASSUME NEW p
      PROVE  p \in Uncounted' <=>
                 \E c \in Syncs : \E i \in 1..inserted'[c] : pc[c] = "inserting" /\ p = <<c, i>>
  BY <1>1 DEF Uncounted
<1>7. Cardinality(EventRows) \in Nat /\ Cardinality(EventRows') \in Nat
      /\ Cardinality(Uncounted) \in Nat
  BY <1>2, <1>3, FS_CardinalityType
<1>8. CASE Count(s) = n
  <2>1. \A c \in Syncs : inserted'[c] = inserted[c]
    BY <1>4, <1>5, <1>8
  <2>2. \A p : p \in Uncounted' <=> p \in Uncounted
    BY <1>6, <2>1, UncountedPairs
  <2>3. Uncounted' = Uncounted
    BY <2>2
  <2> QED
    BY <1>1, <1>2, <1>3, <1>4, <1>7, <1>8, <2>3 DEF CountInv, CountTypes, CountsAddUp
<1>9. CASE Count(s) = n + 1
  <2>1. \A i : i \in 1..inserted'[s] <=> i \in 1..n \/ i = n + 1
    BY <1>2, <1>4, <1>9
  <2>2. \A p : p \in Uncounted' <=> p \in Uncounted \/ p = <<s, n + 1>>
    BY <1>1, <1>5, <1>6, <2>1, UncountedPairs
  <2>3. Uncounted' = Uncounted \cup {<<s, n + 1>>}
    BY <2>2
  <2>4. n + 1 \notin 1..n
    BY <1>2
  <2>5. <<s, n + 1>> \notin Uncounted
    BY <2>4, UncountedPairs
  <2>6. IsFiniteSet(Uncounted') /\ Cardinality(Uncounted') = Cardinality(Uncounted) + 1
    BY <1>2, <2>3, <2>5, FS_AddElement
  <2> QED
    BY <1>1, <1>2, <1>3, <1>4, <1>7, <1>9, <2>6 DEF CountInv, CountTypes, CountsAddUp
<1> QED
  BY <1>3, <1>8, <1>9

\* A sync that fails leaves its counts, and the row in flight if it was committed.
LEMMA FailureCounts ==
    ASSUME CountInv, EventsInv', NEW s \in Syncs, UpsertRaises(s)
    PROVE  CountInv'
<1>1. /\ pc[s] = "inserting" /\ pc' = [pc EXCEPT ![s] = "failed"]
      /\ UNCHANGED <<inserted, reported>>
      /\ \/ UNCHANGED table /\ unreported' = unreported + inserted[s]
         \/ Insert(EventRow(rows[s][next[s]])) /\ unreported' = unreported + Count(s)
  BY DEF UpsertRaises
<1>2. /\ inserted \in [Syncs -> Nat] /\ reported \in Nat /\ unreported \in Nat
      /\ IsFiniteSet(EventRows)
      /\ Cardinality(EventRows) = reported + unreported + Cardinality(Uncounted)
  BY DEF CountInv, CountTypes, CountsAddUp
<1>3. /\ IsFiniteSet(Uncounted') /\ Cardinality(Uncounted') \in Nat /\ inserted[s] \in Nat
      /\ Cardinality(Uncounted) = Cardinality(Uncounted') + inserted[s]
  BY <1>1, SyncEnds
<1>4. CASE UNCHANGED table /\ unreported' = unreported + inserted[s]
  <2>1. EventRows' = EventRows
    BY <1>4 DEF EventRows
  <2> QED
    BY <1>1, <1>2, <1>3, <1>4, <2>1 DEF CountInv, CountTypes, CountsAddUp
<1>5. CASE Insert(EventRow(rows[s][next[s]])) /\ unreported' = unreported + Count(s)
  <2>1. /\ IsFiniteSet(EventRows') /\ Count(s) \in Nat
        /\ Cardinality(EventRows') - Cardinality(EventRows) = Count(s) - inserted[s]
    BY <1>5, InsertCounts
  <2>2. Cardinality(EventRows) \in Nat /\ Cardinality(EventRows') \in Nat
    BY <1>2, <2>1, FS_CardinalityType
  <2> QED
    BY <1>1, <1>2, <1>3, <1>5, <2>1, <2>2 DEF CountInv, CountTypes, CountsAddUp
<1> QED
  BY <1>1, <1>4, <1>5

LEMMA CountNext == CountInv /\ [Next]_vars => CountInv'
<1> SUFFICES ASSUME CountInv, [Next]_vars PROVE CountInv'
  OBVIOUS
<1>events. EventsInv'
  BY EventsNext DEF CountInv
<1>types. /\ inserted \in [Syncs -> Nat] /\ reported \in Nat /\ unreported \in Nat
       /\ pc \in [Syncs -> {"idle", "inserting", "ok", "failed"}]
       /\ IsFiniteSet(EventRows) /\ IsFiniteSet(Uncounted)
       /\ Cardinality(EventRows) = reported + unreported + Cardinality(Uncounted)
  BY DEF CountInv, CountTypes, CountsAddUp, EventsInv, SyncTypes
<1>pairs. ASSUME NEW p
        PROVE  p \in Uncounted' <=>
                   \E s \in Syncs : \E n \in 1..inserted'[s] :
                       pc'[s] = "inserting" /\ p = <<s, n>>
  BY DEF Uncounted
<1>1. ASSUME NEW e \in Entries, Log(e) PROVE CountInv'
  BY <1>events, <1>types, <1>1, CountKept DEF Log, sync, history, EventRows, Uncounted
<1>2. ASSUME NEW s \in Syncs, Fetch(s) PROVE CountInv'
  <2>1. /\ pc[s] = "idle" /\ inserted' = [inserted EXCEPT ![s] = 0]
        /\ pc' = [pc EXCEPT ![s] = "inserting"] /\ UNCHANGED <<table, reported, unreported>>
    BY <1>2 DEF Fetch, history
  <2>2. inserted' \in [Syncs -> Nat] /\ inserted'[s] = 0
    BY <1>types, <2>1
  <2>3. \A c \in Syncs : c # s => inserted'[c] = inserted[c] /\ pc'[c] = pc[c]
    BY <1>types, <2>1
  <2>4. \A n : n \notin 1..0
    OBVIOUS
  <2>5. \A p : p \in Uncounted' <=> p \in Uncounted
    BY <1>pairs, <2>1, <2>2, <2>3, <2>4, UncountedPairs
  <2>6. Uncounted' = Uncounted /\ EventRows' = EventRows
    BY <2>1, <2>5 DEF EventRows
  <2> QED
    BY <1>events, <2>1, <2>2, <2>6, CountKept
<1>3. ASSUME NEW s \in Syncs, Upsert(s) PROVE CountInv'
  BY <1>events, <1>3, UpsertCounts
<1>4. ASSUME NEW s \in Syncs, Reply(s) PROVE CountInv'
  <2>1. /\ pc[s] = "inserting" /\ pc' = [pc EXCEPT ![s] = "ok"]
        /\ reported' = reported + inserted[s] /\ UNCHANGED <<table, inserted, unreported>>
    BY <1>4 DEF Reply
  <2>2. /\ IsFiniteSet(Uncounted') /\ Cardinality(Uncounted') \in Nat /\ inserted[s] \in Nat
        /\ Cardinality(Uncounted) = Cardinality(Uncounted') + inserted[s]
    BY <2>1, SyncEnds
  <2>3. EventRows' = EventRows
    BY <2>1 DEF EventRows
  <2> QED
    BY <1>events, <1>types, <2>1, <2>2, <2>3 DEF CountInv, CountTypes, CountsAddUp
<1>5. ASSUME NEW s \in Syncs, UpsertRaises(s) PROVE CountInv'
  BY <1>events, <1>5, FailureCounts
<1>6. ASSUME NEW s \in Syncs, Again(s) PROVE CountInv'
  <2>1. /\ pc[s] # "inserting" /\ inserted' = [inserted EXCEPT ![s] = 0]
        /\ pc' = [pc EXCEPT ![s] = "idle"] /\ UNCHANGED <<table, reported, unreported>>
    BY <1>6 DEF Again, history
  <2>2. inserted' \in [Syncs -> Nat] /\ pc'[s] = "idle"
    BY <1>types, <2>1
  <2>3. \A c \in Syncs : c # s => inserted'[c] = inserted[c] /\ pc'[c] = pc[c]
    BY <1>types, <2>1
  <2>4. \A p : p \in Uncounted' <=> p \in Uncounted
    BY <1>pairs, <2>1, <2>2, <2>3, UncountedPairs
  <2>5. Uncounted' = Uncounted /\ EventRows' = EventRows
    BY <2>1, <2>4 DEF EventRows
  <2> QED
    BY <1>events, <2>1, <2>2, <2>5, CountKept
<1>7. ASSUME NEW a \in Alarms, StoreAlarm(a) PROVE CountInv'
  <2>1. EventRows' = EventRows
    BY <1>7, AlarmKeyFacts DEF StoreAlarm, Insert, EventRows
  <2> QED
    BY <1>events, <1>types, <1>7, <2>1, CountKept DEF StoreAlarm, sync, Uncounted
<1>8. CASE Restart
  <2>1. /\ pc' = [s \in Syncs |-> IF pc[s] = "inserting" THEN "failed" ELSE pc[s]]
        /\ unreported' = unreported + Cardinality(Uncounted)
        /\ UNCHANGED <<table, inserted, reported>>
    BY <1>8 DEF Restart
  <2>2. \A s \in Syncs : pc'[s] # "inserting"
    BY <1>types, <2>1
  <2>3. Uncounted' = {}
    BY <1>pairs, <2>2
  <2>4. IsFiniteSet({}) /\ Cardinality({}) = 0
    BY FS_EmptySet
  <2>5. EventRows' = EventRows
    BY <2>1 DEF EventRows
  <2>6. Cardinality(Uncounted) \in Nat
    BY <1>types, FS_CardinalityType
  <2> QED
    BY <1>events, <1>types, <2>1, <2>3, <2>4, <2>5, <2>6 DEF CountInv, CountTypes, CountsAddUp
<1>9. CASE UNCHANGED vars
  BY <1>events, <1>types, <1>9, CountKept DEF vars, sync, history, EventRows, Uncounted
<1> QED
  BY <1>1, <1>2, <1>3, <1>4, <1>5, <1>6, <1>7, <1>8, <1>9 DEF Next

\* For any number of concurrent syncs, next to the alarm task and across failures and
\* restarts, the counts of the replies and the counts that were lost add up to the rows
\* of the log: no row is counted by two clients.
THEOREM RepliesCountEachRowOnce == Spec => []CountsAddUp
<1>1. CountInv => CountsAddUp
  BY DEF CountInv
<1> QED
  BY <1>1, CountInit, CountNext, PTL DEF Spec
=============================================================================
