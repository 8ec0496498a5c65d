------------------------- MODULE SampleWriterProofs -------------------------
(***************************************************************************)
(* Safety of the batched writer for every batch size, asset size and       *)
(* number of rows and faults, in both gateway modes.                       *)
(***************************************************************************)
EXTENDS SampleWriter, SequenceTheorems, FiniteSetTheorems, TLAPS

\* Concatenating typed sequences stays typed and is associative; the empty
\* sequence is neutral: the algebra behind "re-queued in front of the buffer".
LEMMA ConcatAlgebra ==
    ASSUME NEW S, NEW a \in Seq(S), NEW b \in Seq(S), NEW c \in Seq(S)
    PROVE  /\ a \o b \in Seq(S)
           /\ a \o (b \o c) = (a \o b) \o c
           /\ a \o <<>> = a /\ <<>> \o a = a
           /\ <<>> \in Seq(S)
  <1>1. a \o b \in Seq(S)
    BY ConcatProperties
  <1>2. a \o (b \o c) = (a \o b) \o c
    BY ConcatAssociative
  <1>3. a \o <<>> = a /\ <<>> \o a = a
    BY ConcatEmptySeq
  <1>4. <<>> \in Seq(S)
    BY EmptySeq
  <1> QED
    BY <1>1, <1>2, <1>3, <1>4

\* The elements of a typed sequence are values of that type.
LEMMA RangeTyped ==
    ASSUME NEW S, NEW s \in Seq(S)
    PROVE  Range(s) \subseteq S
    BY ElementOfSeq, LenProperties DEF Range

\* The rows of an asset are new, well-typed and fit the bound.
LEMMA FreshTyped ==
    ASSUME TypeOK, NEW k \in 1..MaxPerAsset, Len(historised) + k <= MaxRows
    PROVE  /\ Fresh(k) \in Seq(Values)
           /\ Len(historised \o Fresh(k)) <= MaxRows
  <1>1. Len(historised) \in Nat /\ k \in Nat /\ MaxRows \in Nat
    BY WriterAssumption, LenProperties DEF TypeOK
  <1>2. \A i \in 1..k : Len(historised) + i \in 1..MaxRows
    BY <1>1
  <1>3. Fresh(k) \in [1..k -> Values]
    BY <1>2 DEF Fresh, Values
  <1>4. Fresh(k) \in Seq(Values)
    BY <1>1, <1>3, SeqDef
  <1>5. Len(Fresh(k)) = k
    BY <1>1, <1>3, <1>4, LenProperties
  <1> QED
    BY <1>1, <1>4, <1>5, ConcatProperties DEF TypeOK

-----------------------------------------------------------------------------
(* Type correctness *)

LEMMA TypeInit == Init => TypeOK
  <1> SUFFICES ASSUME Init PROVE TypeOK
    OBVIOUS
  <1>1. <<>> \in Seq(Values) /\ Len(<<>>) = 0
    BY EmptySeq
  <1>2. Len(historised) <= MaxRows /\ faults \in 0..MaxFaults
    BY <1>1, WriterAssumption DEF Init
  <1>3. /\ pc["run"] = "idle" /\ pc["flusher"] = "idle" /\ DOMAIN pc = Tasks
        /\ batch["run"] = <<>> /\ batch["flusher"] = <<>> /\ DOMAIN batch = Tasks
    BY DEF Init, Tasks
  <1> QED
    BY <1>1, <1>2, <1>3 DEF Init, TypeOK

\* Handing the rows of an asset to the buffer keeps the types.
LEMMA HandOverTyped ==
    ASSUME TypeOK, NEW rs \in Seq(Values), HandOver(rs)
    PROVE  /\ lock' \in Tasks \cup {"none"}
           /\ buffer' \in Seq(Values)
           /\ DOMAIN batch' = Tasks /\ DOMAIN pc' = Tasks
           /\ batch'["run"] \in Seq(Values) /\ batch'["flusher"] = batch["flusher"]
           /\ pc'["run"] \in {"idle", "flushing", "ended"} /\ pc'["flusher"] = pc["flusher"]
  <1>1. buffer \o rs \in Seq(Values) /\ <<>> \in Seq(Values)
    BY ConcatAlgebra DEF TypeOK
  <1> QED
    BY <1>1 DEF HandOver, StartFlush, Release, Resume, TypeOK, Tasks

\* So does the body of _flush_locked up to its await, in the flusher.
LEMMA FlushBodyTyped ==
    ASSUME TypeOK, FlushBody("flusher", "flushing")
    PROVE  /\ lock' \in Tasks \cup {"none"}
           /\ buffer' \in Seq(Values)
           /\ DOMAIN batch' = Tasks /\ DOMAIN pc' = Tasks
           /\ batch'["flusher"] \in Seq(Values) /\ batch'["run"] = batch["run"]
           /\ pc'["flusher"] \in {"idle", "flushing", "ended"} /\ pc'["run"] = pc["run"]
  <1>1. <<>> \in Seq(Values)
    BY EmptySeq
  <1> QED
    BY <1>1 DEF FlushBody, StartFlush, Release, Resume, TypeOK, Tasks

LEMMA TypeStep == TypeOK /\ [Next]_vars => TypeOK'
  <1> SUFFICES ASSUME TypeOK, [Next]_vars PROVE TypeOK'
    OBVIOUS
  <1> USE DEF Tasks
  <1>0. <<>> \in Seq(Values)
    BY EmptySeq
  <1>1. ASSUME NEW k \in 1..MaxPerAsset, Historise(k) PROVE TypeOK'
    <2>1. Fresh(k) \in Seq(Values) /\ Len(historised \o Fresh(k)) <= MaxRows
      BY <1>1, FreshTyped DEF Historise
    <2>2. historised \o Fresh(k) \in Seq(Values)
      BY <2>1, ConcatAlgebra DEF TypeOK
    <2>3. CASE LockFree /\ HandOver(Fresh(k)) /\ UNCHANGED rows
      BY <1>1, <2>1, <2>2, <2>3, HandOverTyped DEF Historise, TypeOK
    <2>4. CASE ~LockFree /\ rows' = Fresh(k)
      BY <1>1, <2>1, <2>2, <2>4 DEF Historise, TypeOK
    <2> QED
      BY <1>1, <2>3, <2>4 DEF Historise
  <1>2. CASE RunAcquires
    <2>1. HandOver(rows) /\ rows \in Seq(Values)
      BY <1>2 DEF RunAcquires, TypeOK
    <2> QED
      BY <1>0, <1>2, <2>1, HandOverTyped DEF RunAcquires, TypeOK
  <1>3. CASE FlusherWakes
    <2>1. CASE FlushBody("flusher", "flushing")
      BY <1>3, <2>1, FlushBodyTyped DEF FlusherWakes, TypeOK
    <2>2. CASE ~LockFree
      BY <1>3, <2>2 DEF FlusherWakes, TypeOK
    <2> QED
      BY <1>3, <2>1, <2>2 DEF FlusherWakes
  <1>4. CASE FlusherAcquires
    BY <1>4, FlushBodyTyped DEF FlusherAcquires, TypeOK
  <1>5. ASSUME NEW t \in Tasks, FlushOk(t) PROVE TypeOK'
    <2>1. samples \o batch[t] \in Seq(Values) /\ acked \o batch[t] \in Seq(Values)
      BY ConcatAlgebra DEF TypeOK
    <2> QED
      BY <1>0, <1>5, <2>1 DEF FlushOk, Inserted, Resume, TypeOK, Flushing
  <1>6. ASSUME NEW t \in Tasks, NEW c \in BOOLEAN, FlushFails(t, c) PROVE TypeOK'
    <2>1. samples \o batch[t] \in Seq(Values) /\ batch[t] \o buffer \in Seq(Values)
      BY ConcatAlgebra DEF TypeOK
    <2>2. faults' \in 0..MaxFaults
      BY <1>6, WriterAssumption DEF FlushFails, TypeOK
    <2> QED
      BY <1>0, <1>6, <2>1, <2>2 DEF FlushFails, Inserted, Requeued, Resume, TypeOK
  <1>7. CASE Stop
    BY <1>7 DEF Stop, TypeOK
  <1>8. ASSUME NEW c \in BOOLEAN, RunCancelled(c) PROVE TypeOK'
    <2>1. samples \o batch["run"] \in Seq(Values) /\ batch["run"] \o rows \in Seq(Values)
      BY ConcatAlgebra DEF TypeOK
    <2>2. Range(batch["run"] \o rows) \subseteq Values
      BY <2>1, RangeTyped
    <2> QED
      BY <1>0, <1>8, <2>1, <2>2 DEF RunCancelled, Unwind, Inserted, Freed, TypeOK
  <1>9. ASSUME NEW c \in BOOLEAN, FlusherCancelled(c) PROVE TypeOK'
    <2>1. samples \o batch["flusher"] \in Seq(Values)
      BY ConcatAlgebra DEF TypeOK
    <2>2. Range(batch["flusher"]) \subseteq Values
      BY RangeTyped DEF TypeOK
    <2> QED
      BY <1>0, <1>9, <2>1, <2>2 DEF FlusherCancelled, Unwind, Inserted, Freed, TypeOK
  <1>10. CASE Drain
    BY <1>0, <1>10 DEF Drain, StartFlush, TypeOK
  <1>11. CASE UNCHANGED vars
    BY <1>11 DEF vars, TypeOK
  <1> QED
    BY <1>1, <1>2, <1>3, <1>4, <1>5, <1>6, <1>7, <1>8, <1>9, <1>10, <1>11
    DEF Next, DbReplies

\* Every variable of the writer keeps its type, whatever the constants.
THEOREM WriterTypeCorrect == Spec => []TypeOK
  BY TypeInit, TypeStep, PTL DEF Spec

-----------------------------------------------------------------------------
(* The lock *)

LEMMA LockInit == Init => LockDiscipline
  BY DEF Init, LockDiscipline, Tasks

\* A task that finds the lock free finds both batches empty.
LEMMA NobodyFlushes ==
    ASSUME LockDiscipline, lock = "none"
    PROVE  /\ batch["run"] = <<>> /\ batch["flusher"] = <<>>
           /\ \A t \in Tasks : pc[t] \notin {"flushing", "draining"}
  BY DEF LockDiscipline, Tasks

LEMMA LockStep == TypeOK /\ LockDiscipline /\ [Next]_vars => LockDiscipline'
  <1> SUFFICES ASSUME TypeOK, LockDiscipline, [Next]_vars PROVE LockDiscipline'
    OBVIOUS
  <1> USE DEF Tasks
  <1>1. ASSUME NEW k \in 1..MaxPerAsset, Historise(k) PROVE LockDiscipline'
    <2>1. CASE LockFree /\ HandOver(Fresh(k)) /\ UNCHANGED rows
      BY <1>1, <2>1, NobodyFlushes
      DEF Historise, LockFree, HandOver, StartFlush, Release, Resume, TypeOK, LockDiscipline
    <2>2. CASE ~LockFree /\ pc' = [pc EXCEPT !["run"] = "waiting"]
                         /\ UNCHANGED <<lock, buffer, batch>>
      BY <1>1, <2>2 DEF Historise, TypeOK, LockDiscipline
    <2> QED
      BY <1>1, <2>1, <2>2 DEF Historise
  <1>2. CASE RunAcquires
    BY <1>2, NobodyFlushes
    DEF RunAcquires, HandOver, StartFlush, Release, Resume, TypeOK, LockDiscipline
  <1>3. CASE FlusherWakes
    <2>1. CASE LockFree /\ FlushBody("flusher", "flushing")
      BY <1>3, <2>1, NobodyFlushes
      DEF FlusherWakes, LockFree, FlushBody, StartFlush, Release, Resume, TypeOK, LockDiscipline
    <2>2. CASE /\ ~LockFree /\ pc' = [pc EXCEPT !["flusher"] = "waiting"]
               /\ UNCHANGED <<lock, buffer, batch>>
      BY <1>3, <2>2 DEF FlusherWakes, TypeOK, LockDiscipline
    <2> QED
      BY <1>3, <2>1, <2>2 DEF FlusherWakes
  <1>4. CASE FlusherAcquires
    BY <1>4, NobodyFlushes
    DEF FlusherAcquires, FlushBody, StartFlush, Release, Resume, TypeOK, LockDiscipline
  <1>5. ASSUME NEW t \in Tasks, FlushOk(t) PROVE LockDiscipline'
    BY <1>5 DEF FlushOk, Flushing, Resume, TypeOK, LockDiscipline
  <1>6. ASSUME NEW t \in Tasks, NEW c \in BOOLEAN, FlushFails(t, c) PROVE LockDiscipline'
    BY <1>6 DEF FlushFails, Flushing, Resume, TypeOK, LockDiscipline
  <1>7. CASE Stop
    BY <1>7 DEF Stop, LockDiscipline
  <1>8. ASSUME NEW c \in BOOLEAN, RunCancelled(c) PROVE LockDiscipline'
    BY <1>8 DEF RunCancelled, Cancelled, Unwind, Freed, TypeOK, LockDiscipline
  <1>9. ASSUME NEW c \in BOOLEAN, FlusherCancelled(c) PROVE LockDiscipline'
    BY <1>9 DEF FlusherCancelled, Cancelled, Unwind, Freed, TypeOK, LockDiscipline
  <1>10. CASE Drain
    BY <1>10, NobodyFlushes DEF Drain, StartFlush, TypeOK, LockDiscipline
  <1>11. CASE UNCHANGED vars
    BY <1>11 DEF vars, LockDiscipline
  <1> QED
    BY <1>1, <1>2, <1>3, <1>4, <1>5, <1>6, <1>7, <1>8, <1>9, <1>10, <1>11
    DEF Next, DbReplies

\* The lock is held exactly while its owner awaits an INSERT, and no batch exists
\* outside it: no cancellation of either task leaves the writer locked.
THEOREM WriterLockSafe == Spec => []LockDiscipline
  BY TypeInit, TypeStep, LockInit, LockStep, PTL DEF Spec

-----------------------------------------------------------------------------
(* Conservation of the rows, in order *)

\* Everything the writer holds or has acknowledged, oldest first.
Whole == acked \o InFlight \o buffer \o rows

\* Only the empty sequence has an empty range.
LEMMA EmptyRange ==
    ASSUME NEW S, NEW s \in Seq(S), Range(s) = {}
    PROVE  s = <<>>
  <1>1. Len(s) = 0
    <2>1. \A i \in 1..Len(s) : s[i] \in Range(s)
      BY LenProperties DEF Range
    <2> QED
      BY <2>1, LenProperties
  <1> QED
    BY <1>1, EmptySeq

\* With the lock free nothing is in flight.
LEMMA WholeAtRest ==
    ASSUME TypeOK, LockDiscipline, lock = "none"
    PROVE  Whole = acked \o buffer \o rows
  <1>1. InFlight = <<>>
    BY NobodyFlushes, ConcatAlgebra DEF InFlight, TypeOK
  <1> QED
    BY <1>1, ConcatAlgebra DEF Whole, TypeOK

\* Handing over rows puts them behind everything that is there.
LEMMA HandOverWhole ==
    ASSUME TypeOK, LockDiscipline, lock = "none", NEW rs \in Seq(Values),
           HandOver(rs), acked' = acked, rows' = <<>>
    PROVE  Whole' = acked \o buffer \o rs
  <1>1. batch["flusher"] = <<>> /\ batch["run"] = <<>> /\ DOMAIN batch = Tasks
    BY NobodyFlushes DEF TypeOK
  <1>2. buffer \o rs \in Seq(Values) /\ acked \in Seq(Values) /\ buffer \in Seq(Values)
        /\ <<>> \in Seq(Values)
    BY ConcatAlgebra DEF TypeOK
  <1>3. acked \o (buffer \o rs) = acked \o buffer \o rs
        /\ acked \o (buffer \o rs) \in Seq(Values)
    BY <1>2, ConcatAlgebra
  <1>4. CASE BatchFull(buffer \o rs)
    <2>1. batch'["run"] = buffer \o rs /\ batch'["flusher"] = <<>> /\ buffer' = <<>>
      BY <1>1, <1>4 DEF HandOver, StartFlush, Tasks
    <2>2. InFlight' = buffer \o rs
      BY <1>2, <2>1, ConcatAlgebra DEF InFlight
    <2> QED
      BY <1>2, <1>3, <2>1, <2>2, ConcatAlgebra DEF Whole
  <1>5. CASE ~BatchFull(buffer \o rs)
    <2>1. batch' = batch /\ buffer' = buffer \o rs
      BY <1>5 DEF HandOver, Release
    <2>2. InFlight' = <<>>
      BY <1>1, <1>2, <2>1, ConcatAlgebra DEF InFlight
    <2> QED
      BY <1>2, <1>3, <2>1, <2>2, ConcatAlgebra DEF Whole
  <1> QED
    BY <1>4, <1>5

\* Swapping the buffer out moves no row past another.
LEMMA StartFlushWhole ==
    ASSUME TypeOK, LockDiscipline, lock = "none", NEW t \in Tasks,
           batch' = [batch EXCEPT ![t] = buffer], buffer' = <<>>,
           acked' = acked, rows' = rows
    PROVE  Whole' = Whole
  <1>1. batch["flusher"] = <<>> /\ batch["run"] = <<>> /\ DOMAIN batch = Tasks
    BY NobodyFlushes DEF TypeOK
  <1>2. buffer \in Seq(Values) /\ acked \in Seq(Values) /\ rows \in Seq(Values)
    BY DEF TypeOK
  <1>3. InFlight' = buffer
    <2>1. \/ batch'["flusher"] = buffer /\ batch'["run"] = <<>>
          \/ batch'["flusher"] = <<>> /\ batch'["run"] = buffer
      BY <1>1 DEF Tasks
    <2> QED
      BY <1>2, <2>1, ConcatAlgebra DEF InFlight
  <1>4. acked \o buffer \in Seq(Values)
    BY <1>2, ConcatAlgebra
  <1> QED
    BY <1>2, <1>3, <1>4, ConcatAlgebra, WholeAtRest DEF Whole

\* A finished batch, acknowledged or re-queued, keeps its place in the order.
LEMMA FinishWhole ==
    ASSUME TypeOK, LockDiscipline, NEW t \in Tasks, lock = t,
           batch' = [batch EXCEPT ![t] = <<>>], rows' = rows,
           \/ acked' = acked \o batch[t] /\ buffer' = buffer
           \/ acked' = acked /\ buffer' = batch[t] \o buffer
    PROVE  Whole' = Whole
  <1>1. /\ buffer \in Seq(Values) /\ acked \in Seq(Values) /\ rows \in Seq(Values)
        /\ batch[t] \in Seq(Values)
    BY DEF TypeOK, Tasks
  <1>2. InFlight = batch[t] /\ InFlight' = <<>>
    <2>1. \/ t = "flusher" /\ batch["run"] = <<>>
          \/ t = "run" /\ batch["flusher"] = <<>>
      BY DEF LockDiscipline, Tasks
    <2>2. batch'["run"] = <<>> /\ batch'["flusher"] = <<>>
      BY <2>1 DEF TypeOK, Tasks
    <2> QED
      BY <1>1, <2>1, <2>2, ConcatAlgebra DEF InFlight
  <1>3. acked \o batch[t] \in Seq(Values) /\ batch[t] \o buffer \in Seq(Values)
    BY <1>1, ConcatAlgebra
  <1>4. acked \o (batch[t] \o buffer) = acked \o batch[t] \o buffer
    <2> DEFINE x == batch[t]
    <2>1. x \in Seq(Values) /\ acked \in Seq(Values) /\ buffer \in Seq(Values)
      BY <1>1
    <2> HIDE DEF x
    <2>2. (acked \o x) \o buffer = acked \o (x \o buffer)
      BY <2>1, ConcatAssociative
    <2> QED
      BY <2>2 DEF x
  <1>5. CASE acked' = acked \o batch[t] /\ buffer' = buffer
    <2>1. Whole' = (acked \o batch[t]) \o <<>> \o buffer \o rows
      BY <1>2, <1>5 DEF Whole
    <2> QED
      BY <1>2, <1>3, <2>1, ConcatEmptySeq DEF Whole
  <1>6. CASE acked' = acked /\ buffer' = batch[t] \o buffer
    <2>1. Whole' = acked \o <<>> \o (batch[t] \o buffer) \o rows
      BY <1>2, <1>6 DEF Whole
    <2>2. acked \o <<>> = acked
      BY <1>1, ConcatEmptySeq
    <2> QED
      BY <1>2, <1>4, <2>1, <2>2 DEF Whole
  <1> QED
    BY <1>5, <1>6

LEMMA FifoInit == Init => FifoConservation
  <1> SUFFICES ASSUME Init PROVE FifoConservation
    OBVIOUS
  <1>1. TypeOK /\ LockDiscipline /\ lock = "none"
    BY TypeInit, LockInit DEF Init
  <1>2. acked = <<>> /\ buffer = <<>> /\ rows = <<>> /\ historised = <<>>
    BY DEF Init
  <1>3. acked \o buffer \o rows = historised
    BY <1>1, <1>2, ConcatAlgebra DEF TypeOK
  <1> QED
    BY <1>1, <1>3, WholeAtRest DEF Whole, FifoConservation

LEMMA FifoStep ==
    TypeOK /\ LockDiscipline /\ FifoConservation /\ [Next]_vars => FifoConservation'
  <1> SUFFICES ASSUME TypeOK, LockDiscipline, FifoConservation, [Next]_vars, lost' = {}
               PROVE  Whole' = historised'
    BY DEF FifoConservation, Whole
  <1>1. ASSUME NEW k \in 1..MaxPerAsset, Historise(k) PROVE Whole' = historised'
    <2>1. lost = {} /\ Whole = historised /\ rows = <<>>
      BY <1>1 DEF Historise, FifoConservation, Whole, LockDiscipline
    <2>2. Fresh(k) \in Seq(Values)
      BY <1>1, FreshTyped DEF Historise
    <2>3. CASE LockFree /\ HandOver(Fresh(k)) /\ UNCHANGED rows
      <3>1. Whole' = acked \o buffer \o Fresh(k)
        BY <1>1, <2>1, <2>2, <2>3, HandOverWhole DEF Historise, LockFree
      <3>2. historised = acked \o buffer
        <4>1. acked \o buffer \in Seq(Values)
          BY ConcatAlgebra DEF TypeOK
        <4> QED
          BY <2>1, <2>3, <4>1, WholeAtRest, ConcatAlgebra DEF LockFree
      <3> QED
        BY <1>1, <3>1, <3>2 DEF Historise
    <2>4. CASE rows' = Fresh(k) /\ UNCHANGED <<lock, buffer, batch>>
      <3>1. acked \o InFlight \o buffer \in Seq(Values)
        <4>1. InFlight \in Seq(Values)
          BY ConcatAlgebra DEF InFlight, TypeOK
        <4>2. acked \o InFlight \in Seq(Values)
          BY <4>1, ConcatAlgebra DEF TypeOK
        <4> QED
          BY <4>2, ConcatAlgebra DEF TypeOK
      <3>2. historised = acked \o InFlight \o buffer
        BY <2>1, <3>1, ConcatAlgebra DEF Whole
      <3> QED
        BY <1>1, <2>4, <3>2 DEF Historise, Whole, InFlight
    <2> QED
      BY <1>1, <2>3, <2>4 DEF Historise
  <1>2. CASE RunAcquires
    BY <1>2, HandOverWhole, WholeAtRest DEF RunAcquires, TypeOK, FifoConservation, Whole
  <1>3. ASSUME lock = "none", FlushBody("flusher", "flushing"),
               UNCHANGED <<rows, historised, acked, lost>>
        PROVE  Whole' = historised'
    <2>1. CASE buffer = <<>>
      BY <1>3, <2>1 DEF FlushBody, Release, FifoConservation, Whole, InFlight
    <2>2. CASE buffer # <<>>
      BY <1>3, <2>2, StartFlushWhole DEF FlushBody, StartFlush, Tasks, FifoConservation, Whole
    <2> QED
      BY <2>1, <2>2
  <1>4. CASE FlusherWakes
    BY <1>3, <1>4 DEF FlusherWakes, LockFree, FifoConservation, Whole, InFlight
  <1>5. CASE FlusherAcquires
    BY <1>3, <1>5 DEF FlusherAcquires
  <1>6. ASSUME NEW t \in Tasks, FlushOk(t) PROVE Whole' = historised'
    <2>1. lock = t
      BY <1>6 DEF FlushOk, Flushing, LockDiscipline
    <2>2. Whole' = Whole
      BY <1>6, <2>1, FinishWhole DEF FlushOk
    <2> QED
      BY <1>6, <2>2 DEF FlushOk, FifoConservation, Whole
  <1>7. ASSUME NEW t \in Tasks, NEW c \in BOOLEAN, FlushFails(t, c) PROVE Whole' = historised'
    <2>1. lock = t
      BY <1>7 DEF FlushFails, Flushing, LockDiscipline
    <2>2. Whole' = Whole
      BY <1>7, <2>1, FinishWhole DEF FlushFails, Requeued
    <2> QED
      BY <1>7, <2>2 DEF FlushFails, FifoConservation, Whole
  <1>8. CASE Stop
    BY <1>8 DEF Stop, FifoConservation, Whole, InFlight
  <1>9. ASSUME NEW c \in BOOLEAN, RunCancelled(c) PROVE Whole' = historised'
    <2>1. lost = {} /\ Range(batch["run"] \o rows) = {}
      BY <1>9 DEF RunCancelled, Unwind
    <2>2. batch["run"] = <<>> /\ rows = <<>>
      <3>1. batch["run"] \in Seq(Values) /\ rows \in Seq(Values)
        BY DEF TypeOK
      <3>2. batch["run"] \o rows = <<>>
        BY <2>1, <3>1, ConcatAlgebra, EmptyRange
      <3> QED
        BY <3>1, <3>2, ConcatEqualIffEmpty
    <2>3. batch'["run"] = batch["run"] /\ batch'["flusher"] = batch["flusher"]
      BY <1>9, <2>2 DEF RunCancelled, Unwind, TypeOK, Tasks
    <2> QED
      BY <1>9, <2>1, <2>2, <2>3 DEF RunCancelled, Unwind, FifoConservation, Whole, InFlight
  <1>10. ASSUME NEW c \in BOOLEAN, FlusherCancelled(c) PROVE Whole' = historised'
    <2>1. lost = {} /\ Range(batch["flusher"]) = {}
      BY <1>10 DEF FlusherCancelled, Unwind
    <2>2. batch["flusher"] = <<>>
      BY <2>1, EmptyRange DEF TypeOK
    <2>3. batch'["run"] = batch["run"] /\ batch'["flusher"] = batch["flusher"]
      BY <1>10, <2>2 DEF FlusherCancelled, Unwind, TypeOK, Tasks
    <2> QED
      BY <1>10, <2>1, <2>3 DEF FlusherCancelled, Unwind, FifoConservation, Whole, InFlight
  <1>11. CASE Drain
    <2>1. CASE buffer = <<>>
      BY <1>11, <2>1 DEF Drain, FifoConservation, Whole, InFlight
    <2>2. CASE buffer # <<>>
      BY <1>11, <2>2, StartFlushWhole DEF Drain, StartFlush, Tasks, FifoConservation, Whole
    <2> QED
      BY <2>1, <2>2
  <1>12. CASE UNCHANGED vars
    BY <1>12 DEF vars, FifoConservation, Whole, InFlight
  <1> QED
    BY <1>1, <1>2, <1>4, <1>5, <1>6, <1>7, <1>8, <1>9, <1>10, <1>11, <1>12
    DEF Next, DbReplies

\* Unless a cancellation dropped a row, what the writer acknowledged and what it
\* still holds are exactly the historised rows, each once and in order: failed
\* flushes, re-queues and concurrent hand-overs neither lose nor reorder any.
THEOREM WriterConservesRows == Spec => []FifoConservation
  <1>1. Init => TypeOK /\ LockDiscipline /\ FifoConservation
    BY TypeInit, LockInit, FifoInit
  <1>2. TypeOK /\ LockDiscipline /\ FifoConservation /\ [Next]_vars
          => (TypeOK /\ LockDiscipline /\ FifoConservation)'
    BY TypeStep, LockStep, FifoStep
  <1> QED
    BY <1>1, <1>2, PTL DEF Spec

-----------------------------------------------------------------------------
(* What a step of the writer does to the rows it holds                     *)

Pending == InFlight \o buffer \o rows

LEMMA PendingTyped ==
    ASSUME TypeOK
    PROVE  Pending \in Seq(Values)
  <1>1. InFlight \in Seq(Values)
    BY ConcatAlgebra DEF InFlight, TypeOK
  <1>2. InFlight \o buffer \in Seq(Values)
    BY <1>1, ConcatAlgebra DEF TypeOK
  <1> QED
    BY <1>2, ConcatAlgebra DEF Pending, TypeOK

\* With the lock free the log is the buffer, followed by the rows that wait for it.
LEMMA PendingAtRest ==
    ASSUME TypeOK, LockDiscipline, lock = "none"
    PROVE  Pending = buffer \o rows
  <1>1. InFlight = <<>>
    BY NobodyFlushes, ConcatAlgebra DEF InFlight, TypeOK
  <1> QED
    BY <1>1, ConcatAlgebra DEF Pending, TypeOK

\* While t flushes, the log is its batch, followed by the rows that wait.
LEMMA PendingInFlight ==
    ASSUME TypeOK, LockDiscipline, NEW t \in Tasks, lock = t
    PROVE  /\ Pending = batch[t] \o rows /\ buffer = <<>> /\ InFlight = batch[t]
           /\ batch[t] \in Seq(Values) /\ rows \in Seq(Values)
           /\ t = "run" => rows = <<>> /\ batch["flusher"] = <<>>
           /\ t = "flusher" => batch["run"] = <<>>
  <1>1. batch[t] \in Seq(Values) /\ rows \in Seq(Values) /\ buffer = <<>>
    BY DEF TypeOK, LockDiscipline, Tasks
  <1>2. /\ t = "run" => rows = <<>> /\ batch["flusher"] = <<>>
        /\ t = "flusher" => batch["run"] = <<>>
    BY DEF LockDiscipline, Tasks
  <1>3. InFlight = batch[t]
    BY <1>1, <1>2, ConcatAlgebra DEF InFlight, Tasks
  <1> QED
    BY <1>1, <1>2, <1>3, ConcatAlgebra DEF Pending

\* A flush that starts, and a hand-over that has already been recorded, move nothing.
LEMMA HandOverPending ==
    ASSUME TypeOK, LockDiscipline, lock = "none", NEW rs \in Seq(Values),
           HandOver(rs), rows' = <<>>
    PROVE  Pending' = buffer \o rs
  <1>1. batch["flusher"] = <<>> /\ batch["run"] = <<>> /\ DOMAIN batch = Tasks
    BY NobodyFlushes DEF TypeOK
  <1>2. buffer \o rs \in Seq(Values) /\ <<>> \in Seq(Values)
    BY ConcatAlgebra DEF TypeOK
  <1>3. CASE BatchFull(buffer \o rs)
    <2>1. batch'["run"] = buffer \o rs /\ batch'["flusher"] = <<>> /\ buffer' = <<>>
      BY <1>1, <1>3 DEF HandOver, StartFlush, Tasks
    <2>2. InFlight' = buffer \o rs
      BY <1>2, <2>1, ConcatAlgebra DEF InFlight
    <2> QED
      BY <1>2, <2>1, <2>2, ConcatAlgebra DEF Pending
  <1>4. CASE ~BatchFull(buffer \o rs)
    <2>1. batch' = batch /\ buffer' = buffer \o rs
      BY <1>4 DEF HandOver, Release
    <2>2. InFlight' = <<>>
      BY <1>1, <1>2, <2>1, ConcatAlgebra DEF InFlight
    <2> QED
      BY <1>2, <2>1, <2>2, ConcatAlgebra DEF Pending
  <1> QED
    BY <1>3, <1>4

LEMMA StartFlushPending ==
    ASSUME TypeOK, LockDiscipline, lock = "none", NEW t \in Tasks,
           batch' = [batch EXCEPT ![t] = buffer], buffer' = <<>>, rows' = rows
    PROVE  Pending' = Pending
  <1>1. batch["flusher"] = <<>> /\ batch["run"] = <<>> /\ DOMAIN batch = Tasks
    BY NobodyFlushes DEF TypeOK
  <1>2. buffer \in Seq(Values) /\ rows \in Seq(Values)
    BY DEF TypeOK
  <1>3. InFlight' = buffer
    <2>1. \/ batch'["flusher"] = buffer /\ batch'["run"] = <<>>
          \/ batch'["flusher"] = <<>> /\ batch'["run"] = buffer
      BY <1>1 DEF Tasks
    <2> QED
      BY <1>2, <2>1, ConcatAlgebra DEF InFlight
  <1> QED
    BY <1>2, <1>3, ConcatAlgebra, PendingAtRest DEF Pending

\* The end of a flush: both batches are empty.
LEMMA EndPending ==
    ASSUME TypeOK, LockDiscipline, NEW t \in Tasks, lock = t,
           batch' = [batch EXCEPT ![t] = <<>>]
    PROVE  InFlight' = <<>>
  <1>1. batch'["run"] = <<>> /\ batch'["flusher"] = <<>>
    BY PendingInFlight DEF TypeOK, Tasks
  <1> QED
    BY <1>1, ConcatAlgebra, EmptySeq DEF InFlight

\* Only a worker that was told to stop joins its flusher.
JoinsAfterStop == pc["run"] = "joining" => stop

LEMMA JoinsStep == TypeOK /\ JoinsAfterStop /\ [Next]_vars => JoinsAfterStop'
  <1> SUFFICES ASSUME TypeOK, JoinsAfterStop, [Next]_vars, pc'["run"] = "joining" PROVE stop'
    BY DEF JoinsAfterStop
  <1>1. CASE pc["run"] = "joining"
    <2>1. stop
      BY <1>1 DEF JoinsAfterStop
    <2> QED
      BY <2>1 DEF Next, vars, Historise, RunAcquires, FlusherWakes, FlusherAcquires, DbReplies,
          FlushOk, FlushFails, Stop, RunCancelled, FlusherCancelled, Unwind, Drain
  <1>2. CASE pc["run"] # "joining"
    BY <1>2 DEF Next, vars, Historise, RunAcquires, FlusherWakes, FlusherAcquires, DbReplies,
        FlushOk, FlushFails, Stop, RunCancelled, Cancelled, FlusherCancelled, Unwind, Drain,
        HandOver, FlushBody, StartFlush, Release, Resume, TypeOK, Tasks
  <1> QED
    BY <1>1, <1>2

\* The rows of an asset join at the back.
Records(k) ==
    /\ Pending' = Pending \o Fresh(k) /\ historised' = historised \o Fresh(k)
    /\ UNCHANGED <<samples, faults>>

\* The front segment is stored and leaves; or the INSERT raises, the segment may be
\* stored, and nothing leaves; or a segment is dropped at the back.
Stores(a, b) ==
    /\ Pending = a \o b /\ Pending' = b
    /\ samples' = samples \o a /\ UNCHANGED <<historised, faults>>
Repeats(a, b) ==
    /\ Pending = a \o b /\ Pending' = a \o b
    /\ samples' = samples \o a /\ faults' = faults + 1 /\ UNCHANGED historised
Drops(a, b) ==
    /\ stop /\ Pending = a \o b /\ Pending' = a
    /\ UNCHANGED <<samples, historised, faults>>
Idles == UNCHANGED <<Pending, samples, historised, faults>>

Move ==
    \/ Idles /\ (stop' = stop \/ stop')
    \/ ~stop /\ UNCHANGED stop /\ \E k \in 1..MaxPerAsset : Fresh(k) \in Seq(Values) /\ Records(k)
    \/ /\ UNCHANGED stop
       /\ \E a \in Seq(Values), b \in Seq(Values) :
             Stores(a, b) \/ Repeats(a, b) \/ Drops(a, b)

LEMMA WriterMoves ==
    ASSUME TypeOK, LockDiscipline, JoinsAfterStop, [Next]_vars
    PROVE  Move
  <1>0. /\ samples \in Seq(Values) /\ buffer \in Seq(Values) /\ rows \in Seq(Values)
        /\ batch["run"] \in Seq(Values) /\ batch["flusher"] \in Seq(Values)
        /\ <<>> \in Seq(Values)
    BY EmptySeq DEF TypeOK
  <1>s. ASSUME UNCHANGED <<Pending, samples, historised, faults, stop>> PROVE Move
    BY <1>s DEF Move, Idles
  <1>w. ASSUME NEW a \in Seq(Values), NEW b \in Seq(Values), UNCHANGED stop,
               Stores(a, b) \/ Repeats(a, b) \/ Drops(a, b)
        PROVE  Move
    BY <1>w DEF Move
  <1>1. ASSUME NEW k \in 1..MaxPerAsset, Historise(k) PROVE Move
    <2>1. Fresh(k) \in Seq(Values)
      BY <1>1, FreshTyped DEF Historise
    <2>2. rows = <<>> /\ ~stop /\ UNCHANGED <<samples, stop>>
      BY <1>1 DEF Historise, LockDiscipline
    <2>3. Pending \in Seq(Values) /\ Pending = InFlight \o buffer
      <3>1. InFlight \in Seq(Values)
        BY <1>0, ConcatAlgebra DEF InFlight
      <3>2. InFlight \o buffer \in Seq(Values)
        BY <1>0, <3>1, ConcatAlgebra
      <3> QED
        BY <2>2, <3>2, ConcatAlgebra DEF Pending
    <2>4. Pending' = Pending \o Fresh(k)
      <3>1. CASE LockFree /\ HandOver(Fresh(k)) /\ UNCHANGED rows
        <4>1. Pending' = buffer \o Fresh(k)
          BY <2>1, <2>2, <3>1, HandOverPending DEF LockFree
        <4>2. Pending = buffer
          BY <1>0, <2>2, <3>1, PendingAtRest, ConcatAlgebra DEF LockFree
        <4> QED
          BY <4>1, <4>2
      <3>2. CASE rows' = Fresh(k) /\ UNCHANGED <<lock, buffer, batch>>
        BY <2>3, <3>2 DEF Pending, InFlight
      <3> QED
        BY <1>1, <3>1, <3>2 DEF Historise
    <2>5. Records(k)
      BY <1>1, <2>4 DEF Records, Historise
    <2> QED
      BY <2>1, <2>2, <2>5 DEF Move
  <1>2. CASE RunAcquires
    <2>1. Pending' = buffer \o rows
      BY <1>0, <1>2, HandOverPending DEF RunAcquires
    <2>2. Pending = buffer \o rows
      BY <1>2, PendingAtRest DEF RunAcquires
    <2> QED
      BY <1>2, <1>s, <2>1, <2>2 DEF RunAcquires
  <1>3. ASSUME lock = "none", FlushBody("flusher", "flushing"),
               UNCHANGED <<rows, samples, historised, faults, stop>>
        PROVE  Move
    <2>1. CASE buffer = <<>>
      BY <1>3, <1>s, <2>1 DEF FlushBody, Release, Pending, InFlight
    <2>2. CASE buffer # <<>>
      BY <1>3, <1>s, <2>2, StartFlushPending DEF FlushBody, StartFlush, Tasks
    <2> QED
      BY <2>1, <2>2
  <1>4. CASE FlusherWakes
    BY <1>3, <1>4, <1>s DEF FlusherWakes, LockFree, Pending, InFlight
  <1>5. CASE FlusherAcquires
    BY <1>3, <1>5 DEF FlusherAcquires
  <1>6. ASSUME NEW t \in Tasks, FlushOk(t) PROVE Move
    <2>1. lock = t
      BY <1>6 DEF FlushOk, Flushing, LockDiscipline
    <2>2. Pending' = rows
      <3>1. InFlight' = <<>> /\ buffer' = <<>> /\ rows' = rows
        BY <1>6, <2>1, EndPending, PendingInFlight DEF FlushOk
      <3>2. <<>> \o <<>> \o rows = rows
        BY <1>0, ConcatAlgebra
      <3> QED
        BY <3>1, <3>2 DEF Pending
    <2>3. samples' = samples \o batch[t] /\ stop' = stop
      BY <1>6 DEF FlushOk, Inserted
    <2>4. Stores(batch[t], rows) /\ batch[t] \in Seq(Values)
      BY <1>6, <2>1, <2>2, <2>3, PendingInFlight DEF Stores, FlushOk
    <2> QED
      BY <1>0, <1>w, <2>3, <2>4
  <1>7. ASSUME NEW t \in Tasks, NEW c \in BOOLEAN, FlushFails(t, c) PROVE Move
    <2>1. lock = t
      BY <1>7 DEF FlushFails, Flushing, LockDiscipline
    <2>2. Pending' = Pending
      <3>1. batch[t] \o buffer = batch[t]
        BY <2>1, PendingInFlight, ConcatAlgebra
      <3>2. InFlight' = <<>> /\ buffer' = batch[t] /\ rows' = rows
        BY <1>7, <2>1, <3>1, EndPending DEF FlushFails, Requeued
      <3>3. <<>> \o batch[t] = batch[t]
        BY <2>1, PendingInFlight, ConcatAlgebra
      <3> QED
        BY <2>1, <3>2, <3>3, PendingInFlight DEF Pending
    <2>3. stop' = stop /\ samples' = IF c THEN samples \o batch[t] ELSE samples
      BY <1>7 DEF FlushFails, Inserted
    <2>4. CASE c
      <3>1. Repeats(batch[t], rows) /\ batch[t] \in Seq(Values)
        BY <1>7, <2>1, <2>2, <2>3, <2>4, PendingInFlight DEF Repeats, FlushFails
      <3> QED
        BY <1>0, <1>w, <2>3, <3>1
    <2>5. CASE ~c
      <3>1. Pending = <<>> \o Pending /\ samples = samples \o <<>> /\ Pending \in Seq(Values)
        <4>1. Pending = batch[t] \o rows /\ batch[t] \in Seq(Values)
          BY <2>1, PendingInFlight
        <4>2. Pending \in Seq(Values)
          BY <1>0, <4>1, ConcatAlgebra
        <4> QED
          BY <1>0, <4>2, ConcatEmptySeq
      <3>2. Repeats(<<>>, Pending)
        BY <1>7, <2>2, <2>3, <2>5, <3>1 DEF Repeats, FlushFails
      <3> QED
        BY <1>0, <1>w, <2>3, <3>1, <3>2
    <2> QED
      BY <2>4, <2>5
  <1>8. CASE Stop
    BY <1>8 DEF Stop, Move, Idles, Pending, InFlight
  <1>9. ASSUME NEW c \in BOOLEAN, RunCancelled(c) PROVE Move
    <2>1. /\ stop /\ rows' = <<>> /\ UNCHANGED <<buffer, stop, historised, faults>>
          /\ batch' = [batch EXCEPT !["run"] = <<>>]
          /\ samples' = IF c THEN samples \o batch["run"] ELSE samples
      BY <1>9 DEF RunCancelled, Cancelled, Unwind, Inserted
    <2>2. CASE lock = "run"
      <3>1. Pending = batch["run"] \o <<>> /\ Pending = <<>> \o batch["run"]
        BY <1>0, <2>2, PendingInFlight, ConcatAlgebra DEF Tasks
      <3>2. Pending' = <<>>
        BY <1>0, <2>1, <2>2, EndPending, PendingInFlight, ConcatAlgebra DEF Tasks, Pending
      <3>3. CASE c
        <4>1. samples' = samples \o batch["run"]
          BY <2>1, <3>3
        <4>2. Stores(batch["run"], <<>>)
          BY <1>9, <2>1, <3>1, <3>2, <4>1 DEF Stores
        <4> QED
          BY <1>0, <1>w, <2>1, <4>2
      <3>4. CASE ~c
        <4>1. samples' = samples
          BY <2>1, <3>4
        <4>2. Drops(<<>>, batch["run"])
          BY <2>1, <3>1, <3>2, <4>1 DEF Drops
        <4> QED
          BY <1>0, <1>w, <2>1, <4>2
      <3> QED
        BY <3>3, <3>4
    <2>3. CASE lock # "run"
      <3>1. /\ batch["run"] = <<>> /\ batch'["run"] = <<>>
            /\ batch'["flusher"] = batch["flusher"]
        BY <2>1, <2>3 DEF LockDiscipline, TypeOK, Tasks
      <3>2. samples' = samples
        BY <1>0, <2>1, <3>1, ConcatEmptySeq
      <3>3. InFlight \o buffer \in Seq(Values)
        <4>1. InFlight \in Seq(Values)
          BY <1>0, ConcatAlgebra DEF InFlight
        <4> QED
          BY <1>0, <4>1, ConcatAlgebra
      <3>4. Pending' = InFlight \o buffer
        <4>1. InFlight' = InFlight
          BY <3>1 DEF InFlight
        <4> QED
          BY <2>1, <3>3, <4>1, ConcatEmptySeq DEF Pending
      <3>5. Pending = (InFlight \o buffer) \o rows
        BY DEF Pending
      <3>6. Drops(InFlight \o buffer, rows)
        BY <2>1, <3>2, <3>4, <3>5 DEF Drops
      <3> QED
        BY <1>0, <1>w, <2>1, <3>3, <3>6
    <2> QED
      BY <2>2, <2>3
  <1>10. ASSUME NEW c \in BOOLEAN, FlusherCancelled(c) PROVE Move
    <2>1. /\ UNCHANGED <<rows, buffer, stop, historised, faults>>
          /\ batch' = [batch EXCEPT !["flusher"] = <<>>]
          /\ samples' = IF c THEN samples \o batch["flusher"] ELSE samples
          /\ pc["run"] = "joining"
      BY <1>10 DEF FlusherCancelled, Cancelled, Unwind, Inserted
    <2>2. CASE lock = "flusher"
      <3>1. rows = <<>>
        BY <2>1 DEF LockDiscipline
      <3>2. Pending = batch["flusher"] \o <<>> /\ Pending = <<>> \o batch["flusher"]
        BY <1>0, <2>2, <3>1, PendingInFlight, ConcatAlgebra DEF Tasks
      <3>3. Pending' = <<>>
        BY <1>0, <2>1, <2>2, <3>1, EndPending, PendingInFlight, ConcatAlgebra DEF Tasks, Pending
      <3>4. CASE c
        <4>1. samples' = samples \o batch["flusher"]
          BY <2>1, <3>4
        <4>2. Stores(batch["flusher"], <<>>)
          BY <1>10, <2>1, <3>2, <3>3, <4>1 DEF Stores
        <4> QED
          BY <1>0, <1>w, <2>1, <4>2
      <3>5. CASE ~c
        <4>1. samples' = samples /\ stop
          BY <2>1, <3>5 DEF JoinsAfterStop
        <4>2. Drops(<<>>, batch["flusher"])
          BY <2>1, <3>2, <3>3, <4>1 DEF Drops
        <4> QED
          BY <1>0, <1>w, <2>1, <4>2
      <3> QED
        BY <3>4, <3>5
    <2>3. CASE lock # "flusher"
      <3>1. /\ batch["flusher"] = <<>> /\ batch'["flusher"] = <<>>
            /\ batch'["run"] = batch["run"]
        BY <2>1, <2>3 DEF LockDiscipline, TypeOK, Tasks
      <3>2. samples' = samples
        BY <1>0, <2>1, <3>1, ConcatEmptySeq
      <3>3. InFlight' = InFlight
        BY <3>1 DEF InFlight
      <3> QED
        BY <1>s, <2>1, <3>2, <3>3 DEF Pending
    <2> QED
      BY <2>2, <2>3
  <1>11. CASE Drain
    <2>1. CASE buffer = <<>>
      BY <1>11, <1>s, <2>1 DEF Drain, Pending, InFlight
    <2>2. CASE buffer # <<>>
      BY <1>11, <1>s, <2>2, StartFlushPending DEF Drain, StartFlush, Tasks
    <2> QED
      BY <2>1, <2>2
  <1>12. CASE UNCHANGED vars
    BY <1>12, <1>s DEF vars, Pending, InFlight
  <1> QED
    BY <1>1, <1>2, <1>4, <1>5, <1>6, <1>7, <1>8, <1>9, <1>10, <1>11, <1>12
    DEF Next, DbReplies

-----------------------------------------------------------------------------
(* The writer implements the at-least-once FIFO log                        *)

\* A concatenation can be taken apart again.
LEMMA SplitConcat ==
    ASSUME NEW S, NEW a \in Seq(S), NEW b \in Seq(S)
    PROVE  /\ SubSeq(a \o b, 1, Len(a)) = a
           /\ SubSeq(a \o b, Len(a) + 1, Len(a \o b)) = b
           /\ Len(a) \in Nat /\ Len(b) \in Nat /\ Len(a \o b) = Len(a) + Len(b)
  <1>1. Len(a) \in Nat /\ Len(b) \in Nat /\ Len(a \o b) = Len(a) + Len(b)
    BY ConcatProperties, LenProperties
  <1>2. SubSeq(a \o b, 1, Len(a)) = a
    <2>1. CASE Len(a) = 0
      BY <2>1, SubSeqEmpty, EmptySeq
    <2>2. CASE Len(a) # 0
      <3>1. 1 \in 1..Len(a) /\ Len(a) \in 1..Len(a)
        BY <1>1, <2>2
      <3> QED
        BY <3>1, SubSeqOfConcat1, SubSeqFull
    <2> QED
      BY <2>1, <2>2
  <1>3. SubSeq(a \o b, Len(a) + 1, Len(a \o b)) = b
    <2>1. CASE Len(b) = 0
      BY <1>1, <2>1, SubSeqEmpty, EmptySeq
    <2>2. CASE Len(b) # 0
      <3>1. /\ Len(a) + 1 \in Len(a) + 1 .. Len(a) + Len(b)
            /\ Len(a) + Len(b) \in Len(a) + 1 .. Len(a) + Len(b)
        BY <1>1, <2>2
      <3>2. SubSeq(a \o b, Len(a) + 1, Len(a) + Len(b))
              = SubSeq(b, Len(a) + 1 - Len(a), Len(a) + Len(b) - Len(a))
        BY <3>1, SubSeqOfConcat2
      <3>3. Len(a) + 1 - Len(a) = 1 /\ Len(a) + Len(b) - Len(a) = Len(b)
        BY <1>1
      <3> QED
        BY <1>1, <3>2, <3>3, SubSeqFull
    <2> QED
      BY <2>1, <2>2
  <1> QED
    BY <1>1, <1>2, <1>3

\* The three moves of the log, in terms of concatenation.
LEMMA IsRecord ==
    ASSUME NEW S, NEW a \in Seq(S), NEW b \in Seq(S), Pending = a, Pending' = a \o b,
           ~stop, UNCHANGED <<samples, stop>>
    PROVE  Log!Record \/ UNCHANGED Log!vars
  <1>1. SubSeq(a \o b, 1, Len(a)) = SubSeq(a, 1, Len(a)) /\ Len(a) <= Len(a \o b)
    BY SplitConcat, SubSeqFull
  <1> QED
    BY <1>1 DEF Log!Record, Log!vars, Log!IsPrefix, Pending

LEMMA IsStore ==
    ASSUME NEW S, NEW a \in Seq(S), NEW b \in Seq(S), Pending = a \o b,
           Pending' \in {a \o b, b}, samples \in Seq(S), samples' = samples \o a, stop' = stop
    PROVE  Log!Store \/ UNCHANGED Log!vars
  <1>1. CASE a = <<>>
    BY <1>1, ConcatEmptySeq DEF Log!vars, Pending
  <1>2. CASE a # <<>>
    <2> DEFINE p == a \o b
    <2>1. Len(a) \in 1..Len(p)
      BY <1>2, SplitConcat, EmptySeq
    <2>2. /\ samples' = samples \o SubSeq(p, 1, Len(a))
          /\ Pending' \in {p, SubSeq(p, Len(a) + 1, Len(p))}
      <3>1. SubSeq(p, 1, Len(a)) = a /\ SubSeq(p, Len(a) + 1, Len(p)) = b
        BY SplitConcat
      <3> HIDE DEF p
      <3>2. samples' = samples \o SubSeq(p, 1, Len(a))
        BY <3>1
      <3>3. Pending' \in {p, SubSeq(p, Len(a) + 1, Len(p))}
        BY <3>1 DEF p
      <3> QED
        BY <3>2, <3>3
    <2>3. Pending = p
      OBVIOUS
    <2> HIDE DEF p
    <2>4. \E n \in 1..Len(p) :
              /\ samples' = samples \o SubSeq(p, 1, n)
              /\ Pending' \in {p, SubSeq(p, n + 1, Len(p))}
      BY <2>1, <2>2
    <2> QED
      BY <2>3, <2>4 DEF Log!Store, Pending
  <1> QED
    BY <1>1, <1>2

LEMMA IsAbandon ==
    ASSUME NEW S, NEW a \in Seq(S), NEW b \in Seq(S), Pending = a \o b, Pending' = a,
           stop, UNCHANGED <<samples, stop>>
    PROVE  Log!Abandon \/ UNCHANGED Log!vars
  <1>1. CASE b = <<>>
    BY <1>1, ConcatEmptySeq DEF Log!vars, Pending
  <1>2. CASE b # <<>>
    <2> DEFINE i == Len(a) + 1
               j == Len(a \o b)
    <2>1. i \in 1..j /\ j \in i..j /\ i - 1 = Len(a) /\ j \in Int
      BY <1>2, SplitConcat, EmptySeq
    <2>2. SubSeq(a \o b, 1, i - 1) = a
      BY <2>1, SplitConcat
    <2>3. SubSeq(a \o b, j + 1, j) = <<>>
      BY <2>1, SubSeqEmpty
    <2>4. Pending' = SubSeq(a \o b, 1, i - 1) \o SubSeq(a \o b, j + 1, j)
      BY <2>2, <2>3, ConcatEmptySeq
    <2> HIDE DEF i
    <2> QED
      BY <2>1, <2>4 DEF Log!Abandon, Pending
  <1> QED
    BY <1>1, <1>2

LEMMA LogStep ==
    TypeOK /\ LockDiscipline /\ JoinsAfterStop /\ [Next]_vars => [Log!Next]_(Log!vars)
  <1> SUFFICES ASSUME TypeOK, LockDiscipline, JoinsAfterStop, [Next]_vars
               PROVE  Log!Next \/ UNCHANGED Log!vars
    OBVIOUS
  <1>0. Move /\ samples \in Seq(Values) /\ stop \in BOOLEAN
    BY WriterMoves DEF TypeOK
  <1>1. CASE Idles /\ (stop' = stop \/ stop')
    BY <1>0, <1>1, TypeStep DEF Idles, Log!Next, Log!Close, Log!vars, Pending, TypeOK
  <1>2. ASSUME NEW k \in 1..MaxPerAsset, Fresh(k) \in Seq(Values), Records(k), ~stop, stop' = stop
        PROVE  Log!Next \/ UNCHANGED Log!vars
    BY <1>2, PendingTyped, IsRecord DEF Records, Log!Next
  <1>3. ASSUME NEW a \in Seq(Values), NEW b \in Seq(Values), stop' = stop, Stores(a, b) \/ Repeats(a, b)
        PROVE  Log!Next \/ UNCHANGED Log!vars
    BY <1>0, <1>3, IsStore DEF Stores, Repeats, Log!Next
  <1>4. ASSUME NEW a \in Seq(Values), NEW b \in Seq(Values), stop' = stop, Drops(a, b)
        PROVE  Log!Next \/ UNCHANGED Log!vars
    BY <1>4, IsAbandon DEF Drops, Log!Next
  <1> QED
    BY <1>0, <1>1, <1>2, <1>3, <1>4 DEF Move

LEMMA LogInit == Init => Log!Init
  <1> SUFFICES ASSUME Init PROVE Log!Init
    OBVIOUS
  <1>1. <<>> \o <<>> \o <<>> \o <<>> = <<>>
    BY ConcatAlgebra, EmptySeq
  <1>2. batch["flusher"] = <<>> /\ batch["run"] = <<>>
    BY DEF Init, Tasks
  <1> QED
    BY <1>1, <1>2 DEF Init, Log!Init, InFlight

\* To the rest of the backend the writer is the log: whatever the two tasks, the
\* database and the shutdown do, rows are recorded at the back and stored from the
\* front, in segments, and only a worker that is closing forgets one.
THEOREM WriterImplementsLog == Spec => ImplementsHistoryLog
  <1>1. Init => TypeOK /\ LockDiscipline /\ JoinsAfterStop /\ Log!Init
    BY TypeInit, LockInit, LogInit DEF Init, JoinsAfterStop, Tasks
  <1>2. TypeOK /\ LockDiscipline /\ JoinsAfterStop /\ [Next]_vars
          => (TypeOK /\ LockDiscipline /\ JoinsAfterStop)'
    BY TypeStep, LockStep, JoinsStep
  <1> QED
    BY <1>1, <1>2, LogStep, PTL DEF Spec, ImplementsHistoryLog, Log!Spec

-----------------------------------------------------------------------------
(* The batch threshold *)

\* Without faults a buffer is only ever left below the threshold.
BelowThreshold == faults = 0 => Len(buffer) < BatchSize

LEMMA ThresholdStep == TypeOK /\ BelowThreshold /\ [Next]_vars => BelowThreshold'
  <1> SUFFICES ASSUME TypeOK, BelowThreshold, [Next]_vars PROVE BelowThreshold'
    OBVIOUS
  <1>0. BatchSize \in Nat /\ BatchSize > 0 /\ Len(<<>>) = 0 /\ faults \in Nat
    BY WriterAssumption, EmptySeq DEF TypeOK
  <1>1. ASSUME NEW rs \in Seq(Values), HandOver(rs) PROVE Len(buffer') < BatchSize
    <2>1. Len(buffer \o rs) \in Nat
      BY <1>1, ConcatProperties, LenProperties DEF TypeOK
    <2> QED
      BY <1>0, <1>1, <2>1 DEF HandOver, BatchFull, StartFlush, Release
  <1>2. ASSUME NEW t \in Tasks, FlushBody(t, "flushing") PROVE Len(buffer') < BatchSize
    BY <1>0, <1>2 DEF FlushBody, StartFlush, Release
  <1>3. ASSUME NEW k \in 1..MaxPerAsset, Historise(k) PROVE BelowThreshold'
    <2>1. Fresh(k) \in Seq(Values)
      BY <1>3, FreshTyped DEF Historise
    <2> QED
      BY <1>1, <1>3, <2>1 DEF Historise, BelowThreshold
  <1>4. CASE RunAcquires
    BY <1>1, <1>4 DEF RunAcquires, BelowThreshold, TypeOK
  <1>5. CASE FlusherWakes \/ FlusherAcquires
    BY <1>2, <1>5 DEF FlusherWakes, FlusherAcquires, BelowThreshold, Tasks
  <1>6. ASSUME NEW t \in Tasks, DbReplies(t) PROVE BelowThreshold'
    <2>1. CASE FlushOk(t)
      BY <2>1 DEF FlushOk, BelowThreshold
    <2>2. ASSUME NEW c \in BOOLEAN, FlushFails(t, c) PROVE BelowThreshold'
      <3>1. faults' = faults + 1
        BY <2>2 DEF FlushFails
      <3> QED
        BY <1>0, <3>1 DEF BelowThreshold
    <2> QED
      BY <1>6, <2>1, <2>2 DEF DbReplies
  <1>7. CASE Drain
    BY <1>0, <1>7 DEF Drain, StartFlush, BelowThreshold
  <1>8. CASE Stop \/ (\E c \in BOOLEAN : RunCancelled(c) \/ FlusherCancelled(c)) \/ UNCHANGED vars
    BY <1>8 DEF Stop, RunCancelled, FlusherCancelled, Unwind, vars, BelowThreshold
  <1> QED
    BY <1>3, <1>4, <1>5, <1>6, <1>7, <1>8 DEF Next

\* Without faults the buffer never rests at or above the batch threshold: the
\* comparison after the extend leaves no size behind that nothing would flush.
THEOREM WriterFlushesInTime == Spec => []BatchTrigger
  <1>1. Init => TypeOK /\ BelowThreshold
    BY TypeInit, EmptySeq, WriterAssumption DEF Init, BelowThreshold
  <1>2. BelowThreshold => BatchTrigger
    BY DEF BelowThreshold, BatchTrigger
  <1> QED
    BY <1>1, <1>2, TypeStep, ThresholdStep, PTL DEF Spec

-----------------------------------------------------------------------------
(* The end of run *)

\* run drains after the flusher has ended, and ends with what it could not store.
EndsInOrder ==
    /\ pc["run"] \in {"draining", "ended"} => pc["flusher"] = "ended"
    /\ pc["run"] = "ended" /\ faults = 0 => buffer = <<>>

\* Where a row can be.
Held == Range(buffer) \cup Range(rows) \cup Range(batch["run"]) \cup Range(batch["flusher"])

NoRowForgotten == Range(historised) \subseteq Range(samples) \cup lost \cup Held

LEMMA EndsStep == TypeOK /\ LockDiscipline /\ EndsInOrder /\ [Next]_vars => EndsInOrder'
  <1> SUFFICES ASSUME TypeOK, LockDiscipline, EndsInOrder, [Next]_vars PROVE EndsInOrder'
    OBVIOUS
  <1> USE DEF Tasks
  <1>1. ASSUME pc["run"] \notin {"draining", "ended"}, pc'["run"] \notin {"draining", "ended"}
        PROVE  EndsInOrder'
    BY <1>1 DEF EndsInOrder
  <1>2. CASE (\E k \in 1..MaxPerAsset : Historise(k)) \/ RunAcquires
    BY <1>1, <1>2
    DEF Historise, RunAcquires, HandOver, StartFlush, Release, Resume, TypeOK
  <1>3. CASE FlusherWakes \/ FlusherAcquires
    BY <1>3 DEF FlusherWakes, FlusherAcquires, FlushBody, StartFlush, Release, Resume, EndsInOrder,
                TypeOK
  <1>4. CASE DbReplies("flusher")
    BY <1>4 DEF DbReplies, FlushOk, FlushFails, Flushing, Resume, EndsInOrder, TypeOK
  <1>5. CASE FlushOk("run")
    <2>1. buffer = <<>> /\ buffer' = buffer /\ pc'["flusher"] = pc["flusher"]
      BY <1>5 DEF FlushOk, Flushing, LockDiscipline, TypeOK
    <2> QED
      BY <1>5, <2>1 DEF FlushOk, Flushing, Resume, EndsInOrder, TypeOK
  <1>6. ASSUME NEW c \in BOOLEAN, FlushFails("run", c) PROVE EndsInOrder'
    <2>1. faults' # 0 /\ pc'["flusher"] = pc["flusher"]
      BY <1>6 DEF FlushFails, TypeOK
    <2> QED
      BY <1>6, <2>1 DEF FlushFails, Flushing, Resume, EndsInOrder, TypeOK
  <1>7. ASSUME NEW c \in BOOLEAN, RunCancelled(c) PROVE EndsInOrder'
    BY <1>1, <1>7 DEF RunCancelled, Cancelled, Unwind, TypeOK
  <1>8. ASSUME NEW c \in BOOLEAN, FlusherCancelled(c) PROVE EndsInOrder'
    BY <1>8 DEF FlusherCancelled, Unwind, EndsInOrder, TypeOK
  <1>9. CASE Drain
    BY <1>9 DEF Drain, FlusherJoined, StartFlush, EndsInOrder, TypeOK
  <1>10. CASE Stop \/ UNCHANGED vars
    BY <1>10 DEF Stop, vars, EndsInOrder
  <1> QED
    BY <1>2, <1>3, <1>4, <1>5, <1>6, <1>7, <1>8, <1>9, <1>10 DEF Next, DbReplies

LEMMA NothingInEmpty == Range(<<>>) = {}
  <1>1. <<>> \in Seq({}) /\ Len(<<>>) = 0
    BY EmptySeq
  <1>2. Range(<<>>) \in SUBSET {}
    BY <1>1, RangeOfSeq
  <1> QED
    BY <1>2

\* Moving a content into the batch of a task that has none loses no row of it.
LEMMA StartFlushHolds ==
    ASSUME TypeOK, LockDiscipline, lock = "none", NEW t \in Tasks, NEW content, NEW where,
           StartFlush(t, content, where)
    PROVE  Range(batch["run"]) \cup Range(batch["flusher"]) \cup Range(content)
             \subseteq Range(batch'["run"]) \cup Range(batch'["flusher"])
  <1>1. batch["run"] = <<>> /\ batch["flusher"] = <<>> /\ Range(<<>>) = {}
    BY NobodyFlushes, NothingInEmpty
  <1>2. batch'[t] = content
    BY DEF StartFlush, TypeOK
  <1> QED
    BY <1>1, <1>2 DEF Tasks

LEMMA HandOverHolds ==
    ASSUME TypeOK, LockDiscipline, lock = "none", NEW rs \in Seq(Values), HandOver(rs)
    PROVE  Range(buffer) \cup Range(rs) \cup Range(batch["run"]) \cup Range(batch["flusher"])
             \subseteq Range(buffer') \cup Range(batch'["run"]) \cup Range(batch'["flusher"])
  <1>1. Range(buffer \o rs) = Range(buffer) \cup Range(rs)
    BY RangeConcatenation DEF TypeOK
  <1>2. CASE StartFlush("run", buffer \o rs, "flushing")
    BY <1>1, <1>2, StartFlushHolds DEF Tasks
  <1>3. CASE Release("run", buffer \o rs)
    BY <1>1, <1>3 DEF Release
  <1> QED
    BY <1>2, <1>3 DEF HandOver

LEMMA ForgottenStep ==
    TypeOK /\ LockDiscipline /\ NoRowForgotten /\ [Next]_vars => NoRowForgotten'
  <1> SUFFICES ASSUME TypeOK, LockDiscipline, NoRowForgotten, [Next]_vars PROVE NoRowForgotten'
    OBVIOUS
  <1> USE DEF NoRowForgotten, Held
  <1>0. /\ samples \in Seq(Values) /\ buffer \in Seq(Values) /\ rows \in Seq(Values)
        /\ historised \in Seq(Values) /\ Range(<<>>) = {}
        /\ \A t \in Tasks : batch[t] \in Seq(Values)
    BY NothingInEmpty DEF TypeOK, Tasks
  <1>1. ASSUME NEW k \in 1..MaxPerAsset, Historise(k) PROVE NoRowForgotten'
    <2>1. Fresh(k) \in Seq(Values)
      BY <1>1, FreshTyped DEF Historise
    <2>2. /\ Range(historised') = Range(historised) \cup Range(Fresh(k))
          /\ Range(rows) = {} /\ UNCHANGED <<samples, lost>>
      BY <1>0, <1>1, <2>1, RangeConcatenation DEF Historise, LockDiscipline
    <2>3. CASE LockFree /\ HandOver(Fresh(k)) /\ UNCHANGED rows
      BY <2>1, <2>2, <2>3, HandOverHolds DEF LockFree
    <2>4. CASE rows' = Fresh(k) /\ UNCHANGED <<lock, buffer, batch>>
      BY <2>2, <2>4
    <2> QED
      BY <1>1, <2>3, <2>4 DEF Historise
  <1>2. CASE RunAcquires
    BY <1>0, <1>2, HandOverHolds DEF RunAcquires
  <1>3. ASSUME lock = "none", NEW t \in Tasks, NEW where, StartFlush(t, buffer, where),
               UNCHANGED <<rows, samples, lost, historised>>
        PROVE  NoRowForgotten'
    BY <1>3, StartFlushHolds
  <1>4. ASSUME lock = "none", FlushBody("flusher", "flushing"),
               UNCHANGED <<rows, samples, lost, historised>>
        PROVE  NoRowForgotten'
    BY <1>3, <1>4 DEF FlushBody, Release, Tasks
  <1>5. CASE FlusherWakes \/ FlusherAcquires
    BY <1>4, <1>5 DEF FlusherWakes, FlusherAcquires, LockFree
  <1>6. ASSUME NEW t \in Tasks, batch' = [batch EXCEPT ![t] = <<>>]
        PROVE  Range(batch["run"]) \cup Range(batch["flusher"])
                 = Range(batch[t]) \cup Range(batch'["run"]) \cup Range(batch'["flusher"])
    BY <1>0, <1>6 DEF TypeOK, Tasks
  <1>7. ASSUME NEW t \in Tasks
        PROVE  /\ Range(samples \o batch[t]) = Range(samples) \cup Range(batch[t])
               /\ Range(batch[t] \o buffer) = Range(batch[t]) \cup Range(buffer)
               /\ Range(batch[t] \o rows) = Range(batch[t]) \cup Range(rows)
    BY <1>0, RangeConcatenation
  <1>8. ASSUME NEW t \in Tasks, FlushOk(t) PROVE NoRowForgotten'
    BY <1>6, <1>7, <1>8 DEF FlushOk, Inserted
  <1>9. ASSUME NEW t \in Tasks, NEW c \in BOOLEAN, FlushFails(t, c) PROVE NoRowForgotten'
    <2>1. Range(samples) \subseteq Range(samples')
      BY <1>7, <1>9 DEF FlushFails, Inserted
    <2> QED
      BY <1>6, <1>7, <1>9, <2>1 DEF FlushFails, Requeued
  <1>10. ASSUME NEW c \in BOOLEAN, RunCancelled(c) PROVE NoRowForgotten'
    <2>1. Range(samples) \subseteq Range(samples')
      BY <1>7, <1>10 DEF RunCancelled, Unwind, Inserted, Tasks
    <2>2. lost' = lost \cup Range(batch["run"]) \cup Range(rows)
      BY <1>7, <1>10 DEF RunCancelled, Unwind, Tasks
    <2> QED
      BY <1>6, <1>10, <2>1, <2>2 DEF RunCancelled, Unwind, Tasks
  <1>11. ASSUME NEW c \in BOOLEAN, FlusherCancelled(c) PROVE NoRowForgotten'
    <2>1. Range(samples) \subseteq Range(samples')
      BY <1>7, <1>11 DEF FlusherCancelled, Unwind, Inserted, Tasks
    <2> QED
      BY <1>6, <1>11, <2>1 DEF FlusherCancelled, Unwind, Tasks
  <1>12. CASE Drain
    BY <1>3, <1>12 DEF Drain, Tasks
  <1>13. CASE Stop \/ UNCHANGED vars
    BY <1>13 DEF Stop, vars
  <1> QED
    BY <1>1, <1>2, <1>5, <1>8, <1>9, <1>10, <1>11, <1>12, <1>13 DEF Next, DbReplies

\* When run has returned nobody writes any more, the lock is free and no row has
\* gone anywhere but into the table, with a cancellation, or back to the buffer
\* after a final INSERT that raised.
THEOREM WriterDrains == Spec => []DrainComplete
  <1>1. Init => TypeOK /\ LockDiscipline /\ EndsInOrder /\ NoRowForgotten
    <2>1. Init => Range(historised) = {}
      BY NothingInEmpty DEF Init
    <2> QED
      BY <2>1, TypeInit, LockInit DEF Init, EndsInOrder, NoRowForgotten, Tasks
  <1>2. TypeOK /\ LockDiscipline /\ EndsInOrder /\ NoRowForgotten => DrainComplete
    <2> SUFFICES ASSUME TypeOK, LockDiscipline, EndsInOrder, NoRowForgotten, pc["run"] = "ended"
                 PROVE  /\ lock = "none" /\ pc["flusher"] = "ended" /\ InFlight = <<>>
                        /\ Range(historised) \subseteq Range(samples) \cup lost \cup Range(buffer)
                        /\ faults = 0 => buffer = <<>>
      BY DEF DrainComplete
    <2>1. pc["flusher"] = "ended" /\ (faults = 0 => buffer = <<>>)
      BY DEF EndsInOrder
    <2>2. lock = "none"
      BY <2>1 DEF LockDiscipline, TypeOK, Tasks
    <2>3. batch["run"] = <<>> /\ batch["flusher"] = <<>> /\ rows = <<>>
      BY <2>2, NobodyFlushes DEF LockDiscipline
    <2>4. InFlight = <<>>
      BY <2>3, ConcatAlgebra, EmptySeq DEF InFlight
    <2>5. Range(<<>>) = {}
      BY NothingInEmpty
    <2> QED
      BY <2>1, <2>2, <2>3, <2>4, <2>5 DEF NoRowForgotten, Held
  <1> QED
    BY <1>1, <1>2, TypeStep, LockStep, EndsStep, ForgottenStep, PTL DEF Spec

-----------------------------------------------------------------------------
(* Duplicates: only a commit whose answer is lost stores a row again       *)

\* How often a row occurs in a sequence.
Copies(s, r) == Cardinality({i \in DOMAIN s : s[i] = r})

\* No row is held twice, a row that is still held has one copy less than the bound,
\* and rows that have not arrived yet are neither held nor stored.
CopiesInv ==
    /\ IsInjective(Pending)
    /\ Range(Pending) \cup Range(samples) \subseteq 1..Len(historised)
    /\ \A r \in Values :
          /\ Copies(samples, r) <= 1 + faults
          /\ r \in Range(Pending) => Copies(samples, r) <= faults

\* No element occurs twice in a concatenation: neither in a part, nor in both.
LEMMA InjectiveConcat ==
    ASSUME NEW S, NEW a \in Seq(S), NEW b \in Seq(S)
    PROVE  IsInjective(a \o b)
             <=> IsInjective(a) /\ IsInjective(b) /\ Range(a) \cap Range(b) = {}
  <1>1. /\ Len(a) \in Nat /\ Len(b) \in Nat
        /\ DOMAIN a = 1..Len(a) /\ DOMAIN b = 1..Len(b)
        /\ DOMAIN (a \o b) = 1..(Len(a) + Len(b))
        /\ \A i \in 1..Len(a) : (a \o b)[i] = a[i]
        /\ \A i \in 1..Len(b) : (a \o b)[Len(a) + i] = b[i]
    <2>1. a \o b \in Seq(S) /\ Len(a \o b) = Len(a) + Len(b)
      BY ConcatProperties
    <2>2. Len(a) \in Nat /\ Len(b) \in Nat /\ DOMAIN a = 1..Len(a) /\ DOMAIN b = 1..Len(b)
          /\ DOMAIN (a \o b) = 1..Len(a \o b)
      BY <2>1, LenProperties
    <2> QED
      BY <2>1, <2>2, ConcatProperties
  <1>2. ASSUME IsInjective(a \o b) PROVE IsInjective(a)
    BY <1>1, <1>2 DEF IsInjective
  <1>3. ASSUME IsInjective(a \o b) PROVE IsInjective(b)
    <2> SUFFICES ASSUME NEW i \in 1..Len(b), NEW j \in 1..Len(b), b[i] = b[j] PROVE i = j
      BY <1>1 DEF IsInjective
    <2>1. Len(a) + i \in DOMAIN (a \o b) /\ Len(a) + j \in DOMAIN (a \o b)
      BY <1>1
    <2>2. Len(a) + i = Len(a) + j
      BY <1>1, <1>3, <2>1 DEF IsInjective
    <2> QED
      BY <1>1, <2>2
  <1>4. ASSUME IsInjective(a \o b) PROVE Range(a) \cap Range(b) = {}
    <2> SUFFICES ASSUME NEW i \in 1..Len(a), NEW j \in 1..Len(b), a[i] = b[j] PROVE FALSE
      BY <1>1 DEF Range
    <2>1. i \in DOMAIN (a \o b) /\ Len(a) + j \in DOMAIN (a \o b) /\ i # Len(a) + j
      BY <1>1
    <2> QED
      BY <1>1, <1>4, <2>1 DEF IsInjective
  <1>5. ASSUME IsInjective(a), IsInjective(b), Range(a) \cap Range(b) = {}
        PROVE  IsInjective(a \o b)
    <2> SUFFICES ASSUME NEW i \in 1..(Len(a) + Len(b)), NEW j \in 1..(Len(a) + Len(b)),
                        (a \o b)[i] = (a \o b)[j]
                 PROVE  i = j
      BY <1>1 DEF IsInjective
    <2>1. \A k \in 1..(Len(a) + Len(b)) :
             \/ k \in 1..Len(a) /\ (a \o b)[k] = a[k] /\ a[k] \in Range(a)
             \/ \E m \in 1..Len(b) : k = Len(a) + m /\ (a \o b)[k] = b[m] /\ b[m] \in Range(b)
      <3> TAKE k \in 1..(Len(a) + Len(b))
      <3>1. CASE k \in 1..Len(a)
        BY <1>1, <3>1 DEF Range
      <3>2. CASE k \notin 1..Len(a)
        <4>1. k - Len(a) \in 1..Len(b) /\ k = Len(a) + (k - Len(a))
          BY <1>1, <3>2
        <4> QED
          BY <1>1, <4>1 DEF Range
      <3> QED
        BY <3>1, <3>2
    <2>2. CASE i \in 1..Len(a) /\ j \in 1..Len(a)
      BY <1>1, <1>5, <2>2 DEF IsInjective
    <2>3. CASE i \notin 1..Len(a) /\ j \notin 1..Len(a)
      <3>1. PICK m \in 1..Len(b) : i = Len(a) + m /\ (a \o b)[i] = b[m]
        BY <2>1, <2>3
      <3>2. PICK n \in 1..Len(b) : j = Len(a) + n /\ (a \o b)[j] = b[n]
        BY <2>1, <2>3
      <3>3. m = n
        BY <1>1, <1>5, <3>1, <3>2 DEF IsInjective
      <3> QED
        BY <3>1, <3>2, <3>3
    <2>4. CASE i \in 1..Len(a) /\ j \notin 1..Len(a)
      <3>1. (a \o b)[i] \in Range(a)
        BY <1>1, <2>4 DEF Range
      <3>2. (a \o b)[j] \in Range(b)
        BY <2>1, <2>4
      <3> QED
        BY <1>5, <3>1, <3>2
    <2>5. CASE i \notin 1..Len(a) /\ j \in 1..Len(a)
      <3>1. (a \o b)[j] \in Range(a)
        BY <1>1, <2>5 DEF Range
      <3>2. (a \o b)[i] \in Range(b)
        BY <2>1, <2>5
      <3> QED
        BY <1>5, <3>1, <3>2
    <2> QED
      BY <2>2, <2>3, <2>4, <2>5
  <1> QED
    BY <1>2, <1>3, <1>4, <1>5

\* Appending a segment without repetitions adds one copy of each of its elements.
LEMMA CopiesConcat ==
    ASSUME NEW S, NEW s \in Seq(S), NEW a \in Seq(S), IsInjective(a), NEW r
    PROVE  /\ Copies(s, r) \in Nat
           /\ Copies(s \o a, r) = IF r \in Range(a) THEN Copies(s, r) + 1 ELSE Copies(s, r)
  <1> DEFINE P == {i \in DOMAIN s : s[i] = r}
             Q == {i \in DOMAIN (s \o a) : (s \o a)[i] = r}
  <1>1. /\ Len(s) \in Nat /\ Len(a) \in Nat
        /\ DOMAIN s = 1..Len(s) /\ DOMAIN a = 1..Len(a)
        /\ DOMAIN (s \o a) = 1..(Len(s) + Len(a))
        /\ \A i \in 1..(Len(s) + Len(a)) :
              (s \o a)[i] = IF i <= Len(s) THEN s[i] ELSE a[i - Len(s)]
    <2>1. s \o a \in Seq(S) /\ Len(s \o a) = Len(s) + Len(a)
      BY ConcatProperties
    <2> QED
      BY <2>1, LenProperties, ConcatProperties
  <1>2. IsFiniteSet(P) /\ Cardinality(P) \in Nat
    <2>1. IsFiniteSet(1..Len(s)) /\ P \in SUBSET (1..Len(s))
      BY <1>1, FS_Interval
    <2>2. IsFiniteSet(P)
      BY <2>1, FS_Subset
    <2> QED
      BY <2>2, FS_CardinalityType
  <1>3. CASE r \in Range(a)
    <2>1. PICK j \in 1..Len(a) : a[j] = r
      BY <1>1, <1>3 DEF Range
    <2>2. Q = P \cup {Len(s) + j}
      <3>1. ASSUME NEW i \in Q PROVE i \in P \cup {Len(s) + j}
        <4>1. CASE i <= Len(s)
          BY <1>1, <3>1, <4>1
        <4>2. CASE ~(i <= Len(s))
          <5>1. i - Len(s) \in 1..Len(a) /\ a[i - Len(s)] = r
            BY <1>1, <3>1, <4>2
          <5>2. i - Len(s) = j
            BY <1>1, <2>1, <5>1 DEF IsInjective
          <5>3. i \in 1..(Len(s) + Len(a))
            BY <1>1, <3>1
          <5>4. i = Len(s) + j
            BY <1>1, <5>2, <5>3
          <5> QED
            BY <5>4
        <4> QED
          BY <4>1, <4>2
      <3>2. Len(s) + j \in Q
        BY <1>1, <2>1
      <3>3. P \subseteq Q
        BY <1>1
      <3> QED
        BY <3>1, <3>2, <3>3
    <2>3. Len(s) + j \notin P
      BY <1>1
    <2>4. Cardinality(Q) = Cardinality(P) + 1
      <3> DEFINE x == Len(s) + j
      <3> HIDE DEF P, Q, x
      <3> QED
        BY <1>2, <2>2, <2>3, FS_AddElement DEF x
    <2> QED
      BY <1>2, <1>3, <2>4 DEF Copies
  <1>4. CASE r \notin Range(a)
    <2>1. \A i \in 1..Len(a) : a[i] # r
      BY <1>1, <1>4 DEF Range
    <2>2. Q = P
      BY <1>1, <2>1
    <2> QED
      BY <1>2, <1>4, <2>2 DEF Copies
  <1> QED
    BY <1>3, <1>4

\* What does not occur has no copy.
LEMMA NoCopies ==
    ASSUME NEW s, NEW r, r \notin Range(s)
    PROVE  Copies(s, r) = 0
  <1>1. {i \in DOMAIN s : s[i] = r} = {}
    BY DEF Range
  <1> QED
    BY <1>1, FS_EmptySet DEF Copies

\* The rows of an asset are numbered on from the last one.
LEMMA FreshRows ==
    ASSUME TypeOK, NEW k \in 1..MaxPerAsset, Fresh(k) \in Seq(Values)
    PROVE  /\ IsInjective(Fresh(k))
           /\ \A r \in Range(Fresh(k)) : r \in 1..(Len(historised) + k) /\ r > Len(historised)
           /\ Len(historised \o Fresh(k)) = Len(historised) + k /\ Len(historised) \in Nat
  <1>1. Len(historised) \in Nat /\ k \in Nat
    BY WriterAssumption, LenProperties DEF TypeOK
  <1>2. DOMAIN Fresh(k) = 1..k /\ \A i \in 1..k : Fresh(k)[i] = Len(historised) + i
    BY DEF Fresh
  <1>3. Len(Fresh(k)) = k
    BY <1>1, <1>2, LenProperties
  <1>4. IsInjective(Fresh(k))
    BY <1>1, <1>2 DEF IsInjective
  <1>5. \A r \in Range(Fresh(k)) : r \in 1..(Len(historised) + k) /\ r > Len(historised)
    BY <1>1, <1>2 DEF Range
  <1>6. Len(historised \o Fresh(k)) = Len(historised) + k
    <2>1. historised \in Seq(Values)
      BY DEF TypeOK
    <2>2. Len(historised \o Fresh(k)) = Len(historised) + Len(Fresh(k))
      BY <2>1, ConcatProperties
    <2> QED
      BY <1>3, <2>2
  <1> QED
    BY <1>1, <1>4, <1>5, <1>6

\* The rows of an asset have no copy yet.
LEMMA RecordCopies ==
    ASSUME TypeOK, CopiesInv, NEW k \in 1..MaxPerAsset, Fresh(k) \in Seq(Values), Records(k)
    PROVE  CopiesInv'
  <1>1. /\ Pending \in Seq(Values) /\ Len(historised) \in Nat /\ faults \in Nat
        /\ \A r \in Range(Fresh(k)) : r \in 1..(Len(historised) + k) /\ r > Len(historised)
        /\ Len(historised') = Len(historised) + k
    BY PendingTyped, FreshRows DEF Records, TypeOK
  <1>2. Range(Pending') = Range(Pending) \cup Range(Fresh(k))
    BY <1>1, RangeConcatenation DEF Records
  <1>3. Range(Pending) \cap Range(Fresh(k)) = {}
    BY <1>1 DEF CopiesInv
  <1>4. IsInjective(Pending')
    BY <1>1, <1>3, InjectiveConcat, FreshRows DEF CopiesInv, Records
  <1>5. Range(Pending') \cup Range(samples') \subseteq 1..Len(historised')
    <2>1. \A r \in 1..Len(historised) : r \in 1..(Len(historised) + k)
      BY <1>1, WriterAssumption
    <2> QED
      BY <1>1, <1>2, <2>1 DEF CopiesInv, Records
  <1>6. \A r \in Range(Fresh(k)) : Copies(samples, r) = 0
    <2>1. \A r \in Range(Fresh(k)) : r \notin Range(samples)
      BY <1>1 DEF CopiesInv
    <2> QED
      BY <2>1, NoCopies
  <1> QED
    BY <1>1, <1>2, <1>4, <1>5, <1>6 DEF CopiesInv, Records

\* Storing the front segment, whether it leaves or stays.
LEMMA StoreCopies ==
    ASSUME TypeOK, CopiesInv, NEW a \in Seq(Values), NEW b \in Seq(Values),
           Stores(a, b) \/ Repeats(a, b)
    PROVE  CopiesInv'
  <1>1. /\ Pending = a \o b /\ samples \in Seq(Values) /\ samples' = samples \o a
        /\ historised' = historised /\ faults \in Nat
    <2>1. samples \in Seq(Values) /\ faults \in Nat
      BY DEF TypeOK
    <2>2. CASE Stores(a, b)
      BY <2>1, <2>2 DEF Stores
    <2>3. CASE Repeats(a, b)
      BY <2>1, <2>3 DEF Repeats
    <2> QED
      BY <2>2, <2>3
  <1>2. /\ IsInjective(a) /\ IsInjective(b) /\ Range(a) \cap Range(b) = {}
        /\ Range(Pending) = Range(a) \cup Range(b)
        /\ Range(samples') = Range(samples) \cup Range(a)
    BY <1>1, InjectiveConcat, RangeConcatenation DEF CopiesInv
  <1>3. \A r \in Values :
          /\ Copies(samples, r) \in Nat
          /\ Copies(samples', r)
               = IF r \in Range(a) THEN Copies(samples, r) + 1 ELSE Copies(samples, r)
    BY <1>1, <1>2, CopiesConcat
  <1>4. CASE Stores(a, b)
    <2>1. Pending' = b /\ faults' = faults
      BY <1>4 DEF Stores
    <2>2. ASSUME NEW r \in Values
          PROVE  /\ Copies(samples, r)' <= 1 + faults'
                 /\ r \in Range(b) => Copies(samples, r)' <= faults'
      <3>1. /\ Copies(samples, r) \in Nat /\ Copies(samples, r) <= 1 + faults
            /\ r \in Range(a) \cup Range(b) => Copies(samples, r) <= faults
        BY <1>2, <1>3 DEF CopiesInv
      <3> QED
        BY <1>1, <1>2, <1>3, <2>1, <3>1
    <2> QED
      BY <1>1, <1>2, <2>1, <2>2 DEF CopiesInv
  <1>5. CASE Repeats(a, b)
    <2>1. Pending' = Pending /\ faults' = faults + 1
      BY <1>5 DEF Repeats
    <2>2. ASSUME NEW r \in Values
          PROVE  /\ Copies(samples, r)' <= 1 + faults'
                 /\ r \in Range(Pending) => Copies(samples, r)' <= faults'
      <3>1. Copies(samples, r) \in Nat /\ Copies(samples, r) <= 1 + faults
            /\ (r \in Range(Pending) => Copies(samples, r) <= faults)
        BY <1>3 DEF CopiesInv
      <3> QED
        BY <1>1, <1>2, <1>3, <2>1, <3>1
    <2> QED
      BY <1>1, <1>2, <2>1, <2>2 DEF CopiesInv
  <1> QED
    BY <1>4, <1>5

LEMMA CopiesStep ==
    TypeOK /\ LockDiscipline /\ JoinsAfterStop /\ CopiesInv /\ [Next]_vars => CopiesInv'
  <1> SUFFICES ASSUME TypeOK, LockDiscipline, JoinsAfterStop, CopiesInv, [Next]_vars
               PROVE  CopiesInv'
    OBVIOUS
  <1>1. Move
    BY WriterMoves
  <1>2. CASE Idles
    BY <1>2 DEF Idles, CopiesInv
  <1>3. ASSUME NEW a \in Seq(Values), NEW b \in Seq(Values), Drops(a, b) PROVE CopiesInv'
    <2>1. Pending = a \o b /\ Pending' = a /\ UNCHANGED <<samples, historised, faults>>
      BY <1>3 DEF Drops
    <2>2. IsInjective(a) /\ Range(a) \subseteq Range(Pending)
      BY <2>1, InjectiveConcat, RangeConcatenation DEF CopiesInv
    <2> QED
      BY <2>1, <2>2 DEF CopiesInv
  <1> QED
    BY <1>1, <1>2, <1>3, RecordCopies, StoreCopies DEF Move

LEMMA CopiesInit == Init => CopiesInv
  <1> SUFFICES ASSUME Init PROVE CopiesInv
    OBVIOUS
  <1>1. Pending = <<>>
    BY LogInit DEF Log!Init, Pending
  <1>2. Range(<<>>) = {} /\ IsInjective(<<>>)
    BY NothingInEmpty, EmptySeq DEF IsInjective
  <1>3. samples = <<>> /\ faults = 0
    BY DEF Init
  <1>4. \A r \in Values : Copies(samples, r) = 0
    BY <1>2, <1>3, NoCopies
  <1> QED
    BY <1>1, <1>2, <1>3, <1>4 DEF CopiesInv

\* Whatever is retried, re-queued or cancelled, a row has at most one copy more than
\* INSERTs have raised: the flush itself never stores a row twice.
THEOREM WriterBoundsDuplicates == Spec => []DuplicatesBounded
  <1>1. Init => TypeOK /\ LockDiscipline /\ JoinsAfterStop /\ CopiesInv
    BY TypeInit, LockInit, CopiesInit DEF Init, JoinsAfterStop, Tasks
  <1>2. TypeOK /\ LockDiscipline /\ JoinsAfterStop /\ CopiesInv /\ [Next]_vars
          => (TypeOK /\ LockDiscipline /\ JoinsAfterStop /\ CopiesInv)'
    BY TypeStep, LockStep, JoinsStep, CopiesStep
  <1>3. TypeOK /\ CopiesInv => DuplicatesBounded
    BY RangeTyped DEF TypeOK, CopiesInv, DuplicatesBounded, Copies
  <1> QED
    BY <1>1, <1>2, <1>3, PTL DEF Spec
=============================================================================
