------------------------- MODULE NorthIngestProofs --------------------------
(***************************************************************************)
(* Safety of the NorthBound acquisition for every set of assets, signals   *)
(* and alarms and any number of faults and restarts.                       *)
(***************************************************************************)
EXTENDS NorthIngest, SequenceTheorems, FiniteSetTheorems, TLAPS

\* What the poll loop has done to the present asset.
PollInv ==
    /\ pc \in {"sync", "load", "dead", "idle", "ensure", "latest", "signal"}
    /\ pc \in {"ensure", "latest", "signal"} => todo \in Seq(Assets) /\ todo # <<>>
    /\ pc # "signal" => DOMAIN rows = {}
    /\ pc = "signal" =>
          /\ sigs \in Seq(Range(SignalsOf[Asset]))
          /\ \A s \in Range(SignalsOf[Asset]) : latestState[s] = data[s]
          /\ DOMAIN rows \subseteq Range(SignalsOf[Asset])
          /\ \A s \in DOMAIN rows : rows[s] = data[s]

NorthInv == SeenIsRegistered /\ PollInv

\* A statement that reports success has been committed.
LEMMA DoneIsCommitted ==
    ASSUME NEW o \in Outcomes, Executes(o), o.done
    PROVE  o.committed
  BY DEF Executes

LEMMA NorthInit == Init => NorthInv
  BY DEF Init, NorthInv, SeenIsRegistered, PollInv

\* A failed poll leaves nothing of the asset behind.
LEMMA PollFailsInv ==
    ASSUME PollFails
    PROVE  PollInv'
  BY DEF PollFails, Dropped, PollInv

LEMMA EnsureStep ==
    ASSUME NorthInv, NEW o \in Outcomes, EnsureAsset(o)
    PROVE  NorthInv'
  <1>1. SeenIsRegistered'
    BY DoneIsCommitted DEF NorthInv, EnsureAsset, Seen, SeenIsRegistered
  <1>2. CASE ~o.done
    BY <1>1, <1>2, PollFailsInv DEF EnsureAsset, NorthInv
  <1>3. CASE o.done
    <2>1. PollInv'
      BY <1>3 DEF EnsureAsset, NorthInv, PollInv
    <2> QED
      BY <1>1, <2>1 DEF NorthInv
  <1> QED
    BY <1>2, <1>3 DEF Outcomes

LEMMA StartStep ==
    ASSUME NorthInv,
           (\E n \in 0..Len(AssetOrder) : SyncAssets(n)) \/ (\E o \in Outcomes : LoadDictionary(o))
    PROVE  NorthInv'
  <1>1. SeenIsRegistered'
    BY DEF NorthInv, SyncAssets, LoadDictionary, memory, tables, SeenIsRegistered
  <1>2. pc' \in {"load", "idle", "dead"} /\ pc # "signal" /\ rows' = rows
    BY DEF SyncAssets, LoadDictionary
  <1>3. PollInv'
    BY <1>2 DEF NorthInv, PollInv
  <1> QED
    BY <1>1, <1>3 DEF NorthInv

LEMMA LatestStep ==
    ASSUME NorthInv, NEW o \in Outcomes, RefreshLatest(o)
    PROVE  NorthInv'
  <1>1. SeenIsRegistered'
    BY DEF NorthInv, RefreshLatest, memory, SeenIsRegistered
  <1>2. CASE ~o.done
    BY <1>1, <1>2, PollFailsInv DEF RefreshLatest, NorthInv
  <1>3. CASE o.done
    <2>1. /\ pc' = "signal" /\ sigs' = SignalsOf[Asset] /\ UNCHANGED <<data, todo, rows>>
          /\ todo \in Seq(Assets) /\ todo # <<>> /\ DOMAIN rows = {}
      BY <1>3 DEF RefreshLatest, NorthInv, PollInv
    <2>2. Asset \in Assets /\ Asset' = Asset
      BY <2>1, HeadTailProperties DEF Asset
    <2>3. Range(SignalsOf[Asset]) \subseteq Signals
      BY <2>2 DEF Signals
    <2>4. latestState' = [s \in Signals |-> Shown(s)]
      BY <1>3, DoneIsCommitted DEF RefreshLatest
    <2>5. \A s \in Range(SignalsOf[Asset]) : latestState'[s] = data[s]
      BY <2>3, <2>4 DEF Shown, OfAsset
    <2>6. sigs' \in Seq(Range(SignalsOf[Asset]))
      BY <2>1, <2>2, NorthAssumption
    <2>7. PollInv'
      BY <2>1, <2>2, <2>5, <2>6 DEF PollInv
    <2> QED
      BY <1>1, <2>7 DEF NorthInv
  <1> QED
    BY <1>2, <1>3 DEF Outcomes

\* The gate adds the value of the response, or nothing.
LEMMA GateRows ==
    ASSUME NEW s, NEW due \in BOOLEAN, Gate(s, due), \A x \in DOMAIN rows : rows[x] = data[x]
    PROVE  /\ DOMAIN rows' \subseteq DOMAIN rows \cup {s}
           /\ \A x \in DOMAIN rows' : rows'[x] = data[x]
  BY DEF Gate, Put

LEMMA SignalStep ==
    ASSUME NorthInv, NEW o \in Outcomes, NEW due \in BOOLEAN, Signal(o, due)
    PROVE  NorthInv'
  <1>1. SeenIsRegistered'
    BY DEF NorthInv, Signal, SeenIsRegistered
  <1>2. CASE PollFails
    BY <1>1, <1>2, PollFailsInv DEF NorthInv
  <1>3. CASE Gate(Head(sigs), due) /\ sigs' = Tail(sigs) /\ UNCHANGED <<pc, data, todo>>
    <2>1. /\ pc = "signal" /\ sigs # <<>> /\ latestState' = latestState
          /\ sigs \in Seq(Range(SignalsOf[Asset]))
      BY DEF Signal, NorthInv, PollInv
    <2>2. Head(sigs) \in Range(SignalsOf[Asset]) /\ Tail(sigs) \in Seq(Range(SignalsOf[Asset]))
      BY <2>1, HeadTailProperties
    <2>3. Asset' = Asset
      BY <1>3 DEF Asset
    <2>4. DOMAIN rows' \subseteq Range(SignalsOf[Asset]) /\ \A x \in DOMAIN rows' : rows'[x] = data[x]
      BY <1>3, <2>1, <2>2, GateRows DEF NorthInv, PollInv
    <2>5. PollInv'
      BY <1>3, <2>1, <2>2, <2>3, <2>4 DEF NorthInv, PollInv
    <2> QED
      BY <1>1, <2>5 DEF NorthInv
  <1> QED
    BY <1>2, <1>3 DEF Signal

LEMMA HandOverStep ==
    ASSUME NorthInv, HandOver
    PROVE  NorthInv'
  <1>1. SeenIsRegistered'
    BY DEF NorthInv, HandOver, memory, SeenIsRegistered
  <1>2. pc = "signal" /\ todo \in Seq(Assets) /\ todo # <<>>
    BY DEF HandOver, NorthInv, PollInv
  <1>3. Tail(todo) \in Seq(Assets)
    BY <1>2, HeadTailProperties
  <1>4. PollInv'
    BY <1>2, <1>3 DEF HandOver, PollInv
  <1> QED
    BY <1>1, <1>4 DEF NorthInv

LEMMA InsertAlarmStep ==
    ASSUME NorthInv, NEW al \in Alarms, NEW o \in Outcomes, InsertAlarm(al, o)
    PROVE  NorthInv'
  <1>1. SeenIsRegistered'
    BY DEF NorthInv, InsertAlarm, SeenIsRegistered
  <1>2. PollInv'
    BY DEF NorthInv, InsertAlarm, poller, PollInv, Asset
  <1> QED
    BY <1>1, <1>2 DEF NorthInv

LEMMA NorthStep == NorthInv /\ [Next]_vars => NorthInv'
  <1> SUFFICES ASSUME NorthInv, [Next]_vars PROVE NorthInv'
    OBVIOUS
  <1>1. CASE Poll
    BY <1>1, NorthAssumption
    DEF Poll, memory, tables, NorthInv, SeenIsRegistered, PollInv
  <1>2. CASE PollAlarms \/ (\E al \in Alarms : SkipAlarm(al)) \/ Change
    <2>1. UNCHANGED <<poller, memory, tables>>
      BY <1>2 DEF PollAlarms, SkipAlarm, Change
    <2> QED
      BY <2>1
      DEF poller, memory, tables, NorthInv, SeenIsRegistered, PollInv, Asset
  <1>3. CASE Restart
    <2>1. PollInv'
      BY <1>3 DEF Restart, Dropped, PollInv
    <2>2. SeenIsRegistered'
      BY <1>3 DEF Restart, tables, NorthInv, SeenIsRegistered
    <2> QED
      BY <2>1, <2>2 DEF NorthInv
  <1>4. CASE UNCHANGED vars
    BY <1>4
    DEF vars, poller, memory, tables, NorthInv, SeenIsRegistered, PollInv, Asset
  <1> QED
    BY <1>1, <1>2, <1>3, <1>4, StartStep, EnsureStep, LatestStep, SignalStep, HandOverStep, InsertAlarmStep
    DEF Next, PollStep, AlarmStep

LEMMA NorthInvariant == Spec => []NorthInv
  BY NorthInit, NorthStep, PTL DEF Spec

\* The alarm task never refers to an asset that is not registered.
THEOREM AlarmsSafe == Spec => []SeenIsRegistered
  BY NorthInvariant, PTL DEF NorthInv

\* History never shows a value that the latest-state cache has not shown first.
THEOREM LatestLeads == Spec => LatestLeadsHistory
  <1>1. NorthInv /\ [Next]_vars =>
          [\A s \in Signals : newest'[s] # newest[s] => latestState[s] = newest'[s]]_vars
    <2> SUFFICES ASSUME NorthInv, Next, NEW s \in Signals, newest'[s] # newest[s]
                 PROVE  latestState[s] = newest'[s]
      OBVIOUS
    <2>1. CASE HandOver
      <3>1. newest'[s] = rows[s] /\ s \in DOMAIN rows /\ pc = "signal"
        BY <2>1 DEF HandOver, Appended
      <3> QED
        BY <3>1 DEF NorthInv, PollInv
    <2>2. ASSUME newest' = newest PROVE FALSE
      BY <2>2
    <2> QED
      BY <2>1, <2>2
      DEF Next, PollStep, AlarmStep, SyncAssets, LoadDictionary, Poll, EnsureAsset, RefreshLatest, Signal, PollAlarms,
          SkipAlarm, InsertAlarm, Change, Restart, tables
  <1> QED
    BY <1>1, NorthInvariant, PTL DEF Spec, LatestLeadsHistory

-----------------------------------------------------------------------------
(* A history without faults. What the gate remembers as stored is the row it *)
(* has just collected or, when it collected none, the newest row of the      *)
(* signal.                                                                   *)

\* _last_stored and the rows of the present asset agree with the table.
RememberedInv ==
    \A s \in DOMAIN lastStored :
        lastStored[s] = IF s \in DOMAIN rows THEN rows[s] ELSE newest[s]

HealthInv ==
    /\ faults \in Nat
    /\ DOMAIN lastStored \subseteq Signals
    /\ faults = 0 => RememberedInv

\* The signal loop looks at signals of the response only.
LEMMA HeadIsSignal ==
    ASSUME NorthInv, pc = "signal", sigs # <<>>
    PROVE  Head(sigs) \in Signals
  <1>1. todo \in Seq(Assets) /\ todo # <<>> /\ sigs \in Seq(Range(SignalsOf[Asset]))
    BY DEF NorthInv, PollInv
  <1>2. Asset \in Assets
    BY <1>1, HeadTailProperties DEF Asset
  <1>3. Head(sigs) \in Range(SignalsOf[Asset])
    BY <1>1, HeadTailProperties
  <1> QED
    BY <1>2, <1>3 DEF Signals

LEMMA HealthInit == Init => HealthInv
  BY DEF Init, HealthInv, RememberedInv, Nothing

\* A statement that raises ends the claim: from then on faults is positive.
LEMMA FaultEndsHealth ==
    ASSUME HealthInv, NEW o \in Outcomes, Executes(o), ~o.done
    PROVE  faults' \in Nat /\ faults' # 0
  BY DEF HealthInv, Executes

\* The gate remembers exactly what it collects.
LEMMA GateRemembers ==
    ASSUME NEW s \in Signals, NEW due \in BOOLEAN, Gate(s, due), UNCHANGED newest,
           DOMAIN lastStored \subseteq Signals
    PROVE  /\ DOMAIN lastStored' \subseteq Signals
           /\ RememberedInv => RememberedInv'
           /\ DOMAIN rows' \subseteq DOMAIN rows \cup {s}
  BY DEF Gate, Put, RememberedInv

LEMMA SignalHealth ==
    ASSUME NorthInv, HealthInv, NEW o \in Outcomes, NEW due \in BOOLEAN, Signal(o, due)
    PROVE  HealthInv'
  <1>1. pc = "signal" /\ sigs # <<>> /\ UNCHANGED newest
    BY DEF Signal
  <1>2. PICK s \in Signals : s = Head(sigs)
    BY <1>1, HeadIsSignal
  <1>3. CASE ~o.done
    <2>1. faults' \in Nat /\ faults' # 0 /\ UNCHANGED lastStored
      BY <1>3, FaultEndsHealth DEF Signal
    <2> QED
      BY <2>1 DEF HealthInv
  <1>4. CASE o.done
    <2>1. Gate(s, due) /\ UNCHANGED faults
      BY <1>2, <1>4 DEF Signal, Executes
    <2> QED
      BY <1>1, <2>1, GateRemembers DEF HealthInv
  <1> QED
    BY <1>3, <1>4

LEMMA HandOverHealth ==
    ASSUME NorthInv, HealthInv, HandOver
    PROVE  HealthInv'
  <1>1. /\ newest' = Appended /\ DOMAIN rows' = {}
        /\ UNCHANGED <<memory, faults>>
    BY DEF HandOver
  <1>2. RememberedInv => RememberedInv'
    BY <1>1 DEF HealthInv, RememberedInv, Appended, memory
  <1> QED
    BY <1>1, <1>2 DEF HealthInv, memory

LEMMA HealthStep == NorthInv /\ HealthInv /\ [Next]_vars => HealthInv'
  <1> SUFFICES ASSUME NorthInv, HealthInv, [Next]_vars PROVE HealthInv'
    OBVIOUS
  <1>1. ASSUME UNCHANGED <<lastStored, newest, faults, rows>>
        PROVE  HealthInv'
    BY <1>1 DEF HealthInv, RememberedInv
  <1>2. CASE \/ \E n \in 0..Len(AssetOrder) : SyncAssets(n)
             \/ Poll \/ PollAlarms \/ (\E al \in Alarms : SkipAlarm(al)) \/ Change \/ UNCHANGED vars
    BY <1>1, <1>2 DEF SyncAssets, Poll, PollAlarms, SkipAlarm, Change, vars, memory, tables, poller
  <1>3. ASSUME NEW o \in Outcomes,
               \/ LoadDictionary(o) \/ EnsureAsset(o) \/ RefreshLatest(o)
               \/ (\E al \in Alarms : InsertAlarm(al, o))
        PROVE  HealthInv'
    <2>1. CASE o.done
      BY <1>1, <1>3, <2>1 DEF LoadDictionary, EnsureAsset, RefreshLatest, InsertAlarm, Executes, memory, tables, poller
    <2>2. CASE ~o.done
      <3>1. faults' \in Nat /\ faults' # 0 /\ UNCHANGED lastStored
        BY <1>3, <2>2, FaultEndsHealth DEF LoadDictionary, EnsureAsset, RefreshLatest, InsertAlarm, memory
      <3> QED
        BY <3>1 DEF HealthInv
    <2> QED
      BY <2>1, <2>2
  <1>4. CASE Restart
    BY <1>4 DEF Restart, Dropped, tables, HealthInv, RememberedInv
  <1> QED
    BY <1>2, <1>3, <1>4, SignalHealth, HandOverHealth DEF Next, PollStep, AlarmStep

\* Without faults, across any number of restarts: what the gate compares the next
\* reading with is the newest row of the history whenever the poller sleeps.
THEOREM HealthyRunIsRecorded == Spec => []HealthyHistory
  <1>1. NorthInv /\ HealthInv => HealthyHistory
    BY DEF NorthInv, PollInv, HealthInv, RememberedInv, HealthyHistory
  <1> QED
    BY <1>1, NorthInit, NorthStep, HealthInit, HealthStep, PTL DEF Spec

-----------------------------------------------------------------------------
(* What a fault costs. A signal can be without its entry although it has no  *)
(* row yet: the mark alone makes it so, and the row follows with the next    *)
(* poll. Counted with these, the missing entries and the lost alarms are     *)
(* never more than the statements that have raised; a restart only forgets   *)
(* marks.                                                                    *)

Missing == {s \in Signals : s \notin dictionary /\ (s \in dictSeen \/ newest[s] # None)}

CostInv ==
    /\ faults \in Nat
    /\ IsFiniteSet(Missing) /\ IsFiniteSet(LostAlarms)
    /\ Cardinality(Missing) + Cardinality(LostAlarms) <= faults
    /\ DOMAIN rows \subseteq dictSeen

\* A set with at most one element more.
LEMMA OneMore ==
    ASSUME NEW S, NEW T, NEW x, IsFiniteSet(S), T \subseteq S \cup {x}
    PROVE  IsFiniteSet(T) /\ Cardinality(T) <= Cardinality(S) + 1
  <1>1. Cardinality(S) \in Nat
    BY FS_CardinalityType
  <1>2. /\ IsFiniteSet(S \cup {x})
        /\ \/ Cardinality(S \cup {x}) = Cardinality(S)
           \/ Cardinality(S \cup {x}) = Cardinality(S) + 1
    BY FS_AddElement
  <1>3. IsFiniteSet(T) /\ Cardinality(T) <= Cardinality(S \cup {x})
    BY <1>2, FS_Subset
  <1>4. Cardinality(T) \in Nat
    BY <1>3, FS_CardinalityType
  <1> QED
    BY <1>1, <1>2, <1>3, <1>4

\* A step that adds nothing to either set.
LEMMA CostKept ==
    ASSUME CostInv, Missing' \subseteq Missing, LostAlarms' \subseteq LostAlarms,
           faults' \in {faults, faults + 1}, (DOMAIN rows \subseteq dictSeen)'
    PROVE  CostInv'
  <1>1. /\ IsFiniteSet(Missing') /\ Cardinality(Missing') <= Cardinality(Missing)
        /\ IsFiniteSet(LostAlarms') /\ Cardinality(LostAlarms') <= Cardinality(LostAlarms)
    BY FS_Subset DEF CostInv
  <1>2. /\ Cardinality(Missing) \in Nat /\ Cardinality(Missing') \in Nat
        /\ Cardinality(LostAlarms) \in Nat /\ Cardinality(LostAlarms') \in Nat
    BY <1>1, FS_CardinalityType DEF CostInv
  <1> QED
    BY <1>1, <1>2 DEF CostInv

\* A step that touches neither the marks nor the tables they stand for.
LEMMA CostUntouched ==
    ASSUME CostInv, UNCHANGED <<dictionary, dictSeen, newest, alarmDedupe, events>>,
           faults' \in {faults, faults + 1}, rows' = rows \/ DOMAIN rows' = {}
    PROVE  CostInv'
  <1>1. Missing' = Missing /\ LostAlarms' = LostAlarms
    BY DEF Missing, LostAlarms
  <1>2. (DOMAIN rows \subseteq dictSeen)'
    BY DEF CostInv
  <1> QED
    BY <1>1, <1>2, CostKept

LEMMA CostInit == Init => CostInv
  <1> SUFFICES ASSUME Init PROVE CostInv
    OBVIOUS
  <1>1. Missing = {} /\ LostAlarms = {}
    BY DEF Init, Nothing, Missing, LostAlarms
  <1> QED
    BY <1>1, FS_EmptySet DEF Init, CostInv

LEMMA SignalCost ==
    ASSUME CostInv, NEW o \in Outcomes, NEW due \in BOOLEAN, Signal(o, due)
    PROVE  CostInv'
  <1> DEFINE s == Head(sigs)
  <1>1. LostAlarms' = LostAlarms /\ newest' = newest
    BY DEF Signal, LostAlarms
  <1>2. CASE s \in dictSeen
    <2>1. Gate(s, due) /\ UNCHANGED <<dictSeen, dictionary, faults>>
      BY <1>2 DEF Signal
    <2>2. DOMAIN rows' \subseteq dictSeen'
      BY <1>2, <2>1 DEF Gate, Put, CostInv
    <2>3. Missing' = Missing
      BY <1>1, <2>1 DEF Missing
    <2> QED
      BY <1>1, <2>1, <2>2, <2>3, CostKept
  <1>3. CASE s \notin dictSeen /\ o.done
    <2>1. /\ Gate(s, due) /\ dictSeen' = dictSeen \cup {s}
          /\ dictionary' = dictionary \cup {s} /\ faults' = faults
      BY <1>3, DoneIsCommitted DEF Signal, Marked, Executes
    <2>2. DOMAIN rows' \subseteq dictSeen'
      BY <2>1 DEF Gate, Put, CostInv
    <2>3. Missing' \subseteq Missing
      BY <1>1, <2>1 DEF Missing
    <2> QED
      BY <1>1, <2>1, <2>2, <2>3, CostKept
  <1>4. CASE s \notin dictSeen /\ ~o.done
    <2>1. /\ DOMAIN rows' = {} /\ dictSeen' = dictSeen \cup {s}
          /\ dictionary \subseteq dictionary' /\ faults' = faults + 1
      BY <1>4 DEF Signal, Marked, Executes, PollFails, Dropped
    <2>2. Missing' \subseteq Missing \cup {s}
      BY <1>1, <2>1 DEF Missing
    <2>3. /\ IsFiniteSet(Missing') /\ Cardinality(Missing') <= Cardinality(Missing) + 1
      BY <2>2, OneMore DEF CostInv
    <2>4. /\ Cardinality(Missing) \in Nat /\ Cardinality(Missing') \in Nat
          /\ Cardinality(LostAlarms) \in Nat
      BY <2>3, FS_CardinalityType DEF CostInv
    <2> QED
      BY <1>1, <2>1, <2>3, <2>4 DEF CostInv
  <1> QED
    BY <1>2, <1>3, <1>4

\* Rows are handed over for signals that are marked.
LEMMA HandOverCost ==
    ASSUME CostInv, HandOver
    PROVE  CostInv'
  <1>1. /\ newest' = Appended /\ DOMAIN rows' = {} /\ faults' = faults
        /\ UNCHANGED <<dictSeen, dictionary, alarmDedupe, events>>
    BY DEF HandOver, memory
  <1>2. Missing' \subseteq Missing
    BY <1>1 DEF CostInv, Missing, Appended
  <1>3. LostAlarms' = LostAlarms
    BY <1>1 DEF LostAlarms
  <1> QED
    BY <1>1, <1>2, <1>3, CostKept

LEMMA InsertAlarmCost ==
    ASSUME CostInv, NEW al \in Alarms, NEW o \in Outcomes, InsertAlarm(al, o)
    PROVE  CostInv'
  <1>1. /\ alarmDedupe' = alarmDedupe \cup {al} /\ rows' = rows
        /\ UNCHANGED <<dictSeen, dictionary, newest>>
    BY DEF InsertAlarm, poller
  <1>2. Missing' = Missing /\ (DOMAIN rows \subseteq dictSeen)'
    BY <1>1 DEF Missing, CostInv
  <1>3. CASE o.committed
    <2>1. events' = events \cup {al} /\ faults' \in {faults, faults + 1}
      BY <1>3 DEF InsertAlarm, Executes
    <2>2. LostAlarms' \subseteq LostAlarms
      BY <1>1, <2>1 DEF LostAlarms
    <2> QED
      BY <1>2, <2>1, <2>2, CostKept
  <1>4. CASE ~o.committed
    <2>1. events' = events /\ faults' = faults + 1
      BY <1>4 DEF InsertAlarm, Executes
    <2>2. LostAlarms' \subseteq LostAlarms \cup {al}
      BY <1>1, <2>1 DEF LostAlarms
    <2>3. IsFiniteSet(LostAlarms') /\ Cardinality(LostAlarms') <= Cardinality(LostAlarms) + 1
      BY <2>2, OneMore DEF CostInv
    <2>4. /\ Cardinality(LostAlarms) \in Nat /\ Cardinality(LostAlarms') \in Nat
          /\ Cardinality(Missing) \in Nat
      BY <2>3, FS_CardinalityType DEF CostInv
    <2> QED
      BY <1>2, <2>1, <2>3, <2>4 DEF CostInv
  <1> QED
    BY <1>3, <1>4

LEMMA CostStep == CostInv /\ [Next]_vars => CostInv'
  <1> SUFFICES ASSUME CostInv, [Next]_vars PROVE CostInv'
    OBVIOUS
  <1>1. CASE \/ \E n \in 0..Len(AssetOrder) : SyncAssets(n)
             \/ Poll \/ PollAlarms \/ (\E al \in Alarms : SkipAlarm(al)) \/ Change \/ UNCHANGED vars
    BY <1>1, CostUntouched
    DEF SyncAssets, Poll, PollAlarms, SkipAlarm, Change, vars, memory, tables, poller
  <1>2. ASSUME NEW o \in Outcomes, LoadDictionary(o) \/ EnsureAsset(o) \/ RefreshLatest(o)
        PROVE  CostInv'
    BY <1>2, CostUntouched
    DEF LoadDictionary, EnsureAsset, RefreshLatest, Executes, PollFails, Dropped, memory, tables
  <1>3. CASE Restart
    <2>1. /\ UNCHANGED <<newest, dictionary, events, faults>>
          /\ dictSeen' = {} /\ alarmDedupe' = {} /\ DOMAIN rows' = {}
      BY <1>3 DEF Restart, Dropped, tables
    <2>2. Missing' \subseteq Missing /\ LostAlarms' \subseteq LostAlarms
      BY <2>1 DEF Missing, LostAlarms
    <2> QED
      BY <2>1, <2>2, CostKept
  <1> QED
    BY <1>1, <1>2, <1>3, SignalCost, HandOverCost, InsertAlarmCost
    DEF Next, PollStep, AlarmStep

\* Each statement that raises costs at most one dictionary entry of a signal with
\* history or one alarm, for any assets, signals, alarms, faults and restarts.
THEOREM FaultsAreCheap == Spec => []FaultCostsOne
  <1>1. CostInv => FaultCostsOne
    <2> SUFFICES ASSUME CostInv PROVE FaultCostsOne
      OBVIOUS
    <2>1. Undescribed \subseteq Missing
      BY DEF Undescribed, Missing
    <2>2. IsFiniteSet(Undescribed) /\ Cardinality(Undescribed) <= Cardinality(Missing)
      BY <2>1, FS_Subset DEF CostInv
    <2>3. /\ Cardinality(Undescribed) \in Nat /\ Cardinality(Missing) \in Nat
          /\ Cardinality(LostAlarms) \in Nat
      BY <2>2, FS_CardinalityType DEF CostInv
    <2> QED
      BY <2>2, <2>3 DEF CostInv, FaultCostsOne
  <1> QED
    BY <1>1, CostInit, CostStep, PTL DEF Spec
=============================================================================
