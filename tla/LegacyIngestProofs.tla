------------------------- MODULE LegacyIngestProofs -------------------------
(***************************************************************************)
(* The store_history flags of the legacy worker, for every catalogue of    *)
(* fields, every set of packets and any number of faults, crashes and      *)
(* edits of the operator.                                                  *)
(***************************************************************************)
EXTENDS LegacyIngest, TLAPS

\* The flag of f in d is there and off.
Off(f, d) == f \in DOMAIN d /\ d[f] = FALSE

\* What keeps a field out of the history at each stage: the dictionary from the seed
\* until it is loaded, the cache from then on. The operator's flags outside the spec
\* are in the dictionary all the time.
FlagsInv ==
    /\ ruled \subseteq cleared
    /\ \A f \in cleared \ Canonical : Off(f, dictionary)
    /\ pc \in {"sync", "keys", "load"} => \A f \in LiveOnly : Off(f, dictionary)
    /\ pc \in Ingesting => \A f \in LiveOnly \cup (ruled \ Canonical) : Off(f, cache)
    /\ pc \notin Ingesting => written = {}
    /\ LiveOnlyStayLive /\ ClearedKeyHonoured

\* An upsert that gives a field the flag "off", or leaves it alone, leaves it off.
LEMMA FlaggedKeepsOff ==
    ASSUME NEW S, NEW f, Off(f, dictionary), dictionary' = Flagged(S, KeyFlag)
    PROVE  Off(f, dictionary')
  BY DEF Off, Flagged, KeyFlag

LEMMA SeedKeepsOff ==
    ASSUME NEW S, NEW f, f \notin S, Off(f, dictionary),
           dictionary' = Flagged(S, LAMBDA g : g \notin LiveOnly)
    PROVE  Off(f, dictionary')
  BY DEF Off, Flagged

LEMMA SeedTurnsOff ==
    ASSUME NEW S, NEW f \in LiveOnly, f \in S,
           dictionary' = Flagged(S, LAMBDA g : g \notin LiveOnly)
    PROVE  Off(f, dictionary')
  BY DEF Off, Flagged

\* A field whose flag is off in the cache is not handed to the writer by an object that
\* names its asset type.
LEMMA OffIsNotStored == ASSUME NEW f, Off(f, cache) PROVE ~ShouldStore(TRUE, f)
  BY DEF Off, ShouldStore

LEMMA FlagsInit == Init => FlagsInv
  BY DEF Init, FlagsInv, Ingesting, LiveOnlyStayLive, ClearedKeyHonoured

LEMMA FlagsNext == FlagsInv /\ [Next]_vars => FlagsInv'
<1> SUFFICES ASSUME FlagsInv, [Next]_vars PROVE FlagsInv'
  OBVIOUS
<1> USE DEF gateway, operator, worker, tables, Ingesting
\* The steps that leave the dictionary, the cache and the history alone.
<1>0. ASSUME UNCHANGED <<operator, ruled, dictionary, cache, written>>,
             pc' \in {"sync", "keys", "load"} => pc \in {"sync", "keys", "load"},
             pc' \in Ingesting <=> pc \in Ingesting
      PROVE  FlagsInv'
  BY <1>0 DEF FlagsInv, Off, LiveOnlyStayLive, ClearedKeyHonoured
<1>1. CASE Start
  BY <1>1 DEF Start, FlagsInv, Off, LiveOnlyStayLive, ClearedKeyHonoured
<1>2. ASSUME NEW o \in Outcomes, RegisterGateway(o) PROVE FlagsInv'
  BY <1>0, <1>2 DEF RegisterGateway
<1>3. ASSUME NEW S \in SUBSET Canonical, Seed(S) PROVE FlagsInv'
  <2>1. \A f \in cleared \ Canonical : Off(f, dictionary')
    BY <1>3, SeedKeepsOff DEF Seed, FlagsInv
  <2>2. S = Canonical => \A f \in LiveOnly : Off(f, dictionary')
    BY <1>3, SeedTurnsOff, LegacyAssumption DEF Seed
  <2>3. pc' \in {"sync", "down"} /\ (pc' = "sync" => S = Canonical)
    BY <1>3 DEF Seed, AfterSeed
  <2> QED
    BY <1>3, <2>1, <2>2, <2>3 DEF Seed, FlagsInv, LiveOnlyStayLive, ClearedKeyHonoured
<1>4. ASSUME NEW n \in 0..Len(AssetOrder), SyncAssets(n) PROVE FlagsInv'
  BY <1>0, <1>4 DEF SyncAssets
<1>5. ASSUME NEW S \in SUBSET Fields, SyncKeys(S) PROVE FlagsInv'
  <2>1. \A f : Off(f, dictionary) => Off(f, dictionary')
    BY <1>5, FlaggedKeepsOff DEF SyncKeys
  <2> QED
    BY <1>5, <2>1 DEF SyncKeys, FlagsInv, LiveOnlyStayLive, ClearedKeyHonoured
<1>6. ASSUME NEW o \in Outcomes, LoadDictionary(o) PROVE FlagsInv'
  <2>1. CASE o.done
    BY <1>6, <2>1 DEF LoadDictionary, FlagsInv, LiveOnlyStayLive, ClearedKeyHonoured
  <2>2. CASE ~o.done
    BY <1>6, <2>2 DEF LoadDictionary, FlagsInv, LiveOnlyStayLive, ClearedKeyHonoured
  <2> QED
    BY <2>1, <2>2
<1>7. ASSUME NEW o \in Outcomes, Connect(o) PROVE FlagsInv'
  BY <1>0, <1>7 DEF Connect
<1>8. ASSUME NEW p \in Shapes, Receive(p) PROVE FlagsInv'
  BY <1>0, <1>8 DEF Receive
<1>9. ASSUME NEW o \in Outcomes, HandleAsset(o) PROVE FlagsInv'
  <2>1. \A f \in LiveOnly \cup (ruled \ Canonical) : ~ShouldStore(TRUE, f)
    BY <1>9, OffIsNotStored DEF HandleAsset, FlagsInv
  <2>2. pc \in Ingesting /\ pc' \in Ingesting
    BY <1>9 DEF HandleAsset, OnError
  <2>3. \A f : <<f, TRUE>> \in written' \ written => ShouldStore(TRUE, f)
    BY <1>9 DEF HandleAsset
  <2>4. UNCHANGED <<operator, ruled, dictionary, cache>>
    BY <1>9 DEF HandleAsset
  <2>5. LiveOnlyStayLive' /\ ClearedKeyHonoured'
    BY <2>1, <2>3, <2>4 DEF FlagsInv, LiveOnlyStayLive, ClearedKeyHonoured
  <2> QED
    BY <2>2, <2>4, <2>5 DEF FlagsInv, Off
<1>10. CASE StreamFails \/ StreamEnds \/ Reconnect \/ Change
  BY <1>0, <1>10 DEF StreamFails, StreamEnds, Reconnect, Change, OnError
<1>11. CASE ClearFlag
  <2>1. PICK g \in DOMAIN dictionary :
            /\ dictionary' = [dictionary EXCEPT ![g] = FALSE]
            /\ cleared' = cleared \cup {g}
    BY <1>11 DEF ClearFlag
  <2>2. \A f : Off(f, dictionary) \/ f = g => Off(f, dictionary')
    BY <2>1 DEF Off
  <2> QED
    BY <1>11, <2>1, <2>2
    DEF ClearFlag, FlagsInv, LiveOnlyStayLive, ClearedKeyHonoured
<1>12. CASE Crash
  BY <1>12 DEF Crash, FlagsInv, LiveOnlyStayLive, ClearedKeyHonoured
<1>13. CASE UNCHANGED vars
  BY <1>0, <1>13 DEF vars
<1> QED
  BY <1>1, <1>2, <1>3, <1>4, <1>5, <1>6, <1>7, <1>8, <1>9, <1>10, <1>11, <1>12, <1>13
  DEF Next, Boot, Work

LEMMA FlagsAlways == Spec => []FlagsInv
  BY FlagsInit, FlagsNext, PTL DEF Spec

\* A field the spec marks as live-only is never handed to the writer by an object that
\* names its asset type, whichever step of the start-up failed and whatever the operator
\* and the packets did.
THEOREM LiveOnlyKept == Spec => []LiveOnlyStayLive
<1>1. FlagsInv => LiveOnlyStayLive
  BY DEF FlagsInv
<1> QED
  BY <1>1, FlagsAlways, PTL

\* A process started after the operator has cleared the flag of a field outside the
\* spec writes no history of it from objects that name their asset type.
THEOREM ClearedKeyKept == Spec => []ClearedKeyHonoured
<1>1. FlagsInv => ClearedKeyHonoured
  BY DEF FlagsInv
<1> QED
  BY <1>1, FlagsAlways, PTL
=============================================================================
