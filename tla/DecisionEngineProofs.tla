------------------------ MODULE DecisionEngineProofs ------------------------
(***************************************************************************)
(* Proofs about the decision cache, for every set of keys, every capacity, *)
(* time to live and bound, and about the engine over it: under any number  *)
(* of concurrent callers it implements the memoizing service, and after    *)
(* cancellation it only replays.  Then about the threshold node, from      *)
(* whose responses the engine takes what a run decides.                    *)
(***************************************************************************)
EXTENDS DecisionEngine, ThresholdGate, FiniteOrder

-----------------------------------------------------------------------------
(* The cache.                                                              *)

\* What a retained slot has to do with the history: it holds the latest value
\* stored under its key and the time that value was stored.  Hits leave both
\* alone, which is why the time to live counts from the insert.
SlotsAgreeWithHistory ==
    \A k \in DOMAIN slots :
        /\ k \in DOMAIN written
        /\ slots[k].response = written[k].response
        /\ slots[k].stored_at = written[k].stored_at

\* The inductive invariant.
CacheInv ==
    /\ CacheTypeOK
    /\ CapacityBound
    /\ RecencyDistinct
    /\ SlotsAgreeWithHistory
    /\ HitIsLatestAndFresh

\* The empty cache satisfies the inductive invariant.
LEMMA CacheInitInv == CacheInit => CacheInv
  <1> SUFFICES ASSUME CacheInit PROVE CacheInv
    OBVIOUS
  <1>1. DOMAIN slots = {} /\ DOMAIN written = {}
    BY DEF CacheInit
  <1>2. CacheTypeOK
    BY <1>1 DEF CacheInit, CacheTypeOK, Reply, None
  <1>3. CapacityBound
    BY <1>1, FS_EmptySet, CacheAssumption DEF CapacityBound
  <1> QED
    BY <1>1, <1>2, <1>3 DEF CacheInit, CacheInv, RecencyDistinct,
       SlotsAgreeWithHistory, HitIsLatestAndFresh, None

\* Dropping slots and touching nothing else keeps every part of the invariant
\* that speaks of slots: the argument behind get's miss path, len and clear.
LEMMA DropKeepsInv ==
  ASSUME CacheInv,
         NEW D \in SUBSET (DOMAIN slots),
         slots' = Restricted(D),
         UNCHANGED <<ticks, now, poisoned, written>>,
         reply' \in Reply, reply'.kind # "hit"
  PROVE  CacheInv'
  <1>1. /\ DOMAIN slots' = D
        /\ \A k \in D : slots'[k] = slots[k]
    BY DEF Restricted
  <1>2. CacheTypeOK'
    BY <1>1 DEF CacheInv, CacheTypeOK, Restricted
  <1>3. CapacityBound'
    <2>1. IsFiniteSet(D) /\ Cardinality(D) <= Cardinality(DOMAIN slots)
      BY FS_Subset DEF CacheInv, CapacityBound
    <2>2. Cardinality(D) \in Nat /\ Cardinality(DOMAIN slots) \in Nat
      BY <2>1, FS_CardinalityType DEF CacheInv, CapacityBound
    <2> QED
      BY <1>1, <2>1, <2>2, CacheAssumption DEF CacheInv, CapacityBound
  <1>4. RecencyDistinct' /\ SlotsAgreeWithHistory'
    BY <1>1 DEF CacheInv, RecencyDistinct, SlotsAgreeWithHistory
  <1> QED
    BY <1>2, <1>3, <1>4 DEF CacheInv, HitIsLatestAndFresh

\* A hit touches one slot's recency; the new recency is larger than any other.
LEMMA GetHitKeepsInv ==
  ASSUME CacheInv, NEW k \in Keys, GetHit(k)
  PROVE  CacheInv'
  <1>1. /\ k \in DOMAIN slots
        /\ now - slots[k].stored_at < Ttl
    BY CacheAssumption DEF GetHit, IsExpired, CacheInv, CacheTypeOK, Slot
  <1>2. /\ DOMAIN slots' = DOMAIN slots
        /\ slots'[k] = [slots[k] EXCEPT !.last_used = ticks + 1]
        /\ \A j \in DOMAIN slots : j # k => slots'[j] = slots[j]
    BY <1>1 DEF GetHit, Touched, NextTick, CacheInv, CacheTypeOK
  <1>3. /\ slots[k] \in Slot
        /\ slots'[k] \in Slot
        /\ slots'[k].last_used = ticks + 1
        /\ slots'[k].response = slots[k].response
        /\ slots'[k].stored_at = slots[k].stored_at
    BY <1>1, <1>2 DEF CacheInv, CacheTypeOK, Slot
  <1>4. CacheTypeOK'
    <2>1. reply' \in Reply
      BY <1>3 DEF GetHit, Reply, Slot
    <2>2. slots' \in [DOMAIN slots' -> Slot]
      BY <1>2, <1>3 DEF GetHit, CacheInv, CacheTypeOK
    <2>3. \A j \in DOMAIN slots' : slots'[j].stored_at <= now' /\ slots'[j].last_used <= ticks'
      BY <1>2, <1>3 DEF GetHit, NextTick, CacheInv, CacheTypeOK, Slot
    <2> QED
      BY <1>2, <2>1, <2>2, <2>3 DEF GetHit, NextTick, CacheInv, CacheTypeOK
  <1>5. CapacityBound'
    BY <1>2 DEF CacheInv, CapacityBound
  <1>6. RecencyDistinct'
    <2>1. \A j \in DOMAIN slots : slots[j].last_used < ticks + 1
      BY DEF CacheInv, CacheTypeOK, Slot
    <2> QED
      BY <1>2, <1>3, <2>1 DEF CacheInv, RecencyDistinct, CacheTypeOK, Slot
  <1>7. SlotsAgreeWithHistory'
    BY <1>2, <1>3 DEF GetHit, CacheInv, SlotsAgreeWithHistory
  <1>8. HitIsLatestAndFresh'
    BY <1>1 DEF GetHit, CacheInv, SlotsAgreeWithHistory, HitIsLatestAndFresh
  <1> QED
    BY <1>4, <1>5, <1>6, <1>7, <1>8 DEF CacheInv

\* An insert leaves at most max_entries - 1 old slots and adds one.
LEMMA InsertKeepsInv ==
  ASSUME CacheInv, NEW k \in Keys, NEW r \in Responses, Insert(k, r)
  PROVE  CacheInv'
  <1>1. PICK K \in SUBSET Fresh :
           /\ IsKept(K, Fresh)
           /\ slots' = [j \in K \cup {k} |-> IF j = k THEN NewSlot(r) ELSE slots[j]]
    BY DEF Insert
  <1>2. K \subseteq DOMAIN slots
    BY <1>1 DEF Fresh
  <1>3. /\ DOMAIN slots' = K \cup {k}
        /\ slots'[k] = [response |-> r, stored_at |-> now, last_used |-> ticks + 1]
        /\ \A j \in K : j # k => slots'[j] = slots[j]
    BY <1>1 DEF NewSlot, NextTick
  <1>4. /\ DOMAIN written' = DOMAIN written \cup {k}
        /\ written'[k] = [response |-> r, stored_at |-> now]
        /\ \A j \in DOMAIN written : j # k => written'[j] = written[j]
    BY DEF Insert
  <1>5. ticks' = ticks + 1 /\ now' = now /\ poisoned' = poisoned
        /\ reply' = [kind |-> "inserted", key |-> k]
    BY DEF Insert, NextTick
  <1>6. CacheTypeOK'
    <2>1. slots'[k] \in Slot
      BY <1>3 DEF CacheInv, CacheTypeOK, Slot
    <2>2. \A j \in DOMAIN slots' : slots'[j] \in Slot
      BY <1>2, <1>3, <2>1 DEF CacheInv, CacheTypeOK
    <2>3. slots' \in [DOMAIN slots' -> Slot]
      BY <1>1, <1>3, <2>2
    <2>4. \A j \in DOMAIN slots' : slots'[j].stored_at <= now' /\ slots'[j].last_used <= ticks'
      BY <1>2, <1>3, <1>5 DEF CacheInv, CacheTypeOK, Slot
    <2>5. \A j \in DOMAIN written' : written'[j] \in Stored
      BY <1>4 DEF CacheInv, CacheTypeOK, Stored
    <2>6. written' \in [DOMAIN written' -> Stored]
      BY <1>4, <2>5 DEF Insert
    <2>7. reply' \in Reply
      BY <1>5 DEF Reply
    <2>8. DOMAIN slots' \subseteq Keys /\ DOMAIN written' \subseteq Keys
      BY <1>2, <1>3, <1>4 DEF CacheInv, CacheTypeOK
    <2> QED
      BY <1>5, <2>3, <2>4, <2>6, <2>7, <2>8 DEF CacheInv, CacheTypeOK
  <1>7. CapacityBound'
    <2>1. IsFiniteSet(Fresh)
      BY FS_Subset DEF Fresh, CacheInv, CapacityBound
    <2>2. IsFiniteSet(K) /\ Cardinality(K) \in Nat /\ Cardinality(Fresh) \in Nat
      BY <2>1, FS_Subset, FS_CardinalityType
    <2>3. Cardinality(K) <= MaxEntries - 1
      BY <1>1, <2>2, CacheAssumption DEF IsKept, RoomLeft
    <2>4. /\ IsFiniteSet(K \cup {k})
          /\ Cardinality(K \cup {k}) = Cardinality(K) \/ Cardinality(K \cup {k}) = Cardinality(K) + 1
      BY <2>2, FS_AddElement
    <2> QED
      BY <1>3, <2>2, <2>3, <2>4, CacheAssumption DEF CapacityBound
  <1>8. RecencyDistinct'
    <2>1. \A j \in DOMAIN slots : slots[j].last_used < ticks + 1
      BY DEF CacheInv, CacheTypeOK, Slot
    <2> QED
      BY <1>2, <1>3, <2>1 DEF CacheInv, RecencyDistinct, CacheTypeOK, Slot
  <1>9. SlotsAgreeWithHistory'
    BY <1>2, <1>3, <1>4 DEF CacheInv, SlotsAgreeWithHistory
  <1>10. HitIsLatestAndFresh'
    BY <1>5 DEF HitIsLatestAndFresh
  <1> QED
    BY <1>6, <1>7, <1>8, <1>9, <1>10 DEF CacheInv

\* A step that only answers, advances the clock or poisons the lock.
LEMMA QuietStepKeepsInv ==
  ASSUME CacheInv,
         UNCHANGED <<slots, ticks, written>>,
         now' \in Nat, now <= now', poisoned' \in BOOLEAN,
         reply' \in Reply, reply'.kind # "hit"
  PROVE  CacheInv'
  <1>1. CacheTypeOK'
    BY DEF CacheInv, CacheTypeOK, Slot
  <1> QED
    BY <1>1 DEF CacheInv, CapacityBound, RecencyDistinct, SlotsAgreeWithHistory,
       HitIsLatestAndFresh

\* Every step of the cache keeps the inductive invariant.
LEMMA CacheStepInv == CacheInv /\ [CacheNext]_cacheVars => CacheInv'
  <1> SUFFICES ASSUME CacheInv, [CacheNext]_cacheVars PROVE CacheInv'
    OBVIOUS
  <1>1. ASSUME NEW k \in Keys, GetPoisoned(k) PROVE CacheInv'
    BY <1>1, QuietStepKeepsInv DEF GetPoisoned, Reply, CacheInv, CacheTypeOK
  <1>2. ASSUME NEW k \in Keys, GetMiss(k) PROVE CacheInv'
    <2>1. reply' \in Reply /\ reply'.kind # "hit"
      BY <1>2 DEF GetMiss, Reply
    <2> QED
      BY <1>2, <2>1, DropKeepsInv DEF GetMiss
  <1>3. ASSUME NEW k \in Keys, GetHit(k) PROVE CacheInv'
    BY <1>3, GetHitKeepsInv
  <1>4. ASSUME NEW k \in Keys, InsertPoisoned(k) PROVE CacheInv'
    BY <1>4, QuietStepKeepsInv DEF InsertPoisoned, Reply, CacheInv, CacheTypeOK
  <1>5. ASSUME NEW k \in Keys, NEW r \in Responses, Insert(k, r) PROVE CacheInv'
    BY <1>5, InsertKeepsInv
  <1>6. CASE CacheLen
    <2>1. Fresh \in SUBSET (DOMAIN slots)
      BY DEF Fresh
    <2>2. Cardinality(Fresh) \in Nat
      BY <2>1, FS_Subset, FS_CardinalityType DEF CacheInv, CapacityBound
    <2>3. reply' \in Reply /\ reply'.kind # "hit"
      BY <1>6, <2>2 DEF CacheLen, Reply
    <2> QED
      BY <1>6, <2>1, <2>3, DropKeepsInv DEF CacheLen
  <1>7. CASE Clear
    <2>1. DOMAIN slots' = {} /\ DOMAIN written' = {} /\ reply' = None
      BY <1>7 DEF Clear, Restricted
    <2>2. CacheTypeOK'
      BY <1>7, <2>1 DEF Clear, Restricted, CacheInv, CacheTypeOK, Reply
    <2>3. CapacityBound'
      BY <2>1, FS_EmptySet, CacheAssumption DEF CapacityBound
    <2> QED
      BY <2>1, <2>2, <2>3 DEF CacheInv, RecencyDistinct, SlotsAgreeWithHistory,
         HitIsLatestAndFresh, None
  <1>8. CASE Refuse
    BY <1>8, QuietStepKeepsInv DEF Refuse, Reply, CacheInv, CacheTypeOK
  <1>9. CASE Tick
    BY <1>9, QuietStepKeepsInv DEF Tick, Reply, None, CacheInv, CacheTypeOK
  <1>10. CASE Poison
    BY <1>10, QuietStepKeepsInv DEF Poison, Reply, None, CacheInv, CacheTypeOK
  <1>11. CASE UNCHANGED cacheVars
    BY <1>11 DEF cacheVars, CacheInv, CacheTypeOK, CapacityBound, RecencyDistinct,
       SlotsAgreeWithHistory, HitIsLatestAndFresh
  <1> QED
    BY <1>1, <1>2, <1>3, <1>4, <1>5, <1>6, <1>7, <1>8, <1>9, <1>10, <1>11 DEF CacheNext

\* The inductive invariant holds in every reachable state of the cache.
THEOREM CacheInvariant == CacheSpec => []CacheInv
  BY CacheInitInv, CacheStepInv, PTL DEF CacheSpec

\* The cache state is well typed in every reachable state.
THEOREM CacheTypeCorrect == CacheSpec => []CacheTypeOK
  <1>1. CacheInv => CacheTypeOK
    BY DEF CacheInv
  <1> QED
    BY <1>1, CacheInvariant, PTL

\* For every capacity, the cache never retains more than max_entries slots.
THEOREM CacheIsBounded == CacheSpec => []CapacityBound
  <1>1. CacheInv => CapacityBound
    BY DEF CacheInv
  <1> QED
    BY <1>1, CacheInvariant, PTL

\* Recency is a strict order on the slots: eviction never falls back on keys.
THEOREM RecencyIsStrict == CacheSpec => []RecencyDistinct
  <1>1. CacheInv => RecencyDistinct
    BY DEF CacheInv
  <1> QED
    BY <1>1, CacheInvariant, PTL

\* A hit never answers a stale or superseded response.
THEOREM HitsAreCurrent == CacheSpec => []HitIsLatestAndFresh
  <1>1. CacheInv => HitIsLatestAndFresh
    BY DEF CacheInv
  <1> QED
    BY <1>1, CacheInvariant, PTL

\* A fresh entry that a step of the cache removes is the one used longest ago,
\* and the cache was full: the loop of insert removes one entry at most.
LEMMA InsertEvictsTheLeastRecent ==
  ASSUME CacheInv, NEW k \in Keys, NEW r \in Responses, Insert(k, r),
         NEW x \in Fresh \ DOMAIN slots'
  PROVE  /\ Cardinality(Fresh) = MaxEntries
         /\ \A j \in Fresh \ {x} :
               j \in DOMAIN slots' /\ slots[x].last_used < slots[j].last_used
  <1>1. PICK K \in SUBSET Fresh :
           /\ IsKept(K, Fresh)
           /\ slots' = [j \in K \cup {k} |-> IF j = k THEN NewSlot(r) ELSE slots[j]]
    BY DEF Insert
  <1>2. DOMAIN slots' = K \cup {k} /\ x \notin K
    BY <1>1
  <1>3. Fresh \subseteq DOMAIN slots
    BY DEF Fresh
  <1>4. /\ IsFiniteSet(Fresh) /\ Cardinality(Fresh) \in Nat
        /\ Cardinality(DOMAIN slots) \in Nat
        /\ Cardinality(Fresh) <= MaxEntries
    BY <1>3, FS_Subset, FS_CardinalityType, CacheAssumption DEF CacheInv, CapacityBound
  <1>5. /\ IsFiniteSet(Fresh \ {x})
        /\ Cardinality(Fresh \ {x}) = Cardinality(Fresh) - 1
    BY <1>4, FS_RemoveElement
  <1>6. K \subseteq Fresh \ {x}
    BY <1>1, <1>2
  <1>7. Cardinality(K) \in Nat /\ Cardinality(K) <= Cardinality(Fresh) - 1
    BY <1>5, <1>6, FS_Subset, FS_CardinalityType
  <1>8. Cardinality(Fresh) = MaxEntries /\ Cardinality(K) = MaxEntries - 1
    BY <1>1, <1>4, <1>7, CacheAssumption DEF IsKept, RoomLeft
  <1>9. K = Fresh \ {x}
    BY <1>5, <1>6, <1>8, FS_Subset
  <1>10. ASSUME NEW j \in Fresh \ {x} PROVE slots[x].last_used < slots[j].last_used
    <2>1. Older(x, j)
      BY <1>1, <1>2, <1>9 DEF IsKept
    <2>2. slots[x].last_used # slots[j].last_used
      BY <1>3 DEF CacheInv, RecencyDistinct
    <2> QED
      BY <2>1, <2>2 DEF Older
  <1> QED
    BY <1>2, <1>8, <1>9, <1>10

\* For every capacity: what an insert into a full cache removes is the entry used
\* longest ago and nothing else, and no other call removes a fresh entry except
\* clear (cache.rs insert, least_recently_used).
THEOREM EvictionIsLeastRecent == CacheSpec => EvictsOnlyTheLeastRecent
  <1> DEFINE Kept ==
        \A k \in Fresh \ DOMAIN slots' :
           \/ DOMAIN slots' = {}
           \/ /\ Cardinality(Fresh) = MaxEntries
              /\ \A j \in Fresh \ {k} :
                    j \in DOMAIN slots' /\ slots[k].last_used < slots[j].last_used
  <1>1. CacheInv /\ [CacheNext]_cacheVars => [Kept]_cacheVars
    <2> SUFFICES ASSUME CacheInv, [CacheNext]_cacheVars PROVE [Kept]_cacheVars
      OBVIOUS
    <2>1. ASSUME UNCHANGED slots PROVE Kept
      BY <2>1 DEF Fresh
    <2>2. ASSUME NEW k \in Keys, GetMiss(k) PROVE Kept
      <3>1. DOMAIN slots' = DOMAIN slots \ {k}
        BY <2>2 DEF GetMiss, Restricted
      <3>2. k \notin Fresh
        BY <2>2, CacheAssumption DEF GetMiss, IsExpired, Fresh, CacheInv, CacheTypeOK, Slot
      <3> QED
        BY <3>1, <3>2 DEF Fresh
    <2>3. ASSUME NEW k \in Keys, GetHit(k) PROVE Kept
      <3>1. DOMAIN slots' = DOMAIN slots
        BY <2>3 DEF GetHit, CacheInv, CacheTypeOK
      <3> QED
        BY <3>1 DEF Fresh
    <2>4. ASSUME NEW k \in Keys, NEW r \in Responses, Insert(k, r) PROVE Kept
      BY <2>4, InsertEvictsTheLeastRecent
    <2>5. CASE CacheLen
      BY <2>5 DEF CacheLen, Restricted
    <2>6. CASE Clear
      BY <2>6 DEF Clear, Restricted
    <2>7. CASE UNCHANGED cacheVars
      BY <2>7
    <2> QED
      BY <2>1, <2>2, <2>3, <2>4, <2>5, <2>6, <2>7
         DEF CacheNext, GetPoisoned, InsertPoisoned, Refuse, Tick, Poison
  <1> QED
    BY <1>1, CacheInvariant, PTL DEF CacheSpec, EvictsOnlyTheLeastRecent

-----------------------------------------------------------------------------
(* The engine over the cache.                                              *)

\* Where every variable of the engine lives.
EngineDomains ==
    /\ pc \in [Threads -> {"idle", "lookup", "guard", "wave", "store"}]
    /\ key \in [Threads -> Keys \cup {NoKey}]
    /\ left \in [Threads -> Nat]
    /\ got \in [Threads -> Responses \cup {NoKey}]
    /\ answer \in [Threads -> {Silent, Failure} \cup [kind : {"replay", "fresh"}, response : Responses]]
    /\ cancelled \in BOOLEAN

\* What keeps a call that began after cancellation from deciding: the token
\* stays set, so its guard stops it before the first wave.
DoomedStop ==
    /\ doomed # {} => cancelled
    /\ \A t \in doomed : pc[t] \in {"idle", "lookup", "guard"} /\ answer[t].kind # "fresh"

\* The inductive invariant of the engine.
EngineInv == CacheInv /\ EngineDomains /\ EngineTypeOK /\ DoomedStop

\* The invariant of the engine's own part, which the cache does not touch.
EnginePart == EngineDomains /\ EngineTypeOK /\ DoomedStop

\* Every step of the engine is a step of the cache or leaves it alone.
LEMMA EngineStepIsCacheStep == EngineInv /\ [Next]_vars => [CacheNext]_cacheVars
  <1> SUFFICES ASSUME EngineInv, [Next]_vars PROVE [CacheNext]_cacheVars
    OBVIOUS
  <1>0. \A t \in Threads : pc[t] # "idle" => key[t] \in Keys
    BY DEF EngineInv, EngineDomains, EngineTypeOK
  <1>1. ASSUME NEW t \in Threads, Hit(t) \/ Miss(t) PROVE CacheNext
    BY <1>0, <1>1 DEF Hit, Miss, CacheNext
  <1>2. ASSUME NEW t \in Threads, Store(t) PROVE CacheNext
    <2>1. key[t] \in Keys /\ got[t] \in Responses
      BY <1>0, <1>2 DEF Store, EngineInv, EngineTypeOK
    <2> QED
      BY <1>2, <2>1 DEF Store, StoreUnder, CacheNext
  <1>3. ASSUME NEW t \in Threads, Step(t) PROVE [CacheNext]_cacheVars
    BY <1>1, <1>2, <1>3 DEF Step, GuardStops, GuardPasses, WaveEnds, WaveFails, RunEnds
  <1>4. ASSUME NEW t \in Threads, CallInvalid(t) \/ \E k \in Keys : Call(t, k)
        PROVE  UNCHANGED cacheVars
    BY <1>4 DEF CallInvalid, Call
  <1>5. CASE Cancel
    BY <1>5 DEF Cancel
  <1>6. CASE Inspect
    BY <1>6 DEF Inspect, CacheNext
  <1>7. CASE Surroundings
    BY <1>7 DEF Surroundings, CacheNext
  <1>8. CASE UNCHANGED vars
    BY <1>8 DEF vars
  <1> QED
    BY <1>3, <1>4, <1>5, <1>6, <1>7, <1>8 DEF Next

\* Returning from a call keeps the engine's part when the answer is well typed
\* and is not a fresh decision of a call that began after cancellation.
LEMMA ReturnsKeepsPart ==
  ASSUME EnginePart, NEW t \in Threads,
         NEW a \in {Silent, Failure} \cup [kind : {"replay", "fresh"}, response : Responses],
         t \in doomed => a.kind # "fresh", Returns(t, a)
  PROVE  EnginePart'
  <1>1. EngineDomains'
    BY DEF Returns, Goto, EnginePart, EngineDomains
  <1>2. EngineTypeOK'
    BY DEF Returns, Goto, EnginePart, EngineDomains, EngineTypeOK
  <1>3. DoomedStop'
    BY DEF Returns, Goto, EnginePart, EngineDomains, EngineTypeOK, DoomedStop
  <1> QED
    BY <1>1, <1>2, <1>3 DEF EnginePart

\* Every step keeps the engine's part of the invariant.
LEMMA EnginePartStep == EngineInv /\ [Next]_vars => EnginePart'
  <1> SUFFICES ASSUME EngineInv, [Next]_vars PROVE EnginePart'
    OBVIOUS
  <1>0. EnginePart
    BY DEF EngineInv, EnginePart
  <1>1. ASSUME NEW t \in Threads, NEW k \in Keys, Call(t, k) PROVE EnginePart'
    <2>1. EngineDomains'
      BY <1>0, <1>1, EngineAssumption DEF Call, Goto, EnginePart, EngineDomains
    <2>2. EngineTypeOK'
      BY <1>0, <1>1, EngineAssumption DEF Call, Goto, EnginePart, EngineDomains, EngineTypeOK
    <2>3. DoomedStop'
      BY <1>0, <1>1 DEF Call, Goto, EnginePart, EngineDomains, EngineTypeOK, DoomedStop, Silent
    <2> QED
      BY <2>1, <2>2, <2>3 DEF EnginePart
  <1>2. ASSUME NEW t \in Threads, CallInvalid(t) PROVE EnginePart'
    BY <1>0, <1>2 DEF CallInvalid, EnginePart, EngineDomains, EngineTypeOK, DoomedStop, Failure
  <1>3. ASSUME NEW t \in Threads, Hit(t) PROVE EnginePart'
    <2>1. key[t] \in DOMAIN slots
      BY <1>3 DEF Hit, GetHit, IsExpired
    <2>2. slots[key[t]].response \in Responses
      BY <2>1 DEF EngineInv, CacheInv, CacheTypeOK, Slot
    <2> QED
      BY <1>0, <1>3, <2>2, ReturnsKeepsPart DEF Hit
  <1>4. ASSUME NEW t \in Threads, Miss(t) PROVE EnginePart'
    BY <1>0, <1>4 DEF Miss, Goto, EnginePart, EngineDomains, EngineTypeOK, DoomedStop
  <1>5. ASSUME NEW t \in Threads, GuardStops(t) \/ WaveFails(t) PROVE EnginePart'
    BY <1>0, <1>5, ReturnsKeepsPart DEF GuardStops, WaveFails, Failure
  <1>6. ASSUME NEW t \in Threads, GuardPasses(t) PROVE EnginePart'
    <2>1. t \notin doomed
      BY <1>0, <1>6 DEF GuardPasses, Stops, EnginePart, DoomedStop
    <2> QED
      BY <1>0, <1>6, <2>1 DEF GuardPasses, Goto, EnginePart, EngineDomains, EngineTypeOK, DoomedStop
  <1>7. ASSUME NEW t \in Threads, WaveEnds(t) PROVE EnginePart'
    <2>1. /\ left'[t] = left[t] - 1 /\ left' \in [Threads -> Nat]
          /\ \A u \in Threads : u # t => left'[u] = left[u]
      BY <1>0, <1>7 DEF WaveEnds, WaveDone, EnginePart, EngineDomains
    <2>2. left'[t] \in 1 .. Waves
      BY <1>0, <1>7, <2>1, EngineAssumption DEF WaveEnds, EnginePart, EngineDomains, EngineTypeOK
    <2> QED
      BY <1>0, <1>7, <2>1, <2>2 DEF WaveEnds, Goto, EnginePart, EngineDomains, EngineTypeOK, DoomedStop
  <1>8. ASSUME NEW t \in Threads, NEW r \in Responses, RunEnds(t, r) PROVE EnginePart'
    <2>1. /\ left' \in [Threads -> Nat]
          /\ \A u \in Threads : u # t => left'[u] = left[u]
      BY <1>0, <1>8 DEF RunEnds, WaveDone, EnginePart, EngineDomains
    <2>2. t \notin doomed
      BY <1>0, <1>8 DEF RunEnds, EnginePart, DoomedStop
    <2> QED
      BY <1>0, <1>8, <2>1, <2>2 DEF RunEnds, Goto, EnginePart, EngineDomains, EngineTypeOK, DoomedStop
  <1>9. ASSUME NEW t \in Threads, Store(t) PROVE EnginePart'
    <2>1. t \notin doomed /\ got[t] \in Responses
      BY <1>0, <1>9 DEF Store, EnginePart, EngineTypeOK, DoomedStop
    <2> QED
      BY <1>0, <1>9, <2>1, ReturnsKeepsPart DEF Store
  <1>10. CASE Cancel
    BY <1>0, <1>10 DEF Cancel, EnginePart, EngineDomains, EngineTypeOK, DoomedStop
  <1>11. CASE Inspect \/ Surroundings \/ UNCHANGED vars
    BY <1>0, <1>11 DEF Inspect, Surroundings, vars, engineVars, EnginePart, EngineDomains,
       EngineTypeOK, DoomedStop
  <1> QED
    BY <1>1, <1>2, <1>3, <1>4, <1>5, <1>6, <1>7, <1>8, <1>9, <1>10, <1>11 DEF Next, Step

\* The initial state satisfies the invariant.
LEMMA EngineInitInv == Init => EngineInv
  <1> SUFFICES ASSUME Init PROVE EngineInv
    OBVIOUS
  <1>1. CacheInv
    BY CacheInitInv DEF Init
  <1> QED
    BY <1>1, EngineAssumption DEF Init, EngineInv, EngineDomains, EngineTypeOK, DoomedStop

\* The inductive invariant holds in every reachable state of the engine.
THEOREM EngineInvariant == Spec => []EngineInv
  <1>1. EngineInv /\ [Next]_vars => EngineInv'
    BY EngineStepIsCacheStep, CacheStepInv, EnginePartStep DEF EngineInv, EnginePart
  <1> QED
    BY <1>1, EngineInitInv, PTL DEF Spec

\* Threads are between calls exactly when they hold no key, in every state.
THEOREM EngineTypeCorrect == Spec => []EngineTypeOK
  <1>1. EngineInv => EngineTypeOK
    BY DEF EngineInv
  <1> QED
    BY <1>1, EngineInvariant, PTL

\* The cache keeps its bound and its freshness under concurrent calls.
THEOREM EngineKeepsCache == Spec => [](CapacityBound /\ HitIsLatestAndFresh)
  <1>1. EngineInv => CapacityBound /\ HitIsLatestAndFresh
    BY DEF EngineInv, CacheInv
  <1> QED
    BY <1>1, EngineInvariant, PTL

\* A call that began after cancellation never decides.
THEOREM CancelledEngineOnlyReplays == Spec => []CancelledOnlyReplays
  <1>1. EngineInv => CancelledOnlyReplays
    BY DEF EngineInv, DoomedStop, CancelledOnlyReplays
  <1> QED
    BY <1>1, EngineInvariant, PTL

\* Every step of the engine is a step of the memoizing service or invisible.
LEMMA EngineStepRefines ==
  EngineInv /\ [Next]_vars => [Service!ServiceNext]_(Service!serviceVars)
  <1> SUFFICES ASSUME EngineInv, [Next]_vars
               PROVE  [Service!ServiceNext]_(Service!serviceVars)
    OBVIOUS
  <1>1. ASSUME NEW t \in Threads, NEW k \in Keys, Call(t, k) PROVE Service!Ask(t, k)
    BY <1>1 DEF Call, Service!Ask, EngineInv, EngineTypeOK, Silent, Service!Silent, NoKey,
       Service!NoKey, cacheVars
  <1>2. ASSUME NEW t \in Threads, CallInvalid(t) PROVE Service!Refuse(t)
    <2>1. key[t] = NoKey /\ key = [key EXCEPT ![t] = NoKey]
      BY <1>2 DEF CallInvalid, EngineInv, EngineTypeOK, EngineDomains
    <2> QED
      BY <1>2, <2>1 DEF CallInvalid, Service!Refuse, Service!Return, Failure, NoKey,
         Service!NoKey, cacheVars
  <1>3. ASSUME NEW t \in Threads, Hit(t) PROVE Service!Replay(t)
    <2>1. key[t] \in DOMAIN slots /\ now - slots[key[t]].stored_at < Ttl
      <3>1. key[t] \in DOMAIN slots /\ ~(now - slots[key[t]].stored_at >= Ttl)
        BY <1>3 DEF Hit, GetHit, IsExpired
      <3>2. now \in Nat /\ slots[key[t]].stored_at \in Nat
        BY <3>1 DEF EngineInv, CacheInv, CacheTypeOK, Slot
      <3> QED
        BY <3>1, <3>2, CacheAssumption
    <2>2. /\ key[t] \in DOMAIN written
          /\ slots[key[t]].response = written[key[t]].response
          /\ slots[key[t]].stored_at = written[key[t]].stored_at
      BY <2>1 DEF EngineInv, CacheInv, SlotsAgreeWithHistory
    <2> QED
      BY <1>3, <2>1, <2>2 DEF Hit, GetHit, Returns, Service!Replay, Service!Return, NoKey,
         Service!NoKey
  <1>4. ASSUME NEW t \in Threads, Miss(t) PROVE UNCHANGED Service!serviceVars
    BY <1>4 DEF Miss, GetMiss, GetPoisoned, Service!serviceVars
  <1>5. ASSUME NEW t \in Threads, GuardStops(t) \/ WaveFails(t) PROVE Service!Refuse(t)
    BY <1>5 DEF GuardStops, WaveFails, Returns, Service!Refuse, Service!Return, Failure, NoKey,
       Service!NoKey, cacheVars
  <1>6. ASSUME NEW t \in Threads,
               GuardPasses(t) \/ WaveEnds(t) \/ \E r \in Responses : RunEnds(t, r)
        PROVE  UNCHANGED Service!serviceVars
    BY <1>6 DEF GuardPasses, WaveEnds, RunEnds, Service!serviceVars, cacheVars
  <1>7. ASSUME NEW t \in Threads, Store(t) PROVE \E r \in Responses : Service!Decide(t, r)
    <2>1. got[t] \in Responses /\ key[t] # NoKey
      BY <1>7 DEF Store, EngineInv, EngineTypeOK
    <2>2. CASE InsertPoisoned(key[t])
      <3>1. UNCHANGED <<written, now>>
        BY <2>2 DEF InsertPoisoned
      <3>2. Service!Decide(t, got[t])
        BY <1>7, <2>1, <3>1 DEF Store, Returns, Service!Decide, Service!Return, NoKey, Service!NoKey
      <3> QED
        BY <2>1, <3>2
    <2>3. CASE Insert(key[t], got[t])
      <3>1. /\ now' = now
            /\ written' = [j \in DOMAIN written \cup {key[t]} |->
                             IF j = key[t] THEN [response |-> got[t], stored_at |-> now] ELSE written[j]]
        BY <2>3 DEF Insert
      <3>2. Service!Decide(t, got[t])
        BY <1>7, <2>1, <3>1 DEF Store, Returns, Service!Decide, Service!Return, NoKey, Service!NoKey
      <3> QED
        BY <2>1, <3>2
    <2> QED
      BY <1>7, <2>2, <2>3 DEF Store, StoreUnder
  <1>8. CASE Cancel
    BY <1>8 DEF Cancel, Service!serviceVars, cacheVars
  <1>9. CASE Inspect
    <2>1. CASE Clear
      BY <1>9, <2>1 DEF Inspect, Clear, engineVars, Service!Forget, Service!ServiceNext
    <2>2. CASE CacheLen \/ Refuse
      BY <1>9, <2>2 DEF Inspect, CacheLen, Refuse, engineVars, Service!serviceVars
    <2> QED
      BY <1>9, <2>1, <2>2 DEF Inspect
  <1>10. CASE Surroundings
    BY <1>10 DEF Surroundings, Tick, Poison, engineVars, Service!Pass, Service!ServiceNext,
       Service!serviceVars
  <1>11. CASE UNCHANGED vars
    BY <1>11 DEF vars, engineVars, cacheVars, Service!serviceVars
  <1> QED
    BY <1>1, <1>2, <1>3, <1>4, <1>5, <1>6, <1>7, <1>8, <1>9, <1>10, <1>11
       DEF Next, Step, Service!ServiceNext

\* The engine implements the memoizing service for every number of callers,
\* every capacity, time to live, time limit and graph depth: a replay is always
\* the last decision recorded for that key and younger than its time to live.
THEOREM EngineImplementsService == Spec => ImplementsService
  <1>1. Init => Service!ServiceInit
    BY DEF Init, CacheInit, Service!ServiceInit, Silent, Service!Silent, NoKey, Service!NoKey
  <1> QED
    BY <1>1, EngineInvariant, EngineStepRefines, PTL DEF Spec, ImplementsService, Service!ServiceSpec

-----------------------------------------------------------------------------
(* The threshold node and the assembled response, for every request,      *)
(* ladder, set of policies and number of probability units.                *)

AnswerKeys == Labels \cup {Abstention} \cup Verdicts
Entry == [rung : Nat, decision : Decision]

\* What a question may have been resolved to, and what it then says.
Verdictive == {"Accept", "Verify", "Verified", "Abstain", "Escalate"}

\* Where each variable lives.
GateTypeOK ==
    /\ questions \subseteq Nat /\ IsFiniteSet(questions) /\ questions # {}
    /\ \A q \in questions : QKind[q] \in {"choice", "boolean"}
    /\ policyOf \in [questions -> Policies]
    /\ rungs \in Seq(Rung)
    /\ DOMAIN decisions \subseteq questions
    /\ decisions \in [DOMAIN decisions -> Decision]
    /\ DOMAIN primary = DOMAIN decisions
    /\ todo \subseteq DOMAIN decisions
    /\ rung \in Nat \ {0}
    /\ phase \in {"walk", "gate", "assemble", "done"}
    /\ resolved \in [questions -> Verdictive \cup {"none"}]
    /\ fired \in [questions -> Seq(Entry)]
    /\ DOMAIN vote = questions

\* The threshold node works while a question is left to resolve.
PhaseAgrees ==
    /\ phase \in {"walk", "gate"} => todo # {}
    /\ phase = "assemble" => todo = {}

\* The decision in place is the one the walk ended with, so far.
LiveIsLastWord == \A q \in Decided : decisions[q] = LastWord(q)

\* A question that has been resolved was resolved by what the gate says of the
\* decision in place, or by the verifier when the gate asks for it.
GateResolved ==
    \A q \in Decided \ todo :
        LET gate == GateOutcome(decisions[q], policyOf[q])
        IN  \/ vote[q] = "none" /\ resolved[q] = gate
            \/ /\ gate = "Verify"
               /\ resolved[q] = IF vote[q] = decisions[q].top THEN "Verified" ELSE "Abstain"

\* A response is given once, when every question is resolved, and is as severe
\* as the severest of them.
ResponseDriven ==
    /\ phase # "done" => response = Pending
    /\ Ready =>
          /\ todo = {}
          /\ DOMAIN response.answers = Answered
          /\ \A q \in Answered : response.answers[q] = decisions[q].answer
          /\ \/ response.outcome = "NoValidCandidate"
             \/ /\ response.outcome \in Verdictive
                /\ \A q \in questions : Severity(OutcomeOf(q)) <= Severity(response.outcome)

\* The inductive invariant.
GateInv ==
    /\ GateTypeOK
    /\ PhaseAgrees
    /\ LiveIsLastWord
    /\ GateResolved
    /\ ResponseDriven

-----------------------------------------------------------------------------
(* Facts about the operators.                                              *)

\* A policy's thresholds are numbers of probability units.
LEMMA PolicyShape ==
  ASSUME NEW p \in Policies
  PROVE  /\ p.min_confidence \in Nat /\ p.abstain_below \in Nat
         /\ p.escalate_below \in Nat /\ p.boolean_threshold \in Nat
  BY GateAssumption DEF Policy, NoLevel

\* A reading is of one of the question's answers, with a mass of at most Full.
LEMMA ReadingShape ==
  ASSUME NEW q, NEW r \in Readings(q)
  PROVE  r.top \in AnswerKeys /\ r.mass \in 1 .. Full /\ (policyOf[q].gated \in BOOLEAN => r.flat \in BOOLEAN)
  BY DEF Readings, AnswerKeys, Verdicts, Abstention

\* decide_question makes a decision of every reading.
LEMMA DecideQuestionType ==
  ASSUME NEW q, NEW r \in Readings(q), NEW p \in Policies, policyOf[q] \in Policies
  PROVE  DecideQuestion(q, r, p) \in Decision
  <1>1. r.top \in AnswerKeys /\ r.mass \in 1 .. Full /\ r.flat \in BOOLEAN
    <2>1. policyOf[q].gated \in BOOLEAN
      BY GateAssumption DEF Policy
    <2> QED
      BY <2>1, ReadingShape
  <1>2. Full \in Nat
    BY GateAssumption
  <1>3. TrueMass(r) \in 0 .. Full
    BY <1>1, <1>2 DEF TrueMass
  <1>4. VerdictMass(r, p) \in 0 .. Full /\ Verdict(r, p) \in Verdicts
    BY <1>2, <1>3 DEF VerdictMass, Verdict, Verdicts
  <1>5. Abstained(q, r, p) \in {"no", "Elicited", "LabelOverlap"}
    BY DEF Abstained
  <1> QED
    BY <1>1, <1>2, <1>4, <1>5 DEF DecideQuestion, Decision, AnswerKeys

\* The gate never says Verified, and says Verify of a live answer only.
LEMMA GateSays ==
  ASSUME NEW d, NEW p
  PROVE  /\ GateOutcome(d, p) \in {"Accept", "Verify", "Abstain", "Escalate"}
         /\ d.abstained # "no" => GateOutcome(d, p) = "Abstain"
         /\ d.abstained = "no" => GateOutcome(d, p) = OutcomeFor(d, p)
  BY DEF GateOutcome, OutcomeFor

\* What the gate lets through is not below the abstention threshold.
LEMMA GateFloor ==
  ASSUME NEW d \in Decision, NEW p \in Policies, GateOutcome(d, p) \in {"Accept", "Verify"}
  PROVE  d.abstained = "no" /\ d.confidence >= p.abstain_below
  <1>1. d.confidence \in Nat
    BY GateAssumption DEF Decision
  <1> QED
    BY <1>1, PolicyShape DEF GateOutcome, OutcomeFor

\* The threshold node takes up a question that is left to resolve.
LEMMA CurrentLeft ==
  ASSUME GateTypeOK, todo # {}
  PROVE  Current \in todo
  <1>1. todo \in SUBSET Nat
    BY DEF GateTypeOK
  <1>2. \E q \in todo : \A o \in todo : q <= o
    BY <1>1, LeastNumber
  <1> QED
    BY <1>2 DEF Current

\* Every outcome has a rank, and only Accept and Verified are of the two lowest.
LEMMA SeverityRank ==
  ASSUME NEW o \in Verdictive
  PROVE  /\ Severity(o) \in Nat
         /\ Severity(o) <= 2 <=> o \in Decisive
         /\ Severity(o) >= 4 <=> o \in {"Abstain", "Escalate"}
  BY DEF Severity, Verdictive, Decisive

\* A question of the request that drives its outcome exists: the order that
\* assemble picks the greatest question by is total.
LEMMA DriverExists ==
  ASSUME GateTypeOK, \A q \in questions : OutcomeOf(q) \in Verdictive
  PROVE  \E q \in questions : Drives(q)
  <1> DEFINE Rank(q) == Severity(OutcomeOf(q))
             Beats(o, q) == \/ Rank(o) > Rank(q)
                            \/ /\ Rank(o) = Rank(q)
                               /\ \/ ConfidenceOf(o) < ConfidenceOf(q)
                                  \/ ConfidenceOf(o) = ConfidenceOf(q) /\ o > q
             Above(q) == {o \in questions : Beats(o, q)}
             F == {Above(q) : q \in questions}
  <1>1. \A q \in questions : Rank(q) \in Nat /\ ConfidenceOf(q) \in Nat /\ q \in Nat
    BY SeverityRank, GateAssumption DEF ConfidenceOf, Decided, GateTypeOK, Decision
  <1>2. PICK q \in questions : \A o \in questions : ~(Above(o) \subseteq Above(q) /\ Above(o) # Above(q))
    <2>1. IsFiniteSet(questions) /\ F \in SUBSET (SUBSET questions) /\ F # {}
      <3>1. IsFiniteSet(questions) /\ questions # {}
        BY DEF GateTypeOK
      <3>2. \A q \in questions : Above(q) \in SUBSET questions
        OBVIOUS
      <3> HIDE DEF Above
      <3> QED
        BY <3>1, <3>2
    <2>2. \E x \in F : \A y \in F : ~(y \subseteq x /\ y # x)
      <3> HIDE DEF F
      <3> QED
        BY <2>1, MinimalSubset
    <2> HIDE DEF Above
    <2> QED
      BY <2>2
  <1>3. ASSUME NEW o \in Above(q) PROVE FALSE
    <2>1. o \in questions /\ Beats(o, q)
      OBVIOUS
    <2>2. Above(o) \subseteq Above(q)
      <3> SUFFICES ASSUME NEW x \in questions, Beats(x, o) PROVE Beats(x, q)
        OBVIOUS
      <3> HIDE DEF Rank
      <3> QED
        BY <1>1, <2>1
    <2>3. o \notin Above(o)
      <3> HIDE DEF Rank
      <3> QED
        BY <1>1, <2>1
    <2> HIDE DEF Above
    <2> QED
      BY <1>2, <1>3, <2>1, <2>2, <2>3
  <1>4. ASSUME NEW o \in questions \ {q} PROVE Beats(q, o)
    <2>1. ~Beats(o, q)
      BY <1>3
    <2> HIDE DEF Rank
    <2> QED
      BY <1>1, <2>1
  <1> QED
    BY <1>4 DEF Drives


-----------------------------------------------------------------------------
(* The invariant is inductive.                                             *)

\* The deciding nodes leave a state of the invariant.
LEMMA GateInitInv == GateInit => GateInv
  <1> SUFFICES ASSUME GateInit PROVE GateInv
    OBVIOUS
  <1>1. questions \subseteq Nat /\ IsFiniteSet(questions) /\ questions # {}
        /\ (\A q \in questions : QKind[q] \in {"choice", "boolean"}) /\ rungs \in Seq(Rung)
    BY GateAssumption DEF GateInit
  <1>2. policyOf \in [questions -> Policies]
    BY DEF GateInit
  <1>3. DOMAIN decisions \subseteq questions /\ decisions \in [DOMAIN decisions -> Decision]
    <2>1. PICK answered \in SUBSET questions :
             \E read \in [answered -> UNION {Readings(q) : q \in questions}] :
                /\ \A q \in answered : read[q] \in Readings(q)
                /\ decisions = [q \in answered |-> DecideQuestion(q, read[q], policyOf[q])]
      BY DEF GateInit
    <2>2. PICK read : /\ \A q \in answered : read[q] \in Readings(q)
                      /\ decisions = [q \in answered |-> DecideQuestion(q, read[q], policyOf[q])]
      BY <2>1
    <2>3. \A q \in answered : DecideQuestion(q, read[q], policyOf[q]) \in Decision
      BY <1>2, <2>2, DecideQuestionType
    <2> QED
      BY <2>2, <2>3
  <1>4. GateTypeOK
    BY <1>1, <1>2, <1>3 DEF GateInit, GateTypeOK
  <1>5. PhaseAgrees /\ GateResolved /\ ResponseDriven
    BY DEF GateInit, PhaseAgrees, GateResolved, ResponseDriven, Decided, Ready, Pending
  <1>6. LiveIsLastWord
    BY <1>4 DEF GateInit, LiveIsLastWord, LastWord, Decided, GateTypeOK
  <1> QED
    BY <1>4, <1>5, <1>6 DEF GateInv

\* A step that touches neither decisions nor verdicts, and gives no response.
LEMMA WalkStepKeepsInv ==
  ASSUME GateInv, UNCHANGED <<config, decisions, todo, resolved, fired, vote, response>>,
         rung' \in Nat \ {0}, phase \in {"walk", "gate"}, phase' \in {"walk", "gate"}
  PROVE  GateInv'
  <1>1. GateTypeOK'
    BY DEF GateInv, GateTypeOK, config
  <1>2. PhaseAgrees' /\ LiveIsLastWord' /\ GateResolved'
    BY DEF GateInv, PhaseAgrees, LiveIsLastWord, GateResolved, Decided, LastWord, config
  <1>3. ResponseDriven'
    BY DEF GateInv, ResponseDriven, Ready, Pending
  <1> QED
    BY <1>1, <1>2, <1>3 DEF GateInv

\* A rung that fires replaces the decision of the current question, and no
\* other, by the last word of its walk.
LEMMA WalkFireKeepsInv ==
  ASSUME GateInv, Walking, NEW r \in Readings(Current), WalkFire(r)
  PROVE  GateInv'
  <1> DEFINE d == DecideQuestion(Current, r, RungPolicy)
             e == [rung |-> rung, decision |-> d]
  <1>1. Current \in todo /\ Current \in Decided /\ Current \in questions
    BY CurrentLeft DEF GateInv, GateTypeOK, Walking, Decided
  <1>2. RungPolicy \in Policies /\ policyOf[Current] \in Policies
    <2>1. rung \in 1 .. Len(rungs) /\ rungs \in Seq(Rung)
      BY DEF WalkFire, RungLeft, GateInv, GateTypeOK
    <2>2. rungs[rung] \in Rung
      BY <2>1
    <2>3. policyOf[Current] \in Policies
      BY <1>1 DEF GateInv, GateTypeOK
    <2> QED
      BY <2>2, <2>3 DEF RungPolicy, NodePolicy, Rung
  <1>3. d \in Decision
    BY <1>2, DecideQuestionType
  <1> HIDE DEF d
  <1>4. /\ decisions' = [decisions EXCEPT ![Current] = d]
        /\ fired' = [fired EXCEPT ![Current] = Append(@, e)]
        /\ rung' = rung + 1 /\ phase = "walk"
        /\ UNCHANGED <<config, todo, phase, resolved, vote, response>>
    BY DEF WalkFire, d, Walking
  <1>5. e \in Entry
    BY <1>3 DEF Entry, GateInv, GateTypeOK
  <1> HIDE DEF e
  <1>6. /\ DOMAIN decisions' = DOMAIN decisions
        /\ decisions'[Current] = d
        /\ \A q \in Decided \ {Current} : decisions'[q] = decisions[q]
    BY <1>1, <1>4 DEF Decided
  <1>7. /\ fired' \in [questions -> Seq(Entry)]
        /\ fired'[Current] = Append(fired[Current], e)
        /\ \A q \in questions \ {Current} : fired'[q] = fired[q]
    BY <1>1, <1>4, <1>5 DEF GateInv, GateTypeOK
  <1>8. GateTypeOK'
    <2>1. decisions' \in [DOMAIN decisions' -> Decision]
      BY <1>1, <1>3, <1>4 DEF GateInv, GateTypeOK, Decided
    <2> QED
      BY <1>4, <1>6, <1>7, <2>1 DEF GateInv, GateTypeOK, config
  <1>9. PhaseAgrees' /\ ResponseDriven'
    BY <1>4 DEF GateInv, PhaseAgrees, ResponseDriven, Ready, Pending
  <1>10. GateResolved'
    BY <1>1, <1>4, <1>6 DEF GateInv, GateResolved, Decided, config
  <1>11. LiveIsLastWord'
    <2>1. fired'[Current] # <<>> /\ fired'[Current][Len(fired'[Current])] = e
      BY <1>1, <1>5, <1>7 DEF GateInv, GateTypeOK
    <2>2. LastWord(Current)' = d /\ Current' = Current
      BY <1>4, <2>1 DEF LastWord, e, Current
    <2>3. \A q \in Decided \ {Current} : LastWord(q)' = LastWord(q)
      BY <1>4, <1>7 DEF LastWord, config, Decided, GateInv, GateTypeOK
    <2> QED
      BY <1>6, <2>2, <2>3 DEF LiveIsLastWord, GateInv, Decided
  <1> QED
    BY <1>8, <1>9, <1>10, <1>11 DEF GateInv


\* The gate settles the current question, by its own word or by the
\* verifier's where it asks for one.
LEMMA ResolveKeepsInv ==
  ASSUME GateInv, NEW o, NEW v, Resolve(o, v),
         \/ v = "none" /\ o = GateOutcome(Live, NodePolicy)
         \/ GateOutcome(Live, NodePolicy) = "Verify" /\ o = VerdictOfVote(v)
  PROVE  GateInv'
  <1>1. Current \in todo /\ Current \in Decided /\ Current \in questions
    BY CurrentLeft DEF GateInv, GateTypeOK, PhaseAgrees, Resolve, Decided
  <1>2. /\ resolved' = [resolved EXCEPT ![Current] = o] /\ vote' = [vote EXCEPT ![Current] = v]
        /\ todo' = todo \ {Current} /\ rung' = 1 /\ phase = "gate"
        /\ phase' = IF todo = {Current} THEN "assemble" ELSE "walk"
        /\ UNCHANGED <<config, decisions, fired, response>>
    BY DEF Resolve
  <1>3. o \in Verdictive
    BY GateSays DEF VerdictOfVote, Verdictive
  <1>4. GateTypeOK'
    BY <1>1, <1>2, <1>3 DEF GateInv, GateTypeOK, config
  <1>5. PhaseAgrees' /\ LiveIsLastWord' /\ ResponseDriven'
    BY <1>1, <1>2 DEF GateInv, PhaseAgrees, LiveIsLastWord, LastWord, ResponseDriven, Ready, Pending, Decided, config
  <1>6. GateResolved'
    <2> SUFFICES ASSUME NEW q \in Decided \ todo'
                 PROVE  \/ /\ vote'[q] = "none" /\ resolved'[q] = GateOutcome(decisions[q], policyOf[q])
                        \/ /\ GateOutcome(decisions[q], policyOf[q]) = "Verify"
                           /\ resolved'[q] = IF vote'[q] = decisions[q].top THEN "Verified" ELSE "Abstain"
      BY <1>2 DEF GateResolved, Decided, config
    <2>1. CASE q = Current
      BY <1>1, <1>2, <2>1 DEF Live, NodePolicy, VerdictOfVote, GateInv, GateTypeOK
    <2>2. CASE q # Current
      BY <1>1, <1>2, <2>2 DEF GateInv, GateTypeOK, GateResolved, Decided
    <2> QED
      BY <2>1, <2>2
  <1> QED
    BY <1>4, <1>5, <1>6 DEF GateInv

\* The response is as severe as the question that drives it.
LEMMA AssembleKeepsInv ==
  ASSUME GateInv, Assemble
  PROVE  GateInv'
  <1>1. /\ phase' = "done" /\ todo = {} /\ phase = "assemble"
        /\ UNCHANGED <<config, decisions, todo, rung, resolved, fired, vote>>
    BY DEF Assemble, GateInv, PhaseAgrees
  <1>2. GateTypeOK' /\ PhaseAgrees' /\ LiveIsLastWord' /\ GateResolved'
    BY <1>1 DEF GateInv, GateTypeOK, PhaseAgrees, LiveIsLastWord, LastWord, GateResolved, Decided, config
  <1>3. ASSUME NEW q \in questions PROVE OutcomeOf(q) \in Verdictive
    <2>1. CASE q \in Decided
      <3>1. \/ resolved[q] = GateOutcome(decisions[q], policyOf[q])
            \/ resolved[q] \in {"Verified", "Abstain"}
        BY <1>1, <2>1 DEF GateInv, GateResolved
      <3> QED
        BY <2>1, <3>1, GateSays DEF OutcomeOf, Verdictive
    <2> QED
      BY <2>1 DEF OutcomeOf, Verdictive
  <1> DEFINE driver == CHOOSE q \in questions : Drives(q)
             o == IF starved # {} THEN "NoValidCandidate" ELSE OutcomeOf(driver)
  <1>4. driver \in questions /\ Drives(driver)
    BY <1>3, DriverExists DEF GateInv
  <1>5. \A q \in questions : Severity(OutcomeOf(q)) <= Severity(OutcomeOf(driver))
    <2>1. \A q \in questions : Severity(OutcomeOf(q)) \in Nat
      BY <1>3, SeverityRank
    <2> HIDE DEF driver
    <2> QED
      BY <1>4, <2>1 DEF Drives
  <1>6. o = "NoValidCandidate" \/ (o \in Verdictive /\ \A q \in questions : Severity(OutcomeOf(q)) <= Severity(o))
    BY <1>3, <1>4, <1>5
  <1>7. \/ response' = [kind |-> "refused"]
        \/ response' = [kind |-> "decided", outcome |-> o,
                        answers |-> [q \in Answered |-> decisions[q].answer]]
    BY DEF Assemble
  <1>8. UNCHANGED <<Answered, Decided>> /\ \A q : OutcomeOf(q)' = OutcomeOf(q)
    BY <1>1 DEF Answered, Decided, OutcomeOf
  <1> HIDE DEF o
  <1>9. ResponseDriven'
    BY <1>1, <1>6, <1>7, <1>8 DEF ResponseDriven, Ready, config
  <1> QED
    BY <1>2, <1>9 DEF GateInv

\* A run that fails gives its error and settles nothing.
LEMMA FailKeepsInv ==
  ASSUME GateInv, Fail
  PROVE  GateInv'
  <1>1. /\ phase' = "done" /\ response' = [kind |-> "error"]
        /\ UNCHANGED <<config, decisions, todo, rung, resolved, fired, vote>>
    BY DEF Fail
  <1> QED
    BY <1>1 DEF GateInv, GateTypeOK, PhaseAgrees, LiveIsLastWord, LastWord, GateResolved, ResponseDriven, Ready,
       Decided, config

\* Every step keeps the invariant.
LEMMA GateStepInv == GateInv /\ [GateNext]_gateVars => GateInv'
  <1> SUFFICES ASSUME GateInv, [GateNext]_gateVars PROVE GateInv'
    OBVIOUS
  <1>1. CASE WalkEnd
    BY <1>1, WalkStepKeepsInv DEF WalkEnd, Walking, GateInv, GateTypeOK
  <1>2. CASE WalkSkip
    BY <1>2, WalkStepKeepsInv DEF WalkSkip, Walking, GateInv, GateTypeOK
  <1>3. CASE Fail
    BY <1>3, FailKeepsInv
  <1>4. CASE \E r \in (IF Walking THEN Readings(Current) ELSE {}) : WalkFire(r)
    BY <1>4, WalkFireKeepsInv
  <1>5. CASE GateStands
    BY <1>5, ResolveKeepsInv DEF GateStands
  <1>6. CASE GateVerifies
    BY <1>6, ResolveKeepsInv DEF GateVerifies
  <1>7. CASE Assemble
    BY <1>7, AssembleKeepsInv
  <1>8. CASE UNCHANGED gateVars
    BY <1>8 DEF gateVars, GateInv, GateTypeOK, PhaseAgrees, LiveIsLastWord, LastWord, GateResolved, ResponseDriven,
       Ready, Decided, Answered, OutcomeOf
  <1> QED
    BY <1>1, <1>2, <1>3, <1>4, <1>5, <1>6, <1>7, <1>8 DEF GateNext, Finished

\* The inductive invariant holds in every reachable state.
THEOREM GateInvariant == GateSpec => []GateInv
  BY GateInitInv, GateStepInv, PTL DEF GateSpec

-----------------------------------------------------------------------------
(* What the caller may rely on.                                            *)

\* What a question was resolved to, once all of them are.
LEMMA ResolvedByGate ==
  ASSUME GateInv, Ready, NEW q \in Decided
  PROVE  /\ q \in questions /\ decisions[q] \in Decision /\ policyOf[q] \in Policies
         /\ decisions[q] = LastWord(q) /\ OutcomeOf(q) = resolved[q]
         /\ \/ vote[q] = "none" /\ resolved[q] = GateOutcome(decisions[q], policyOf[q])
            \/ /\ GateOutcome(decisions[q], policyOf[q]) = "Verify"
               /\ resolved[q] = IF vote[q] = decisions[q].top THEN "Verified" ELSE "Abstain"
  BY DEF GateInv, GateTypeOK, LiveIsLastWord, GateResolved, ResponseDriven, OutcomeOf, Decided

\* For every ladder and every request: the answers of the response are those
\* the walks ended with, and an accepted one cleared its own question's gate
\* (executor.rs decide_question, resolve_threshold).
THEOREM LastWordShipped == GateSpec => []LastWordIsShipped
  <1>1. GateInv => LastWordIsShipped
    <2> SUFFICES ASSUME GateInv, Ready, NEW q \in DOMAIN response.answers
                 PROVE  /\ response.answers[q] = LastWord(q).answer
                        /\ resolved[q] = "Accept" => OutcomeFor(LastWord(q), policyOf[q]) = "Accept"
      BY DEF LastWordIsShipped
    <2>1. q \in Answered /\ q \in Decided /\ response.answers[q] = decisions[q].answer
      BY DEF GateInv, ResponseDriven, Answered
    <2> QED
      BY <2>1, ResolvedByGate, GateSays
  <1> QED
    BY <1>1, GateInvariant, PTL

\* A response is at least as severe as each of its questions.
LEMMA ResponseSevere ==
  ASSUME GateInv, Ready, NEW q \in questions, response.outcome # "NoValidCandidate"
  PROVE  /\ OutcomeOf(q) \in Verdictive /\ response.outcome \in Verdictive
         /\ response.outcome \in Decisive => OutcomeOf(q) \in Decisive
         /\ OutcomeOf(q) \in {"Abstain", "Escalate"} => response.outcome \in {"Abstain", "Escalate"}
  <1>1. OutcomeOf(q) \in Verdictive
    BY ResolvedByGate, GateSays DEF OutcomeOf, Verdictive
  <1>2. response.outcome \in Verdictive /\ Severity(OutcomeOf(q)) <= Severity(response.outcome)
    BY DEF GateInv, ResponseDriven
  <1> QED
    BY <1>1, <1>2, SeverityRank

\* For every request: a decisive response answers every question, each decisively
\* and above its abstention threshold (executor.rs conservative, assemble).
THEOREM DecisiveAnswers == GateSpec => []DecisiveAnswersEverything
  <1>1. GateInv => DecisiveAnswersEverything
    <2> SUFFICES ASSUME GateInv, Ready, response.outcome \in Decisive
                 PROVE  /\ DOMAIN response.answers = questions
                        /\ \A q \in questions : /\ resolved[q] \in Decisive
                                                /\ decisions[q].confidence >= policyOf[q].abstain_below
      BY DEF DecisiveAnswersEverything
    <2>1. ASSUME NEW q \in questions
          PROVE  /\ q \in Decided /\ resolved[q] \in Decisive /\ decisions[q].abstained = "no"
                 /\ decisions[q].confidence >= policyOf[q].abstain_below
      <3>1. OutcomeOf(q) \in Decisive
        BY ResponseSevere DEF Decisive
      <3>2. q \in Decided /\ resolved[q] \in Decisive
        BY <3>1 DEF OutcomeOf, Decisive
      <3>3. GateOutcome(decisions[q], policyOf[q]) \in {"Accept", "Verify"}
        BY <3>2, ResolvedByGate, GateSays DEF Decisive
      <3> QED
        BY <3>2, <3>3, ResolvedByGate, GateFloor
    <2>2. DOMAIN response.answers = Answered /\ Answered \subseteq questions
      BY DEF GateInv, GateTypeOK, ResponseDriven, Answered, Decided
    <2> QED
      BY <2>1, <2>2 DEF Answered
  <1> QED
    BY <1>1, GateInvariant, PTL

\* For every request: one verifier that disagreed withholds the whole response
\* (executor.rs resolve_threshold, conservative).
THEOREM DisagreementIsFinal == GateSpec => []DisagreementWithholds
  <1>1. GateInv => DisagreementWithholds
    <2> SUFFICES ASSUME GateInv, Ready, NEW q \in Decided, vote[q] \notin {"none", LastWord(q).top}
                 PROVE  response.outcome \in {"Abstain", "Escalate", "NoValidCandidate"}
      BY DEF DisagreementWithholds
    <2>1. q \in questions /\ OutcomeOf(q) = "Abstain"
      BY ResolvedByGate
    <2> QED
      BY <2>1, ResponseSevere
  <1> QED
    BY <1>1, GateInvariant, PTL

\* For every request: a walk that ends in an abstention gives its question no
\* answer and the response no decisive outcome (executor.rs Abstained, assemble).
THEOREM AbstentionIsFinal == GateSpec => []AbstentionReachesCaller
  <1>1. GateInv => AbstentionReachesCaller
    <2> SUFFICES ASSUME GateInv, Ready, NEW q \in Decided, LastWord(q).abstained # "no"
                 PROVE  /\ q \notin DOMAIN response.answers
                        /\ response.outcome \in {"Abstain", "Escalate", "NoValidCandidate"}
      BY DEF AbstentionReachesCaller
    <2>1. q \in questions /\ OutcomeOf(q) = "Abstain" /\ decisions[q].abstained # "no"
      BY ResolvedByGate, GateSays
    <2>2. q \notin DOMAIN response.answers
      BY <2>1 DEF GateInv, ResponseDriven, Answered
    <2> QED
      BY <2>1, <2>2, ResponseSevere
  <1> QED
    BY <1>1, GateInvariant, PTL

=============================================================================
