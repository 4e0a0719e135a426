--------------------------- MODULE DecisionCache ---------------------------
(***************************************************************************)
(* The exact-decision cache of the engine (opencodifier-engine/src/        *)
(* cache.rs): a bounded LRU map with a time to live, behind one mutex.     *)
(* Every public method takes the lock once and releases it before it       *)
(* returns, so each method is one action.  A key is the SHA-256 digest of  *)
(* the normalised request and the engine identity; only its order (bytes)  *)
(* and its identity matter here, so keys are numbers.                      *)
(*                                                                         *)
(* `written' and `reply' are history: the last value stored under a key    *)
(* and what the call that just returned answered.                          *)
(***************************************************************************)
EXTENDS Naturals, FiniteSets

CONSTANTS
    Keys,         \* cache keys, ordered as their digest bytes are
    Responses,    \* decision responses
    MaxEntries,   \* CacheConfig::max_entries
    Ttl,          \* CacheConfig::ttl, in clock ticks
    MaxTime,      \* bound: how far the clock runs
    MaxTicks,     \* bound: how many recency ticks are handed out
    MayPanic      \* whether a thread may die while it holds the lock

\* DecisionCache::new refuses a zero capacity and a zero time to live.
ASSUME CacheAssumption ==
    /\ Keys \subseteq Nat
    /\ MaxEntries \in Nat \ {0}
    /\ Ttl \in Nat \ {0}
    /\ MaxTime \in Nat
    /\ MaxTicks \in Nat
    /\ MayPanic \in BOOLEAN

VARIABLES
    slots,      \* the map: key -> slot, a function on the retained keys
    ticks,      \* recency counter, bumped by every hit and every insert
    now,        \* the Clock
    poisoned,   \* a thread panicked while holding the mutex
    written,    \* history: key -> the latest slot contents stored under it
    reply       \* history: what the last call answered

cacheVars == <<slots, ticks, now, poisoned, written, reply>>

None == [kind |-> "none"]
Slot == [response : Responses, stored_at : Nat, last_used : Nat]
Stored == [response : Responses, stored_at : Nat]

Reply == {None, [kind |-> "error"]}
    \cup [kind : {"miss", "inserted"}, key : Keys]
    \cup [kind : {"hit"}, key : Keys, response : Responses]
    \cup [kind : {"len"}, len : Nat]

-----------------------------------------------------------------------------
(* Helpers on the map.                                                     *)

\* Mutant: an entry is still served at the very end of its time to live.
ExpiredLate(k) == k \in DOMAIN slots => now - slots[k].stored_at > Ttl

\* is_expired: an absent slot counts as expired.
IsExpired(k) == k \in DOMAIN slots => now - slots[k].stored_at >= Ttl

\* purge_expired keeps what is younger than the time to live.
Fresh == {k \in DOMAIN slots : now - slots[k].stored_at < Ttl}

\* Mutant: insertion order instead of recency (FIFO).
OlderByAge(j, k) ==
    \/ slots[j].stored_at < slots[k].stored_at
    \/ slots[j].stored_at = slots[k].stored_at /\ j < k

\* The order of least_recently_used: recency, then key.
Older(j, k) ==
    \/ slots[j].last_used < slots[k].last_used
    \/ slots[j].last_used = slots[k].last_used /\ j < k

Restricted(D) == [k \in D |-> slots[k]]

\* Mutant: the loop stops one entry late.
RoomLate(n) == IF n <= MaxEntries THEN n ELSE MaxEntries

\* How many of n entries the loop `while len >= max_entries { evict }' leaves.
RoomLeft(n) == IF n < MaxEntries THEN n ELSE MaxEntries - 1

\* K is what that loop keeps of D: it removes the least recently used entry
\* until there is room for one more.
IsKept(K, D) ==
    /\ K \subseteq D
    /\ Cardinality(K) = RoomLeft(Cardinality(D))
    /\ \A j \in D \ K, k \in K : Older(j, k)

\* The recency a hit or an insert hands out: `ticks += 1'.
NextTick == ticks + 1

\* What a hit does to the slot it found.
Touched(s) == [s EXCEPT !.last_used = NextTick]

NewSlot(r) == [response |-> r, stored_at |-> now, last_used |-> NextTick]

-----------------------------------------------------------------------------
(* The operations.                                                         *)

\* get on a poisoned lock: `lock(..).ok()?' answers None.
GetPoisoned(k) ==
    /\ poisoned
    /\ reply' = [kind |-> "miss", key |-> k]
    /\ UNCHANGED <<slots, ticks, now, poisoned, written>>

\* get of an absent or expired key: the slot is dropped.
GetMiss(k) ==
    /\ ~poisoned
    /\ IsExpired(k)
    /\ slots' = Restricted(DOMAIN slots \ {k})
    /\ reply' = [kind |-> "miss", key |-> k]
    /\ UNCHANGED <<ticks, now, poisoned, written>>

\* get of a fresh key: the slot becomes the most recently used one.
GetHit(k) ==
    /\ ~poisoned
    /\ ~IsExpired(k)
    /\ ticks < MaxTicks
    /\ ticks' = NextTick
    /\ slots' = [slots EXCEPT ![k] = Touched(slots[k])]
    /\ reply' = [kind |-> "hit", key |-> k, response |-> slots[k].response]
    /\ UNCHANGED <<now, poisoned, written>>

\* insert on a poisoned lock gives up silently.
InsertPoisoned(k) ==
    /\ poisoned
    /\ reply' = [kind |-> "inserted", key |-> k]
    /\ UNCHANGED <<slots, ticks, now, poisoned, written>>

\* insert: purge what expired, evict until there is room, store the new slot.
Insert(k, r) ==
    /\ ~poisoned
    /\ ticks < MaxTicks
    /\ ticks' = NextTick
    /\ \E K \in SUBSET Fresh :
          /\ IsKept(K, Fresh)
          /\ slots' = [j \in K \cup {k} |-> IF j = k THEN NewSlot(r) ELSE slots[j]]
    /\ written' = [j \in DOMAIN written \cup {k} |->
                     IF j = k THEN [response |-> r, stored_at |-> now] ELSE written[j]]
    /\ reply' = [kind |-> "inserted", key |-> k]
    /\ UNCHANGED <<now, poisoned>>

\* len (and is_empty): counts after purging; an error on a poisoned lock.
CacheLen ==
    /\ ~poisoned
    /\ slots' = Restricted(Fresh)
    /\ reply' = [kind |-> "len", len |-> Cardinality(Fresh)]
    /\ UNCHANGED <<ticks, now, poisoned, written>>

\* clear drops every entry and keeps the recency counter.
Clear ==
    /\ ~poisoned
    /\ slots' = Restricted({})
    /\ written' = [k \in {} |-> written[k]]
    /\ reply' = None
    /\ UNCHANGED <<ticks, now, poisoned>>

\* len and clear on a poisoned lock answer CacheMisconfigured.
Refuse ==
    /\ poisoned
    /\ reply' = [kind |-> "error"]
    /\ UNCHANGED <<slots, ticks, now, poisoned, written>>

-----------------------------------------------------------------------------
(* The surroundings.                                                       *)

\* The clock advances.
Tick ==
    /\ now < MaxTime
    /\ now' = now + 1
    /\ reply' = None
    /\ UNCHANGED <<slots, ticks, poisoned, written>>

\* A thread panics inside the critical section and poisons the mutex.
Poison ==
    /\ MayPanic
    /\ ~poisoned
    /\ poisoned' = TRUE
    /\ reply' = None
    /\ UNCHANGED <<slots, ticks, now, written>>

CacheInit ==
    /\ slots = [k \in {} |-> [response |-> 0, stored_at |-> 0, last_used |-> 0]]
    /\ ticks = 0
    /\ now = 0
    /\ poisoned = FALSE
    /\ written = [k \in {} |-> [response |-> 0, stored_at |-> 0]]
    /\ reply = None

CacheNext ==
    \/ \E k \in Keys : GetPoisoned(k) \/ GetMiss(k) \/ GetHit(k)
    \/ \E k \in Keys : InsertPoisoned(k)
    \/ \E k \in Keys, r \in Responses : Insert(k, r)
    \/ CacheLen \/ Clear \/ Refuse
    \/ Tick \/ Poison

CacheSpec == CacheInit /\ [][CacheNext]_cacheVars

-----------------------------------------------------------------------------
(* Properties.                                                             *)

\* Type invariant: the map holds well-formed slots under cache keys, and no
\* slot carries a time or a recency from the future.
CacheTypeOK ==
    /\ DOMAIN slots \subseteq Keys
    /\ slots \in [DOMAIN slots -> Slot]
    /\ \A k \in DOMAIN slots : slots[k].stored_at <= now /\ slots[k].last_used <= ticks
    /\ ticks \in Nat
    /\ now \in Nat
    /\ poisoned \in BOOLEAN
    /\ DOMAIN written \subseteq Keys
    /\ written \in [DOMAIN written -> Stored]
    /\ reply \in Reply

\* The cache never holds more than max_entries slots, whatever the order in
\* which threads look up, insert, count and clear (cache.rs insert).
CapacityBound == IsFiniteSet(DOMAIN slots) /\ Cardinality(DOMAIN slots) <= MaxEntries

\* No two slots have the same recency, so the eviction victim is determined
\* by the calls alone and the tie break on keys never decides.
RecencyDistinct ==
    \A j, k \in DOMAIN slots : slots[j].last_used = slots[k].last_used => j = k

\* A hit answers the value most recently inserted under the key, and that
\* insert is less than one time to live old, however often the entry was hit
\* or refreshed since (cache.rs get).
HitIsLatestAndFresh ==
    reply.kind = "hit" =>
        /\ reply.key \in DOMAIN written
        /\ reply.response = written[reply.key].response
        /\ now - written[reply.key].stored_at < Ttl

\* A fresh entry disappears only when the cache is cleared, or when an insert
\* found the cache full; then it is the one entry used longest ago.
EvictsOnlyTheLeastRecent ==
    [][\A k \in Fresh \ DOMAIN slots' :
          \/ DOMAIN slots' = {}
          \/ /\ Cardinality(Fresh) = MaxEntries
             /\ \A j \in Fresh \ {k} :
                   j \in DOMAIN slots' /\ slots[k].last_used < slots[j].last_used
      ]_cacheVars

\* The comment on `lock' promises to recover from poisoning: "a panic in one
\* thread must not break the next request".  Recovered, the cache would answer
\* a lookup made right after an insert of the same key.
LockRecovers ==
    [][reply.kind = "inserted" /\ reply'.kind = "miss" => reply'.key # reply.key]_cacheVars
=============================================================================
