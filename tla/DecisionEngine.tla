--------------------------- MODULE DecisionEngine ---------------------------
(***************************************************************************)
(* The engine under concurrent callers (engine.rs decide_with_report):     *)
(* each call validates the request, sets a deadline, looks the key up in   *)
(* the shared cache and, on a miss, runs the graph wave by wave behind the *)
(* guard, then stores the response and returns it.  The cache is the one   *)
(* of DecisionCache, its lock taken once per operation; nothing is locked  *)
(* between a lookup and the store that follows it.                         *)
(*                                                                         *)
(* The cancellation token belongs to the engine and is never reset.  What  *)
(* a run decides is any response: WaveExecutor and ThresholdGate say which.*)
(***************************************************************************)
EXTENDS DecisionCache

CONSTANTS
    Threads,    \* caller threads
    Timeout,    \* the smaller of the request's and the engine's time limit
    Waves,      \* waves of the configured graph
    MaxCalls    \* bound: calls made

NoKey == 0    \* the key of a thread that is not in a call

ASSUME EngineAssumption ==
    /\ NoKey \notin Keys
    /\ Timeout \in Nat /\ Waves \in Nat \ {0} /\ MaxCalls \in Nat

VARIABLES
    pc,          \* thread -> idle | lookup | guard | wave | store
    key,         \* thread -> key of its request, or NoKey
    deadline,    \* thread -> when its run must stop starting waves
    left,        \* thread -> waves still to run
    got,         \* thread -> the response its run decided
    answer,      \* thread -> outcome of its last call
    calls,       \* calls made
    cancelled,   \* the engine's token
    doomed       \* history: threads whose call began after cancellation

engineVars == <<pc, key, deadline, left, got, answer, calls, cancelled, doomed>>
vars == <<cacheVars, engineVars>>

Silent == [kind |-> "none"]
Failure == [kind |-> "error"]

Goto(t, l) == pc' = [pc EXCEPT ![t] = l]

\* decide_with_report returns to its caller; its locals are gone.
Returns(t, a) ==
    /\ Goto(t, "idle")
    /\ key' = [key EXCEPT ![t] = NoKey]
    /\ deadline' = [deadline EXCEPT ![t] = 0]
    /\ left' = [left EXCEPT ![t] = 0]
    /\ got' = [got EXCEPT ![t] = NoKey]
    /\ answer' = [answer EXCEPT ![t] = a]
    /\ UNCHANGED <<calls, cancelled, doomed>>

\* A valid request: its key is built and its deadline set.
Call(t, k) ==
    /\ pc[t] = "idle" /\ calls < MaxCalls
    /\ Goto(t, "lookup")
    /\ key' = [key EXCEPT ![t] = k]
    /\ deadline' = [deadline EXCEPT ![t] = now + Timeout]
    /\ left' = [left EXCEPT ![t] = Waves]
    /\ answer' = [answer EXCEPT ![t] = Silent]
    /\ calls' = calls + 1
    /\ doomed' = IF cancelled THEN doomed \cup {t} ELSE doomed \ {t}
    /\ UNCHANGED <<cacheVars, got, cancelled>>

\* validate refuses the request before anything else happens.
CallInvalid(t) ==
    /\ pc[t] = "idle" /\ calls < MaxCalls
    /\ answer' = [answer EXCEPT ![t] = Failure]
    /\ calls' = calls + 1
    /\ UNCHANGED <<cacheVars, pc, key, deadline, left, got, cancelled, doomed>>

\* A hit is returned without a run, whatever the deadline or the token say.
Hit(t) ==
    /\ pc[t] = "lookup"
    /\ GetHit(key[t])
    /\ Returns(t, [kind |-> "replay", response |-> slots[key[t]].response])

\* A miss, or a poisoned cache, runs the graph.
Miss(t) ==
    /\ pc[t] = "lookup"
    /\ GetMiss(key[t]) \/ GetPoisoned(key[t])
    /\ Goto(t, "guard")
    /\ UNCHANGED <<key, deadline, left, got, answer, calls, cancelled, doomed>>

\* Mutant: the guard looks at the deadline alone.
StopsLate(t) == now >= deadline[t]

\* The guard before a wave: cancellation, then the deadline.
Stops(t) == cancelled \/ now >= deadline[t]

GuardStops(t) ==
    /\ pc[t] = "guard"
    /\ Stops(t)
    /\ Returns(t, Failure)
    /\ UNCHANGED cacheVars

GuardPasses(t) ==
    /\ pc[t] = "guard"
    /\ ~Stops(t)
    /\ Goto(t, "wave")
    /\ UNCHANGED <<cacheVars, key, deadline, left, got, answer, calls, cancelled, doomed>>

\* Mutant: the loop never gets to its last wave.
WaveDoneStuck(t) == UNCHANGED left

WaveDone(t) == left' = [left EXCEPT ![t] = @ - 1]

\* A wave completes; time may have passed meanwhile and nobody looks again
\* before the next guard.
WaveEnds(t) ==
    /\ pc[t] = "wave" /\ left[t] > 1
    /\ WaveDone(t)
    /\ Goto(t, "guard")
    /\ UNCHANGED <<cacheVars, key, deadline, got, answer, calls, cancelled, doomed>>

\* The last wave completes and the run is assembled into response r.
RunEnds(t, r) ==
    /\ pc[t] = "wave" /\ left[t] = 1
    /\ WaveDone(t)
    /\ got' = [got EXCEPT ![t] = r]
    /\ Goto(t, "store")
    /\ UNCHANGED <<cacheVars, key, deadline, answer, calls, cancelled, doomed>>

\* A node of the wave fails (or its classifier panics): the call fails and the
\* cache, whose lock nobody holds, is untouched.
WaveFails(t) ==
    /\ pc[t] = "wave"
    /\ Returns(t, Failure)
    /\ UNCHANGED cacheVars

\* Mutant: the response is stored under the key of another request.
StoreUnderOther(t) ==
    \E k \in Keys : Insert(k, got[t]) \/ InsertPoisoned(k)

StoreUnder(t) == Insert(key[t], got[t]) \/ InsertPoisoned(key[t])

\* insert, then return: the response is visible to others before the caller
\* has it.
Store(t) ==
    /\ pc[t] = "store"
    /\ StoreUnder(t)
    /\ Returns(t, [kind |-> "fresh", response |-> got[t]])

\* The owner's operations: cancellation, counting and clearing the cache.
Cancel ==
    /\ ~cancelled
    /\ cancelled' = TRUE
    /\ UNCHANGED <<cacheVars, pc, key, deadline, left, got, answer, calls, doomed>>

Inspect == (CacheLen \/ Clear \/ Refuse) /\ UNCHANGED engineVars

Surroundings == (Tick \/ Poison) /\ UNCHANGED engineVars

Init ==
    /\ CacheInit
    /\ pc = [t \in Threads |-> "idle"]
    /\ key = [t \in Threads |-> NoKey]
    /\ deadline = [t \in Threads |-> 0]
    /\ left = [t \in Threads |-> 0]
    /\ got = [t \in Threads |-> NoKey]
    /\ answer = [t \in Threads |-> Silent]
    /\ calls = 0
    /\ cancelled = FALSE
    /\ doomed = {}

Step(t) ==
    \/ Hit(t) \/ Miss(t) \/ GuardStops(t) \/ GuardPasses(t) \/ WaveEnds(t) \/ WaveFails(t)
    \/ \E r \in Responses : RunEnds(t, r)
    \/ Store(t)

Next ==
    \/ \E t \in Threads : CallInvalid(t) \/ Step(t) \/ \E k \in Keys : Call(t, k)
    \/ Cancel \/ Inspect \/ Surroundings

\* A thread that is in a call keeps running.
Fairness == \A t \in Threads : WF_vars(Step(t))

Spec == Init /\ [][Next]_vars
FairSpec == Spec /\ Fairness

-----------------------------------------------------------------------------
(* Properties.                                                             *)

\* Type invariant: a thread is between calls exactly when it holds no key, and
\* its wave counter agrees with where it is.
EngineTypeOK ==
    /\ \A t \in Threads :
          /\ pc[t] = "idle" <=> key[t] = NoKey
          /\ pc[t] \in {"lookup", "guard", "wave"} => left[t] \in 1 .. Waves
          /\ pc[t] = "store" => got[t] \in Responses
    /\ doomed \subseteq Threads

\* Refinement: with the cache hidden, the engine is the memoizing service of
\* DecisionService.  Interleaved calls may decide one key twice, but a replay
\* is always the last decision recorded for that very key, never an error, a
\* superseded decision or one past its time to live.
Service == INSTANCE DecisionService WITH asked <- key, latest <- written
ImplementsService == Service!ServiceSpec

\* After cancellation the engine only replays: a call that began afterwards
\* never decides anything.
CancelledOnlyReplays == \A t \in doomed : pc[t] # "store" /\ answer[t].kind # "fresh"

\* Every call returns: nobody waits for ever, on the cache or on a run.
EveryCallReturns == \A t \in Threads : pc[t] # "idle" ~> pc[t] = "idle"
=============================================================================
