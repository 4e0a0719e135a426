-------------------------- MODULE DecisionService --------------------------
(***************************************************************************)
(* What the engine promises its concurrent callers, without the cache, the *)
(* locks, the deadlines and the graph: a call about a key is refused,      *)
(* decided, or answered with the decision last recorded for that key as    *)
(* long as it is younger than the time to live.  An error is never         *)
(* recorded.                                                               *)
(***************************************************************************)
EXTENDS Naturals

CONSTANTS
    Threads,     \* threads that call the engine
    Keys,        \* requests, up to the cache key they build
    Responses,   \* decisions
    Ttl          \* how long a recorded decision may be replayed

VARIABLES
    asked,    \* thread -> the key it is waiting on, or NoKey
    answer,   \* thread -> the outcome of its last call
    latest,   \* key -> the decision last recorded, and when
    now       \* the clock

serviceVars == <<asked, answer, latest, now>>

NoKey == 0

Silent == [kind |-> "none"]

ServiceInit ==
    /\ asked = [t \in Threads |-> NoKey]
    /\ answer = [t \in Threads |-> Silent]
    /\ latest = [k \in {} |-> [response |-> 0, stored_at |-> 0]]
    /\ now = 0

\* A caller asks.
Ask(t, k) ==
    /\ asked[t] = NoKey
    /\ asked' = [asked EXCEPT ![t] = k]
    /\ answer' = [answer EXCEPT ![t] = Silent]
    /\ UNCHANGED <<latest, now>>

Return(t, a) ==
    /\ asked' = [asked EXCEPT ![t] = NoKey]
    /\ answer' = [answer EXCEPT ![t] = a]
    /\ UNCHANGED now

\* The recorded decision is replayed.
Replay(t) ==
    /\ asked[t] \in DOMAIN latest
    /\ now - latest[asked[t]].stored_at < Ttl
    /\ Return(t, [kind |-> "replay", response |-> latest[asked[t]].response])
    /\ UNCHANGED latest

\* A new decision is recorded and returned; recording may be given up.
Decide(t, r) ==
    /\ asked[t] # NoKey
    /\ Return(t, [kind |-> "fresh", response |-> r])
    /\ \/ UNCHANGED latest
       \/ latest' = [k \in DOMAIN latest \cup {asked[t]} |->
                       IF k = asked[t] THEN [response |-> r, stored_at |-> now] ELSE latest[k]]

\* The call fails; nothing is recorded.
Refuse(t) ==
    /\ Return(t, [kind |-> "error"])
    /\ UNCHANGED latest

\* The owner of the engine forgets every recorded decision.
Forget ==
    /\ latest' = [k \in {} |-> latest[k]]
    /\ UNCHANGED <<asked, answer, now>>

Pass ==
    /\ now' = now + 1
    /\ UNCHANGED <<asked, answer, latest>>

ServiceNext ==
    \/ \E t \in Threads : Replay(t) \/ Refuse(t)
    \/ \E t \in Threads, k \in Keys : Ask(t, k)
    \/ \E t \in Threads, r \in Responses : Decide(t, r)
    \/ Forget \/ Pass

ServiceSpec == ServiceInit /\ [][ServiceNext]_serviceVars
=============================================================================
