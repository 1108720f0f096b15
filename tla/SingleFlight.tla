---------------------------- MODULE SingleFlight ----------------------------
(***************************************************************************)
(* What the response cache promises, with neither locks, nor promises, nor *)
(* an order of use: per key at most one computation at a time, whose       *)
(* outcome reaches everyone waiting at once; a value younger than TTL is   *)
(* handed out without computing; no more than MaxSize values are held, and *)
(* any of them may be forgotten at any time; whoever waits may give up.    *)
(* TTLCache implements this.                                               *)
(***************************************************************************)
EXTENDS Integers, FiniteSets

CONSTANTS
    Threads, Keys, MaxSize, TTL, FlightTimeout,
    Payloads,   \* what a computation may come to
    MaxClock,   \* bound: the clock stops here
    None

VARIABLES
    clock,
    flight,  \* flight[k]: the thread that computes k, or None
    kept,    \* kept[k]: the outcome held for k, or None
    call,    \* call[t]: "idle", "lead" or "follow"
    key,     \* the key of t's latest call
    since,   \* when that call began
    got      \* what it has for its caller, None while it has nothing

vars == <<clock, flight, kept, call, key, since, got>>

Outcome(t, kind, what) ==
    [kind |-> kind, what |-> what, key |-> key[t], start |-> since[t], done |-> clock]

Live(k) == kept[k] # None /\ kept[k].done + TTL > clock

Followers(t) == {u \in Threads : call[u] = "follow" /\ key[u] = key[t] /\ got[u] = None}

----------------------------------------------------------------------------
Init ==
    /\ clock = 0
    /\ flight = [k \in Keys |-> None]
    /\ kept = [k \in Keys |-> None]
    /\ call = [t \in Threads |-> "idle"]
    /\ key = [t \in Threads |-> None]
    /\ since = [t \in Threads |-> 0]
    /\ got = [t \in Threads |-> None]

Begin(t, k) ==
    /\ call[t] = "idle"
    /\ key' = [key EXCEPT ![t] = k]
    /\ since' = [since EXCEPT ![t] = clock]
    /\ UNCHANGED clock

Hit(t, k) ==
    /\ Live(k)
    /\ Begin(t, k)
    /\ got' = [got EXCEPT ![t] = kept[k]]
    /\ UNCHANGED <<flight, kept, call>>

Miss(t, k) ==
    /\ ~Live(k)
    /\ Begin(t, k)
    /\ kept' = [kept EXCEPT ![k] = None]
    /\ got' = [got EXCEPT ![t] = None]

Lead(t, k) ==
    /\ flight[k] = None
    /\ Miss(t, k)
    /\ flight' = [flight EXCEPT ![k] = t]
    /\ call' = [call EXCEPT ![t] = "lead"]

Follow(t, k) ==
    /\ flight[k] # None
    /\ Miss(t, k)
    /\ call' = [call EXCEPT ![t] = "follow"]
    /\ UNCHANGED flight

Held(values) == {k \in Keys : values[k] # None}

\* o is kept, and others go when there is no room for all.
Keep(k, o) ==
    LET full == [kept EXCEPT ![k] = o]
    IN  \E lost \in SUBSET (Held(kept) \ {k}) :
            /\ Cardinality(Held(full)) - Cardinality(lost) <= MaxSize
            /\ lost # {} => Cardinality(Held(full)) > MaxSize
            /\ kept' = [j \in Keys |-> IF j \in lost THEN None ELSE full[j]]

\* t's computation ends: a value is kept, an error is not.  The followers have
\* the outcome in the same instant.
Complete(t, kind, what) ==
    LET o == Outcome(t, kind, what)
    IN  /\ call[t] = "lead"
        /\ flight' = [flight EXCEPT ![key[t]] = None]
        /\ call' = [call EXCEPT ![t] = "idle"]
        /\ got' = [u \in Threads |-> IF u = t \/ u \in Followers(t) THEN o ELSE got[u]]
        /\ IF kind = "value" THEN Keep(key[t], o) ELSE UNCHANGED kept
        /\ UNCHANGED <<clock, key, since>>

\* A follower returns with what it was given ...
Answer(t) ==
    /\ call[t] = "follow" /\ got[t] # None
    /\ call' = [call EXCEPT ![t] = "idle"]
    /\ UNCHANGED <<clock, flight, kept, key, since, got>>

\* ... or gives up, be the outcome on its way or not.
GiveUp(t, what) ==
    /\ call[t] = "follow"
    /\ clock >= since[t] + FlightTimeout
    /\ call' = [call EXCEPT ![t] = "idle"]
    /\ got' = [got EXCEPT ![t] = Outcome(t, "timeout", what)]
    /\ UNCHANGED <<clock, flight, kept, key, since>>

Forget ==
    /\ \E lost \in SUBSET Keys : kept' = [k \in Keys |-> IF k \in lost THEN None ELSE kept[k]]
    /\ UNCHANGED <<clock, flight, call, key, since, got>>

Tick ==
    /\ clock < MaxClock
    /\ clock' = clock + 1
    /\ UNCHANGED <<flight, kept, call, key, since, got>>

Next ==
    \/ \E t \in Threads :
          \/ \E k \in Keys : Hit(t, k) \/ Lead(t, k) \/ Follow(t, k)
          \/ \E what \in Payloads :
                Complete(t, "value", what) \/ Complete(t, "error", what) \/ GiveUp(t, what)
          \/ Answer(t)
    \/ Forget \/ Tick

Spec == Init /\ [][Next]_vars
=============================================================================
