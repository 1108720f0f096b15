------------------------------ MODULE TTLCache ------------------------------
(***************************************************************************)
(* cache.py: the response cache that every HTTP handler thread goes        *)
(* through.  A call that misses either claims its key and computes outside *)
(* the lock, or finds the key claimed and waits on the claimant's promise. *)
(*                                                                         *)
(* A step is what the code does under one hold of the lock, or between two *)
(* of them: claim, compute, store-and-release, then (lock not held) hand   *)
(* the outcome to the followers.  Between any two, other threads run.      *)
(*                                                                         *)
(* A promise is named by the thread that leads it.  Settling it puts the   *)
(* outcome in the hands of each thread waiting on it at that moment, which *)
(* is all a set event can do: no promise is joined once it is settled, as  *)
(* ClaimsAreComputing checks.                                              *)
(***************************************************************************)
EXTENDS LruStore

CONSTANTS
    Threads,        \* threads that call the cache
    TTL,            \* ttl_seconds, in units of the clock
    FlightTimeout,  \* single_flight_timeout
    MaxClock,       \* bound: the clock stops here
    None            \* no entry, no claimant, no outcome

VARIABLES
    clock,     \* time.monotonic()
    order,     \* _store: its keys, least recently used first
    entry,     \* _store: entry[k] is an _Entry or None
    inflight,  \* _inflight[k]: the leader of k's promise, or None
    pc,        \* where thread t is in get_or_compute
    key,       \* the key of t's latest call
    since,     \* when that call began
    leader,    \* leader[t]: whose promise t waits on
    result     \* what that call has for its caller, None while it has nothing

store == <<order, entry>>
vars == <<clock, order, entry, inflight, pc, key, since, leader, result>>

Instants == 0 .. MaxClock

\* What a call ends with.  "start" and "done" are when the computation it
\* stems from was begun and ended.
Outcomes == [kind : {"value", "error", "timeout"},
             key : Keys, start : Instants, done : Instants]

Entries == [expires : 0 .. MaxClock + TTL, value : Outcomes]

\* The same outcomes, as SingleFlight has them.
AbstractOutcomes == [kind : {"value", "error", "timeout"}, what : {"any"},
                     key : Keys, start : Instants, done : Instants]

ASSUME TTLAssumption == TTL \in Nat
ASSUME FlightTimeoutAssumption == FlightTimeout \in Nat \ {0}
ASSUME ClockAssumption == MaxClock \in Nat
ASSUME NoneAssumption ==
    None \notin Threads \cup Outcomes \cup Entries \cup AbstractOutcomes

Outcome(t, kind) ==
    [kind |-> kind, key |-> key[t], start |-> since[t], done |-> clock]

\* entry.expires_at > time.monotonic(), and the same with the comparison off
\* by one.
LiveAtExpiry(k) == entry[k] # None /\ entry[k].expires >= clock
Live(k) == entry[k] # None /\ entry[k].expires > clock

----------------------------------------------------------------------------
Init ==
    /\ clock = 0
    /\ order = <<>>
    /\ entry = [k \in Keys |-> None]
    /\ inflight = [k \in Keys |-> None]
    /\ pc = [t \in Threads |-> "idle"]
    /\ key = [t \in Threads |-> None]
    /\ since = [t \in Threads |-> 0]
    /\ leader = [t \in Threads |-> None]
    /\ result = [t \in Threads |-> None]

\* Drop key k, if it is there.
Pop(k) ==
    /\ order' = Drop(order, k)
    /\ entry' = [entry EXCEPT ![k] = None]

\* Put k's entry at the recent end and evict what no longer fits.
Keep(k, e) ==
    /\ order' = Insert(order, k)
    /\ entry' = [j \in Keys |-> IF j = k THEN e
                                ELSE IF j \in ToSet(Insert(order, k)) THEN entry[j]
                                ELSE None]

Begin(t, k) ==
    /\ pc[t] = "idle"
    /\ key' = [key EXCEPT ![t] = k]
    /\ since' = [since EXCEPT ![t] = clock]

----------------------------------------------------------------------------
\* get_or_compute, the first hold of the lock: a live entry is returned.
Hit(t, k) ==
    /\ Live(k)
    /\ Begin(t, k)
    /\ order' = Touch(order, k)
    /\ result' = [result EXCEPT ![t] = entry[k].value]
    /\ UNCHANGED <<clock, entry, inflight, pc, leader>>

ClaimStep(t, k) ==
    /\ Begin(t, k)
    /\ inflight' = [inflight EXCEPT ![k] = t]
    /\ pc' = [pc EXCEPT ![t] = "compute"]
    /\ result' = [result EXCEPT ![t] = None]
    /\ UNCHANGED <<clock, leader>>

\* Claim without looking for a claimant, or without dropping the stale entry.
ClaimAnyway(t, k) == ~Live(k) /\ Pop(k) /\ ClaimStep(t, k)
ClaimKeepStale(t, k) ==
    ~Live(k) /\ inflight[k] = None /\ ClaimStep(t, k) /\ UNCHANGED store

\* A miss nobody is computing: t becomes the leader.
Claim(t, k) ==
    /\ ~Live(k)
    /\ inflight[k] = None
    /\ Pop(k)
    /\ ClaimStep(t, k)

\* A miss somebody is computing: t waits on that promise.  Bound: only while
\* the clock still has room for the wait to time out.
Join(t, k) ==
    /\ ~Live(k)
    /\ inflight[k] # None
    /\ clock + FlightTimeout <= MaxClock
    /\ Pop(k)
    /\ Begin(t, k)
    /\ leader' = [leader EXCEPT ![t] = inflight[k]]
    /\ pc' = [pc EXCEPT ![t] = "wait"]
    /\ result' = [result EXCEPT ![t] = None]
    /\ UNCHANGED <<clock, inflight>>

Release(k) == inflight' = [inflight EXCEPT ![k] = None]

Finish(t, kind) ==
    /\ pc[t] = "compute"
    /\ pc' = [pc EXCEPT ![t] = "publish"]
    /\ result' = [result EXCEPT ![t] = Outcome(t, kind)]
    /\ UNCHANGED <<clock, key, since, leader>>

\* An expiry counted from when the computation began, and one in another unit.
NewEntryDoubleTTL(t, kind) == [expires |-> clock + TTL + TTL, value |-> Outcome(t, kind)]
NewEntryFromStart(t, kind) == [expires |-> since[t] + TTL, value |-> Outcome(t, kind)]
NewEntry(t, kind) == [expires |-> clock + TTL, value |-> Outcome(t, kind)]

\* compute() returned: entry stored and claim released under one lock.
Store(t) ==
    /\ Finish(t, "value")
    /\ Keep(key[t], NewEntry(t, "value"))
    /\ Release(key[t])

\* Fail with the claim left behind.
FailUnreleased(t) == Finish(t, "error") /\ UNCHANGED <<order, entry, inflight>>

\* compute() raised: the claim is released and nothing is stored.
Fail(t) ==
    /\ Finish(t, "error")
    /\ Release(key[t])
    /\ UNCHANGED store

\* Settle the promise: every thread in W that waits gets t's outcome.
Settle(t, W) ==
    /\ pc' = [pc EXCEPT ![t] = "idle"]
    /\ result' = [u \in Threads |->
          IF u \in W /\ pc[u] = "wait" /\ result[u] = None THEN result[t] ELSE result[u]]
    /\ UNCHANGED <<clock, order, entry, inflight, key, since, leader>>

Followers(t) == {u \in Threads : leader[u] = t}

\* promise.fulfill(value), and the leader returns the value.
Fulfill(t) == pc[t] = "publish" /\ result[t].kind = "value" /\ Settle(t, Followers(t))

\* promise.reject(error), and the leader raises it.
Reject(t) == pc[t] = "publish" /\ result[t].kind = "error" /\ Settle(t, Followers(t))

\* A follower whose promise was settled returns the value or raises the error.
Wake(t) ==
    /\ pc[t] = "wait"
    /\ result[t] # None
    /\ pc' = [pc EXCEPT ![t] = "idle"]
    /\ leader' = [leader EXCEPT ![t] = None]
    /\ UNCHANGED <<clock, order, entry, inflight, key, since, result>>

\* promise.wait with no timeout.
NeverTimeOut(t) == FALSE /\ UNCHANGED vars

\* promise.wait gives up: TimeoutError.
TimeOut(t) ==
    /\ pc[t] = "wait"
    /\ result[t] = None
    /\ clock >= since[t] + FlightTimeout
    /\ pc' = [pc EXCEPT ![t] = "idle"]
    /\ leader' = [leader EXCEPT ![t] = None]
    /\ result' = [result EXCEPT ![t] = Outcome(t, "timeout")]
    /\ UNCHANGED <<clock, order, entry, inflight, key, since>>

----------------------------------------------------------------------------
\* get(): a live entry becomes the most recently used one.
Get(k) ==
    /\ Live(k)
    /\ order' = Touch(order, k)
    /\ UNCHANGED <<clock, entry, inflight, pc, key, since, leader, result>>

Invalidate(k) ==
    /\ Pop(k)
    /\ UNCHANGED <<clock, inflight, pc, key, since, leader, result>>

Clear ==
    /\ order' = <<>>
    /\ entry' = [k \in Keys |-> None]
    /\ UNCHANGED <<clock, inflight, pc, key, since, leader, result>>

Tick ==
    /\ clock < MaxClock
    /\ clock' = clock + 1
    /\ UNCHANGED <<order, entry, inflight, pc, key, since, leader, result>>

GetOrCompute(t) ==
    \/ \E k \in Keys : Hit(t, k) \/ Claim(t, k) \/ Join(t, k)
    \/ Store(t) \/ Fail(t)
    \/ Fulfill(t) \/ Reject(t)
    \/ Wake(t) \/ TimeOut(t)

Next ==
    \/ \E t \in Threads : GetOrCompute(t)
    \/ \E k \in Keys : Get(k) \/ Invalidate(k)
    \/ Clear
    \/ Tick

Spec == Init /\ [][Next]_vars

\* The exporter itself: the service only ever calls get_or_compute.
ServedSpec == Init /\ [][(\E t \in Threads : GetOrCompute(t)) \/ Tick]_vars

\* Time passes and threads that wait run; computations may hang, and a leader
\* may stop for good between releasing its claim and settling its promise.
HangingSpec ==
    /\ ServedSpec
    /\ WF_vars(Tick)
    /\ \A t \in Threads : WF_vars(Wake(t) \/ TimeOut(t))

----------------------------------------------------------------------------
TypeOK ==
    /\ clock \in Instants
    /\ order \in Seq(Keys)
    /\ entry \in [Keys -> Entries \cup {None}]
    /\ inflight \in [Keys -> Threads \cup {None}]
    /\ pc \in [Threads -> {"idle", "compute", "publish", "wait"}]
    /\ key \in [Threads -> Keys \cup {None}]
    /\ since \in [Threads -> Instants]
    /\ leader \in [Threads -> Threads \cup {None}]
    /\ result \in [Threads -> Outcomes \cup {None}]

\* Concurrent calls for one key collapse: never two threads computing it, over
\* every interleaving of misses, expiries, failures, evictions and clears.
SingleFlight ==
    \A t, u \in Threads :
        pc[t] = "compute" /\ pc[u] = "compute" /\ key[t] = key[u] => t = u

\* A key is claimed exactly as long as a thread computes it: no claim outlives
\* its computation, so a key can never be stuck behind a thread that is gone,
\* and no promise is joined after it was settled.
ClaimsAreComputing ==
    \A k \in Keys, t \in Threads :
        inflight[k] = t <=> pc[t] = "compute" /\ key[t] = k

\* A follower with nothing yet waits on a thread that will still settle that
\* very promise: the wake-up is never lost between release and settling.
NoOrphans ==
    \A t \in Threads :
        pc[t] = "wait" /\ result[t] = None =>
            /\ leader[t] \in Threads
            /\ pc[leader[t]] \in {"compute", "publish"}
            /\ key[leader[t]] = key[t]

\* While a key is being refreshed its old value is nowhere to be found.
NoStaleBesideFlight == \A k \in Keys : inflight[k] # None => entry[k] = None

\* What a call returns was computed for the key it asked for.
OwnKey == \A t \in Threads : result[t] # None => result[t].key = key[t]

\* A value handed out was completed during the call or less than TTL before it
\* began, however long the computing, the waiting and the evicting took.
Fresh ==
    \A t \in Threads :
        result[t] # None /\ result[t].kind = "value" =>
            result[t].done >= since[t] \/ since[t] < result[t].done + TTL

\* A failure reaches the calls that were waiting for it and none made later.
FailuresNotCached ==
    \A t \in Threads :
        result[t] # None /\ result[t].kind = "error" => result[t].done >= since[t]

\* The store never exceeds max_size between two holds of the lock.
Bounded == IsInjective(order) /\ Len(order) <= MaxSize

\* What the cache is for: as long as the keys fit and nobody drops them, the
\* upstream is asked again for a key only TTL after its last answer.
OncePerTTL ==
    \A t, u \in Threads :
        /\ result[t] # None /\ result[t].kind = "value"
        /\ result[u] # None /\ result[u].kind = "value"
        /\ result[t].key = result[u].key
        /\ result[t].done < result[u].done
        => result[u].start >= result[t].done + TTL

\* A follower gets an answer, at worst a TimeoutError, even when the leader
\* hangs: single_flight_timeout "protects the HTTP thread pool".
FollowersReturn == \A t \in Threads : pc[t] = "wait" ~> pc[t] = "idle"

----------------------------------------------------------------------------
\* The promise without the mechanism.  An outcome counts as delivered once its
\* leader has left the lock with it, though the event may not be set yet.
Delivered(t) ==
    IF pc[t] = "wait" /\ result[t] = None /\ pc[leader[t]] = "publish"
    THEN result[leader[t]] ELSE result[t]

\* The cache does not look into what it keeps.
Abstract(o) ==
    IF o = None THEN None
    ELSE [kind |-> o.kind, what |-> "any", key |-> o.key, start |-> o.start, done |-> o.done]

KeptOutcomes ==
    [k \in Keys |-> IF entry[k] = None THEN None ELSE Abstract(entry[k].value)]

CallStates ==
    [t \in Threads |-> CASE pc[t] = "compute" -> "lead"
                         [] pc[t] = "wait" -> "follow"
                         [] OTHER -> "idle"]

GotOutcomes == [t \in Threads |-> Abstract(Delivered(t))]

Flights == INSTANCE SingleFlight WITH
    Payloads <- {"any"},
    flight <- inflight,
    kept <- KeptOutcomes,
    call <- CallStates,
    got <- GotOutcomes

\* Whatever the locks allow, and whatever get, invalidate and clear do in
\* between, a caller sees only what single flight with expiry would show it.
FlightsSpec == Flights!Spec

============================================================================
