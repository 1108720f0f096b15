---------------------------- MODULE RateLimiter ----------------------------
(***************************************************************************)
(* The pacing object of ratelimit.py that the scrape loop and every HTTP   *)
(* handler thread share.  acquire() is two steps: under the lock it        *)
(* reserves the next slot and moves _last, then, outside the lock, it      *)
(* sleeps until the slot.  Any number of other threads run in between, and *)
(* the operating system may resume a sleeper late, by at most MaxLag.      *)
(*                                                                         *)
(* Time is the monotonic clock in whole units.  The clock starts anywhere: *)
(* _last = 0.0 is a reading of the same clock, so an exporter started in   *)
(* the first interval after boot meets it as if a request had been sent.   *)
(***************************************************************************)
EXTENDS Integers, FiniteSets

CONSTANTS
    Callers,      \* threads that call acquire()
    MinInterval,  \* self._min_interval = 1 / rps
    MaxLag,       \* how late after its slot a sleeping thread may be resumed
    MaxClock      \* bound: the clock and the slots stop here

ASSUME CallersAssumption == IsFiniteSet(Callers)
ASSUME IntervalAssumption == MinInterval \in Nat \ {0}
ASSUME LagAssumption == MaxLag \in Nat
ASSUME ClockAssumption == MaxClock \in Nat

VARIABLES
    clock,   \* time.monotonic()
    last,    \* self._last
    pc,      \* pc[c]: "idle", or "waiting" between the lock and the return
    slot,    \* slot[c]: scheduled_at of the call c is in
    issued   \* history: [who, slot, at] of every acquire() that returned

vars == <<clock, last, pc, slot, issued>>

Instants == 0 .. MaxClock

Later(a, b) == IF a >= b THEN a ELSE b

Waiting == {c \in Callers : pc[c] = "waiting"}

\* Every slot ever handed out, as <<caller, slot>>.
Allotted == {<<c, slot[c]>> : c \in Waiting} \cup {<<r.who, r.slot>> : r \in issued}

\* Forms NextSlot could take by mistake: the interval forgotten, the interval
\* added to an idle limiter too, the sleep taken under the lock.
NextSlotNoInterval == Later(clock, last)
NextSlotAlwaysWaits == Later(clock, last) + MinInterval
NextSlotSerialised == Later(clock, last + MinInterval * (Cardinality(Waiting) + 1))

NextSlot == Later(clock, last + MinInterval)

----------------------------------------------------------------------------
\* Init as a limiter that starts with its bucket full would write it.
InitFullBucket ==
    /\ clock \in Instants
    /\ last = -MinInterval
    /\ pc = [c \in Callers |-> "idle"]
    /\ slot = [c \in Callers |-> 0]
    /\ issued = {}

Init ==
    /\ clock \in Instants
    /\ last = 0
    /\ pc = [c \in Callers |-> "idle"]
    /\ slot = [c \in Callers |-> 0]
    /\ issued = {}

\* The locked half of acquire(): the slot is taken and _last moved at once.
Reserve(c) ==
    /\ pc[c] = "idle"
    /\ NextSlot <= MaxClock
    /\ slot' = [slot EXCEPT ![c] = NextSlot]
    /\ last' = NextSlot
    /\ pc' = [pc EXCEPT ![c] = "waiting"]
    /\ UNCHANGED <<clock, issued>>

ReturnAt(c) ==
    /\ pc' = [pc EXCEPT ![c] = "idle"]
    /\ issued' = issued \cup {[who |-> c, slot |-> slot[c], at |-> clock]}
    /\ UNCHANGED <<clock, last, slot>>

\* Return with a sleep one unit short, and one that waits for its instant only.
ReturnEarly(c) == pc[c] = "waiting" /\ clock + 1 >= slot[c] /\ ReturnAt(c)
ReturnOnTheDot(c) == pc[c] = "waiting" /\ clock = slot[c] /\ ReturnAt(c)

\* acquire() returns: at once when the slot is not in the future, else when
\* the sleep is over.
Return(c) ==
    /\ pc[c] = "waiting"
    /\ clock >= slot[c]
    /\ ReturnAt(c)

\* Time passes, but no sleeper is left behind by more than MaxLag.
Tick ==
    /\ clock < MaxClock
    /\ \A c \in Waiting : clock < slot[c] + MaxLag
    /\ clock' = clock + 1
    /\ UNCHANGED <<last, pc, slot, issued>>

\* The modelled stretch of time is over.
Finished ==
    /\ clock = MaxClock
    /\ UNCHANGED vars

Next ==
    \/ \E c \in Callers : Reserve(c) \/ Return(c)
    \/ Tick
    \/ Finished

Spec == Init /\ [][Next]_vars

\* The clock does not stop and the scheduler resumes every sleeper whose
\* sleep is over.  Nobody is obliged to call acquire().
Fairness == WF_vars(Tick) /\ \A c \in Callers : WF_vars(Return(c))

FairSpec == Spec /\ Fairness

----------------------------------------------------------------------------
Calls == [who : Callers, slot : Instants, at : Instants]

TypeOK ==
    /\ clock \in Instants
    /\ last \in Instants
    /\ pc \in [Callers -> {"idle", "waiting"}]
    /\ slot \in [Callers -> Instants]
    /\ issued \subseteq Calls

\* No two calls ever get slots closer than one interval, whichever threads
\* they ran in and in whatever order those reserve, sleep and return: _last
\* moves inside the lock, before the sleep.
SlotsApart ==
    \A a, b \in Allotted :
        a # b => \/ a[2] >= b[2] + MinInterval
                 \/ b[2] >= a[2] + MinInterval

\* What Bright Data sees: two requests leave at least one interval apart but
\* for the scheduler's lateness (ratelimit.py promises this without the lag).
CompletionsApart ==
    \A q, r \in issued :
        q # r => \/ q.at + MaxLag >= r.at + MinInterval
                 \/ r.at + MaxLag >= q.at + MinInterval

\* The limit itself, over any stretch of time and not only pairwise: between
\* t and t + w no more than (w + MaxLag) / MinInterval + 1 requests leave, so
\* threads resumed late never add up to more than a constant excess.
RateLaw ==
    \A t, u \in Instants :
        t <= u => Cardinality({r \in issued : t <= r.at /\ r.at <= u})
                      <= (u - t + MaxLag) \div MinInterval + 1

\* The queue holds one interval per thread in it and no more: nobody who calls
\* acquire() now can be told to wait longer than one interval for each call
\* still waiting, plus its own.
QueueBound == last <= clock + MinInterval * Cardinality(Waiting)

\* Nobody is held longer than the rate requires: a slot in the future directly
\* follows another slot (or the zero _last starts from).  This is the reason
\* acquire()'s comment gives for sleeping outside the lock.
NoIdleSlot ==
    \A c \in Waiting :
        slot[c] > clock => \/ slot[c] = MinInterval
                           \/ \E a \in Allotted : a[2] = slot[c] - MinInterval

\* Every acquire() returns.
AcquireReturns == \A c \in Callers : pc[c] = "waiting" ~> pc[c] = "idle"

----------------------------------------------------------------------------
\* The promise without the queue: grants at least an interval apart.
Passed == {0} \cup {a[2] : a \in {b \in Allotted : b[2] <= clock}}

Due == {c \in Waiting : slot[c] <= clock}

LastGrant == CHOOSE m \in Passed : \A s \in Passed : s <= m

Paced == INSTANCE PacedGrants WITH due <- Due, lastGrant <- LastGrant

PacedSpec == Paced!Spec
============================================================================
