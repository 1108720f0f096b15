---------------------------- MODULE PacedGrants ----------------------------
(***************************************************************************)
(* What the rate limiter promises, with neither slots nor a queue: threads *)
(* are granted one request each, a grant comes at least MinInterval after  *)
(* the one before it whoever received it, and a request leaves only by     *)
(* spending a grant.  RateLimiter implements this.                         *)
(***************************************************************************)
EXTENDS Integers

CONSTANTS Callers, MinInterval, MaxClock

VARIABLES
    clock,
    due,        \* the threads that hold a grant they have not spent
    lastGrant   \* when the latest grant was made

vars == <<clock, due, lastGrant>>

Init ==
    /\ clock \in 0 .. MaxClock
    /\ due = {}
    /\ lastGrant = 0

\* A grant is made at the new reading of the clock.
Grant(c) ==
    /\ c \notin due
    /\ clock' \in {clock, clock + 1}
    /\ clock' >= lastGrant + MinInterval
    /\ due' = due \cup {c}
    /\ lastGrant' = clock'

Spend(c) ==
    /\ c \in due
    /\ due' = due \ {c}
    /\ UNCHANGED <<clock, lastGrant>>

Pass ==
    /\ clock' = clock + 1
    /\ UNCHANGED <<due, lastGrant>>

Next == Pass \/ \E c \in Callers : Grant(c) \/ Spend(c)

Spec == Init /\ [][Next]_vars
============================================================================
