------------------------------ MODULE Exporter ------------------------------
(***************************************************************************)
(* The exporter as __main__ wires it: the REST handlers of Service and the *)
(* scrape loop's thread make their upstream calls through one client, and  *)
(* each call first takes a slot of the one RateLimiter.  A handler that    *)
(* leads a flight goes from call to call as its fan-out requires, the      *)
(* collector through cycles of CycleCalls calls.  Time stands still while  *)
(* a thread has something to do at once; a call has ended MaxLag after its *)
(* slot at the latest, which covers the lateness of the thread and the     *)
(* exchange itself.                                                        *)
(***************************************************************************)
EXTENDS Service

CONSTANTS
    collector,    \* the thread of the scrape loop
    MinInterval,  \* of the limiter, see RateLimiter
    MaxLag,       \* how long after its slot a call may end
    CycleCalls    \* upstream calls of one collect_once

Threads == Handlers \cup {collector}

ASSUME WiringAssumption ==
    /\ collector \notin Handlers /\ IsFiniteSet(Handlers)
    /\ MinInterval \in Nat \ {0} /\ MaxLag \in Nat /\ CycleCalls \in Nat \ {0}

VARIABLES
    last, pc, slot,   \* of the limiter, see RateLimiter
    cycle,            \* calls the current cycle has made; CycleCalls between cycles
    begun             \* when it began, 0 between cycles

limiterVars == <<last, pc, slot>>
cycleVars == <<cycle, begun>>
exporterVars == <<vars, limiterVars, cycleVars>>

Limiter == INSTANCE RateLimiter WITH Callers <- Threads, issued <- {}

ExporterInit ==
    /\ Init
    /\ last = 0
    /\ pc = [c \in Threads |-> "idle"]
    /\ slot = [c \in Threads |-> 0]
    /\ cycle = CycleCalls
    /\ begun = 0

----------------------------------------------------------------------------
\* What a thread is in the middle of needs another upstream call.
NeedsCall(c) ==
    IF c = collector THEN cycle < CycleCalls ELSE call[c] = "lead"

\* The acquire() at the start of every request of the client.
Reserve(c) ==
    /\ NeedsCall(c)
    /\ Limiter!Reserve(c)
    /\ UNCHANGED <<vars, cycleVars>>

\* A call that ends without leaving the limiter's queue.
CallEndsQueued(c) ==
    /\ pc[c] = "waiting" /\ clock >= slot[c]
    /\ slot' = [slot EXCEPT ![c] = 0]
    /\ UNCHANGED <<last, pc>>

\* acquire() has returned and the exchange that follows is over.
CallEnds(c) ==
    /\ pc[c] = "waiting" /\ clock >= slot[c]
    /\ pc' = [pc EXCEPT ![c] = "idle"]
    /\ slot' = [slot EXCEPT ![c] = 0]
    /\ UNCHANGED last

ApiCall(h) == CallEnds(h) /\ UpstreamStep(h) /\ UNCHANGED cycleVars

CycleCall ==
    /\ CallEnds(collector)
    /\ cycle' = cycle + 1
    /\ begun' = IF cycle' = CycleCalls THEN 0 ELSE begun
    /\ UNCHANGED vars

\* The interval between two cycles may be as short as it likes.
StartCycle ==
    /\ cycle = CycleCalls
    /\ cycle' = 0 /\ begun' = clock
    /\ UNCHANGED <<vars, limiterVars>>

\* The HTTP server starts a thread per connection, for one request.
Handle(h) ==
    /\ call[h] = "idle" => request[h] = None
    /\ HandlerStep(h)
    /\ UNCHANGED <<limiterVars, cycleVars>>

\* Nobody is left behind: not a call to be made or one whose slot is past, nor
\* a follower that has its answer or has waited long enough.
Time ==
    /\ \A c \in Threads : NeedsCall(c) => pc[c] = "waiting" /\ clock < slot[c] + MaxLag
    /\ \A h \in Handlers :
          call[h] = "follow" => got[h] = None /\ clock < since[h] + FlightTimeout + MaxLag
    /\ Tick
    /\ UNCHANGED <<limiterVars, cycleVars>>

ExporterNext ==
    \/ \E c \in Threads : Reserve(c)
    \/ \E h \in Handlers : Handle(h) \/ ApiCall(h)
    \/ StartCycle \/ CycleCall
    \/ Time

ExporterSpec == ExporterInit /\ [][ExporterNext]_exporterVars

----------------------------------------------------------------------------
Waiting == {c \in Threads : pc[c] = "waiting"}

ExporterTypeOK ==
    /\ TypeOK
    /\ last \in 0 .. MaxClock
    /\ pc \in [Threads -> {"idle", "waiting"}]
    /\ slot \in [Threads -> 0 .. MaxClock]
    /\ cycle \in 0 .. CycleCalls /\ begun \in 0 .. clock
    /\ \A c \in Waiting : NeedsCall(c) /\ slot[c] <= last

\* The longest one upstream call takes when n threads make them.
CallTime(n) == n * MinInterval + MaxLag

\* However handlers and collector crowd the limiter, a fan-out and a cycle get
\* on: with each call after at most a slot of every thread.  Nobody's next call
\* is put behind another's whole fan-out.
EveryoneGetsOn ==
    /\ \A h \in Handlers : call[h] = "lead" =>
          clock - since[h] <= (work[h].made + 1) * CallTime(Cardinality(Threads))
    /\ cycle < CycleCalls => clock - begun <= (cycle + 1) * CallTime(Cardinality(Threads))

\* A follower runs into the 60 seconds of _Promise.wait although its leader
\* only queues at the limiter, but never when the calls of the request, at the
\* share that the threads other than the follower leave each other, fit into
\* that time: then it answers all the same.  (Of a caller with an '&' in his texts the
\* leader's request may be another one, see Plain.)
TimeOutsAreEarned ==
    \A h \in Handlers :
        Answered(h) /\ Plain(request[h]) /\ got[h].kind = "timeout" =>
            \E R \in Rosters :
                FlightTimeout <= Cost(request[h], R) * CallTime(Cardinality(Threads) - 1)
=============================================================================
