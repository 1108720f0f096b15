----------------------------- MODULE ScrapeLoop -----------------------------
(***************************************************************************)
(* The life of the exporter's process, __main__.py from the start of the   *)
(* HTTP server to its end: a first cycle outside the loop, then a cycle    *)
(* per interval until a signal is seen, then the server and the client are *)
(* closed while handler threads may still be serving.  The cycles are      *)
(* those of Collector.                                                     *)
(***************************************************************************)
EXTENDS Collector

CONSTANT Handlers   \* requests served by the HTTP threads

VARIABLES
    main,       \* where the main thread is
    signalled,  \* stop_event is set
    serving,    \* MetricsServer accepts connections
    open,       \* the client's connection pool is open
    request     \* what became of each request of the HTTP threads

loop == <<main, signalled, serving, open, request>>
loopVars == <<loop, vars>>

InCycle == main \in {"first", "scraping"}
Ended == main \in {"stopped", "crashed"}

LoopInit ==
    /\ Init
    /\ main = "first"
    /\ signalled = FALSE
    /\ serving = TRUE /\ open = TRUE
    /\ request = [h \in Handlers |-> "none"]

\* An end that waits for the handlers, as for threads that are no daemons.
ExitAfterHandlers(how) ==
    /\ \A h \in Handlers : request[h] # "served"
    /\ main' = how
    /\ serving' = FALSE /\ open' = FALSE
    /\ UNCHANGED request

\* The process ends: the HTTP threads are daemons, nobody waits for them.
Exit(how) ==
    /\ main' = how
    /\ serving' = FALSE /\ open' = FALSE
    /\ request' = [h \in Handlers |-> IF request[h] = "served" THEN "lost" ELSE request[h]]

----------------------------------------------------------------------------
\* The first cycle, before the loop.
FirstCycle == main = "first" /\ phase = "idle" /\ StartCycle /\ UNCHANGED loop

Cycle == InCycle /\ CycleStep /\ UNCHANGED loop

CycleReturns ==
    /\ InCycle /\ phase = "done"
    /\ main' = "waiting"
    /\ UNCHANGED <<signalled, serving, open, request>> /\ UNCHANGED vars

\* The first cycle's try lets everything but a BrightDataAPIError through.
FirstRaises ==
    /\ main = "first" /\ phase = "raised"
    /\ Exit("crashed")
    /\ UNCHANGED signalled /\ UNCHANGED vars

\* An exception in the loop that leaves up at an earlier verdict, one that steps
\* up down, and one that leaves the loop.
LoopRaisesKeepingUp ==
    /\ main = "scraping" /\ phase = "raised"
    /\ main' = "backoff"
    /\ UNCHANGED <<signalled, serving, open, request>> /\ UNCHANGED vars

LoopRaisesDecUp ==
    /\ main = "scraping" /\ phase = "raised"
    /\ up' = up - 1
    /\ main' = "backoff"
    /\ UNCHANGED <<signalled, serving, open, request>>
    /\ UNCHANGED <<clock, phase, info, series, counts, stamp>> /\ UNCHANGED cycle

LoopRaisesLeaving ==
    /\ main = "scraping" /\ phase = "raised"
    /\ main' = "leaving"
    /\ UNCHANGED <<signalled, serving, open, request>> /\ UNCHANGED vars

\* The loop's try logs any exception, sets up to 0 and sleeps for a second.
LoopRaises ==
    /\ main = "scraping" /\ phase = "raised"
    /\ up' = 0
    /\ main' = "backoff"
    /\ UNCHANGED <<signalled, serving, open, request>>
    /\ UNCHANGED <<clock, phase, info, series, counts, stamp>> /\ UNCHANGED cycle

BackoffOver ==
    /\ main = "backoff"
    /\ main' = "waiting"
    /\ UNCHANGED <<signalled, serving, open, request>> /\ UNCHANGED vars

\* stop_event.wait(timeout=scrape_interval) returns: False, and the next cycle
\* begins, or True, and the loop is left.
IntervalOver ==
    /\ main = "waiting" /\ ~signalled
    /\ main' = "scraping"
    /\ StartCycle
    /\ UNCHANGED <<signalled, serving, open, request>>

LeaveLoop ==
    /\ main = "waiting" /\ signalled
    /\ main' = "leaving"
    /\ UNCHANGED <<signalled, serving, open, request>> /\ UNCHANGED vars

\* server.stop(): the accepting thread ends, the handlers are not joined.
StopServer ==
    /\ main = "leaving" /\ serving
    /\ serving' = FALSE
    /\ UNCHANGED <<main, signalled, open, request>> /\ UNCHANGED vars

\* client.close()
CloseClient ==
    /\ main = "leaving" /\ ~serving /\ open
    /\ open' = FALSE
    /\ UNCHANGED <<main, signalled, serving, request>> /\ UNCHANGED vars

Return ==
    /\ main = "leaving" /\ ~serving /\ ~open
    /\ Exit("stopped")
    /\ UNCHANGED signalled /\ UNCHANGED vars

----------------------------------------------------------------------------
\* _on_signal only sets the event: nothing but the wait looks at it.
Signal ==
    /\ ~Ended /\ ~signalled
    /\ signalled' = TRUE
    /\ UNCHANGED <<main, serving, open, request>> /\ UNCHANGED vars

\* A handler thread is started for a request of /api/*, ...
Accept(h) ==
    /\ serving /\ request[h] = "none"
    /\ request' = [request EXCEPT ![h] = "served"]
    /\ UNCHANGED <<main, signalled, serving, open>> /\ UNCHANGED vars

\* ... answers it, from upstream replies it had or needed none of, ...
Answer(h) ==
    /\ request[h] = "served"
    /\ request' = [request EXCEPT ![h] = "answered"]
    /\ UNCHANGED <<main, signalled, serving, open>> /\ UNCHANGED vars

\* ... or asks upstream through a closed client, which service.handle answers
\* with a 500.
AnswerClosed(h) ==
    /\ request[h] = "served" /\ ~open
    /\ request' = [request EXCEPT ![h] = "failed"]
    /\ UNCHANGED <<main, signalled, serving, open>> /\ UNCHANGED vars

----------------------------------------------------------------------------
MainStep ==
    \/ FirstCycle \/ Cycle \/ CycleReturns \/ FirstRaises \/ LoopRaises \/ BackoffOver
    \/ IntervalOver \/ LeaveLoop \/ StopServer \/ CloseClient \/ Return

Time == ~Ended /\ Tick /\ UNCHANGED loop

LoopNext ==
    \/ MainStep
    \/ Signal
    \/ \E h \in Handlers : Accept(h) \/ Answer(h) \/ AnswerClosed(h)
    \/ Time

\* The main thread goes on: each request of a cycle ends (the client gives every
\* one a timeout), waits and sleeps are bounded.  Nothing is assumed of signals,
\* nor of the handlers.
LoopSpec == LoopInit /\ [][LoopNext]_loopVars /\ WF_loopVars(MainStep)

----------------------------------------------------------------------------
LoopTypeOK ==
    /\ TypeOK
    /\ main \in {"first", "scraping", "backoff", "waiting", "leaving", "stopped", "crashed"}
    /\ signalled \in BOOLEAN /\ serving \in BOOLEAN /\ open \in BOOLEAN
    /\ request \in [Handlers -> {"none", "served", "answered", "failed", "lost"}]

\* brightdata_up, "1 if the most recent scrape succeeded": while the main thread
\* waits, the gauge is the verdict on the cycle just over, and a cycle that was
\* left by an exception counts as failed.
UpIsLatest ==
    main \in {"waiting", "leaving"} =>
        (up = 1 <=> phase = "done" /\ errors \subseteq {"ips", "vips"})

\* A signal ends the process, whatever the cycle it falls into meets.
SignalStops == signalled ~> Ended

\* Until then every wait is followed by a cycle and, whatever fails or raises in it,
\* every cycle by a wait; only the first one may end the process.
KeepsScraping ==
    /\ main = "waiting" ~> main = "scraping" \/ signalled
    /\ main = "scraping" ~> main = "waiting"
    /\ main = "first" ~> main \in {"waiting", "crashed"}

----------------------------------------------------------------------------
\* main: a failed first scrape is retried by the loop, "the exporter stays
\* "ready" (process up, /metrics serves what it has)".
FirstFailureSurvives == main # "crashed"

\* values.yaml: the shutdown window "gives it time to drain in-flight requests".
DrainsRequests == main = "stopped" => \A h \in Handlers : request[h] \notin {"failed", "lost"}
============================================================================
