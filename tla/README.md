# TLA+ verification of brightdata-exporter

brightdata-exporter reads an account's consumption from the Bright Data API and
offers it twice: as Prometheus metrics, refreshed by a periodic scrape, and as
JSON on request (`/api/*`). It is one Python process with one main thread, one
thread that accepts HTTP connections, and a thread per HTTP request. All of them
share one API client, and through it one rate limiter; the request threads share
one response cache; the main thread writes the metric registry that request
threads render.

Source paths below are those of `src/src/brightdata_exporter/`.

## 1. Inventory

| Component | State | Operations | What is hard | What makes it correct |
|---|---|---|---|---|
| Rate limiter, `ratelimit.py` | `_last`, a lock | `acquire()` | reserves under the lock, sleeps outside it; threads may be resumed late | slots an interval apart, the rate over any window, no slot skipped, every call returns |
| Response cache, `cache.py` | `_store` (ordered), `_inflight`, a promise per flight, a lock | `get_or_compute`, `get`, `invalidate`, `clear`, eviction | three holds of the lock per miss, other threads in between; time-outs, failures, expiry, eviction | one computation per key, no lost wake-up, freshness, failures not cached, LRU order and bound |
| Collector, `collector.py`, families of `metrics.py` | the info cache; the registry; per cycle: roster, bulk bandwidth, `cycle_ok` | `collect_once` and its fetch/publish helpers | up to 11 + 5 per zone requests, each of which may fail or raise; renders in between | a render shows one roster, `up` is honest, the info cache follows the roster |
| Main loop, `__main__.py` | `stop_event`, `up` | first cycle, interval, back-off, shutdown | exceptions, signals at any moment, handlers in flight | the loop survives, `up` is the latest verdict, a signal ends the process |
| API client, `client.py` | connection pool | `_get` and a parser per endpoint | bodies of another shape than expected; replies of several users or customers | every way a call ends is provided for; sums over users; bulk and single replies agree |
| Pricing, `pricing.py` | none | `billing_model`, `pricing_display` | two chains of conditions | they go by the same field |
| REST service, `service.py` | none of its own | dispatch, fan-out, error mapping, window clamping | 2 + 2N calls behind one cache key, shared by whoever asks alike | answers complete and to the question asked, no fault passed on to others, every request answered, calls spent within plan |
| HTTP server, `server.py` | the accepting thread | routes, bearer check, `start`, `stop` | daemon handler threads | stops accepting before the client closes |
| Configuration, `config.py` | settings, read once | | | bounds of the settings |
| Helm chart, examples, scripts, CI, Docker | | | | not part of the running program |

Interactions: the collector and the service call the client, which calls
`acquire()` before every request; the service calls the cache with a closure that
calls the client; the main loop calls the collector and, when it ends, the
server's `stop` and the client's `close`; a handler thread renders the registry
while the collector writes it.

`PROJECT.json` lists the hazards of this code at their lines with the property
that covers each one.

## 2. Modules

| Module | Models | State and steps |
|---|---|---|
| `RateLimiter` | `RateLimiter.acquire` | `last` is `_last`; `Reserve` is the locked half, `Return` the end of the sleep. `issued` is a history of returned calls, for the properties |
| `PacedGrants` | what a limiter promises | abstract: grants at least an interval apart, requests leave by spending one. `RateLimiter` implements it: `due` are the callers whose slot has come, `lastGrant` the latest slot that has come |
| `LruStore` | the `OrderedDict` idioms of the cache | operators `Drop`, `Touch`, `Evict`, `Insert` on a sequence of keys |
| `LruHistory` | every sequence of store calls | the store next to an explicit order of use |
| `TTLCache` | the whole cache, per thread | one step per hold of the lock: `Hit`, `Claim` or `Join`; then `Store` or `Fail`; then, the lock free, `Fulfill` or `Reject`; followers `Wake` or `TimeOut` |
| `SingleFlight` | what the cache promises | abstract, with neither locks, nor promises, nor an order of use: `Hit`, `Lead` or `Follow`; `Complete`, which reaches every follower at once; `Answer` or `GiveUp`; `Forget` at any time. `TTLCache` implements it: `Delivered` counts an outcome as a follower's once the leader has left the lock with it |
| `Client` | how a call of each endpoint can end | operators only: a response is a status, a content type and a body by its shape; it ends in a result, a `BrightDataAPIError` with a status, or another exception |
| `Service` | `service.py`, and the `/api` gate of `server.py` before it | a request is refused, or goes to `SingleFlight`; the leader's closure makes one step per upstream call (`BalanceReply` ... `VipsEnds`, or `UpstreamError`, `UpstreamRaises`, whose possibilities come from `Client`); `work` is the closure's frame. The roster stays in the answer of a list and of a detail, for the properties; what the account counts of it is left out |
| `Exporter` | the wiring of `__main__` | extends `Service`: every upstream call of a handler or of the collector first takes a slot (`RateLimiter!Reserve`) and ends once that has come; a thread per HTTP request; time passes only when nobody has anything to do at once |
| `Collector` | `collect_once` | one step per request with the publishing of its reply; `phase` is the request about to be made; a request is answered, fails (`BrightDataAPIError`) or raises, as `Client` allows its endpoint |
| `ScrapeLoop` | `main` from `server.start()` to its end, extends `Collector` | first cycle, wait, cycle, back-off, stop, close, return; signals and `/api` requests at any moment |
| `Billing` | `client.zone_cost`, `pricing.py`, the rate gauges | one step per user in a reply |
| `Bandwidth` | `customer_bandwidth` and `zone_bandwidth` on one reply | one step per customer in a reply |
| `Replies` | a reply of each kind being read | extends `Billing` and `Bandwidth`, which share nothing; a step is one of theirs |

`MCTTLCache` adds model values and symmetry to `TTLCache` (sets of threads and
keys that nothing tells apart; used without liveness only), `MCService` and
`MCExporter` add requests and rosters. The other modules are checked directly. Definitions that stand beside a modelled one and differ from it
by one mistake (`NextSlotNoInterval`, `ClaimAnyway`, ...) are never used by the
specifications: put in place of the correct one, each breaks the property
`PROJECT.json` pairs it with under "mutants", which shows that the property
depends on that piece of code.

Abstractions. Time is a clock of whole units. Keys, zones and threads are model
values. Values carry when their computation began and ended, which is what
freshness is about. A promise is named by the thread that leads it. In `Collector`
a series is a family with a zone and the status it is labelled with; figures are
left out; statuses are a constant, `""` among them where upstream gives none, which
`zones_total` counts as `unknown`; endpoints are
counted in `scrape_errors_total` by kind (the roster, the two best-effort lists,
all others). A reader that renders between two writes of a single publication
sees part of that publication; the invariants on renders bound the series from
above, so they hold of a part if they hold of the whole. In `Service` a date is a
day number, with three values for what is no date; a `status` or `zone_filter` is a
text, the sequence of the words between its `&`s (a word `k=v` for the name `k` of a
parameter is the pair), and a cache key is what `make_key` joins of them, again a
sequence of words; `Named` and `Matches` say which statuses a text lists and which
names it finds, or that it does not compile; a zone's status may be missing or one
nobody asks for; a roster lists a name once; rows
are built in any order, as the order of the list is upstream's. Request threads that
end are idle threads that may take another request, but in `Exporter` a thread
serves one. There a call ends with its slot or up to `MaxLag` later, which stands
for the lateness of the thread and the time of the exchange.

## 3. Runs

| Run | Instance | Shows |
|---|---|---|
| `limiter` | 3 callers, interval 2, sleepers resumed up to 1 late, 10 readings of the clock | `SlotsApart`, `CompletionsApart`, `RateLaw` (any window), `QueueBound`, `NoIdleSlot`; `AcquireReturns`; `PacedSpec`, the refinement of `PacedGrants` |
| `lru` | 4 keys, room for 3 | store order is order of use; a stored entry stays and costs the LRU one at most |
| `cache` | 3 threads, 2 keys, room for 1, TTL 1, time-out 1, clock to 2, `get`, `invalidate` and `clear` at any moment | `SingleFlight`, `NoOrphans`, `NoStaleBesideFlight`, `Fresh`; `FlightsSpec`, the refinement of the module `SingleFlight`, which says besides that answers are for the key asked, failures are not cached and the store keeps to its size |
| `cache_served` | 3 threads, 1 key, which fits, clock to 4, `get_or_compute` only, leaders may hang or be lost | `OncePerTTL`, `FollowersReturn` |
| `collector` | 2 zones, the statuses `deleted`, none and one that reads `unknown`, one zone filtered out but named by replies, IP health and address lists on, info TTL 1, clock to 2, any number of cycles | `OneRoster`, `CountsCover`, `UpMeansComplete`, `UpIsHonest`, `InfoWithinRoster`, `InfoAskedPerTTL` |
| `loop` | 1 zone, 2 requests, any number of cycles, clock to 1 | `UpIsLatest`, `SignalStops`, `KeepsScraping` (also after an exception: only the first cycle may end the process) |
| `loop_first`, `loop_drain` | 1 zone, 1 request | violated: the first failure is retried; requests are drained |
| `replies` | 2 users with 5 fields, 2 customers with 2 zones | `PairAgrees`, `RateIsPublished`, `SameFigures` |
| `service` | 2 handlers, 2 zones, 2 rosters, 6 requests, two of which have one key, room for 1 answer, TTL 1, time-out 1, clock to 1 | `AnswersTheQuestion`, `CoversTheWindow`, `ToldOwnFaults`, `SpendsWithinPlan`, `FirstServed` |
| `service_keys` | 2 requests with an `&` in their texts, else as `service` | violated: one fan-out per path and parameters |
| `exporter` | 2 handlers and the collector, interval 1, calls up to 1 late, requests of 2 and 3 calls, cycles of 2, time-out 7, clock to 9 | `EveryoneGetsOn`, `TimeOutsAreEarned` |

Why the bounds suffice. Limiter: three callers give a queue with someone before
and someone behind, and the clock leaves room for every caller to come twice. Cache:
with three threads there is a leader and two followers, or a leader, a follower
and a thread that arrives between release and settling; room for one entry of two
keys makes every store evict; a clock of three readings has an entry at and beyond
its TTL and a wait at and beyond its time-out.
The follower's bound in `Join` (the wait must fit before the end of the clock)
keeps the end of the model's time from looking like a hang. `OncePerTTL` is about
keys that fit, which are independent of each other: one is enough. Collector:
nothing couples two zones but the roster, the selection and the info cache. One
zone that passes the filter and one that does not show the roster, the counts and
the replies against the selection, and bring in every status and every change of
it; the second zone's own requests would repeat the first one's. The cycle sets two
statuses apart, `deleted`, which the selection leaves out (and `disabled` likewise unless it
is switched on), and `""`, which is counted as `unknown`; a zone whose status is that very
word stands for those of any other. The switched off
parts (`network`, `recent_ips`, `domains`) run the same three actions as
the ones switched on (`NamedReply`, `AccountReply`, `Failed`). Cycles are not
counted, so the run covers any number of them, and a clock of three readings has
an info entry at its TTL and beyond it. The loop adds no dependence on zones or
time, so one zone and a clock that moves once serve (info TTL 0). Replies: sums of two
entries differ from one entry and from the last entry, and amounts of 0 and 1 per
entry make every combination of empty and populated fields.
Service: sharing takes two handlers, one of which leads. The requests are a list of a
reversed window, the same list of the window which that becomes, so that the two have
one key, the same of a day, with a filter that does not compile, a detail of a window
longer than the least, the account, and a list that is refused (a date that cannot be
widened); the other refusals, of a missing token and of malformed dates, end before
anything is shared and are left to the theorems, which are of every request, those with
an `&` in their texts included. Windows are widened (4 to 3, 3 to 3), just long enough
(2 to 3) and longer (1 to 3).
The two rosters differ in
a zone's presence and in statuses, one of them missing, so that lists come to 0, 1 and 2
rows and a detail is found or not. Exporter: at a time-out of 7, and 3 units at the most
for a call of the two threads other than a follower, the 2 calls of a list fit and the 3
of the account do not: followers of the account do run into it. A thread serves one request, so that two handlers are a leader
and a follower or two leaders, beside the collector.
`CHECK_DEADLOCK FALSE` is used where the system really stops (the process has
ended, or a reply has been read to its end), and in `exporter`, where the modelled
time ends while threads wait for slots.

Fairness. `AcquireReturns`: the clock runs and the scheduler resumes a sleeper
whose sleep is over (weak fairness of `Tick` and `Return`); nobody is obliged to
call. `FollowersReturn`: time passes and waiting threads run; nothing is assumed
of leaders. `ScrapeLoop`: the main thread goes on, as its requests, its waits and
its sleep are bounded; nothing is assumed of signals or handlers. `SignalStops`
therefore says that stopping depends on no handler. `FirstServed`: every upstream
call ends, by the client's time-out at the latest, and a follower whose promise is
settled runs; nothing is assumed of the clock, so followers are not saved by their
time-out. It is stated of one handler, as nothing tells handlers apart.

Type invariants. The runs `limiter` and `cache` check their module's `TypeOK`; that
of `Collector` is a conjunct of the loop's, `LoopTypeOK`, and that of `Service` one of
`ExporterTypeOK`, each checked in the larger run; that of `LruHistory` is a conjunct of
its proved invariant, `LruInv`.

## 4. Findings

Each is a run that violates one statement of a comment, a help text, a chart or a
test; `PROJECT.json` quotes the lines.

* `FirstFailureSurvives`: an exception that is not a `BrightDataAPIError` ends the
  process when the first cycle raises it, instead of being retried by the loop.
* `DrainsRequests`: shutdown does not wait for requests in flight.
* `OneFanOutPerParams`: `make_key` escapes nothing, and an `&` in a text is not told
  from one between parameters. Requests with other dates, statuses and filters can
  share a key, and then an answer, a window or a 400. It takes an `&` in the texts of
  everyone concerned: `AnswersTheQuestion`, `CoversTheWindow` and `ToldOwnFaults` are
  stated of, and proved for, every caller whose own texts have none (`Plain`), whatever
  others ask.

Noted while modelling, without a run of their own:

* "Total number of zones on the account, broken down by status" (`metrics.py:74-75`):
  a zone without a status is counted as `unknown` while its series have `status=""`.
  Beside one whose status is the word `unknown`, both figures are set for one label
  and the later one stays. `CountsCover` compares by label and leaves the figure of
  such a label open.
* The "most recent successful scrape" (`metrics.py:200`) is the most recent one that
  came to its end: `Stamp` follows cycles with failed requests as well.
* The limiter spaces slots, not completions. Two requests may leave closer than an
  interval, by no more than the lateness of the scheduler (`CompletionsApart`), and
  the excess does not add up (`RateLaw`); `tests/test_ratelimit.py:98-99` says that
  completion times are "at least one interval apart".
* "Errors on individual zones / endpoints are caught and counted but do not abort
  the cycle" (`collector.py:183-184`) holds of `BrightDataAPIError` only: `Raise` leaves the cycle, and `OneRoster`,
  `UpIsLatest` and `KeepsScraping` are checked with it.
* What makes such an exception: a body that claims to be JSON and is not
  (`client.py:364` is outside the `try`), a non-empty reply of
  `/zone/ips/unavailable` that is no object (`client.py:687`), text where
  `/customer/balance` or `/customer/bw` has a number. In the first cycle it ends the
  process (`FirstFailureSurvives`); to a REST caller it is a 500, where the same
  upstream fault is a 502 if the content type is not JSON.
* `BrightDataAPIError` is documented as raised for an "unexpected status / body"
  (`client.py:287`). Ten of the endpoints take a body of another shape for an empty
  reply instead, so that a zone whose cost came as a list costs nothing.
* With a cache TTL of 0, "each request fans out fresh upstream calls"
  (`config.py:70-71`); requests that come while one is computing share its flight
  and get calls begun before they arrived.
* VIPs at no cost are `per_vip` to `billing_model` and shown as idle by
  `pricing_display`; `tests/test_pricing.py:69` says that the two "must always agree".
  `PairAgrees` is stated without that case.
* Followers time out after 60 s though their leader is only queueing at the limiter
  (`exporter` has such time-outs; `TimeOutsAreEarned` says when not to expect
  them): at 1 request per second a list of 30 zones has 62 calls.
* A `zone_filter` that does not compile, and a zone that does not exist, cost an
  upstream call before they are refused (`SpendsWithinPlan`).
* A `to` in the first days of year 1 makes the window leave the calendar: the
  `OverflowError` of `service.py:390` is a 500.
* `service.py:281-282` says that info calls are skipped for zones that are not
  scrapeable, as "caller filtered to active+disabled". Nothing skips them, and
  `status=deleted` and details reach deleted zones.
* The info cache evicts zones that left the account, and after a failed roster
  request that is every zone: the next cycle asks for all of them again.

## 5. Proofs

Every invariant of a passing run is a theorem, and so are its action properties and
both refinements. Left to TLC alone are the liveness properties.

| Module | Theorems | The inductive invariant, and why it is needed |
|---|---|---|
| `RateLimiterProofs` | `TypeCorrect`, `SlotsAreApart`, `RequestsAreApart` | `SlotsApart` alone is not inductive: a new slot is apart from old ones only because no slot ever allotted lies beyond `last`. `LimiterInv` adds that, and that a call returns no earlier than its slot and at most `MaxLag` later, from which the distance of completions follows |
| | `QueueIsBounded` | not inductive as it stands, as a thread that leaves the queue takes an interval off the bound. `QueueInv` says of every instant `t` from now on that `last` is at most `t` and an interval for each thread whose slot lies beyond `t`; who leaves has no slot beyond now |
| | `NoSlotIsIdle` | `Following` says it of every slot ever handed out, with `last` being one of them or still the 0 it began with; who returns takes its slot along into `issued` |
| | `RateIsLimited` | `Sparse` counts the slots of every stretch of time at once: a new one is past all others by an interval, so that the others of its stretch lie in a stretch that is an interval shorter, where the count is known. Requests of a window have different slots of a stretch that begins `MaxLag` earlier |
| | `ImplementsPacedGrants` | step by step: a return spends a grant, a tick that makes a slot come is a grant |
| `LruStoreProofs` | lemmas on `Drop`, `Touch`, `Evict`, `Insert` | what each keeps of injectivity, order and length; cited by the two modules below |
| `LruHistoryProofs` | `StoreIsBounded`, `StoreIsOrderedByUse`, `EvictionIsLeastRecent` | the store is an injective sequence whose order agrees with the order of use; an eviction takes its head, a store adds at its end |
| `TTLCacheProofs` | `TypeCorrect`, `FlightsAreSingle`, `FollowersHaveLeaders`, `AnswersAreFresh`, `StoreIsBounded` | `CacheInv`: a key is claimed exactly while its claimant computes; entries hold values computed for their key, whose expiry is at most TTL after their end; calls hold outcomes for the key they asked; a follower's leader is still computing or publishing its key; the store is injective, bounded, and holds just the keys with an entry. The claim part is needed for every other one: it says that no promise is joined after it was settled |
| | `ImplementsSingleFlight` | each hold of the lock is a step of `SingleFlight`, the settling of the promise and all the leader does outside the lock a stutter; the case that takes work is the store, whose evictions have to be a set that `Keep` may lose |
| | `AskedOncePerTTL` | under the hypothesis that all keys fit: `OnceInv` adds that the last answer of every key is in the store for as long as it is good, and that what is being computed was asked for after every answer so far had run out |
| `CollectorProofs` | `CollectorTypes`, `SeriesOfOneRoster`, `ShownZonesCounted`, `UpCompletes`, `UpHonest`, `InfoOfRoster`, `InfoPerTTL` | `CollectorInv` says for each point of a cycle what is there yet and what still has to come: `UpMeansComplete` speaks of the end of a cycle only, and holds there because at every earlier point a selected zone has its series, or is still to be done, or `ok` is false already |
| | `LoopTypes`, `UpOfLatest`, `LoopKeepsCycles` | `LoopInv` adds where the main thread may be once a cycle is over. `LoopRaises` sets `up` and is no step of `Collector`, so that its promises have to be kept anew |
| `RepliesProofs` | `SchemeAndRateAgree`, `DisplayedRateIsPublished`, `BulkEqualsSingle` | amounts stay natural numbers; what has been read of the bulk reply and of each single one agree after every customer, not only at the end |
| `ServiceProofs` | `AnswersAreToTheQuestion`, `WindowsAreCovered`, `FaultsAreOnesOwn`, `SpendingIsPlanned` | an answer may stem from another one's fan-out, so `ServiceInv` says of every outcome, kept or handed out, that it fits *each* request with its key and no `&` in its texts (`SameQuestion`: whoever shares the key of such a request asks what it asks. `ZonesKey` says at which place of a key each word stands; with a word for each text at most, `status`, `to` and `zone_filter` stand at places where in the key of any other list something else does); and of a fan-out, stage by stage, that its rows are those of the zones picked less the ones still to be done, and how many calls that took |
| | `FlightInvariance`, `ServiceTypes` | `FlightInv`: flights and leaders belong to each other, and a follower's leader began no later than it |
| `ExporterProofs` | `ExporterIsAService`, `ExporterAnswers` | every step is one of `Service` or leaves it alone, so all that is proved of `Service` holds under the shared limiter |
| | `ExporterTypes`, `EveryoneIsServed`, `FollowersTimeOutsAreEarned` (of followers with no `&` in their texts) | how late a fan-out may be is said of every instant, so that a step of somebody else can break it. `ScheduleInv` says of any set of threads outside which nobody has led how late each leader and the cycle can be, with a call in the queue or without; the set of all threads gives the first property, all but the follower the second |

The theorems hold for every number of threads, keys, zones and clock readings, every
interval, lateness, TTL, time-out and store size, every set of requests, rosters and
upstream statuses that the named assumptions of the modules admit. What they ask for
is what the code gives:

* numbers are natural, the interval and the store size not 0 (`IntervalAssumption`,
  `LagAssumption`, `TTLAssumption`, `TimesAssumption`, ...), as `config.py` and the
  constructors check;
* threads and zones are finitely many (`CallersAssumption`, `FiniteAssumption`,
  `ZonesAssumption`, `WiringAssumption`), as everything in one process and every reply
  is; it is needed wherever something is counted;
* `StatusesAssumption`: a status is a text, and `absent`, which stands for a zone that is
  not listed, is none;
* `RequestsAssumption` gives requests their parts, the texts any words at all, `RostersAssumption` says that there
  is a roster the API may reply with, `CodesAssumption` that an error's status is not 200;
* `NoneAssumption`: what stands for nothing is none of the things it stands beside.

One theorem has a hypothesis of its own: `AskedOncePerTTL` is about keys that fit,
as the property says. All assumptions are evaluated by the runs.

What the proofs found. That requests of one key ask one question is false without
`Plain`. `CoversTheWindow` was stated for every `api_min_window_days`
and is false of 0, where a reversed window is left alone; it now says so. That the
number of calls of a fan-out is within plan also when the roster is empty needed the
stage of the fan-out, as the roster alone does not tell it from one not begun.

Model-checked only: `AcquireReturns`, `FollowersReturn`, `SignalStops`,
`KeepsScraping` and `FirstServed`. They are liveness properties under fairness, and
need ENABLED, which is out of the prover's reach. Two more limits shape the proofs:
what a recursive definition computes for every input would need induction over data,
so that the sums of `Billing` and `Bandwidth` are steps of a reader over one entry
after the other, about which invariants can be proved; and the three runs that expect
a violation are refutations, for which the counterexample is the proof.

## 6. Not modelled

What the parsers copy field by field and the rows and gauges made of it, apart from
the sums and rates of `Billing` and `Bandwidth`; routes that answer with a constant; configuration, which is read
once and whose bounds are the assumptions on the constants; logging; a body with NaN
where a number belongs; and everything that is not the running program. A signal that
arrives before its handler is installed ends the process by default and is left out.

`Service` takes the cache by its promise and `Exporter` takes the collector as a
caller in cycles: that the cache keeps the promise is `FlightsSpec`, what a cycle does
with its replies is `Collector`, and the two are not run as one model, whose states
would be the product of theirs without an interaction other than the limiter's.

## 7. Plan

What is left is to join the proofs: that the steps `Service` takes with its cache are
steps of `SingleFlight`, but for requests refused before the cache is asked; that the
calls of `Exporter` are a run of `RateLimiter`, so that `RateLaw` holds of the requests
that leave the process; that a cycle of `Collector` makes the calls `Exporter` counts;
and, of the process, that the client is closed only after the server has stopped
accepting.
