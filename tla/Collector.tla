----------------------------- MODULE Collector -----------------------------
(***************************************************************************)
(* One scrape cycle of collector.py, as the main thread runs it and as a   *)
(* reader of /metrics sees it: a step is one request with the publishing   *)
(* of its reply, so the registry can be rendered between any two.  A       *)
(* request ends in one of the ways Client has for its endpoint: a result;  *)
(* a BrightDataAPIError, which the cycle records and survives; or another  *)
(* exception (a body that is not the JSON it claims to be, a field of the  *)
(* wrong type), which leaves collect_once at once.                         *)
(***************************************************************************)
EXTENDS Integers, Sequences, FiniteSets, FiniteSetsExt

CONSTANTS
    Zones,            \* zone names
    Statuses,         \* what a zone's status may read, "" where upstream gives none
    Matching,         \* the zones that pass zones_filter
    IncludeDisabled,  \* include_disabled
    RosterPlans,      \* zones whose plan lists IPs by country
    VipPlans,         \* zones whose plan has dedicated VIPs
    Collected,        \* the optional parts switched on, a subset of Switches
    InfoTTL,          \* info_cache_seconds, in units of the clock
    MaxClock,         \* bound: the clock stops here
    None              \* no entry in the info cache

Switches == {"network", "ip_health", "recent_ips", "rosters", "domains"}

ASSUME FiniteAssumption == IsFiniteSet(Zones)
ASSUME ZonesAssumption == Matching \cup RosterPlans \cup VipPlans \subseteq Zones
ASSUME StatusesAssumption == Statuses \subseteq STRING \ {"absent"}
ASSUME SettingsAssumption == IncludeDisabled \in BOOLEAN /\ Collected \subseteq Switches
ASSUME InfoTTLAssumption == InfoTTL \in Nat
ASSUME ClockAssumption == MaxClock \in Nat
ASSUME NoneAssumption == None \notin Nat

\* One status for all: the cycle treats them alike.
Api == INSTANCE Client WITH Codes <- {0}

VARIABLES
    clock,   \* time.monotonic()
    phase,   \* the request the cycle is about to make; "idle" before the first
             \* cycle, "done" or "raised" after one
    ok,      \* cycle_ok
    errors,  \* the kinds of endpoint whose scrape_errors_total rose in this cycle
    zones,   \* the roster: zones[z] is z's status, "absent" if not listed
    bulk,    \* zones with an entry in bw_by_zone
    todo,    \* scrapeable zones not scraped yet
    zone,    \* the zone being scraped
    known,   \* _scrape_one_zone: info is not None
    info,    \* _InfoCache: when z's info was fetched, or None
    series,  \* per-zone series in the registry: [family, zone, status]
    counts,  \* zones_total by label, 0 where there is no series
    up,      \* brightdata_up
    stamp    \* exporter_last_scrape_timestamp_seconds

cycle == <<ok, errors, zones, bulk, todo, zone, known>>
registry == <<series, counts, up, stamp>>
vars == <<clock, phase, ok, errors, zones, bulk, todo, zone, known, info,
          series, counts, up, stamp>>

Rosters == [Zones -> Statuses \cup {"absent"}]
NoRoster == [z \in Zones |-> "absent"]
Listed == {z \in Zones : zones[z] # "absent"}

\* The status as a label of zones_total; a zone's own series have it as it is.
Label(status) == IF status = "" THEN "unknown" ELSE status
Labels == {Label(s) : s \in Statuses}

\* The order of collect_once, and what switches its optional parts on.
Order == <<"balance", "status", "roster", "bandwidth", "network", "unavailable", "pending",
           "recent", "zones", "domain_bw", "domain_req", "stamp", "up">>

SwitchOf == [network |-> "network", unavailable |-> "ip_health", pending |-> "ip_health",
             recent |-> "recent_ips", domain_bw |-> "domains", domain_req |-> "domains"]

Runs(p) == p \in DOMAIN SwitchOf => SwitchOf[p] \in Collected

After(p) ==
    LET at(q) == CHOOSE i \in DOMAIN Order : Order[i] = q
    IN  Order[Min({i \in DOMAIN Order : i > at(p) /\ Runs(Order[i])})]

\* _select_zones
Selected(roster) ==
    {z \in Matching : /\ roster[z] \notin {"absent", "deleted"}
                      /\ roster[z] = "disabled" => IncludeDisabled}

\* An entry dropped at the very age it is still good for.
UsableBelow(z) == info[z] # None /\ InfoTTL > 0 /\ clock - info[z] < InfoTTL

\* _InfoCache.get
Usable(z) == info[z] # None /\ InfoTTL > 0 /\ clock - info[z] <= InfoTTL

\* Whether the per-zone roster request p is made.
Gate(p) ==
    /\ "rosters" \in Collected /\ known
    /\ zone \in (IF p = "ips" THEN RosterPlans ELSE VipPlans)

\* The step after zone's bandwidth, and after its IPs by country.
AfterIps == IF Gate("vips") THEN "vips" ELSE "zones"
AfterTraffic == IF Gate("ips") THEN "ips" ELSE AfterIps

\* _publish_zone_counts over the zones of Z, under one label: of two statuses with
\* that label the one set last stays.
Figures(roster, Z, label) ==
    LET found == {s \in Statuses : Label(s) = label /\ \E z \in Z : roster[z] = s}
    IN  IF found = {} THEN {0}
        ELSE {Cardinality({z \in Z : roster[z] = s}) : s \in found}

CountZones(roster, Z) ==
    /\ counts' \in [Labels -> 0 .. Cardinality(Zones)]
    /\ \A label \in Labels : counts'[label] \in Figures(roster, Z, label)

Of(family, Z) == {[family |-> family, zone |-> z, status |-> zones[z]] : z \in Z}

Publish(family, Z) == series' = series \cup Of(family, Z)

----------------------------------------------------------------------------
Init ==
    /\ clock = 0
    /\ phase = "idle"
    /\ ok = TRUE /\ errors = {}
    /\ zones = NoRoster
    /\ bulk = {} /\ todo = {} /\ zone \in Zones /\ known = FALSE
    /\ info = [z \in Zones |-> None]
    /\ series = {}
    /\ counts = [label \in Labels |-> 0]
    /\ up = 0 /\ stamp = 0

\* collect_once begins with reset_per_zone_metrics.
StartCycle ==
    /\ phase' = "balance"
    /\ ok' = TRUE /\ errors' = {}
    /\ zones' = NoRoster /\ bulk' = {} /\ todo' = {} /\ known' = FALSE
    /\ series' = {}
    /\ UNCHANGED <<clock, zone, info, counts, up, stamp>>

\* Requests whose replies make no per-zone series.
AccountReply(p) ==
    /\ p \in {"balance", "status", "network"}
    /\ phase = p
    /\ phase' = After(p)
    /\ UNCHANGED <<clock, info>> /\ UNCHANGED cycle /\ UNCHANGED registry

\* The endpoints the properties tell apart: the roster, the best-effort lists
\* of a zone's addresses, and all others.
Kinds == {"roster", "ips", "vips", "other"}
Kind(p) == IF p \in Kinds THEN p ELSE "other"

\* _record_error, and the same from an except branch that clears cycle_ok.
Count(p) == Api!ErrorCodes[p] # {} /\ errors' = errors \cup {Kind(p)}
Record(p) == Count(p) /\ ok' = FALSE

Failed(p) ==
    /\ p \in {"balance", "status", "network", "bandwidth", "unavailable", "pending",
              "recent", "domain_bw", "domain_req"}
    /\ phase = p
    /\ phase' = After(p)
    /\ Record(p)
    /\ UNCHANGED <<clock, zones, bulk, todo, zone, known, info>> /\ UNCHANGED registry

\* A roster taken without evicting the zones that left it.
TakeRosterKeeping(roster) ==
    /\ zones' = roster
    /\ todo' = Selected(roster)
    /\ CountZones(roster, Zones)
    /\ info' = info

\* zones_total filled from the zones left after the filter.
TakeRosterFiltered(roster) ==
    /\ zones' = roster
    /\ todo' = Selected(roster)
    /\ CountZones(roster, todo')
    /\ info' = [z \in Zones |-> IF roster[z] = "absent" THEN None ELSE info[z]]

\* With a roster: _publish_zone_counts, _select_zones and _InfoCache.evict.
TakeRoster(roster) ==
    /\ zones' = roster
    /\ todo' = Selected(roster)
    /\ CountZones(roster, Zones)
    /\ info' = [z \in Zones |-> IF roster[z] = "absent" THEN None ELSE info[z]]

RosterReply ==
    /\ phase = "roster"
    /\ \E roster \in Rosters : TakeRoster(roster)
    /\ phase' = After("roster")
    /\ UNCHANGED <<clock, ok, errors, bulk, zone, known, series, up, stamp>>

\* zones = [], and the cycle goes on with it.
RosterFailed ==
    /\ phase = "roster"
    /\ Record("roster")
    /\ TakeRoster(NoRoster)
    /\ phase' = After("roster")
    /\ UNCHANGED <<clock, bulk, zone, known, series, up, stamp>>

\* customer_bandwidth may name any zones, and need not name them all.
BulkReply ==
    /\ phase = "bandwidth"
    /\ bulk' \in SUBSET Zones
    /\ phase' = After("bandwidth")
    /\ UNCHANGED <<clock, ok, errors, zones, todo, zone, known, info>> /\ UNCHANGED registry

\* Replies keyed by zone name, whatever is not in the roster left out.
NamedFamilies == {"unavailable", "pending", "recent", "domain_bw", "domain_req"}

NamedReplyUnchecked(p) ==
    /\ p \in NamedFamilies
    /\ phase = p
    /\ \E named \in SUBSET Zones : Publish(p, named)
    /\ phase' = After(p)
    /\ UNCHANGED <<clock, info, counts, up, stamp>> /\ UNCHANGED cycle

NamedReply(p) ==
    /\ p \in NamedFamilies
    /\ phase = p
    /\ \E named \in SUBSET Zones : Publish(p, named \cap Listed)
    /\ phase' = After(p)
    /\ UNCHANGED <<clock, info, counts, up, stamp>> /\ UNCHANGED cycle

----------------------------------------------------------------------------
\* _scrape_one_zone, for each scrapeable zone.
NextZone ==
    /\ phase = "zones" /\ todo # {}
    /\ zone' \in todo
    /\ todo' = todo \ {zone'}
    /\ known' = FALSE
    /\ phase' = "info"
    /\ UNCHANGED <<clock, ok, errors, zones, bulk, info>> /\ UNCHANGED registry

ZonesDone ==
    /\ phase = "zones" /\ todo = {}
    /\ phase' = After("zones")
    /\ UNCHANGED <<clock, info>> /\ UNCHANGED cycle /\ UNCHANGED registry

InfoReply ==
    /\ phase = "info"
    /\ info' = IF Usable(zone) THEN info ELSE [info EXCEPT ![zone] = clock]
    /\ known' = TRUE
    /\ Publish("info", {zone})
    /\ phase' = "cost"
    /\ UNCHANGED <<clock, ok, errors, zones, bulk, todo, zone, counts, up, stamp>>

CostReply ==
    /\ phase = "cost"
    /\ Publish("cost", {zone})
    /\ phase' = "traffic"
    /\ UNCHANGED <<clock, info, counts, up, stamp>> /\ UNCHANGED cycle

\* Nothing asked of the zone itself when the bulk reply leaves it out.
TrafficReplyNoFallback ==
    /\ phase = "traffic"
    /\ Publish("traffic", {zone} \cap bulk)
    /\ phase' = AfterTraffic
    /\ UNCHANGED <<clock, info, counts, up, stamp>> /\ UNCHANGED cycle

\* From the bulk reply when it names the zone, else from a request of its own.
TrafficReply ==
    /\ phase = "traffic"
    /\ Publish("traffic", {zone})
    /\ phase' = AfterTraffic
    /\ UNCHANGED <<clock, info, counts, up, stamp>> /\ UNCHANGED cycle

Asks(p) ==
    /\ p = "info" => ~Usable(zone)
    /\ p = "traffic" => zone \notin bulk

AfterZoneError(p) ==
    CASE p = "info" -> "cost"
      [] p = "cost" -> "traffic"
      [] p = "traffic" -> AfterTraffic

ZoneFailed(p) ==
    /\ p \in {"info", "cost", "traffic"}
    /\ phase = p /\ Asks(p)
    /\ Record(p)
    /\ phase' = AfterZoneError(p)
    /\ UNCHANGED <<clock, zones, bulk, todo, zone, known, info>> /\ UNCHANGED registry

\* The opt-in rosters: an empty reply makes no series.
RosterOf(p) ==
    /\ p \in {"ips", "vips"}
    /\ phase = p
    /\ Publish(p, {zone}) \/ UNCHANGED series
    /\ phase' = (IF p = "ips" THEN AfterIps ELSE "zones")
    /\ UNCHANGED <<clock, info, counts, up, stamp>> /\ UNCHANGED cycle

\* An opt-in roster's failure taken for one of the cycle.
RosterOfFailedLoudly(p) ==
    /\ p \in {"ips", "vips"}
    /\ phase = p
    /\ Record(p)
    /\ phase' = (IF p = "ips" THEN AfterIps ELSE "zones")
    /\ UNCHANGED <<clock, zones, bulk, todo, zone, known, info>> /\ UNCHANGED registry

\* It is recorded, and leaves cycle_ok as it was.
RosterOfFailed(p) ==
    /\ p \in {"ips", "vips"}
    /\ phase = p
    /\ Count(p)
    /\ phase' = (IF p = "ips" THEN AfterIps ELSE "zones")
    /\ UNCHANGED <<clock, ok, zones, bulk, todo, zone, known, info>> /\ UNCHANGED registry

----------------------------------------------------------------------------
Requests == Api!Endpoints

\* An exception that is no BrightDataAPIError leaves collect_once.  The
\* replacement counts are read while publishing: some may be out already.
Raise ==
    /\ phase \in Requests /\ Asks(phase)
    /\ \/ phase = "pending" /\ \E named \in SUBSET Listed : Publish("pending", named)
       \/ phase \in Api!Excepts /\ UNCHANGED series
    /\ phase' = "raised"
    /\ UNCHANGED <<clock, info, counts, up, stamp>> /\ UNCHANGED cycle

Stamp ==
    /\ phase = "stamp"
    /\ stamp' = clock
    /\ phase' = After("stamp")
    /\ UNCHANGED <<clock, info, series, counts, up>> /\ UNCHANGED cycle

SetUp ==
    /\ phase = "up"
    /\ up' = IF ok THEN 1 ELSE 0
    /\ phase' = "done"
    /\ UNCHANGED <<clock, info, series, counts, stamp>> /\ UNCHANGED cycle

CycleStep ==
    \/ \E p \in Requests :
          \/ AccountReply(p) \/ Failed(p) \/ NamedReply(p)
          \/ ZoneFailed(p) \/ RosterOf(p) \/ RosterOfFailed(p)
    \/ RosterReply \/ RosterFailed \/ BulkReply
    \/ NextZone \/ ZonesDone \/ InfoReply \/ CostReply \/ TrafficReply
    \/ Raise \/ Stamp \/ SetUp

Tick ==
    /\ clock < MaxClock
    /\ clock' = clock + 1
    /\ UNCHANGED <<phase, info>> /\ UNCHANGED cycle /\ UNCHANGED registry

\* One cycle after the other, whatever became of the one before.
Next ==
    \/ phase \in {"idle", "done", "raised"} /\ StartCycle
    \/ CycleStep
    \/ Tick

Spec == Init /\ [][Next]_vars

----------------------------------------------------------------------------
Families == NamedFamilies \cup {"info", "cost", "traffic", "ips", "vips"}

TypeOK ==
    /\ clock \in 0 .. MaxClock
    /\ phase \in Requests \cup {"zones", "stamp", "up", "idle", "done", "raised"}
    /\ ok \in BOOLEAN /\ errors \subseteq Kinds
    /\ zones \in Rosters
    /\ bulk \subseteq Zones /\ todo \subseteq Zones /\ zone \in Zones /\ known \in BOOLEAN
    /\ info \in [Zones -> 0 .. MaxClock \cup {None}]
    /\ series \subseteq [family : Families, zone : Zones, status : Statuses]
    /\ counts \in [Labels -> 0 .. Cardinality(Zones)]
    /\ up \in {0, 1} /\ stamp \in 0 .. MaxClock

\* A render at any moment, mid-cycle and after an abort included, shows only
\* zones of one roster, each under one status: "deleted zones drop out", and no
\* reply brings one back.
OneRoster == \A s \in series : s.zone \in Listed /\ zones[s.zone] = s.status

\* No listed zone has another status with the label of this one.
Sole(status) == \A z \in Listed : Label(zones[z]) = Label(status) => zones[z] = status

\* A render that shows zones of a status also counts zones under its label, and no
\* fewer than it shows.  Except where a zone without status is listed beside one
\* whose status reads "unknown": of the two figures for one label one is lost.
CountsCover ==
    \A s \in Statuses :
        LET shown == {z \in Zones : \E x \in series : x.zone = z /\ x.status = s}
        IN  /\ shown # {} => counts[Label(s)] > 0
            /\ Sole(s) => counts[Label(s)] >= Cardinality(shown)

\* Between cycles, up = 1 says that every scrapeable zone has its configuration,
\* its cost and its traffic, by whichever of the two ways that came.
UpMeansComplete ==
    phase = "done" /\ up = 1 =>
        \A z \in Selected(zones), f \in {"info", "cost", "traffic"} :
            \E x \in series : x.family = f /\ x.zone = z

\* Between cycles, up tells whether an endpoint other than the best-effort
\* rosters failed.
UpIsHonest == phase = "done" => (up = 1 <=> errors \subseteq {"ips", "vips"})

\* The info cache holds no zone the latest roster does not list, so it cannot
\* outgrow the account.
InfoWithinRoster ==
    phase \notin {"balance", "status", "roster", "raised"} =>
        \A z \in Zones : info[z] # None => z \in Listed

\* The info cache pays: a zone's configuration is asked for again only when the
\* answer at hand is older than InfoTTL, or when the zone left the roster (or the
\* roster was not received) in between.
InfoAskedPerTTL ==
    [][\A z \in Zones : None \notin {info[z], info'[z]} /\ info'[z] # info[z]
          => info'[z] - info[z] > InfoTTL]_vars
============================================================================
