-------------------------- MODULE CollectorProofs --------------------------
(***************************************************************************)
(* Collector's safety for any finite account, any filter and switches, any *)
(* cache lifetime and any rosters, one per cycle.  What the runs check is  *)
(* about the ends of cycles and about renders; none of it is inductive: it *)
(* does not say how far the cycle is.  CollectorInv adds that: nothing of  *)
(* a zone is shown before there is a roster, the zones are counted exactly *)
(* while any is shown, cycle_ok stands for the errors counted so far, and  *)
(* in a cycle without one each selected zone is complete, still to scrape  *)
(* or in hand with what its requests so far have brought.                  *)
(*                                                                         *)
(* At the end, what ScrapeLoop adds, whenever a signal comes.  UpIsLatest  *)
(* speaks of the main thread waiting or leaving only; inductive is the     *)
(* statement with the backoff, the one way to a wait that is not by the    *)
(* end of a cycle.                                                         *)
(***************************************************************************)
EXTENDS ScrapeLoop, FiniteSetTheorems, TLAPS

----------------------------------------------------------------------------
\* The order of the requests: where After leads, whatever is switched on.

LEMMA LeastIsMin ==
    ASSUME NEW S \in SUBSET Int, NEW m \in S, \A i \in S : m <= i
    PROVE  Min(S) = m
  <1>1. \A x \in S : (\A y \in S : x <= y) => x = m
    OBVIOUS
  <1> QED
    BY <1>1 DEF Min

LEMMA Places ==
    /\ DOMAIN Order = 1 .. 13
    /\ (CHOOSE i \in DOMAIN Order : Order[i] = "balance") = 1
    /\ (CHOOSE i \in DOMAIN Order : Order[i] = "status") = 2
    /\ (CHOOSE i \in DOMAIN Order : Order[i] = "roster") = 3
    /\ (CHOOSE i \in DOMAIN Order : Order[i] = "bandwidth") = 4
    /\ (CHOOSE i \in DOMAIN Order : Order[i] = "network") = 5
    /\ (CHOOSE i \in DOMAIN Order : Order[i] = "unavailable") = 6
    /\ (CHOOSE i \in DOMAIN Order : Order[i] = "pending") = 7
    /\ (CHOOSE i \in DOMAIN Order : Order[i] = "recent") = 8
    /\ (CHOOSE i \in DOMAIN Order : Order[i] = "zones") = 9
    /\ (CHOOSE i \in DOMAIN Order : Order[i] = "domain_bw") = 10
    /\ (CHOOSE i \in DOMAIN Order : Order[i] = "domain_req") = 11
    /\ (CHOOSE i \in DOMAIN Order : Order[i] = "stamp") = 12
  BY DEF Order

LEMMA AlwaysRun ==
    \A p \in {"balance", "status", "roster", "bandwidth", "zones", "stamp", "up"} : Runs(p)
  BY DEF Runs, SwitchOf

LEMMA NextAlwaysRun ==
    ASSUME NEW k \in 1 .. 12, Runs(Order[k + 1])
    PROVE  Min({i \in DOMAIN Order : i > k /\ Runs(Order[i])}) = k + 1
  <1> DEFINE S == {i \in DOMAIN Order : i > k /\ Runs(Order[i])}
  <1>1. S \in SUBSET Int /\ k + 1 \in S /\ \A i \in S : k + 1 <= i
    BY Places
  <1> QED
    BY <1>1, LeastIsMin

LEMMA AfterAccount ==
    /\ After("balance") = "status"
    /\ After("status") = "roster"
    /\ After("roster") = "bandwidth"
    /\ After("stamp") = "up"
  <1>1. Order[2] = "status" /\ Order[3] = "roster" /\ Order[4] = "bandwidth" /\ Order[13] = "up"
    BY DEF Order
  <1>2. Runs(Order[2]) /\ Runs(Order[3]) /\ Runs(Order[4]) /\ Runs(Order[13])
    BY <1>1, AlwaysRun
  <1>3. Min({i \in DOMAIN Order : i > 1 /\ Runs(Order[i])}) = 2
    BY <1>2, NextAlwaysRun
  <1>4. Min({i \in DOMAIN Order : i > 2 /\ Runs(Order[i])}) = 3
    BY <1>2, NextAlwaysRun
  <1>5. Min({i \in DOMAIN Order : i > 3 /\ Runs(Order[i])}) = 4
    BY <1>2, NextAlwaysRun
  <1>6. Min({i \in DOMAIN Order : i > 12 /\ Runs(Order[i])}) = 13
    BY <1>2, NextAlwaysRun
  <1> QED
    BY <1>1, <1>3, <1>4, <1>5, <1>6, Places DEF After

\* A set of places after k that holds one of the next five has a least one.
LEMMA LeastOfNextFive ==
    ASSUME NEW k \in Nat, NEW S \in SUBSET Nat, NEW m \in S, m <= k + 5,
           \A i \in S : i > k
    PROVE  Min(S) \in S /\ \A i \in S : Min(S) <= i
  <1>1. \E x \in S : \A y \in S : x <= y
    <2>1. CASE k + 1 \in S
      BY <2>1
    <2>2. CASE k + 1 \notin S /\ k + 2 \in S
      BY <2>2
    <2>3. CASE k + 1 \notin S /\ k + 2 \notin S /\ k + 3 \in S
      BY <2>3
    <2>4. CASE k + 1 \notin S /\ k + 2 \notin S /\ k + 3 \notin S /\ k + 4 \in S
      BY <2>4
    <2>5. CASE k + 1 \notin S /\ k + 2 \notin S /\ k + 3 \notin S /\ k + 4 \notin S
      BY <2>5
    <2> QED
      BY <2>1, <2>2, <2>3, <2>4, <2>5
  <1> QED
    BY <1>1 DEF Min

LEMMA NextInReach ==
    ASSUME NEW k \in 1 .. 12, NEW m \in 1 .. 13, k < m, m <= k + 5, Runs(Order[m])
    PROVE  Min({i \in DOMAIN Order : i > k /\ Runs(Order[i])}) \in (k + 1) .. m
  <1> DEFINE S == {i \in DOMAIN Order : i > k /\ Runs(Order[i])}
  <1>1. S \in SUBSET (1 .. 13) /\ m \in S /\ \A i \in S : i > k
    BY Places
  <1>2. S \in SUBSET Nat /\ k \in Nat
    BY <1>1
  <1> HIDE DEF S
  <1>3. Min(S) \in S /\ \A i \in S : Min(S) <= i
    BY <1>1, <1>2, LeastOfNextFive
  <1>4. Min(S) \in 1 .. 13 /\ Min(S) > k /\ Min(S) <= m
    BY <1>1, <1>3
  <1>5. Min(S) \in (k + 1) .. m
    BY <1>2, <1>4
  <1> QED
    BY <1>5 DEF S

\* The account's own requests come before the zones, the domains' after them,
\* and neither part can be stepped over to what lies beyond it.
LEMMA AfterRoster ==
    /\ \A p \in {"bandwidth", "network", "unavailable", "pending", "recent"} :
          After(p) \in {"network", "unavailable", "pending", "recent", "zones"}
    /\ \A p \in {"zones", "domain_bw", "domain_req"} :
          After(p) \in {"domain_bw", "domain_req", "stamp"}
  <1>1. Order[9] = "zones" /\ Order[12] = "stamp"
    BY DEF Order
  <1>2. Runs(Order[9]) /\ Runs(Order[12])
    BY <1>1, AlwaysRun
  <1>3. ASSUME NEW k \in 4 .. 8
        PROVE  Min({i \in DOMAIN Order : i > k /\ Runs(Order[i])}) \in 5 .. 9
    <2>1. k \in 1 .. 12 /\ 9 \in 1 .. 13 /\ k < 9 /\ 9 <= k + 5 /\ Runs(Order[9])
      BY <1>2
    <2>2. Min({i \in DOMAIN Order : i > k /\ Runs(Order[i])}) \in (k + 1) .. 9
      BY <2>1, NextInReach
    <2> QED
      BY <2>2
  <1>4. ASSUME NEW k \in 9 .. 11
        PROVE  Min({i \in DOMAIN Order : i > k /\ Runs(Order[i])}) \in 10 .. 12
    <2>1. k \in 1 .. 12 /\ 12 \in 1 .. 13 /\ k < 12 /\ 12 <= k + 5 /\ Runs(Order[12])
      BY <1>2
    <2>2. Min({i \in DOMAIN Order : i > k /\ Runs(Order[i])}) \in (k + 1) .. 12
      BY <2>1, NextInReach
    <2> QED
      BY <2>2
  <1>5. \A n \in 5 .. 9 :
           Order[n] \in {"network", "unavailable", "pending", "recent", "zones"}
    BY DEF Order
  <1>6. \A n \in 10 .. 12 : Order[n] \in {"domain_bw", "domain_req", "stamp"}
    BY DEF Order
  <1>7. ASSUME NEW p \in {"bandwidth", "network", "unavailable", "pending", "recent"}
        PROVE  \E k \in 4 .. 8 :
                  After(p) = Order[Min({i \in DOMAIN Order : i > k /\ Runs(Order[i])})]
    BY Places DEF After
  <1>8. ASSUME NEW p \in {"zones", "domain_bw", "domain_req"}
        PROVE  \E k \in 9 .. 11 :
                  After(p) = Order[Min({i \in DOMAIN Order : i > k /\ Runs(Order[i])})]
    BY Places DEF After
  <1>9. \A p \in {"bandwidth", "network", "unavailable", "pending", "recent"} :
           \E n \in 5 .. 9 : After(p) = Order[n]
    BY <1>3, <1>7
  <1>10. \A p \in {"zones", "domain_bw", "domain_req"} :
           \E n \in 10 .. 12 : After(p) = Order[n]
    BY <1>4, <1>8
  <1> QED
    BY <1>5, <1>6, <1>9, <1>10

----------------------------------------------------------------------------
\* The inductive invariant.

\* The requests before there is a roster to name zones of.
Before == {"idle", "balance", "status", "roster"}

\* The cycle is at work on a roster it has, or has ended with one.
Within == phase \notin Before \cup {"raised"}

PerZone == {"info", "cost", "traffic", "ips", "vips"}
Scraping == phase \in PerZone

Needed == {"info", "cost", "traffic"}
Has(z, f) == \E x \in series : x.family = f /\ x.zone = z

\* Nothing of a zone is shown, or left to do, before the cycle has a roster.
NothingYet == phase \in Before => series = {} /\ todo = {}

\* zones_total is of the roster the series are of.
CountsExact ==
    series # {} \/ Within =>
        \A label \in Labels : counts[label] \in Figures(zones, Zones, label)

\* The zones still to scrape, and the one in hand, are scrapeable ones, and none
\* is left over when the per-zone part is.
Remaining ==
    /\ todo \subseteq Selected(zones)
    /\ Scraping => zone \in Selected(zones)
    /\ phase \in {"domain_bw", "domain_req", "stamp", "up", "done"} => todo = {}

\* cycle_ok is what the counted errors say, and up what cycle_ok said.
Verdict ==
    /\ ok <=> errors \subseteq {"ips", "vips"}
    /\ phase = "done" => (up = 1 <=> ok)

\* No answer is from the future.
InfoPast == \A z \in Zones : info[z] # None => info[z] <= clock

\* In a cycle without a failure the scraped zones are complete, ...
ScrapedComplete ==
    ok /\ Within =>
        \A z \in Selected(zones) :
            z \in todo \/ (Scraping /\ z = zone) \/ \A f \in Needed : Has(z, f)

\* ... and the one in hand is as far as the requests made for it.
InHandSoFar ==
    ok =>
        /\ phase \in {"cost", "traffic", "ips", "vips"} => Has(zone, "info")
        /\ phase \in {"traffic", "ips", "vips"} => Has(zone, "cost")
        /\ phase \in {"ips", "vips"} => Has(zone, "traffic")

CollectorInv ==
    /\ TypeOK /\ NothingYet /\ CountsExact /\ OneRoster /\ Remaining /\ Verdict
    /\ InfoPast /\ InfoWithinRoster /\ ScrapedComplete /\ InHandSoFar

----------------------------------------------------------------------------
USE FiniteAssumption, StatusesAssumption, ZonesAssumption, InfoTTLAssumption,
    ClockAssumption, NoneAssumption

LEMMA SelectedListed ==
    ASSUME TypeOK
    PROVE  Selected(zones) \subseteq Listed
  BY DEF TypeOK, Selected, Listed, Rosters

\* What publishing adds, and what it leaves as it was.
LEMMA PublishAdds ==
    ASSUME TypeOK, OneRoster, NEW f \in Families, NEW Z \in SUBSET Listed,
           Publish(f, Z), zones' = zones
    PROVE  /\ series' \subseteq [family : Families, zone : Zones, status : Statuses]
           /\ OneRoster'
           /\ \A z, g : Has(z, g) => Has(z, g)'
           /\ \A z \in Z : Has(z, f)'
  <1>1. /\ series' = series \cup Of(f, Z)
        /\ Listed' = Listed
        /\ Z \subseteq Zones /\ \A z \in Z : zones[z] \in Statuses
    BY DEF Publish, Listed, TypeOK, Rosters
  <1>2. \A x \in Of(f, Z) : /\ x \in [family : Families, zone : Zones, status : Statuses]
                            /\ x.family = f /\ x.zone \in Z /\ zones[x.zone] = x.status
    BY <1>1 DEF Of
  <1>3. \A z \in Z : \E x \in Of(f, Z) : x.family = f /\ x.zone = z
    <2> SUFFICES ASSUME NEW z \in Z
                 PROVE  \E x \in Of(f, Z) : x.family = f /\ x.zone = z
      OBVIOUS
    <2> DEFINE x == [family |-> f, zone |-> z, status |-> zones[z]]
    <2>1. x \in Of(f, Z) /\ x.family = f /\ x.zone = z
      BY DEF Of
    <2> QED
      BY <2>1
  <1>4. series' \subseteq [family : Families, zone : Zones, status : Statuses]
    BY <1>1, <1>2 DEF TypeOK
  <1>5. OneRoster'
    BY <1>1, <1>2 DEF OneRoster
  <1>6. \A z, g : Has(z, g) => Has(z, g)'
    BY <1>1 DEF Has
  <1>7. \A z \in Z : Has(z, f)'
    BY <1>1, <1>3 DEF Has
  <1> QED
    BY <1>4, <1>5, <1>6, <1>7

LEMMA InitInv == Init => CollectorInv
  <1> SUFFICES ASSUME Init PROVE CollectorInv
    OBVIOUS
  <1>1. /\ series = {} /\ todo = {} /\ phase = "idle" /\ ok = TRUE /\ errors = {}
        /\ zones = [z \in Zones |-> "absent"] /\ up = 0 /\ clock = 0
        /\ info = [z \in Zones |-> None] /\ counts = [label \in Labels |-> 0]
    BY DEF Init, NoRoster
  <1>2. Cardinality(Zones) \in Nat
    BY FS_CardinalityType
  <1>3. TypeOK
    <2>1. zones \in Rosters /\ info \in [Zones -> 0 .. MaxClock \cup {None}]
      BY <1>1 DEF Rosters
    <2>2. counts \in [Labels -> 0 .. Cardinality(Zones)]
      BY <1>1, <1>2
    <2>3. /\ clock \in 0 .. MaxClock /\ stamp \in 0 .. MaxClock /\ up \in {0, 1}
          /\ ok \in BOOLEAN /\ errors \subseteq Kinds
          /\ phase \in Requests \cup {"zones", "stamp", "up", "idle", "done", "raised"}
      BY <1>1 DEF Init
    <2>4. /\ bulk \subseteq Zones /\ todo \subseteq Zones /\ zone \in Zones /\ known \in BOOLEAN
          /\ series \subseteq [family : Families, zone : Zones, status : Statuses]
      BY <1>1 DEF Init
    <2> QED
      BY <2>1, <2>2, <2>3, <2>4 DEF TypeOK
  <1>4. NothingYet /\ CountsExact /\ OneRoster /\ Remaining /\ ScrapedComplete /\ InHandSoFar
    BY <1>1 DEF NothingYet, CountsExact, OneRoster, Remaining, ScrapedComplete, InHandSoFar,
         Before, Within, Scraping, PerZone
  <1>5. Verdict /\ InfoPast /\ InfoWithinRoster
    BY <1>1 DEF Verdict, InfoPast, InfoWithinRoster
  <1> QED
    BY <1>3, <1>4, <1>5 DEF CollectorInv

----------------------------------------------------------------------------
\* Most steps keep the roster and what is left to scrape.  Of those, whatever
\* is true of the series stays true if the step only adds to them.
LEMMA SameRosterStep ==
    ASSUME CollectorInv, zones' = zones, counts' = counts, todo' = todo, zone' = zone,
           TypeOK', OneRoster', Verdict', InfoPast', InHandSoFar',
           \A z, f : Has(z, f) => Has(z, f)',
           series' # {} => series # {} \/ Within,
           ok' => ok, Within' => Within, phase' \notin Before,
           Scraping' => Scraping,
           Scraping /\ ~Scraping' /\ ok' /\ Within' => \A f \in Needed : Has(zone, f)',
           todo # {} => phase' \notin {"domain_bw", "domain_req", "stamp", "up", "done"},
           \A z \in Zones : Within' /\ info'[z] # None => info[z] # None \/ z \in Listed
    PROVE  CollectorInv'
  <1>1. Selected(zones)' = Selected(zones) /\ Listed' = Listed
    BY DEF Selected, Listed
  <1>2. NothingYet'
    BY DEF NothingYet
  <1>3. CountsExact'
    BY DEF CollectorInv, CountsExact
  <1>4. Remaining'
    BY <1>1 DEF CollectorInv, Remaining
  <1>5. InfoWithinRoster'
    BY <1>1 DEF CollectorInv, InfoWithinRoster, Within, Before
  <1>6. ScrapedComplete'
    BY <1>1 DEF CollectorInv, ScrapedComplete
  <1> QED
    BY <1>2, <1>3, <1>4, <1>5, <1>6 DEF CollectorInv

\* The requests before the roster's make no series and leave the cycle where it was.
LEMMA EarlyStep ==
    ASSUME CollectorInv, phase \in {"balance", "status"}, phase' \in {"status", "roster", "raised"},
           UNCHANGED <<clock, zones, bulk, todo, zone, known, info>>, UNCHANGED registry,
           ok' \in BOOLEAN, errors' \subseteq Kinds, ok' <=> errors' \subseteq {"ips", "vips"}
    PROVE  CollectorInv'
  <1>1. series = {} /\ todo = {} /\ series' = {} /\ todo' = {}
    BY DEF CollectorInv, NothingYet, Before, registry
  <1>2. TypeOK'
    BY DEF CollectorInv, TypeOK, registry, Requests, Api!Endpoints
  <1>3. NothingYet' /\ OneRoster'
    BY <1>1 DEF NothingYet, OneRoster
  <1>4. CountsExact' /\ ScrapedComplete'
    BY <1>1 DEF CountsExact, ScrapedComplete, Within, Before
  <1>5. Remaining' /\ InHandSoFar'
    BY <1>1 DEF Remaining, InHandSoFar, Scraping, PerZone
  <1>6. Verdict' /\ InfoPast' /\ InfoWithinRoster'
    BY DEF CollectorInv, Verdict, InfoPast, InfoWithinRoster
  <1> QED
    BY <1>2, <1>3, <1>4, <1>5, <1>6 DEF CollectorInv

LEMMA StartCycleInv ==
    ASSUME CollectorInv, StartCycle
    PROVE  CollectorInv'
  <1>1. /\ phase' = "balance" /\ ok' = TRUE /\ errors' = {} /\ series' = {} /\ todo' = {}
        /\ zones' = NoRoster /\ zone' = zone /\ bulk' = {} /\ known' = FALSE
        /\ clock' = clock /\ info' = info /\ counts' = counts /\ up' = up /\ stamp' = stamp
    BY DEF StartCycle
  <1>2. TypeOK'
    <2>1. zones' \in Rosters
      BY <1>1 DEF NoRoster, Rosters
    <2>2. phase' \in Requests
      BY <1>1 DEF Requests, Api!Endpoints
    <2> QED
      BY <1>1, <2>1, <2>2 DEF CollectorInv, TypeOK
  <1>3. NothingYet' /\ OneRoster'
    BY <1>1 DEF NothingYet, OneRoster
  <1>4. CountsExact' /\ ScrapedComplete'
    BY <1>1 DEF CountsExact, ScrapedComplete, Within, Before
  <1>5. Remaining' /\ InHandSoFar'
    BY <1>1 DEF Remaining, InHandSoFar, Scraping, PerZone
  <1>6. Verdict' /\ InfoPast' /\ InfoWithinRoster'
    BY <1>1 DEF CollectorInv, Verdict, InfoPast, InfoWithinRoster
  <1> QED
    BY <1>2, <1>3, <1>4, <1>5, <1>6 DEF CollectorInv

\* Where a request's end may lead.
AfterNetwork == {"network", "unavailable", "pending", "recent", "zones"}
AfterZones == {"domain_bw", "domain_req", "stamp"}

LEMMA AccountReplyInv ==
    ASSUME CollectorInv, NEW p, AccountReply(p)
    PROVE  CollectorInv'
  <1>1. /\ p \in {"balance", "status", "network"} /\ phase = p /\ phase' = After(p)
        /\ UNCHANGED <<clock, info>> /\ UNCHANGED cycle /\ UNCHANGED registry
    BY DEF AccountReply
  <1>2. CASE p \in {"balance", "status"}
    <2>1. phase' \in {"status", "roster"}
      BY <1>1, <1>2, AfterAccount
    <2>2. ok' \in BOOLEAN /\ errors' \subseteq Kinds /\ (ok' <=> errors' \subseteq {"ips", "vips"})
      BY <1>1 DEF CollectorInv, TypeOK, Verdict, cycle
    <2> QED
      BY <1>1, <1>2, <2>1, <2>2, EarlyStep DEF cycle
  <1>3. CASE p = "network"
    <2>1. phase = "network" /\ phase' \in AfterNetwork
      BY <1>1, <1>3, AfterRoster DEF AfterNetwork
    <2>2. /\ TypeOK' /\ OneRoster' /\ Verdict' /\ InfoPast' /\ InHandSoFar'
      BY <1>1, <2>1 DEF CollectorInv, TypeOK, OneRoster, Listed, Verdict, InfoPast, InHandSoFar,
           AfterNetwork, cycle, registry, Requests, Api!Endpoints
    <2>3. \A z, f : Has(z, f) => Has(z, f)'
      BY <1>1 DEF Has, registry
    <2> QED
      BY <1>1, <2>1, <2>2, <2>3, SameRosterStep
      DEF AfterNetwork, Within, Before, Scraping, PerZone, cycle, registry
  <1> QED
    BY <1>1, <1>2, <1>3

LEMMA FailedInv ==
    ASSUME CollectorInv, NEW p, Failed(p)
    PROVE  CollectorInv'
  <1>1. /\ p \in {"balance", "status", "network", "bandwidth", "unavailable", "pending",
                  "recent", "domain_bw", "domain_req"}
        /\ phase = p /\ phase' = After(p)
        /\ errors' = errors \cup {Kind(p)} /\ ok' = FALSE
        /\ UNCHANGED <<clock, zones, bulk, todo, zone, known, info>> /\ UNCHANGED registry
    BY DEF Failed, Record, Count
  <1>2. /\ ok' \in BOOLEAN /\ errors' \subseteq Kinds
        /\ ~ (errors' \subseteq {"ips", "vips"})
    <2>1. Kind(p) = "other"
      BY <1>1 DEF Kind, Kinds
    <2> QED
      BY <1>1, <2>1 DEF CollectorInv, TypeOK, Kinds
  <1>3. CASE p \in {"balance", "status"}
    <2>1. phase' \in {"status", "roster"}
      BY <1>1, <1>3, AfterAccount
    <2> QED
      BY <1>1, <1>2, <1>3, <2>1, EarlyStep
  <1>4. CASE p \notin {"balance", "status"}
    <2>1. /\ phase \in {"bandwidth"} \cup (AfterNetwork \ {"zones"}) => phase' \in AfterNetwork
          /\ phase \in AfterZones \ {"stamp"} => phase' \in AfterZones
          /\ phase \in {"bandwidth"} \cup (AfterNetwork \ {"zones"}) \cup (AfterZones \ {"stamp"})
      BY <1>1, <1>4, AfterRoster DEF AfterNetwork, AfterZones
    <2>2. /\ phase' \in AfterNetwork \cup AfterZones
          /\ phase' \in AfterZones => todo = {}
      BY <2>1 DEF CollectorInv, Remaining, AfterZones, AfterNetwork
    <2>3. TypeOK'
      BY <1>1, <1>2, <2>2
      DEF CollectorInv, TypeOK, AfterNetwork, AfterZones, registry, Requests, Api!Endpoints
    <2>4. OneRoster' /\ InfoPast'
      BY <1>1 DEF CollectorInv, OneRoster, Listed, InfoPast, registry
    <2>5. Verdict' /\ InHandSoFar'
      BY <1>1, <1>2, <2>2 DEF Verdict, InHandSoFar, AfterNetwork, AfterZones
    <2>6. \A z, f : Has(z, f) => Has(z, f)'
      BY <1>1 DEF Has, registry
    <2> QED
      BY <1>1, <2>1, <2>2, <2>3, <2>4, <2>5, <2>6, SameRosterStep
      DEF AfterNetwork, AfterZones, Within, Before, Scraping, PerZone, registry
  <1> QED
    BY <1>3, <1>4

\* A roster, or none, begins the part of the cycle that names zones.
LEMMA TakeRosterInv ==
    ASSUME CollectorInv, phase = "roster", NEW roster \in Rosters, TakeRoster(roster),
           phase' = After("roster"), UNCHANGED <<clock, bulk, zone, known, series, up, stamp>>,
           ok' \in BOOLEAN, errors' \subseteq Kinds, ok' <=> errors' \subseteq {"ips", "vips"}
    PROVE  CollectorInv'
  <1>1. /\ zones' = roster /\ todo' = Selected(roster)
        /\ CountZones(roster, Zones)
        /\ info' = [z \in Zones |-> IF roster[z] = "absent" THEN None ELSE info[z]]
        /\ phase' = "bandwidth" /\ series = {} /\ series' = {}
    BY AfterAccount DEF TakeRoster, CollectorInv, NothingYet, Before
  <1>2. TypeOK'
    <2>1. counts' \in [Labels -> 0 .. Cardinality(Zones)]
      BY <1>1 DEF CountZones
    <2>2. info' \in [Zones -> 0 .. MaxClock \cup {None}]
      BY <1>1 DEF CollectorInv, TypeOK
    <2>3. todo' \subseteq Zones
      BY <1>1 DEF Selected
    <2>4. phase' \in Requests
      BY <1>1 DEF Requests, Api!Endpoints
    <2> QED
      BY <1>1, <2>1, <2>2, <2>3, <2>4 DEF CollectorInv, TypeOK
  <1>3. NothingYet' /\ OneRoster'
    BY <1>1 DEF NothingYet, OneRoster, Before
  <1>4. CountsExact'
    BY <1>1 DEF CountsExact, CountZones
  <1>5. Remaining' /\ ScrapedComplete' /\ InHandSoFar'
    BY <1>1 DEF Remaining, ScrapedComplete, InHandSoFar, Scraping, PerZone, Selected
  <1>6. Verdict'
    BY <1>1 DEF Verdict
  <1>7. InfoPast' /\ InfoWithinRoster'
    BY <1>1 DEF CollectorInv, InfoPast, InfoWithinRoster, Listed
  <1> QED
    BY <1>2, <1>3, <1>4, <1>5, <1>6, <1>7 DEF CollectorInv

LEMMA RosterReplyInv ==
    ASSUME CollectorInv, RosterReply
    PROVE  CollectorInv'
  <1>1. PICK roster \in Rosters : TakeRoster(roster)
    BY DEF RosterReply
  <1>2. ok' \in BOOLEAN /\ errors' \subseteq Kinds /\ (ok' <=> errors' \subseteq {"ips", "vips"})
    BY DEF RosterReply, CollectorInv, TypeOK, Verdict
  <1> QED
    BY <1>1, <1>2, TakeRosterInv DEF RosterReply

LEMMA RosterFailedInv ==
    ASSUME CollectorInv, RosterFailed
    PROVE  CollectorInv'
  <1>1. NoRoster \in Rosters
    BY DEF NoRoster, Rosters
  <1>2. ok' = FALSE /\ errors' = errors \cup {"roster"}
    BY DEF RosterFailed, Record, Count, Kind, Kinds
  <1>3. ok' \in BOOLEAN /\ errors' \subseteq Kinds /\ ~ (errors' \subseteq {"ips", "vips"})
    BY <1>2 DEF CollectorInv, TypeOK, Kinds
  <1> QED
    BY <1>1, <1>2, <1>3, TakeRosterInv DEF RosterFailed

LEMMA BulkReplyInv ==
    ASSUME CollectorInv, BulkReply
    PROVE  CollectorInv'
  <1>1. /\ phase = "bandwidth" /\ phase' \in AfterNetwork /\ bulk' \subseteq Zones
        /\ UNCHANGED <<clock, ok, errors, zones, todo, zone, known, info>>
        /\ UNCHANGED registry
    BY AfterRoster DEF BulkReply, AfterNetwork
  <1>2. TypeOK'
    BY <1>1 DEF CollectorInv, TypeOK, AfterNetwork, registry, Requests, Api!Endpoints
  <1>3. OneRoster' /\ Verdict' /\ InfoPast' /\ InHandSoFar'
    BY <1>1 DEF CollectorInv, OneRoster, Listed, Verdict, InfoPast, InHandSoFar, AfterNetwork,
         registry
  <1>4. \A z, f : Has(z, f) => Has(z, f)'
    BY <1>1 DEF Has, registry
  <1> QED
    BY <1>1, <1>2, <1>3, <1>4, SameRosterStep
    DEF AfterNetwork, Within, Before, Scraping, PerZone, registry

LEMMA NamedReplyInv ==
    ASSUME CollectorInv, NEW p, NamedReply(p)
    PROVE  CollectorInv'
  <1>1. /\ p \in NamedFamilies /\ phase = p /\ phase' = After(p)
        /\ UNCHANGED <<clock, info, counts, up, stamp>> /\ UNCHANGED cycle
    BY DEF NamedReply
  <1>2. PICK named \in SUBSET Zones : Publish(p, named \cap Listed)
    BY DEF NamedReply
  <1>3. /\ phase \in AfterNetwork \ {"network", "zones"} => phase' \in AfterNetwork
        /\ phase \in AfterZones \ {"stamp"} => phase' \in AfterZones
        /\ phase \in (AfterNetwork \ {"network", "zones"}) \cup (AfterZones \ {"stamp"})
    BY <1>1, AfterRoster DEF AfterNetwork, AfterZones, NamedFamilies
  <1>4. phase' \in AfterZones => todo = {}
    BY <1>3 DEF CollectorInv, Remaining, AfterZones, AfterNetwork
  <1>5. /\ series' \subseteq [family : Families, zone : Zones, status : Statuses]
        /\ OneRoster'
        /\ \A z, g : Has(z, g) => Has(z, g)'
    <2>1. p \in Families /\ named \cap Listed \in SUBSET Listed
      BY <1>1 DEF Families
    <2> QED
      BY <1>1, <1>2, <2>1, PublishAdds DEF CollectorInv, cycle
  <1>6. TypeOK'
    BY <1>1, <1>3, <1>5
    DEF CollectorInv, TypeOK, AfterNetwork, AfterZones, cycle, Requests, Api!Endpoints
  <1>7. Verdict' /\ InfoPast' /\ InHandSoFar'
    BY <1>1, <1>3 DEF CollectorInv, Verdict, InfoPast, InHandSoFar, AfterNetwork, AfterZones, cycle
  <1> QED
    BY <1>1, <1>3, <1>4, <1>5, <1>6, <1>7, SameRosterStep
    DEF AfterNetwork, AfterZones, Within, Before, Scraping, PerZone, cycle

----------------------------------------------------------------------------
LEMMA NextZoneInv ==
    ASSUME CollectorInv, NextZone
    PROVE  CollectorInv'
  <1>1. /\ phase = "zones" /\ zone' \in todo /\ todo' = todo \ {zone'} /\ phase' = "info"
        /\ known' = FALSE /\ UNCHANGED <<clock, ok, errors, zones, bulk, info>>
        /\ UNCHANGED registry
    BY DEF NextZone
  <1>2. Selected(zones)' = Selected(zones) /\ Listed' = Listed
    BY <1>1 DEF Selected, Listed
  <1>3. TypeOK'
    BY <1>1 DEF CollectorInv, TypeOK, registry, Requests, Api!Endpoints
  <1>4. NothingYet' /\ OneRoster' /\ CountsExact'
    BY <1>1, <1>2 DEF CollectorInv, NothingYet, OneRoster, CountsExact, Within, Before, registry
  <1>5. Remaining'
    BY <1>1, <1>2 DEF CollectorInv, Remaining
  <1>6. Verdict' /\ InfoPast' /\ InfoWithinRoster'
    BY <1>1, <1>2 DEF CollectorInv, Verdict, InfoPast, InfoWithinRoster
  <1>7. ScrapedComplete' /\ InHandSoFar'
    BY <1>1, <1>2 DEF CollectorInv, ScrapedComplete, InHandSoFar, Within, Before, Scraping,
       PerZone, Has, registry
  <1> QED
    BY <1>3, <1>4, <1>5, <1>6, <1>7 DEF CollectorInv

LEMMA ZonesDoneInv ==
    ASSUME CollectorInv, ZonesDone
    PROVE  CollectorInv'
  <1>1. /\ phase = "zones" /\ todo = {} /\ phase' \in AfterZones
        /\ UNCHANGED <<clock, info>> /\ UNCHANGED cycle /\ UNCHANGED registry
    BY AfterRoster DEF ZonesDone, AfterZones
  <1>2. TypeOK'
    BY <1>1 DEF CollectorInv, TypeOK, AfterZones, cycle, registry, Requests, Api!Endpoints
  <1>3. OneRoster' /\ Verdict' /\ InfoPast' /\ InHandSoFar'
    BY <1>1 DEF CollectorInv, OneRoster, Listed, Verdict, InfoPast, InHandSoFar, AfterZones,
         cycle, registry
  <1>4. \A z, f : Has(z, f) => Has(z, f)'
    BY <1>1 DEF Has, registry
  <1> QED
    BY <1>1, <1>2, <1>3, <1>4, SameRosterStep
    DEF AfterZones, Within, Before, Scraping, PerZone, cycle, registry

\* A series of the zone in hand.
LEMMA PublishInHand ==
    ASSUME CollectorInv, Scraping, NEW f \in Families, Publish(f, {zone}),
           zones' = zones, zone' = zone
    PROVE  /\ zone \in Listed
           /\ series' \subseteq [family : Families, zone : Zones, status : Statuses]
           /\ OneRoster'
           /\ \A z, g : Has(z, g) => Has(z, g)'
           /\ Has(zone, f)'
  <1>1. zone \in Listed
    BY SelectedListed DEF CollectorInv, Remaining
  <1>2. Has(zone, f)'
    <2>1. PICK hand \in {zone} : TRUE
      OBVIOUS
    <2>2. Has(hand, f)'
      BY <1>1, PublishAdds DEF CollectorInv
    <2> QED
      BY <2>1, <2>2
  <1> QED
    BY <1>1, <1>2, PublishAdds DEF CollectorInv

LEMMA InfoReplyInv ==
    ASSUME CollectorInv, InfoReply
    PROVE  CollectorInv'
  <1>1. /\ phase = "info" /\ phase' = "cost" /\ Publish("info", {zone}) /\ known' = TRUE
        /\ info' = info \/ info' = [info EXCEPT ![zone] = clock]
        /\ UNCHANGED <<clock, ok, errors, zones, bulk, todo, zone, counts, up, stamp>>
    BY DEF InfoReply
  <1>2. /\ zone \in Listed
        /\ series' \subseteq [family : Families, zone : Zones, status : Statuses]
        /\ OneRoster'
        /\ \A z, g : Has(z, g) => Has(z, g)'
        /\ Has(zone, "info")'
    BY <1>1, PublishInHand DEF Scraping, PerZone, Families
  <1>3. /\ clock \in 0 .. MaxClock /\ zone \in Zones
        /\ info \in [Zones -> 0 .. MaxClock \cup {None}]
        /\ \A z \in Zones : info'[z] = info[z] \/ (z = zone /\ info'[z] = clock)
    BY <1>1 DEF CollectorInv, TypeOK
  <1>4. TypeOK'
    <2>1. info' \in [Zones -> 0 .. MaxClock \cup {None}]
      BY <1>1, <1>3
    <2> QED
      BY <1>1, <1>2, <2>1 DEF CollectorInv, TypeOK, Requests, Api!Endpoints
  <1>5. Verdict' /\ InHandSoFar'
    BY <1>1, <1>2 DEF CollectorInv, Verdict, InHandSoFar
  <1>6. InfoPast'
    BY <1>1, <1>3 DEF CollectorInv, InfoPast
  <1> QED
    BY <1>1, <1>2, <1>3, <1>4, <1>5, <1>6, SameRosterStep
    DEF Within, Before, Scraping, PerZone

LEMMA CostReplyInv ==
    ASSUME CollectorInv, CostReply
    PROVE  CollectorInv'
  <1>1. /\ phase = "cost" /\ phase' = "traffic" /\ Publish("cost", {zone})
        /\ UNCHANGED <<clock, info, counts, up, stamp>> /\ UNCHANGED cycle
    BY DEF CostReply
  <1>2. /\ series' \subseteq [family : Families, zone : Zones, status : Statuses]
        /\ OneRoster'
        /\ \A z, g : Has(z, g) => Has(z, g)'
        /\ Has(zone, "cost")'
    BY <1>1, PublishInHand DEF Scraping, PerZone, Families, cycle
  <1>3. TypeOK'
    BY <1>1, <1>2 DEF CollectorInv, TypeOK, cycle, Requests, Api!Endpoints
  <1>4. Verdict' /\ InfoPast' /\ InHandSoFar'
    BY <1>1, <1>2 DEF CollectorInv, Verdict, InfoPast, InHandSoFar, cycle
  <1> QED
    BY <1>1, <1>2, <1>3, <1>4, SameRosterStep
    DEF Within, Before, Scraping, PerZone, cycle

LEMMA TrafficReplyInv ==
    ASSUME CollectorInv, TrafficReply
    PROVE  CollectorInv'
  <1>1. /\ phase = "traffic" /\ phase' \in {"ips", "vips", "zones"}
        /\ Publish("traffic", {zone})
        /\ UNCHANGED <<clock, info, counts, up, stamp>> /\ UNCHANGED cycle
    BY DEF TrafficReply, AfterTraffic, AfterIps
  <1>2. /\ series' \subseteq [family : Families, zone : Zones, status : Statuses]
        /\ OneRoster'
        /\ \A z, g : Has(z, g) => Has(z, g)'
        /\ Has(zone, "traffic")'
    BY <1>1, PublishInHand DEF Scraping, PerZone, Families, cycle
  <1>3. TypeOK'
    BY <1>1, <1>2 DEF CollectorInv, TypeOK, cycle, Requests, Api!Endpoints
  <1>4. ok' => Has(zone, "info")' /\ Has(zone, "cost")'
    BY <1>1, <1>2 DEF CollectorInv, InHandSoFar, cycle
  <1>5. Verdict' /\ InfoPast' /\ InHandSoFar'
    BY <1>1, <1>2, <1>4 DEF CollectorInv, Verdict, InfoPast, InHandSoFar, cycle
  <1> QED
    BY <1>1, <1>2, <1>3, <1>4, <1>5, SameRosterStep
    DEF Within, Before, Scraping, PerZone, Needed, cycle

LEMMA ZoneFailedInv ==
    ASSUME CollectorInv, NEW p, ZoneFailed(p)
    PROVE  CollectorInv'
  <1>1. /\ p \in {"info", "cost", "traffic"} /\ phase = p
        /\ phase' \in {"cost", "traffic", "ips", "vips", "zones"}
        /\ errors' = errors \cup {Kind(p)} /\ ok' = FALSE
        /\ UNCHANGED <<clock, zones, bulk, todo, zone, known, info>> /\ UNCHANGED registry
    BY DEF ZoneFailed, Record, Count, AfterZoneError, AfterTraffic, AfterIps
  <1>2. errors' \subseteq Kinds /\ ~ (errors' \subseteq {"ips", "vips"})
    <2>1. Kind(p) = "other"
      BY <1>1 DEF Kind, Kinds
    <2> QED
      BY <1>1, <2>1 DEF CollectorInv, TypeOK, Kinds
  <1>3. TypeOK'
    BY <1>1, <1>2 DEF CollectorInv, TypeOK, registry, Requests, Api!Endpoints
  <1>4. OneRoster' /\ Verdict' /\ InfoPast' /\ InHandSoFar'
    BY <1>1, <1>2 DEF CollectorInv, OneRoster, Listed, Verdict, InfoPast, InHandSoFar, registry
  <1>5. \A z, f : Has(z, f) => Has(z, f)'
    BY <1>1 DEF Has, registry
  <1> QED
    BY <1>1, <1>3, <1>4, <1>5, SameRosterStep
    DEF Within, Before, Scraping, PerZone, registry

\* The end of an opt-in roster's request, whatever it was.
LEMMA OptInStep ==
    ASSUME CollectorInv, phase \in {"ips", "vips"},
           phase' \in {"vips", "zones"}, UNCHANGED <<clock, info, counts, up, stamp>>,
           UNCHANGED <<ok, zones, bulk, todo, zone, known>>,
           Publish(phase, {zone}) \/ series' = series,
           errors' \subseteq Kinds,
           errors' \subseteq {"ips", "vips"} <=> errors \subseteq {"ips", "vips"}
    PROVE  CollectorInv'
  <1>1. /\ series' \subseteq [family : Families, zone : Zones, status : Statuses]
        /\ OneRoster'
        /\ \A z, g : Has(z, g) => Has(z, g)'
    <2>1. CASE Publish(phase, {zone})
      BY <2>1, PublishInHand DEF Scraping, PerZone, Families
    <2>2. CASE series' = series
      BY <2>2 DEF CollectorInv, TypeOK, OneRoster, Listed, Has
    <2> QED
      BY <2>1, <2>2
  <1>2. TypeOK'
    BY <1>1 DEF CollectorInv, TypeOK, Requests, Api!Endpoints
  <1>3. ok' => Has(zone, "info")' /\ Has(zone, "cost")' /\ Has(zone, "traffic")'
    BY <1>1 DEF CollectorInv, InHandSoFar
  <1>4. Verdict' /\ InfoPast' /\ InHandSoFar'
    BY <1>1, <1>3 DEF CollectorInv, Verdict, InfoPast, InHandSoFar
  <1> QED
    BY <1>1, <1>2, <1>3, <1>4, SameRosterStep DEF Within, Before, Scraping, PerZone, Needed

LEMMA RosterOfInv ==
    ASSUME CollectorInv, NEW p, RosterOf(p)
    PROVE  CollectorInv'
  <1>1. /\ phase \in {"ips", "vips"} /\ phase' \in {"vips", "zones"}
        /\ Publish(phase, {zone}) \/ series' = series
        /\ UNCHANGED <<clock, info, counts, up, stamp>> /\ UNCHANGED cycle
    BY DEF RosterOf, AfterIps
  <1>2. errors' \subseteq Kinds
    BY <1>1 DEF CollectorInv, TypeOK, cycle
  <1> QED
    BY <1>1, <1>2, OptInStep DEF cycle

LEMMA RosterOfFailedInv ==
    ASSUME CollectorInv, NEW p, RosterOfFailed(p)
    PROVE  CollectorInv'
  <1>1. /\ p \in {"ips", "vips"} /\ phase = p /\ phase' \in {"vips", "zones"}
        /\ errors' = errors \cup {p}
        /\ UNCHANGED <<clock, ok, zones, bulk, todo, zone, known, info>> /\ UNCHANGED registry
    BY DEF RosterOfFailed, AfterIps, Count, Kind, Kinds
  <1>2. errors' \subseteq Kinds
    BY <1>1 DEF CollectorInv, TypeOK, Kinds
  <1>3. errors' \subseteq {"ips", "vips"} <=> errors \subseteq {"ips", "vips"}
    BY <1>1
  <1> QED
    BY <1>1, <1>2, <1>3, OptInStep DEF registry

----------------------------------------------------------------------------
LEMMA RaiseInv ==
    ASSUME CollectorInv, Raise
    PROVE  CollectorInv'
  <1>1. /\ phase \in Requests /\ phase' = "raised"
        /\ UNCHANGED <<clock, info, counts, up, stamp>> /\ UNCHANGED cycle
        /\ \/ phase = "pending" /\ \E named \in SUBSET Listed : Publish("pending", named)
           \/ UNCHANGED series
    BY DEF Raise
  <1>2. /\ series' \subseteq [family : Families, zone : Zones, status : Statuses]
        /\ OneRoster'
        /\ \A z, g : Has(z, g) => Has(z, g)'
        /\ series' # {} => series # {} \/ Within
    <2>1. CASE phase = "pending" /\ \E named \in SUBSET Listed : Publish("pending", named)
      <3>1. PICK named \in SUBSET Listed : Publish("pending", named)
        BY <2>1
      <3>2. "pending" \in Families /\ zones' = zones
        BY <1>1 DEF Families, NamedFamilies, cycle
      <3>3. Within
        BY <2>1 DEF Within, Before
      <3> QED
        BY <3>1, <3>2, <3>3, PublishAdds DEF CollectorInv
    <2>2. CASE UNCHANGED series
      BY <1>1, <2>2 DEF CollectorInv, TypeOK, OneRoster, Listed, Has, cycle
    <2> QED
      BY <1>1, <2>1, <2>2
  <1>3. TypeOK'
    BY <1>1, <1>2 DEF CollectorInv, TypeOK, cycle
  <1>4. Verdict' /\ InfoPast' /\ InHandSoFar'
    BY <1>1 DEF CollectorInv, Verdict, InfoPast, InHandSoFar, cycle
  <1> QED
    BY <1>1, <1>2, <1>3, <1>4, SameRosterStep DEF Within, Before, Scraping, PerZone, cycle

LEMMA StampInv ==
    ASSUME CollectorInv, Stamp
    PROVE  CollectorInv'
  <1>1. /\ phase = "stamp" /\ phase' = "up" /\ stamp' = clock
        /\ UNCHANGED <<clock, info, series, counts, up>> /\ UNCHANGED cycle
    BY AfterAccount DEF Stamp
  <1>2. TypeOK'
    BY <1>1 DEF CollectorInv, TypeOK, cycle
  <1>3. OneRoster' /\ Verdict' /\ InfoPast' /\ InHandSoFar'
    BY <1>1 DEF CollectorInv, OneRoster, Listed, Verdict, InfoPast, InHandSoFar, cycle
  <1>4. todo = {} /\ \A z, f : Has(z, f) => Has(z, f)'
    BY <1>1 DEF CollectorInv, Remaining, Has
  <1> QED
    BY <1>1, <1>2, <1>3, <1>4, SameRosterStep DEF Within, Before, Scraping, PerZone, cycle

LEMMA SetUpInv ==
    ASSUME CollectorInv, SetUp
    PROVE  CollectorInv'
  <1>1. /\ phase = "up" /\ phase' = "done" /\ up' = (IF ok THEN 1 ELSE 0)
        /\ UNCHANGED <<clock, info, series, counts, stamp>> /\ UNCHANGED cycle
    BY DEF SetUp
  <1>2. TypeOK'
    BY <1>1 DEF CollectorInv, TypeOK, cycle
  <1>3. OneRoster' /\ Verdict' /\ InfoPast' /\ InHandSoFar'
    BY <1>1 DEF CollectorInv, OneRoster, Listed, Verdict, InfoPast, InHandSoFar, cycle
  <1>4. todo = {} /\ \A z, f : Has(z, f) => Has(z, f)'
    BY <1>1 DEF CollectorInv, Remaining, Has
  <1> QED
    BY <1>1, <1>2, <1>3, <1>4, SameRosterStep DEF Within, Before, Scraping, PerZone, cycle

LEMMA TickInv ==
    ASSUME CollectorInv, Tick
    PROVE  CollectorInv'
  <1>1. /\ clock < MaxClock /\ clock' = clock + 1
        /\ UNCHANGED <<phase, info>> /\ UNCHANGED cycle /\ UNCHANGED registry
    BY DEF Tick
  <1>2. /\ clock' \in 0 .. MaxClock /\ clock <= clock' /\ clock \in Int
        /\ \A z \in Zones : info[z] # None => info[z] \in Int
    BY <1>1 DEF CollectorInv, TypeOK
  <1>3. TypeOK'
    BY <1>1, <1>2 DEF CollectorInv, TypeOK, cycle, registry
  <1>4. NothingYet' /\ OneRoster' /\ CountsExact'
    BY <1>1 DEF CollectorInv, NothingYet, OneRoster, CountsExact, Within, Listed, cycle, registry
  <1>5. Remaining' /\ ScrapedComplete' /\ InHandSoFar'
    BY <1>1 DEF CollectorInv, Remaining, ScrapedComplete, InHandSoFar, Within, Scraping,
         Selected, Has, cycle, registry
  <1>6. Verdict' /\ InfoWithinRoster'
    BY <1>1 DEF CollectorInv, Verdict, InfoWithinRoster, Listed, cycle, registry
  <1>7. InfoPast'
    BY <1>1, <1>2 DEF CollectorInv, InfoPast
  <1> QED
    BY <1>3, <1>4, <1>5, <1>6, <1>7 DEF CollectorInv

LEMMA StutterInv ==
    ASSUME CollectorInv, UNCHANGED vars
    PROVE  CollectorInv'
  <1>1. TypeOK' /\ NothingYet' /\ OneRoster' /\ CountsExact'
    BY DEF CollectorInv, TypeOK, NothingYet, OneRoster, CountsExact, Within, Listed, vars
  <1>2. Remaining' /\ ScrapedComplete' /\ InHandSoFar'
    BY DEF CollectorInv, Remaining, ScrapedComplete, InHandSoFar, Within, Scraping, Selected,
       Has, vars
  <1>3. Verdict' /\ InfoPast' /\ InfoWithinRoster'
    BY DEF CollectorInv, Verdict, InfoPast, InfoWithinRoster, Listed, vars
  <1> QED
    BY <1>1, <1>2, <1>3 DEF CollectorInv

\* One step of a cycle.
LEMMA CycleStepInv ==
    ASSUME CollectorInv, CycleStep
    PROVE  CollectorInv'
  <1>1. ASSUME NEW p \in Requests,
               \/ AccountReply(p) \/ Failed(p) \/ NamedReply(p)
               \/ ZoneFailed(p) \/ RosterOf(p) \/ RosterOfFailed(p)
        PROVE  CollectorInv'
    BY <1>1, AccountReplyInv, FailedInv, NamedReplyInv, ZoneFailedInv, RosterOfInv,
       RosterOfFailedInv
  <1>2. CASE RosterReply \/ RosterFailed \/ BulkReply
    BY <1>2, RosterReplyInv, RosterFailedInv, BulkReplyInv
  <1>3. CASE NextZone \/ ZonesDone \/ InfoReply \/ CostReply \/ TrafficReply
    BY <1>3, NextZoneInv, ZonesDoneInv, InfoReplyInv, CostReplyInv, TrafficReplyInv
  <1>4. CASE Raise \/ Stamp \/ SetUp
    BY <1>4, RaiseInv, StampInv, SetUpInv
  <1> QED
    BY <1>1, <1>2, <1>3, <1>4 DEF CycleStep

LEMMA NextInv ==
    ASSUME CollectorInv, [Next]_vars
    PROVE  CollectorInv'
  BY StartCycleInv, CycleStepInv, TickInv, StutterInv DEF Next

\* The state of a cycle and of the registry is as CollectorInv says, always.
THEOREM CollectorInvariance == Spec => []CollectorInv
  <1>1. Init => CollectorInv
    BY InitInv
  <1>2. CollectorInv /\ [Next]_vars => CollectorInv'
    BY NextInv
  <1> QED
    BY <1>1, <1>2, PTL DEF Spec

----------------------------------------------------------------------------
\* The figure under a status's label is that of one status found with the label,
\* and of this one when no other has it.
LEMMA InvCountsCover == CollectorInv => CountsCover
  <1> SUFFICES ASSUME CollectorInv, NEW s \in Statuses
               PROVE  LET shown == {z \in Zones : \E x \in series : x.zone = z /\ x.status = s}
                      IN  /\ shown # {} => counts[Label(s)] > 0
                          /\ Sole(s) => counts[Label(s)] >= Cardinality(shown)
    BY DEF CountsCover
  <1> DEFINE Shown == {z \in Zones : \E x \in series : x.zone = z /\ x.status = s}
             InIt(t) == {z \in Zones : zones[z] = t}
             Found == {t \in Statuses : Label(t) = Label(s) /\ \E z \in Zones : zones[z] = t}
  <1>1. Label(s) \in Labels /\ counts[Label(s)] \in Nat
    <2>1. Cardinality(Zones) \in Nat
      BY FS_CardinalityType
    <2>2. Label(s) \in Labels
      BY DEF Labels
    <2> QED
      BY <2>1, <2>2 DEF CollectorInv, TypeOK
  <1>2. CASE Shown = {}
    <2>1. Cardinality(Shown) = 0
      BY <1>2, FS_EmptySet
    <2> QED
      BY <1>1, <1>2, <2>1
  <1>3. CASE Shown # {}
    <2>1. Shown \in SUBSET InIt(s)
      BY DEF CollectorInv, OneRoster
    <2>2. s \in Found
      BY <1>3, <2>1
    <2>3. counts[Label(s)] \in Figures(zones, Zones, Label(s))
      BY <1>1, <1>3 DEF CollectorInv, CountsExact
    <2>4. Figures(zones, Zones, Label(s)) = {Cardinality(InIt(t)) : t \in Found}
      BY <2>2 DEF Figures
    <2>5. PICK t \in Found : counts[Label(s)] = Cardinality(InIt(t))
      BY <2>3, <2>4
    <2>6. InIt(t) # {} /\ InIt(t) \in SUBSET Zones
      BY <2>5
    <2>7. counts[Label(s)] > 0
      <3>1. IsFiniteSet(InIt(t))
        BY <2>6, FS_Subset
      <3>2. Cardinality(InIt(t)) # 0
        BY <2>6, <3>1, FS_EmptySet
      <3> QED
        BY <1>1, <2>5, <3>2
    <2>8. ASSUME Sole(s) PROVE counts[Label(s)] >= Cardinality(Shown)
      <3>1. t = s
        BY <2>5, <2>8 DEF Sole, Listed, CollectorInv, TypeOK, Rosters
      <3>2. IsFiniteSet(InIt(s))
        BY <2>6, <3>1, FS_Subset
      <3>3. IsFiniteSet(Shown) /\ Cardinality(Shown) <= Cardinality(InIt(s))
        BY <2>1, <3>2, FS_Subset
      <3>4. Cardinality(Shown) \in Nat /\ Cardinality(InIt(s)) \in Nat
        BY <3>2, <3>3, FS_CardinalityType
      <3> QED
        BY <2>5, <3>1, <3>3, <3>4
    <2> QED
      BY <2>7, <2>8
  <1> QED
    BY <1>2, <1>3

LEMMA InvUpMeansComplete == CollectorInv => UpMeansComplete
  <1> SUFFICES ASSUME CollectorInv, phase = "done", up = 1, NEW z \in Selected(zones),
                      NEW f \in Needed
               PROVE  Has(z, f)
    BY DEF UpMeansComplete, Has, Needed
  <1>1. ok /\ todo = {} /\ Within /\ ~ Scraping
    BY DEF CollectorInv, Verdict, Remaining, Within, Before, Scraping, PerZone
  <1> QED
    BY <1>1 DEF CollectorInv, ScrapedComplete

\* No request for a zone's configuration repeats one whose answer is still good.
LEMMA StepAsksPerTTL ==
    ASSUME CollectorInv, [Next]_vars, NEW z \in Zones,
           info[z] # None, info'[z] # None, info'[z] # info[z]
    PROVE  info'[z] - info[z] > InfoTTL
  <1>1. /\ clock \in Nat /\ info[z] \in Nat /\ info[z] <= clock
        /\ info \in [Zones -> 0 .. MaxClock \cup {None}]
    BY DEF CollectorInv, TypeOK, InfoPast
  <1>2. ~ UNCHANGED info
    OBVIOUS
  <1>3. ASSUME NEW roster, TakeRoster(roster)
        PROVE  FALSE
    BY <1>3 DEF TakeRoster
  <1>4. InfoReply
    BY <1>2, <1>3 DEF Next, CycleStep, StartCycle, AccountReply, Failed, NamedReply, ZoneFailed,
       RosterOf, RosterOfFailed, RosterReply, RosterFailed, BulkReply, NextZone, ZonesDone,
       CostReply, TrafficReply, Raise, Stamp, SetUp, Tick, vars
  <1>5. z = zone /\ info'[z] = clock /\ ~ Usable(z)
    BY <1>1, <1>4 DEF InfoReply
  <1> QED
    BY <1>1, <1>5 DEF Usable

----------------------------------------------------------------------------
\* The variables of a cycle, the info cache and the registry keep their types.
THEOREM CollectorTypes == Spec => []TypeOK
  BY CollectorInvariance, PTL DEF CollectorInv

\* Whenever /metrics is rendered, every series of a zone is labelled as one and the
\* same roster lists the zone.
THEOREM SeriesOfOneRoster == Spec => []OneRoster
  BY CollectorInvariance, PTL DEF CollectorInv

\* Whenever /metrics is rendered, zones_total counts under the label of a status, and
\* at least the zones shown with it where no other status has that label.
THEOREM ShownZonesCounted == Spec => []CountsCover
  BY CollectorInvariance, InvCountsCover, PTL

\* Once a cycle is over, brightdata_up = 1 stands for series that leave no selected
\* zone out.
THEOREM UpCompletes == Spec => []UpMeansComplete
  BY CollectorInvariance, InvUpMeansComplete, PTL

\* Once a cycle is over, brightdata_up says of it what the error counters say.
THEOREM UpHonest == Spec => []UpIsHonest
  <1>1. CollectorInv => UpIsHonest
    BY DEF CollectorInv, Verdict, UpIsHonest
  <1> QED
    BY <1>1, CollectorInvariance, PTL

\* The info cache holds nothing of a zone that has left the account.
THEOREM InfoOfRoster == Spec => []InfoWithinRoster
  BY CollectorInvariance, PTL DEF CollectorInv

\* A zone's configuration is asked for again only when the answer held is too old.
THEOREM InfoPerTTL == Spec => InfoAskedPerTTL
  <1>1. CollectorInv /\ [Next]_vars =>
           [\A z \in Zones : None \notin {info[z], info'[z]} /\ info'[z] # info[z]
                => info'[z] - info[z] > InfoTTL]_vars
    BY StepAsksPerTTL
  <1> QED
    BY <1>1, CollectorInvariance, PTL DEF Spec, InfoAskedPerTTL

----------------------------------------------------------------------------
\* The loop around the cycles.

\* Where the main thread can be once the last cycle is over, and how it ended.
MainAfterCycle ==
    /\ main \in {"waiting", "leaving"} => phase = "done" \/ (phase = "raised" /\ up = 0)
    /\ main = "backoff" => phase = "raised" /\ up = 0

LoopInv == CollectorInv /\ LoopTypeOK /\ MainAfterCycle

----------------------------------------------------------------------------
LEMMA LoopInitInv == LoopInit => LoopInv
  <1> SUFFICES ASSUME LoopInit PROVE LoopInv
    OBVIOUS
  <1>1. CollectorInv
    BY InitInv DEF LoopInit
  <1>2. LoopTypeOK /\ MainAfterCycle
    BY <1>1 DEF LoopInit, CollectorInv, LoopTypeOK, MainAfterCycle
  <1> QED
    BY <1>1, <1>2 DEF LoopInv

\* A step of the cycle, within one.
LEMMA InCycleInv ==
    ASSUME LoopInv, FirstCycle \/ Cycle
    PROVE  LoopInv'
  <1>1. /\ InCycle /\ UNCHANGED loop
        /\ StartCycle \/ CycleStep
    BY DEF FirstCycle, Cycle, InCycle
  <1>2. CollectorInv'
    BY <1>1, StartCycleInv, CycleStepInv DEF LoopInv
  <1>3. LoopTypeOK'
    BY <1>1, <1>2 DEF LoopInv, LoopTypeOK, CollectorInv, loop
  <1>4. MainAfterCycle'
    BY <1>1 DEF MainAfterCycle, InCycle, loop
  <1> QED
    BY <1>2, <1>3, <1>4 DEF LoopInv

LEMMA IntervalOverInv ==
    ASSUME LoopInv, IntervalOver
    PROVE  LoopInv'
  <1>1. /\ StartCycle /\ main' = "scraping"
        /\ UNCHANGED <<signalled, serving, open, request>>
    BY DEF IntervalOver
  <1>2. CollectorInv'
    BY <1>1, StartCycleInv DEF LoopInv
  <1>3. LoopTypeOK' /\ MainAfterCycle'
    BY <1>1, <1>2 DEF LoopInv, LoopTypeOK, CollectorInv, MainAfterCycle
  <1> QED
    BY <1>2, <1>3 DEF LoopInv

\* The verdict on a cycle that was left by an exception.
LEMMA LoopRaisesInv ==
    ASSUME LoopInv, LoopRaises
    PROVE  LoopInv'
  <1>1. /\ phase = "raised" /\ up' = 0 /\ main' = "backoff"
        /\ UNCHANGED <<signalled, serving, open, request>>
        /\ UNCHANGED <<clock, phase, info, series, counts, stamp>> /\ UNCHANGED cycle
    BY DEF LoopRaises
  <1>2. TypeOK'
    BY <1>1 DEF LoopInv, CollectorInv, TypeOK, cycle
  <1>3. NothingYet' /\ OneRoster' /\ CountsExact'
    BY <1>1 DEF LoopInv, CollectorInv, NothingYet, OneRoster, CountsExact, Within, Listed, cycle
  <1>4. Remaining' /\ ScrapedComplete' /\ InHandSoFar'
    BY <1>1 DEF LoopInv, CollectorInv, Remaining, ScrapedComplete, InHandSoFar, Within,
         Scraping, Selected, Has, cycle
  <1>5. Verdict' /\ InfoPast' /\ InfoWithinRoster'
    BY <1>1 DEF LoopInv, CollectorInv, Verdict, InfoPast, InfoWithinRoster, Listed, cycle
  <1>6. LoopTypeOK' /\ MainAfterCycle'
    BY <1>1, <1>2 DEF LoopInv, LoopTypeOK, MainAfterCycle
  <1> QED
    BY <1>2, <1>3, <1>4, <1>5, <1>6 DEF LoopInv, CollectorInv

\* The steps outside a cycle, and those of the other threads: no step of Collector.
LEMMA OutsideInv ==
    ASSUME LoopInv, UNCHANGED vars, LoopTypeOK', MainAfterCycle'
    PROVE  LoopInv'
  BY StutterInv DEF LoopInv

LEMMA MainOutsideInv ==
    ASSUME LoopInv,
           \/ CycleReturns \/ FirstRaises \/ BackoffOver \/ LeaveLoop
           \/ StopServer \/ CloseClient \/ Return
    PROVE  LoopInv'
  <1>1. UNCHANGED vars
    BY DEF CycleReturns, FirstRaises, BackoffOver, LeaveLoop, StopServer, CloseClient, Return
  <1>2. phase' = phase /\ up' = up
    BY <1>1 DEF vars
  <1>3. TypeOK'
    BY <1>1, StutterInv DEF LoopInv, CollectorInv
  <1>4. /\ main' \in {"waiting", "leaving", "stopped", "crashed"}
        /\ signalled' = signalled /\ serving' \in BOOLEAN /\ open' \in BOOLEAN
    BY DEF LoopInv, LoopTypeOK, CycleReturns, FirstRaises, BackoffOver, LeaveLoop, StopServer,
         CloseClient, Return, Exit
  <1>5. request' \in [Handlers -> {"none", "served", "answered", "failed", "lost"}]
    BY DEF LoopInv, LoopTypeOK, CycleReturns, FirstRaises, BackoffOver, LeaveLoop, StopServer,
         CloseClient, Return, Exit
  <1>6. LoopTypeOK'
    BY <1>3, <1>4, <1>5 DEF LoopInv, LoopTypeOK
  <1>7. MainAfterCycle'
    BY <1>2, <1>4 DEF LoopInv, MainAfterCycle, CycleReturns, FirstRaises, BackoffOver,
         LeaveLoop, StopServer, CloseClient, Return, Exit
  <1> QED
    BY <1>1, <1>6, <1>7, OutsideInv

LEMMA OtherThreadsInv ==
    ASSUME LoopInv, Signal \/ \E h \in Handlers : Accept(h) \/ Answer(h) \/ AnswerClosed(h)
    PROVE  LoopInv'
  <1>1. UNCHANGED vars /\ main' = main /\ serving' = serving /\ open' = open
    BY DEF Signal, Accept, Answer, AnswerClosed
  <1>2. signalled' \in BOOLEAN
    BY DEF LoopInv, LoopTypeOK, Signal, Accept, Answer, AnswerClosed
  <1>3. request' \in [Handlers -> {"none", "served", "answered", "failed", "lost"}]
    BY DEF LoopInv, LoopTypeOK, Signal, Accept, Answer, AnswerClosed
  <1>4. TypeOK' /\ MainAfterCycle'
    BY <1>1, StutterInv DEF LoopInv, CollectorInv, MainAfterCycle, vars
  <1>5. LoopTypeOK'
    BY <1>1, <1>2, <1>3, <1>4 DEF LoopInv, LoopTypeOK
  <1> QED
    BY <1>1, <1>4, <1>5, OutsideInv

LEMMA TimeInv ==
    ASSUME LoopInv, Time
    PROVE  LoopInv'
  <1>1. Tick /\ UNCHANGED loop /\ phase' = phase /\ up' = up
    BY DEF Time, Tick, registry
  <1>2. CollectorInv'
    BY <1>1, TickInv DEF LoopInv
  <1>3. LoopTypeOK' /\ MainAfterCycle'
    BY <1>1, <1>2 DEF LoopInv, LoopTypeOK, CollectorInv, MainAfterCycle, loop
  <1> QED
    BY <1>2, <1>3 DEF LoopInv

LEMMA LoopNextInv ==
    ASSUME LoopInv, [LoopNext]_loopVars
    PROVE  LoopInv'
  <1>1. CASE MainStep
    BY <1>1, InCycleInv, IntervalOverInv, LoopRaisesInv, MainOutsideInv DEF MainStep
  <1>2. CASE Signal \/ \E h \in Handlers : Accept(h) \/ Answer(h) \/ AnswerClosed(h)
    BY <1>2, OtherThreadsInv
  <1>3. CASE Time
    BY <1>3, TimeInv
  <1>4. CASE UNCHANGED loopVars
    <2>1. UNCHANGED vars /\ UNCHANGED loop
      BY <1>4 DEF loopVars
    <2>2. LoopTypeOK' /\ MainAfterCycle'
      BY <2>1, StutterInv
      DEF LoopInv, CollectorInv, LoopTypeOK, MainAfterCycle, loop, vars
    <2> QED
      BY <2>1, <2>2, OutsideInv
  <1> QED
    BY <1>1, <1>2, <1>3, <1>4 DEF LoopNext

----------------------------------------------------------------------------
THEOREM LoopInvariance == LoopSpec => []LoopInv
  <1>1. LoopInit => LoopInv
    BY LoopInitInv
  <1>2. LoopInv /\ [LoopNext]_loopVars => LoopInv'
    BY LoopNextInv
  <1> QED
    BY <1>1, <1>2, PTL DEF LoopSpec

\* The loop's variables and the collector's keep their types.
THEOREM LoopTypes == LoopSpec => []LoopTypeOK
  BY LoopInvariance, PTL DEF LoopInv

\* What a reader of /metrics learns from brightdata_up between two cycles is
\* the verdict on the last one, an exception that left it included.
THEOREM UpOfLatest == LoopSpec => []UpIsLatest
  <1>1. LoopInv => UpIsLatest
    BY DEF LoopInv, CollectorInv, TypeOK, Verdict, MainAfterCycle, UpIsLatest
  <1> QED
    BY <1>1, LoopInvariance, PTL

\* What Collector promises of a cycle and of the registry, it promises of the
\* cycles the loop runs, up to the end of the process.
THEOREM LoopKeepsCycles ==
    LoopSpec =>
        /\ [](OneRoster /\ CountsCover /\ UpMeansComplete /\ UpIsHonest /\ InfoWithinRoster)
        /\ InfoAskedPerTTL
  <1>1. CollectorInv => UpIsHonest
    BY DEF CollectorInv, Verdict, UpIsHonest
  <1>2. LoopInv => OneRoster /\ CountsCover /\ UpMeansComplete /\ UpIsHonest /\ InfoWithinRoster
    BY <1>1, InvCountsCover, InvUpMeansComplete DEF LoopInv, CollectorInv
  <1>3. LoopInv /\ [LoopNext]_loopVars =>
          [\A z \in Zones : None \notin {info[z], info'[z]} /\ info'[z] # info[z]
              => info'[z] - info[z] > InfoTTL]_vars
    <2> SUFFICES ASSUME LoopInv, [LoopNext]_loopVars, NEW z \in Zones,
                        info[z] # None, info'[z] # None, info'[z] # info[z]
                 PROVE  info'[z] - info[z] > InfoTTL
      OBVIOUS
    <2>1. ~ UNCHANGED info
      OBVIOUS
    <2>2. CycleStep
      BY <2>1 DEF LoopNext, MainStep, FirstCycle, Cycle, CycleReturns, FirstRaises, LoopRaises,
         BackoffOver, IntervalOver, StartCycle, LeaveLoop, StopServer, CloseClient, Return,
         Signal, Accept, Answer, AnswerClosed, Time, Tick, loopVars, vars
    <2> QED
      BY <2>2, StepAsksPerTTL DEF LoopInv, Next
  <1> QED
    BY <1>2, <1>3, LoopInvariance, PTL DEF LoopSpec, InfoAskedPerTTL
=============================================================================
