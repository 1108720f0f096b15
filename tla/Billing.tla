------------------------------ MODULE Billing ------------------------------
(***************************************************************************)
(* What a zone costs and how that is shown: client.zone_cost adds up the   *)
(* charges of every user a reply of /zone/cost lists, pricing.py names the *)
(* billing scheme of the sum and renders its rate, and the collector puts  *)
(* gauges beside it.  Amounts are whole numbers of a unit; a rate is the   *)
(* pair of amounts it divides.                                             *)
(***************************************************************************)
EXTENDS Integers, FiniteSetsExt

CONSTANTS
    MaxUsers,   \* bound: users in a reply
    MaxAmount   \* bound: one field of one user

ASSUME UsersAssumption == MaxUsers \in Nat
ASSUME AmountAssumption == MaxAmount \in Nat

\* In the order in which pricing.py asks for them, with the scheme and the unit
\* each one stands for.
Signals == <<"gbs", "reqs", "ips", "vips">>
SchemeOf == [gbs |-> "per_gb", reqs |-> "per_kreq", ips |-> "subscription", vips |-> "per_vip"]
UnitOf == [gbs |-> "GB", reqs |-> "CPM", ips |-> "month", vips |-> "VIP"]

Fields == {"cost"} \cup DOMAIN SchemeOf
Amounts(max) == [Fields -> 0 .. max]

VARIABLES
    users,    \* users added up so far
    charges   \* the ZoneCost

chargesVars == <<users, charges>>

----------------------------------------------------------------------------
Populated(c) == {i \in DOMAIN Signals : c[Signals[i]] > 0}
First(S) == Signals[Min(S)]

\* Subscription fees looked for before request counts.
ModelIpsFirst(c) ==
    IF c["gbs"] = 0 /\ c["ips"] > 0 THEN "subscription"
    ELSE IF Populated(c) # {} THEN SchemeOf[First(Populated(c))]
    ELSE IF c["cost"] > 0 THEN "unknown" ELSE "idle"

\* billing_model
Model(c) ==
    IF Populated(c) # {} THEN SchemeOf[First(Populated(c))]
    ELSE IF c["cost"] > 0 THEN "unknown" ELSE "idle"

\* The fields pricing_display goes by: VIPs only when they cost something.
Displayed(c) == {i \in Populated(c) : Signals[i] = "vips" => c["cost"] > 0}

\* pricing_display: the unit, and what the figure before it divides.
Display(c) ==
    IF Displayed(c) # {}
    THEN LET f == First(Displayed(c))
         IN  [unit |-> UnitOf[f], rate |-> <<c["cost"], IF f = "ips" THEN 1 ELSE c[f]>>]
    ELSE [unit |-> IF c["cost"] > 0 THEN "period" ELSE "none", rate |-> <<c["cost"], 1>>]

\* A request rate published per VIP.
RateGaugesSwapped(c) ==
    {g \in {[unit |-> "GB", rate |-> <<c["cost"], c["gbs"]>>],
            [unit |-> "CPM", rate |-> <<c["cost"], c["vips"]>>],
            [unit |-> "IP", rate |-> <<c["cost"], c["ips"]>>]} :
        g.rate[2] > 0 /\ (g.unit # "GB" => c["cost"] > 0)}

\* _publish_zone_cost: zone_rate_usd_per_gb, _per_kreq and _per_ip.
RateGauges(c) ==
    {g \in {[unit |-> "GB", rate |-> <<c["cost"], c["gbs"]>>],
            [unit |-> "CPM", rate |-> <<c["cost"], c["reqs"]>>],
            [unit |-> "IP", rate |-> <<c["cost"], c["ips"]>>]} :
        g.rate[2] > 0 /\ (g.unit # "GB" => c["cost"] > 0)}

----------------------------------------------------------------------------
ChargesInit ==
    /\ users = 0
    /\ charges = [f \in Fields |-> 0]

AddUser(custom) ==
    /\ users < MaxUsers
    /\ users' = users + 1
    /\ charges' = [f \in Fields |-> charges[f] + custom[f]]

ChargesNext == \E custom \in Amounts(MaxAmount) : AddUser(custom)

----------------------------------------------------------------------------
\* The unit a scheme is shown in.
UnitOfScheme ==
    [per_gb |-> "GB", per_kreq |-> "CPM", subscription |-> "month", per_vip |-> "VIP",
     unknown |-> "period", idle |-> "none"]

\* The machine-readable scheme and the human-readable rate go by the same field,
\* over any mix of charges, unless VIPs are billed at no cost.
PairAgrees ==
    charges["cost"] > 0 \/ charges["vips"] = 0
        => Display(charges).unit = UnitOfScheme[Model(charges)]

\* A rate shown per GB or per thousand requests is the one published as a gauge.
RateIsPublished ==
    Display(charges).unit \in {"GB", "CPM"} /\ charges["cost"] > 0
        => Display(charges) \in RateGauges(charges)
============================================================================
