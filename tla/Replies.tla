------------------------------ MODULE Replies ------------------------------
(***************************************************************************)
(* The replies that client.py adds up: one of /zone/cost and one of        *)
(* /customer/bw or /zone/bw, read entry by entry.                          *)
(***************************************************************************)
EXTENDS Billing, Bandwidth

Init == ChargesInit /\ TrafficInit

Next ==
    \/ ChargesNext /\ UNCHANGED trafficVars
    \/ TrafficNext /\ UNCHANGED chargesVars

Spec == Init /\ [][Next]_<<chargesVars, trafficVars>>
============================================================================
