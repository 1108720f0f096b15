----------------------------- MODULE Bandwidth -----------------------------
(***************************************************************************)
(* The two ways the collector learns a zone's traffic, reading one and the *)
(* same reply: customer_bandwidth makes an entry for every zone the reply  *)
(* of /customer/bw names, zone_bandwidth picks one zone out of a reply of  *)
(* /zone/bw.  A reply lists customers, each with a figure per zone; they   *)
(* are added up one customer after the other.                              *)
(***************************************************************************)
EXTENDS Integers

CONSTANTS
    Zones,
    MaxCustomers,  \* bound: customers in a reply
    MaxFigure,     \* bound: one figure
    None           \* no entry

ASSUME BoundsAssumption == MaxCustomers \in Nat /\ MaxFigure \in Nat
ASSUME NoneAssumption == None \notin Nat

\* What a customer's sums hold of a zone: nothing, an entry without the figure
\* (or with null), a number, a number as text, or other text.
Cells == [kind : {"absent", "null", "number", "text", "word"}, n : 0 .. MaxFigure]

VARIABLES
    customers,  \* customers read so far
    bulk,       \* out of customer_bandwidth: a figure per zone, or None
    raised,     \* int() has raised a ValueError there
    single,     \* _sum of _parse_zone_bandwidth, for each zone
    texts       \* the reply has given a figure as text

trafficVars == <<customers, bulk, raised, single, texts>>

\* int(custom.get(field) or 0), of a cell that raises no error
BulkFigure(cell) == IF cell.kind \in {"number", "text"} THEN cell.n ELSE 0

\* int(value) if isinstance(value, int | float)
SingleFigure(cell) == IF cell.kind = "number" THEN cell.n ELSE 0

----------------------------------------------------------------------------
TrafficInit ==
    /\ customers = 0
    /\ bulk = [z \in Zones |-> None]
    /\ raised = FALSE
    /\ single = [z \in Zones |-> 0]
    /\ texts = FALSE

\* A zone listed again replaces what an earlier customer had of it.
MergeLast(z, cell) ==
    IF cell.kind = "absent" THEN bulk[z] ELSE BulkFigure(cell)

\* The first entry of a zone, or one added to it.
Merge(z, cell) ==
    CASE cell.kind = "absent" -> bulk[z]
      [] cell.kind # "absent" /\ bulk[z] = None -> BulkFigure(cell)
      [] OTHER -> bulk[z] + BulkFigure(cell)

\* One customer of the reply; other text ends customer_bandwidth, and with it
\* the entries it has made.
ReadCustomer(sums) ==
    /\ customers < MaxCustomers
    /\ customers' = customers + 1
    /\ raised' = (raised \/ \E z \in Zones : sums[z].kind = "word")
    /\ bulk' = [z \in Zones |-> IF raised' THEN None ELSE Merge(z, sums[z])]
    /\ single' = [z \in Zones |-> single[z] + SingleFigure(sums[z])]
    /\ texts' = (texts \/ \E z \in Zones : sums[z].kind = "text")

TrafficNext == \E sums \in [Zones -> Cells] : ReadCustomer(sums)

----------------------------------------------------------------------------
\* customer_bandwidth is a "single-call replacement for fanning /zone/bw per
\* zone": it gives a zone the figures zone_bandwidth would, and leaves out a zone
\* only if those are 0, as long as no figure comes as text.
SameFigures ==
    ~raised /\ ~texts =>
        \A z \in Zones : IF bulk[z] = None THEN single[z] = 0 ELSE bulk[z] = single[z]
============================================================================
