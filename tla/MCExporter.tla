----------------------------- MODULE MCExporter -----------------------------
\* Requests and a roster for checking Exporter.
EXTENDS Exporter, TLC

CONSTANTS h1, h2, z1

SomeRosters == {[z \in Zones |-> "disabled"]}

Account == [path |-> "account", zone |-> z1, from |-> 0, to |-> 0, status |-> <<>>,
            filter |-> <<>>, bearer |-> TRUE]

\* A request of three calls, and a list, of two, as no zone is active.
SomeRequests == {Account, [Account EXCEPT !.path = "zones", !.from = 1, !.to = 2]}

NoText == [t \in {<<>>} |-> {}]

Alike == Permutations(Handlers)
=============================================================================
