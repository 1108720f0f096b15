----------------------------- MODULE MCService -----------------------------
\* Requests and rosters for checking Service.
EXTENDS Service

CONSTANTS h1, h2, z1, z2,
          both, y, bad   \* words: "active,disabled,q", and two patterns

RosterOf(a, b) == [z \in Zones |-> IF z = z1 THEN a ELSE b]
SomeRosters == {RosterOf("active", "disabled"), RosterOf("", "absent")}

SomeWords == {both, y, bad, <<"to", 3>>, <<"to", 4>>, <<"zone_filter", y>>}

\* A list of a reversed window, which becomes 2 to 3, and one that asks for just that;
\* the same of a day, with a filter that does not compile.
List == [path |-> "zones", zone |-> z1, from |-> 4, to |-> 3, status |-> <<both>>,
         filter |-> <<>>, bearer |-> TRUE]
Exact == [List EXCEPT !.from = 2]
Faulty == [List EXCEPT !.from = 3, !.filter = <<bad>>]

\* These, a detail of more days than the least, the account, and a date too early to widen.
SomeRequests ==
    {List, Exact, Faulty,
     [List EXCEPT !.path = "detail", !.zone = z2, !.from = 1, !.status = <<>>],
     [List EXCEPT !.path = "account"], [List EXCEPT !.from = 1, !.to = 1]}

\* Two lists with one key: status=both&to=4&zone_filter=y&to=3.
Two == {[Exact EXCEPT !.status = <<both, <<"to", 4>>, <<"zone_filter", y>>>>],
        [Exact EXCEPT !.to = 4, !.filter = <<y, <<"to", 3>>>>]}

SomeNamed == [t \in {r.status : r \in SomeRequests \cup Two} |->
                 IF t = <<>> THEN {} ELSE {"active", "disabled"}]
SomeMatches == [t \in {r.filter : r \in SomeRequests \cup Two} |->
                   IF t = <<bad>> THEN BadRegex ELSE {}]

\* Every request of a handler is answered; handlers are interchangeable.
FirstServed == Served(h1)
============================================================================
