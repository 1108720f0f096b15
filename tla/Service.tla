------------------------------ MODULE Service ------------------------------
(***************************************************************************)
(* The REST half: an /api request from its arrival in server.py, through   *)
(* the dispatch of service.py and the response cache, to its HTTP status   *)
(* and rows.  The cache is taken by its promise, SingleFlight; the closure *)
(* it runs is the fan-out of upstream calls, one step per call.  A call    *)
(* ends with a reply, with a BrightDataAPIError, or with another exception.*)
(*                                                                         *)
(* A date is a day number, 1 being date.min.  Three values stand for what  *)
(* is no date: not given, not of the form YYYY-MM-DD, and of that form but *)
(* on no calendar.                                                         *)
(*                                                                         *)
(* A status or zone_filter is a text: the sequence of the words between    *)
(* its '&'s, <<>> when it is not given.  The word k=v, for k the name of a *)
(* parameter, is <<k, v>>, so that a text may read as other parameters do. *)
(***************************************************************************)
EXTENDS Integers, Sequences, FiniteSets

CONSTANTS
    Handlers,       \* HTTP handler threads
    Zones,          \* zone names
    Rosters,        \* replies of get_all_zones considered
    Requests,       \* requests considered
    ApiEnabled,     \* api_enabled: the service is mounted
    TokenSet,       \* api_auth_token is not empty
    MinDays,        \* api_min_window_days
    UpstreamCodes,  \* statuses of upstream responses other than 200, see Client
    MaxSize, TTL, FlightTimeout,   \* of the cache
    MaxClock,       \* bound: the clock stops here
    Words,          \* what may stand between two '&' of a text
    Named,          \* Named[t]: the statuses that the list t names and that there are
    Matches,        \* Matches[t]: the zones whose names the regex t finds, or BadRegex
    BadRegex,       \* says that a zone_filter does not compile
    None

Missing == 0
Malformed == -1
NoSuchDay == -2
Oddities == {Missing, Malformed, NoSuchDay}

Statuses == {"active", "disabled", "deleted"}
ListedAs == Statuses \cup {"", "other"}   \* "" where upstream gives none
AllRosters == [Zones -> ListedAs \cup {"absent"}]
NoRoster == [z \in Zones |-> "absent"]

ASSUME ZonesAssumption == IsFiniteSet(Zones)
ASSUME RequestsAssumption ==
    \A r \in Requests :
        /\ r.path \in {"account", "zones", "detail", "nested", "unknown"}
        /\ r.zone \in Zones /\ r.bearer \in BOOLEAN
        /\ {r.from, r.to} \subseteq Nat \cup Oddities
        /\ {r.status, r.filter} \subseteq Seq(Words)
        /\ Named[r.status] \subseteq Statuses
ASSUME RostersAssumption == Rosters # {} /\ Rosters \subseteq AllRosters
ASSUME SettingsAssumption == MinDays \in Nat /\ {ApiEnabled, TokenSet} \subseteq BOOLEAN
ASSUME CodesAssumption == UpstreamCodes \subseteq Nat \ {200}
ASSUME TimesAssumption == {TTL, FlightTimeout, MaxClock} \subseteq Nat

----------------------------------------------------------------------------
\* _clamp_window.  It leaves alone what date.fromisoformat rejects.
TooShort(from, to) == MinDays > 0 /\ {from, to} \cap Oddities = {} /\ to - from < MinDays
ClampForward(from, to) == IF TooShort(from, to) THEN <<from, from + MinDays>> ELSE <<from, to>>
Clamp(from, to) == IF TooShort(from, to) THEN <<to - MinDays, to>> ELSE <<from, to>>

\* d_to - timedelta leaves the calendar: OverflowError.
Overflows(from, to) == TooShort(from, to) /\ to - MinDays < 1

\* _verify_bearer, where a token is set.
Authorized(r) == TokenSet => r.bearer

\* _require_period: both dates are there and of the form.
HasPeriod(r) == {r.from, r.to} \cap {Missing, Malformed} = {}

\* _compile_filter does not raise.
Compiles(r) == r.filter = <<>> \/ Matches[r.filter] # BadRegex

\* What do_GET and _dispatch refuse before the cache is asked, with the status;
\* 0 when they do not.
Refusal(r) ==
    CASE ~ApiEnabled                                                  -> 503
      [] ApiEnabled /\ ~Authorized(r)                                 -> 401
      [] OTHER ->
         CASE r.path = "unknown"                                      -> 404
           [] r.path = "nested"                                       -> 400
           [] r.path = "account"                                      -> 0
           [] OTHER -> IF ~HasPeriod(r) THEN 400
                       ELSE IF Overflows(r.from, r.to) THEN 500 ELSE 0

Accepted == {r \in Requests : Refusal(r) = 0}

\* The word k=v of a query, for a text v that itself reads as several.
Pair(k, text) == [i \in DOMAIN text |-> IF i = 1 THEN <<k, text[1]>> ELSE text[i]]

\* A key that leaves out a parameter the closure goes by.
Period(r) == LET w == Clamp(r.from, r.to) IN <<<<"from", w[1]>>, <<"to", w[2]>>>>
KeyNoFilter(r) == <<<<r.path, r.zone>>>> \o Period(r) \o Pair("status", r.status)

\* make_key with what _dispatch hands it: the path, and the parameters by name, each
\* joined to the next by an '&' that nothing tells from those of a text.
KeyOf(r) ==
    LET w == Clamp(r.from, r.to)
        from == <<<<"from", w[1]>>>>
        to == <<<<"to", w[2]>>>>
    IN  CASE r.path = "account" -> <<<<"account", None>>>>
          [] r.path = "zones" ->
                <<<<"zones", None>>>> \o from \o Pair("status", r.status)
                                     \o to \o Pair("zone_filter", r.filter)
          [] r.path = "detail" -> <<<<"detail", r.zone>>>> \o from \o to

\* _parse_status_filter
Wanted(status) == IF status = <<>> \/ Named[status] = {} THEN {"active"} ELSE Named[status]

\* What zone_pattern lets through.
Found(filter) == IF filter = <<>> THEN Zones ELSE Matches[filter]

\* The zones a request asks about, of those listed.
Picked(r, roster) ==
    CASE r.path = "zones" -> {z \in Zones : /\ Compiles(r)
                                            /\ z \in Found(r.filter)
                                            /\ roster[z] \in Wanted(r.status)}
      [] r.path = "detail" -> {z \in {r.zone} : roster[z] # "absent"}
      [] OTHER -> {}

\* The status of handle() for a BrightDataAPIError.
Surface(code) == IF code \in 400 .. 599 THEN code ELSE 502

----------------------------------------------------------------------------
VARIABLES
    clock, flight, kept, call, key, since, got,   \* of the cache, see SingleFlight
    request,   \* request[h]: the one h serves or served last
    work       \* work[h]: how far the fan-out is that h leads

cacheVars == <<clock, flight, kept, call, key, since, got>>
vars == <<cacheVars, request, work>>

Keys == {KeyOf(r) : r \in Accepted}

Rows == [zone : Zones, status : ListedAs \cup {"absent"}]

\* What a call may end with, and how the cache hands it out.
Told ==
    [status : Nat] \cup
    [status : {200}, path : {"account", "zones", "detail"}, rows : SUBSET Rows,
     window : Int \X Int, roster : AllRosters]

Outcomes ==
    [kind : {"value", "error", "timeout"}, what : Told, key : Keys, start : Nat, done : Nat]

ASSUME NoneAssumption == None \notin Requests \cup Handlers \cup Outcomes

Cache == INSTANCE SingleFlight WITH Threads <- Handlers, Payloads <- {}

Api == INSTANCE Client WITH Codes <- UpstreamCodes

\* at: the upstream call to be made next; made: how many have ended.
NoWork ==
    [at |-> "none", roster |-> NoRoster, todo |-> {}, zone |-> None, rows |-> {}, made |-> 0]

Init ==
    /\ Cache!Init
    /\ request = [h \in Handlers |-> None]
    /\ work = [h \in Handlers |-> NoWork]

----------------------------------------------------------------------------
Take(h, r) ==
    /\ call[h] = "idle"
    /\ request' = [request EXCEPT ![h] = r]

\* The cache is not asked, and has nothing for h.
Refuse(h, r) ==
    /\ Take(h, r)
    /\ r \notin Accepted
    /\ got' = [got EXCEPT ![h] = None]
    /\ key' = [key EXCEPT ![h] = None]
    /\ since' = [since EXCEPT ![h] = 0]
    /\ UNCHANGED <<clock, flight, kept, call, work>>

Hit(h, r) ==
    /\ Take(h, r)
    /\ r \in Accepted
    /\ Cache!Hit(h, KeyOf(r))
    /\ UNCHANGED work

Follow(h, r) ==
    /\ Take(h, r)
    /\ r \in Accepted
    /\ Cache!Follow(h, KeyOf(r))
    /\ UNCHANGED work

Lead(h, r) ==
    /\ Take(h, r)
    /\ r \in Accepted
    /\ Cache!Lead(h, KeyOf(r))
    /\ work' = [work EXCEPT ![h].at = IF r.path = "account" THEN "balance" ELSE "roster"]

----------------------------------------------------------------------------
\* The upstream call p of the fan-out that h leads has ended.
Ended(h, p) ==
    /\ call[h] = "lead" /\ work[h].at = p
    /\ UNCHANGED request

Proceed(h, w) == work' = [work EXCEPT ![h] = [w EXCEPT !.made = @ + 1]] /\ UNCHANGED cacheVars

\* The closure raises what handle() answers with this status.
Raise(h, status) ==
    /\ Cache!Complete(h, "error", [status |-> status])
    /\ work' = [work EXCEPT ![h] = NoWork]

\* The closure returns.  The roster is in the answer for the properties only.
Return(h, w) ==
    LET r == request[h]
    IN  /\ Cache!Complete(h, "value", [status |-> 200, path |-> r.path, rows |-> w.rows,
                                       window |-> Clamp(r.from, r.to), roster |-> w.roster])
        /\ work' = [work EXCEPT ![h] = NoWork]

\* On to the next row, or the end.
NextRow(h, w) ==
    IF w.todo = {} THEN Return(h, w)
    ELSE \E z \in w.todo : Proceed(h, [w EXCEPT !.at = "info", !.zone = z, !.todo = @ \ {z}])

BalanceReply(h) == Ended(h, "balance") /\ Proceed(h, [work[h] EXCEPT !.at = "status"])
StatusReply(h) == Ended(h, "status") /\ Proceed(h, [work[h] EXCEPT !.at = "roster"])

\* The zone asked for looked up last.
RosterReplyUnchecked(h) ==
    /\ Ended(h, "roster")
    /\ \E roster \in Rosters :
          LET w == [work[h] EXCEPT !.roster = roster, !.at = "bandwidth"]
          IN  IF request[h].path = "account" THEN Return(h, work[h])
              ELSE Proceed(h, [w EXCEPT !.todo = Picked(request[h], roster)])

\* The zones are listed and picked; a filter that does not compile and a zone
\* that is not there are noticed here.  What an account's answer counts of the roster is
\* left out.
RosterReply(h) ==
    LET r == request[h]
    IN  /\ Ended(h, "roster")
        /\ \E roster \in Rosters :
              LET w == [work[h] EXCEPT !.roster = roster, !.at = "bandwidth"]
              IN  CASE r.path = "account" -> Return(h, work[h])
                    [] r.path = "zones" ->
                          IF ~Compiles(r) THEN Raise(h, 400)
                          ELSE Proceed(h, [w EXCEPT !.todo = Picked(r, roster)])
                    [] r.path = "detail" ->
                          IF roster[r.zone] = "absent" THEN Raise(h, 404)
                          ELSE Proceed(h, [w EXCEPT !.todo = Picked(r, roster)])

BandwidthReply(h) == Ended(h, "bandwidth") /\ NextRow(h, work[h])
InfoReply(h) == Ended(h, "info") /\ Proceed(h, [work[h] EXCEPT !.at = "cost"])

\* _build_zone_row has its figures.
CostReply(h) ==
    LET w == work[h]
        row == [zone |-> w.zone, status |-> w.roster[w.zone]]
        v == [w EXCEPT !.rows = @ \cup {row}]
    IN  /\ Ended(h, "cost")
        /\ IF request[h].path = "detail" THEN Proceed(h, [v EXCEPT !.at = "ips"])
           ELSE NextRow(h, v)

\* Best-effort parts of a detail: a BrightDataAPIError does as a reply does.
IpsEnds(h) == Ended(h, "ips") /\ Proceed(h, [work[h] EXCEPT !.at = "vips"])
VipsEnds(h) == Ended(h, "vips") /\ Return(h, work[h])

UpstreamError(h) ==
    /\ work[h].at \notin {"ips", "vips"}
    /\ Ended(h, work[h].at)
    /\ \E code \in Api!ErrorCodes[work[h].at] : Raise(h, Surface(code))

\* An exception that gets past the cache: the flight is never over.
UpstreamRaisesOutside(h) ==
    /\ Ended(h, work[h].at)
    /\ work[h].at \in Api!Excepts
    /\ call' = [call EXCEPT ![h] = "idle"]
    /\ got' = [got EXCEPT ![h] = Cache!Outcome(h, "error", [status |-> 500])]
    /\ work' = [work EXCEPT ![h] = NoWork]
    /\ UNCHANGED <<clock, flight, kept, key, since>>

\* Any other exception, from the best-effort parts as well.
UpstreamRaises(h) ==
    /\ Ended(h, work[h].at)
    /\ work[h].at \in Api!Excepts
    /\ Raise(h, 500)

UpstreamStep(h) ==
    \/ BalanceReply(h) \/ StatusReply(h) \/ RosterReply(h) \/ BandwidthReply(h)
    \/ InfoReply(h) \/ CostReply(h) \/ IpsEnds(h) \/ VipsEnds(h)
    \/ UpstreamError(h) \/ UpstreamRaises(h)

----------------------------------------------------------------------------
Answer(h) == Cache!Answer(h) /\ UNCHANGED <<request, work>>

\* TimeoutError, which handle() takes for an unexpected one.
GiveUp(h) == Cache!GiveUp(h, [status |-> 500]) /\ UNCHANGED <<request, work>>

Tick == Cache!Tick /\ UNCHANGED <<request, work>>

HandlerStep(h) ==
    \/ \E r \in Requests : Refuse(h, r) \/ Hit(h, r) \/ Follow(h, r) \/ Lead(h, r)
    \/ Answer(h) \/ GiveUp(h)

Next ==
    \/ \E h \in Handlers : HandlerStep(h) \/ UpstreamStep(h)
    \/ Tick

Spec == Init /\ [][Next]_vars

\* Upstream calls end, as the client gives each one a timeout, and a follower
\* whose promise is settled runs.
FairSpec == Spec /\ \A h \in Handlers : WF_vars(UpstreamStep(h) \/ Answer(h))

----------------------------------------------------------------------------
Calls == {"balance", "status", "roster", "bandwidth", "info", "cost", "ips", "vips"}

TypeOK ==
    /\ clock \in 0 .. MaxClock
    /\ DOMAIN flight = Keys /\ DOMAIN kept = Keys
    /\ call \in [Handlers -> {"idle", "lead", "follow"}]
    /\ request \in [Handlers -> Requests \cup {None}]
    /\ \A h \in Handlers :
          /\ work[h].at \in Calls \cup {"none"}
          /\ work[h].at = "none" <=> call[h] # "lead"
          /\ work[h].roster \in AllRosters /\ work[h].todo \subseteq Zones
          /\ work[h].made \in 0 .. 2 + 2 * Cardinality(Zones) + 2

Answered(h) == call[h] = "idle" /\ request[h] \in Accepted
Ok(h) == Answered(h) /\ got[h].kind = "value"

\* What a caller is told: the HTTP status.
Code(h) == IF request[h] \in Accepted THEN got[h].what.status ELSE Refusal(request[h])

\* No '&' is in r's own texts.  Then its key reads in one way only, whatever the
\* texts of others; a caller with an '&' may share the key of another question, and
\* is promised nothing.
Plain(r) == r.path = "zones" => Len(r.status) <= 1 /\ Len(r.filter) <= 1

\* An answer is to the question of the one who gets it, whoever's fan-out it
\* stems from: all the zones that question picks from one and the same roster,
\* and no others.  The closure goes by the leader's parameters, so the cache key
\* has to carry every one of them.
AnswersTheQuestion ==
    \A h \in Handlers : Ok(h) /\ Plain(request[h]) =>
        LET a == got[h].what
        IN  /\ a.path = request[h].path
            /\ a.rows = {[zone |-> z, status |-> a.roster[z]] : z \in Picked(request[h], a.roster)}

\* The figures are those of a window that ends where the caller's does, is never
\* shorter than api_min_window_days, unless that is 0 and leaves even a reversed
\* window alone, and no longer than that or than was asked.
CoversTheWindow ==
    \A h \in Handlers :
        LET r == request[h]
            w == got[h].what.window
        IN  Ok(h) /\ Plain(r) /\ r.path # "account" /\ {r.from, r.to} \cap Oddities = {} =>
               /\ w[2] = r.to
               /\ MinDays > 0 => w[2] - w[1] >= MinDays
               /\ w[1] # r.from => w[2] - w[1] = MinDays /\ w[1] < r.from

\* Nobody is told of a fault in his request that was another one's, though errors
\* are shared like answers: a 400 or 404 that upstream did not send is about the
\* filter or the zone the caller himself named.
ToldOwnFaults ==
    \A h \in Handlers :
        /\ Answered(h) /\ Plain(request[h])
        /\ Code(h) \in {400, 404} \ {Surface(c) : c \in UpstreamCodes}
        =>  IF Code(h) = 400 THEN request[h].path = "zones" /\ ~Compiles(request[h])
            ELSE request[h].path = "detail" /\ \E R \in Rosters : R[request[h].zone] = "absent"

\* What a request costs upstream when the zones listed are those of the roster.
Cost(r, roster) ==
    CASE r.path = "account" -> 3
      [] r.path = "detail" -> 6
      [] OTHER -> 2 + 2 * Cardinality(Picked(r, roster))

\* Upstream calls are scarce: a filter or a zone found wrong costs one, an answer
\* those of its rows and of the lists, and a fan-out that fails no more than it
\* would have cost in the end.
SpendsWithinPlan ==
    [][\A h \in Handlers : call[h] = "lead" /\ call'[h] = "idle" =>
          LET made == work[h].made + 1
              o == got'[h]
          IN  /\ o.kind = "value" => made = Cost(request[h], o.what.roster)
              /\ o.what.status \in {400, 404} \ {Surface(c) : c \in UpstreamCodes} => made = 1
              /\ work[h].roster # NoRoster => made <= Cost(request[h], work[h].roster)]_vars

\* h's request is answered, by its own fan-out or another's, however many of
\* them fail.
Served(h) == []<>(call[h] = "idle")

----------------------------------------------------------------------------
\* service.py: "concurrent dashboard viewers collapse onto a single upstream fan-out
\* per (path, params) combination."
OneFanOutPerParams ==
    \A g, h \in Handlers :
        LET r == request[g]
            s == request[h]
        IN  call[g] = "lead" /\ call[h] = "follow" /\ flight[key[h]] = g =>
               /\ r.path = s.path /\ (r.path = "detail" => r.zone = s.zone)
               /\ r.path # "account" => Clamp(r.from, r.to) = Clamp(s.from, s.to)
               /\ r.path = "zones" => r.status = s.status /\ r.filter = s.filter
============================================================================
