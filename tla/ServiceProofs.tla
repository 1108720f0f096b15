---------------------------- MODULE ServiceProofs ----------------------------
(***************************************************************************)
(* Service's safety for any handlers, zones, rosters and requests.  What a *)
(* caller gets may have been computed for another one, so the invariant    *)
(* says of every outcome, kept or handed out, that it fits each request    *)
(* with its key; and of a fan-out how far it is: the rows it has are those *)
(* of the zones its question picks, less the ones still to be done, and    *)
(* the calls it has made are those that took.                              *)
(***************************************************************************)
EXTENDS Service, FiniteSetTheorems, SequenceTheorems, TLAPS

Shown(roster, S) == {[zone |-> z, status |-> roster[z]] : z \in S}

\* The answer a is to the question of r.
Right(a, r) ==
    /\ a.status = 200
    /\ a.path = r.path
    /\ a.rows = Shown(a.roster, Picked(r, a.roster))
    /\ r.path # "account" => a.window = Clamp(r.from, r.to)

\* A 400 or 404 that upstream did not send is about the request r.
Fault(code, r) ==
    code \in {400, 404} \ {Surface(c) : c \in UpstreamCodes} =>
        IF code = 400 THEN r.path = "zones" /\ ~Compiles(r)
        ELSE r.path = "detail" /\ \E R \in Rosters : R[r.zone] = "absent"

\* Whoever asks for key k, without an '&' in his texts, may be given this outcome.
Fits(o, k) ==
    \A r \in Accepted : Plain(r) /\ KeyOf(r) = k =>
        IF o.kind = "value" THEN Right(o.what, r) ELSE Fault(o.what.status, r)

Works ==
    [at : Calls \cup {"none"}, roster : AllRosters, todo : SUBSET Zones,
     zone : Zones \cup {None}, rows : SUBSET Rows, made : Nat]

\* A fan-out before the zones are listed.
Opening(r, w) ==
    /\ w.roster = NoRoster /\ w.rows = {} /\ w.todo = {}
    /\ w.at = "balance" => r.path = "account" /\ w.made = 0
    /\ w.at = "status" => r.path = "account" /\ w.made = 1
    /\ w.at = "roster" => w.made = IF r.path = "account" THEN 2 ELSE 0

\* The zones are picked and no row is done.
Listed(r, w) ==
    /\ r.path \in {"zones", "detail"}
    /\ w.todo = Picked(r, w.roster) /\ w.rows = {} /\ w.made = 1
    /\ r.path = "detail" => w.todo # {}

\* The row of one zone is under way.
InRow(r, w) ==
    LET left == w.todo \cup {w.zone}
        done == Picked(r, w.roster) \ left
    IN  /\ r.path \in {"zones", "detail"}
        /\ w.zone \notin w.todo /\ left \subseteq Picked(r, w.roster)
        /\ w.rows = Shown(w.roster, done)
        /\ w.made = (IF w.at = "info" THEN 2 ELSE 3) + 2 * Cardinality(done)

\* The row of a detail is done.
Closing(r, w) ==
    /\ r.path = "detail"
    /\ w.rows = Shown(w.roster, Picked(r, w.roster))
    /\ w.made = IF w.at = "ips" THEN 4 ELSE 5

Stage(r, w) ==
    /\ w.at \in {"balance", "status", "roster"} => Opening(r, w)
    /\ w.at \notin {"none", "balance", "status", "roster"} => w.roster \in Rosters
    /\ w.at = "bandwidth" => Listed(r, w)
    /\ w.at \in {"info", "cost"} => InRow(r, w)
    /\ w.at \in {"ips", "vips"} => Closing(r, w)

ServiceTypeOK ==
    /\ DOMAIN kept = Keys
    /\ call \in [Handlers -> {"idle", "lead", "follow"}]
    /\ DOMAIN key = Handlers /\ DOMAIN got = Handlers
    /\ request \in [Handlers -> Requests \cup {None}]
    /\ work \in [Handlers -> Works]

\* What is kept fits its key, and what a caller has fits his request.
KeptFits == \A k \in Keys : kept[k] # None => Fits(kept[k], k)

GotFits ==
    \A h \in Handlers :
        request[h] \in Accepted /\ (call[h] = "idle" \/ (call[h] = "follow" /\ got[h] # None))
            => Fits(got[h], KeyOf(request[h]))

\* A call in the cache is for the key of the request, and only its leader works.
CallsFit ==
    \A h \in Handlers :
        /\ call[h] # "idle" => request[h] \in Accepted /\ key[h] = KeyOf(request[h])
        /\ call[h] = "lead" => work[h].at # "none" /\ Stage(request[h], work[h])
        /\ call[h] # "lead" => work[h] = NoWork

ServiceInv == ServiceTypeOK /\ KeptFits /\ GotFits /\ CallsFit

\* What SpendsWithinPlan asks of h's fan-out when it ends.
Planned(h) ==
    LET made == work[h].made + 1
        o == got'[h]
    IN  /\ o.kind = "value" => made = Cost(request[h], o.what.roster)
        /\ o.what.status \in {400, 404} \ {Surface(c) : c \in UpstreamCodes} => made = 1
        /\ work[h].roster # NoRoster => made <= Cost(request[h], work[h].roster)

\* The flight ends with an outcome for the cache.
Ends(h) ==
    \E kind \in {"value", "error"} : \E what \in Told : Cache!Complete(h, kind, what)

\* What the steps of h's fan-out come to: it goes on, or it ends as planned.
Sound(h) ==
    /\ ServiceInv' /\ request' = request
    /\ \A u \in Handlers \ {h} : work'[u] = work[u]
    /\ \/ UNCHANGED cacheVars /\ work'[h].made = work[h].made + 1
       \/ Ends(h) /\ Planned(h)


----------------------------------------------------------------------------
\* A request the cache is asked for is one of three kinds.
LEMMA AcceptedFacts ==
    ASSUME NEW r \in Accepted
    PROVE  /\ r \in Requests /\ r # None
           /\ r.path \in {"account", "zones", "detail"}
           /\ r.zone \in Zones
  <1>1. r \in Requests /\ Refusal(r) = 0
    BY DEF Accepted
  <1>2. /\ r.path \in {"account", "zones", "detail", "nested", "unknown"}
        /\ r.zone \in Zones /\ r # None
    BY <1>1, RequestsAssumption, NoneAssumption
  <1>3. ApiEnabled /\ Authorized(r)
    <2>1. ~ApiEnabled => Refusal(r) = 503
      BY Zenon DEF Refusal
    <2>2. ApiEnabled /\ ~Authorized(r) => Refusal(r) = 401
      BY Zenon DEF Refusal
    <2> QED
      BY <1>1, <2>1, <2>2
  <1>4. r.path # "unknown"
    <2>1. r.path = "unknown" => Refusal(r) = 404
      BY <1>3, Zenon DEF Refusal
    <2> QED
      BY <1>1, <2>1
  <1>5. r.path # "nested"
    <2>1. r.path = "nested" => Refusal(r) = 400
      BY <1>3, Zenon DEF Refusal
    <2> QED
      BY <1>1, <2>1
  <1> QED
    BY <1>1, <1>2, <1>4, <1>5

\* A text put into a key has the words it has as a text, the first one named.
LEMMA PairFacts ==
    ASSUME NEW k, NEW t \in Seq(Words), NEW S, Words \subseteq S, \A v \in Words : <<k, v>> \in S
    PROVE  /\ Pair(k, t) \in Seq(S) /\ Len(Pair(k, t)) = Len(t)
           /\ Len(t) > 0 => Pair(k, t)[1] = <<k, t[1]>>
  <1>1. Len(t) \in Nat /\ DOMAIN t = 1 .. Len(t) /\ \A i \in 1 .. Len(t) : t[i] \in Words
    BY LenProperties
  <1>2. Pair(k, t) = [i \in 1 .. Len(t) |-> IF i = 1 THEN <<k, t[1]>> ELSE t[i]]
    BY <1>1 DEF Pair
  <1>3. Pair(k, t) \in [1 .. Len(t) -> S]
    BY <1>1, <1>2
  <1>4. Pair(k, t) \in Seq(S)
    BY <1>1, <1>3, SeqDef
  <1>5. Len(Pair(k, t)) \in Nat /\ DOMAIN Pair(k, t) = 1 .. Len(Pair(k, t))
    BY <1>4, LenProperties
  <1>6. Len(Pair(k, t)) = Len(t)
    BY <1>1, <1>3, <1>5
  <1>7. Len(t) > 0 => Pair(k, t)[1] = <<k, t[1]>>
    BY <1>1, <1>2
  <1> QED
    BY <1>4, <1>6, <1>7

\* Where the words of two sequences stand in their concatenation.
LEMMA Joined ==
    ASSUME NEW S, NEW s \in Seq(S), NEW t \in Seq(S)
    PROVE  /\ s \o t \in Seq(S) /\ Len(s \o t) = Len(s) + Len(t)
           /\ \A i \in 1 .. Len(s) : (s \o t)[i] = s[i]
           /\ \A i \in 1 .. Len(t) : (s \o t)[Len(s) + i] = t[i]
  <1>1. Len(s) \in Nat /\ Len(t) \in Nat
    BY LenProperties
  <1>2. /\ s \o t \in Seq(S) /\ Len(s \o t) = Len(s) + Len(t)
        /\ \A i \in 1 .. Len(s) + Len(t) : (s \o t)[i] =
              IF i <= Len(s) THEN s[i] ELSE t[i - Len(s)]
    BY ConcatProperties
  <1>3. ASSUME NEW i \in 1 .. Len(t) PROVE (s \o t)[Len(s) + i] = t[i]
    <2>1. /\ Len(s) + i \in 1 .. Len(s) + Len(t) /\ ~(Len(s) + i <= Len(s))
          /\ Len(s) + i - Len(s) = i
      BY <1>1
    <2> QED
      BY <1>2, <2>1
  <1>4. ASSUME NEW i \in 1 .. Len(s) PROVE (s \o t)[i] = s[i]
    BY <1>1, <1>2
  <1> QED
    BY <1>2, <1>3, <1>4

\* The same where the second one is of one word.
LEMMA JoinOne ==
    ASSUME NEW S, NEW s \in Seq(S), NEW x \in S
    PROVE  /\ s \o <<x>> \in Seq(S) /\ Len(s \o <<x>>) = Len(s) + 1
           /\ \A i \in 1 .. Len(s) : (s \o <<x>>)[i] = s[i]
           /\ (s \o <<x>>)[Len(s) + 1] = x
  <1>1. <<x>> \in Seq(S) /\ Len(<<x>>) = 1 /\ <<x>>[1] = x
    OBVIOUS
  <1> DEFINE t == <<x>>
  <1> HIDE DEF t
  <1>2. t \in Seq(S) /\ Len(t) = 1 /\ t[1] = x
    BY <1>1 DEF t
  <1>3. /\ s \o t \in Seq(S) /\ Len(s \o t) = Len(s) + Len(t)
        /\ \A i \in 1 .. Len(s) : (s \o t)[i] = s[i]
        /\ \A i \in 1 .. Len(t) : (s \o t)[Len(s) + i] = t[i]
    BY <1>2, Joined
  <1> QED
    BY <1>2, <1>3 DEF t

\* A text of one word, one, some, one and some; and where they stand in it.
Text(x, y, P, z, Q) == (((<<x>> \o <<y>>) \o P) \o <<z>>) \o Q

LEMMA TextWords ==
    ASSUME NEW S, NEW x \in S, NEW y \in S, NEW z \in S, NEW P \in Seq(S), NEW Q \in Seq(S)
    PROVE  /\ Len(P) \in Nat /\ Len(Q) \in Nat
           /\ Len(Text(x, y, P, z, Q)) = 3 + Len(P) + Len(Q)
           /\ Text(x, y, P, z, Q)[1] = x /\ Text(x, y, P, z, Q)[2] = y
           /\ Text(x, y, P, z, Q)[3 + Len(P)] = z
           /\ Len(P) > 0 => Text(x, y, P, z, Q)[3] = P[1]
           /\ Len(Q) > 0 => Text(x, y, P, z, Q)[4 + Len(P)] = Q[1]
  <1> DEFINE a == <<x>>
             b == a \o <<y>>
             c == b \o P
             d == c \o <<z>>
             k == d \o Q
  <1> HIDE DEF a, b, c, d, k
  <1>1. Len(P) \in Nat /\ Len(Q) \in Nat
    BY LenProperties
  <1>2. a \in Seq(S) /\ Len(a) = 1 /\ a[1] = x
    BY DEF a
  <1>3. b \in Seq(S) /\ Len(b) = 2 /\ b[1] = x /\ b[2] = y
    <2>1. a \in Seq(S)
      BY <1>2
    <2>2. /\ b \in Seq(S) /\ Len(b) = Len(a) + 1
          /\ \A i \in 1 .. Len(a) : b[i] = a[i]
          /\ b[Len(a) + 1] = y
      BY <2>1, JoinOne DEF b
    <2> QED
      BY <1>2, <2>2
  <1>4. /\ c \in Seq(S) /\ Len(c) = 2 + Len(P) /\ c[1] = x /\ c[2] = y
        /\ Len(P) > 0 => c[3] = P[1]
    <2>1. b \in Seq(S)
      BY <1>3
    <2>2. /\ c \in Seq(S) /\ Len(c) = Len(b) + Len(P)
          /\ \A i \in 1 .. Len(b) : c[i] = b[i]
          /\ \A i \in 1 .. Len(P) : c[Len(b) + i] = P[i]
      BY <2>1, Joined DEF c
    <2> QED
      BY <1>1, <1>3, <2>2
  <1>5. /\ d \in Seq(S) /\ Len(d) = 3 + Len(P) /\ d[1] = x /\ d[2] = y
        /\ Len(P) > 0 => d[3] = P[1]
        /\ d[3 + Len(P)] = z
    <2>1. c \in Seq(S)
      BY <1>4
    <2>2. /\ d \in Seq(S) /\ Len(d) = Len(c) + 1
          /\ \A i \in 1 .. Len(c) : d[i] = c[i]
          /\ d[Len(c) + 1] = z
      BY <2>1, JoinOne DEF d
    <2>3. Len(c) + 1 = 3 + Len(P)
      BY <1>1, <1>4
    <2> QED
      BY <1>1, <1>4, <2>2, <2>3
  <1>6. /\ Len(k) = 3 + Len(P) + Len(Q) /\ k[1] = x /\ k[2] = y
        /\ k[3 + Len(P)] = z
        /\ Len(P) > 0 => k[3] = P[1]
        /\ Len(Q) > 0 => k[4 + Len(P)] = Q[1]
    <2>1. d \in Seq(S)
      BY <1>5
    <2>2. /\ Len(k) = Len(d) + Len(Q)
          /\ \A i \in 1 .. Len(d) : k[i] = d[i]
          /\ \A i \in 1 .. Len(Q) : k[Len(d) + i] = Q[i]
      BY <2>1, Joined DEF k
    <2>3. Len(d) + 1 = 4 + Len(P)
      BY <1>1, <1>5
    <2> QED
      BY <1>1, <1>5, <2>2, <2>3
  <1>7. Text(x, y, P, z, Q) = k
    BY DEF Text, a, b, c, d, k
  <1> QED
    BY <1>1, <1>6, <1>7

\* Where the words of a list's key stand.
LEMMA ZonesKey ==
    ASSUME NEW r \in Accepted, r.path = "zones"
    PROVE  LET w == Clamp(r.from, r.to)
               m == Len(r.status)
               n == Len(r.filter)
           IN  /\ m \in Nat /\ n \in Nat /\ Len(KeyOf(r)) = 3 + m + n
               /\ KeyOf(r)[1] = <<"zones", None>> /\ KeyOf(r)[2] = <<"from", w[1]>>
               /\ KeyOf(r)[3 + m] = <<"to", w[2]>>
               /\ m > 0 => KeyOf(r)[3] = <<"status", r.status[1]>>
               /\ n > 0 => KeyOf(r)[4 + m] = <<"zone_filter", r.filter[1]>>
  <1> DEFINE w == Clamp(r.from, r.to)
             path == <<"zones", None>>
             from == <<"from", w[1]>>
             to == <<"to", w[2]>>
             S == Words \cup {<<k, v>> : k \in {"status", "zone_filter"}, v \in Words}
                        \cup {path, from, to}
             P == Pair("status", r.status)
             Q == Pair("zone_filter", r.filter)
  <1>1. KeyOf(r) = Text(path, from, P, to, Q)
    BY Zenon DEF KeyOf, Text
  <1>2. r.status \in Seq(Words) /\ r.filter \in Seq(Words)
    BY RequestsAssumption DEF Accepted
  <1>3. /\ path \in S /\ from \in S /\ to \in S /\ Words \subseteq S
        /\ \A v \in Words : <<"status", v>> \in S /\ <<"zone_filter", v>> \in S
    OBVIOUS
  <1> HIDE DEF S, path, from, to
  <1>4. P \in Seq(S) /\ Len(P) = Len(r.status)
        /\ (Len(r.status) > 0 => P[1] = <<"status", r.status[1]>>)
    BY <1>2, <1>3, PairFacts
  <1>5. Q \in Seq(S) /\ Len(Q) = Len(r.filter)
        /\ (Len(r.filter) > 0 => Q[1] = <<"zone_filter", r.filter[1]>>)
    BY <1>2, <1>3, PairFacts
  <1>6. path \in S /\ from \in S /\ to \in S /\ P \in Seq(S) /\ Q \in Seq(S)
    BY <1>3, <1>4, <1>5
  <1> HIDE DEF P, Q
  <1> DEFINE k == Text(path, from, P, to, Q)
  <1>7. /\ Len(P) \in Nat /\ Len(Q) \in Nat /\ Len(k) = 3 + Len(P) + Len(Q)
        /\ k[1] = path /\ k[2] = from /\ k[3 + Len(P)] = to
        /\ Len(P) > 0 => k[3] = P[1]
        /\ Len(Q) > 0 => k[4 + Len(P)] = Q[1]
    BY <1>6, TextWords
  <1> HIDE DEF k
  <1>8. KeyOf(r) = k
    BY <1>1 DEF k
  <1> QED
    BY <1>4, <1>5, <1>7, <1>8 DEF path, from, to

\* The keys of the account and of a detail.
LEMMA OtherKeys ==
    ASSUME NEW r
    PROVE  /\ r.path = "account" => KeyOf(r)[1] = <<"account", None>>
           /\ r.path = "detail" =>
                 /\ KeyOf(r)[1] = <<"detail", r.zone>>
                 /\ KeyOf(r)[2] = <<"from", Clamp(r.from, r.to)[1]>>
                 /\ KeyOf(r)[3] = <<"to", Clamp(r.from, r.to)[2]>>
  <1> DEFINE w == Clamp(r.from, r.to)
             x == <<"detail", r.zone>>
             y == <<"from", w[1]>>
             z == <<"to", w[2]>>
             b == <<x>> \o <<y>>
  <1>1. r.path = "account" => KeyOf(r) = <<<<"account", None>>>>
    BY Zenon DEF KeyOf
  <1>2. r.path = "account" => KeyOf(r)[1] = <<"account", None>>
    BY <1>1
  <1>3. r.path = "detail" => KeyOf(r) = b \o <<z>>
    BY Zenon DEF KeyOf
  <1> HIDE DEF x, y, z
  <1>4. <<x>> \in Seq({x, y, z}) /\ Len(<<x>>) = 1 /\ <<x>>[1] = x
    OBVIOUS
  <1>5. b \in Seq({x, y, z}) /\ Len(b) = 2 /\ b[1] = x /\ b[2] = y
    <2>1. <<x>> \in Seq({x, y, z}) /\ y \in {x, y, z}
      BY <1>4
    <2>2. /\ b \in Seq({x, y, z}) /\ Len(b) = Len(<<x>>) + 1
          /\ \A i \in 1 .. Len(<<x>>) : b[i] = <<x>>[i]
          /\ b[Len(<<x>>) + 1] = y
      BY <2>1, JoinOne
    <2> QED
      BY <1>4, <2>2
  <1> HIDE DEF b
  <1> DEFINE c == b \o <<z>>
  <1> HIDE DEF c
  <1>6. c[1] = x /\ c[2] = y /\ c[3] = z
    <2>1. b \in Seq({x, y, z}) /\ z \in {x, y, z}
      BY <1>5
    <2>2. /\ \A i \in 1 .. Len(b) : c[i] = b[i]
          /\ c[Len(b) + 1] = z
      BY <2>1, JoinOne DEF c
    <2> QED
      BY <1>5, <2>2
  <1> QED
    BY <1>2, <1>3, <1>6 DEF c, x, y, z, w

LEMMA ClampFacts ==
    ASSUME NEW f, NEW g
    PROVE  Clamp(f, g) = <<Clamp(f, g)[1], Clamp(f, g)[2]>>
  BY DEF Clamp

\* The zones each kind of request asks about.
LEMMA PickedFacts ==
    ASSUME NEW r, NEW R
    PROVE  /\ r.path = "zones" => Picked(r, R) =
                 {z \in Zones : Compiles(r) /\ z \in Found(r.filter) /\ R[z] \in Wanted(r.status)}
           /\ r.path = "detail" => Picked(r, R) = {z \in {r.zone} : R[z] # "absent"}
           /\ r.path = "account" => Picked(r, R) = {}
  BY Zenon DEF Picked

LEMMA PickedZones ==
    ASSUME NEW r \in Accepted, NEW R
    PROVE  Picked(r, R) \subseteq Zones /\ IsFiniteSet(Picked(r, R))
           /\ Cardinality(Picked(r, R)) \in Nat
  <1>1. Picked(r, R) \subseteq Zones
    BY AcceptedFacts, PickedFacts
  <1> QED
    BY <1>1, ZonesAssumption, FS_Subset, FS_CardinalityType

\* The first word of a key tells the path.
LEMMA KeyPath ==
    ASSUME NEW r \in Accepted
    PROVE  KeyOf(r)[1] = <<r.path, IF r.path = "detail" THEN r.zone ELSE None>>
  <1>1. r.path \in {"account", "zones", "detail"}
    BY AcceptedFacts
  <1>2. r.path = "account" => KeyOf(r)[1] = <<"account", None>>
    BY OtherKeys
  <1>3. r.path = "detail" => KeyOf(r)[1] = <<"detail", r.zone>>
    BY OtherKeys
  <1>4. r.path = "zones" => KeyOf(r)[1] = <<"zones", None>>
    BY ZonesKey
  <1> QED
    BY <1>1, <1>2, <1>3, <1>4

\* Texts of one word at most are the same in both.
LEMMA ShortTexts ==
    ASSUME NEW t \in Seq(Words), NEW u \in Seq(Words), Len(t) = Len(u), Len(u) <= 1,
           Len(u) > 0 => t[1] = u[1]
    PROVE  t = u
  <1>1. /\ Len(t) \in Nat /\ t \in [1 .. Len(t) -> Words]
        /\ Len(u) \in Nat /\ u \in [1 .. Len(u) -> Words]
    BY LenProperties
  <1>2. \A i \in 1 .. Len(u) : t[i] = u[i]
    BY <1>1
  <1> QED
    BY <1>1, <1>2

\* The key of a list whose texts have no '&' is that of no other list: the status, to and
\* zone_filter of the other one stand where its own do.
LEMMA SameList ==
    ASSUME NEW r \in Accepted, NEW s \in Accepted, KeyOf(r) = KeyOf(s), Plain(s),
           r.path = "zones", s.path = "zones"
    PROVE  r.status = s.status /\ r.filter = s.filter
           /\ Clamp(r.from, r.to) = Clamp(s.from, s.to)
  <1> DEFINE k == KeyOf(r)
             m == Len(r.status)
             n == Len(r.filter)
             i == Len(s.status)
             j == Len(s.filter)
             v == Clamp(r.from, r.to)
             w == Clamp(s.from, s.to)
  <1>1. /\ m \in Nat /\ n \in Nat /\ Len(k) = 3 + m + n
        /\ k[2] = <<"from", v[1]>> /\ k[3 + m] = <<"to", v[2]>>
        /\ m > 0 => k[3] = <<"status", r.status[1]>>
        /\ n > 0 => k[4 + m] = <<"zone_filter", r.filter[1]>>
    BY ZonesKey
  <1>2. /\ i \in Nat /\ j \in Nat /\ Len(k) = 3 + i + j
        /\ k[2] = <<"from", w[1]>> /\ k[3 + i] = <<"to", w[2]>>
        /\ i > 0 => k[3] = <<"status", s.status[1]>>
        /\ j > 0 => k[4 + i] = <<"zone_filter", s.filter[1]>>
    BY ZonesKey
  <1>3. i <= 1 /\ j <= 1
    BY DEF Plain
  <1>4. v = <<v[1], v[2]>> /\ w = <<w[1], w[2]>>
    BY ClampFacts
  <1>5. /\ r.status \in Seq(Words) /\ r.filter \in Seq(Words)
        /\ s.status \in Seq(Words) /\ s.filter \in Seq(Words)
    BY RequestsAssumption DEF Accepted
  <1> HIDE DEF k, m, n, i, j, v, w
  <1>6. i = 0 <=> m = 0
    <2>1. i = 0 => k[3] = <<"to", w[2]>>
      BY <1>2
    <2>2. m = 0 => k[3] = <<"to", v[2]>>
      BY <1>1
    <2>3. \A x, y : <<"to", x>> # <<"status", y>>
      OBVIOUS
    <2> QED
      BY <1>1, <1>2, <2>1, <2>2, <2>3
  <1>7. m <= 1
    <2> SUFFICES ASSUME m > 1 PROVE FALSE
      BY <1>1
    <2>1. i = 1 /\ j = 1 /\ m = 2 /\ n = 0
      BY <1>1, <1>2, <1>3, <1>6
    <2>2. k[5] = <<"to", v[2]>> /\ k[5] = <<"zone_filter", s.filter[1]>>
      BY <1>1, <1>2, <2>1
    <2>3. \A x, y : <<"to", x>> # <<"zone_filter", y>>
      OBVIOUS
    <2> QED
      BY <2>2, <2>3
  <1>8. m = i /\ n = j
    BY <1>1, <1>2, <1>3, <1>6, <1>7
  <1>9. \A p, q, x, y : <<p, x>> = <<q, y>> => x = y
    OBVIOUS
  <1>10. /\ v[1] = w[1] /\ v[2] = w[2]
         /\ i > 0 => r.status[1] = s.status[1]
         /\ j > 0 => r.filter[1] = s.filter[1]
    BY <1>1, <1>2, <1>8, <1>9
  <1>11. r.status = s.status /\ r.filter = s.filter
    BY <1>3, <1>5, <1>8, <1>10, ShortTexts DEF m, n, i, j
  <1> QED
    BY <1>4, <1>10, <1>11 DEF v, w

\* A request whose key is that of one without an '&' in its texts asks the same.
LEMMA SameQuestion ==
    ASSUME NEW r \in Accepted, NEW s \in Accepted, KeyOf(r) = KeyOf(s), Plain(s)
    PROVE  /\ r.path = s.path
           /\ \A R : Picked(r, R) = Picked(s, R)
           /\ r.path # "account" => Clamp(r.from, r.to) = Clamp(s.from, s.to)
           /\ r.path = "zones" => r.filter = s.filter
           /\ r.path = "detail" => r.zone = s.zone
  <1>1. r.path \in {"account", "zones", "detail"} /\ s.path \in {"account", "zones", "detail"}
    BY AcceptedFacts
  <1>2. r.path = s.path
    <2>1. \A p, q, x, y : <<p, x>> = <<q, y>> => p = q
      OBVIOUS
    <2> QED
      BY <2>1, KeyPath
  <1>3. CASE r.path = "account"
    BY <1>2, <1>3, PickedFacts
  <1>4. CASE r.path = "zones"
    <2>1. /\ r.status = s.status /\ r.filter = s.filter
          /\ Clamp(r.from, r.to) = Clamp(s.from, s.to)
      BY <1>2, <1>4, SameList
    <2>2. ASSUME NEW R PROVE Picked(r, R) = Picked(s, R)
      <3>1. /\ Picked(r, R) = {z \in Zones : /\ Compiles(r) /\ z \in Found(r.filter)
                                            /\ R[z] \in Wanted(r.status)}
            /\ Picked(s, R) = {z \in Zones : /\ Compiles(s) /\ z \in Found(s.filter)
                                            /\ R[z] \in Wanted(s.status)}
        BY <1>2, <1>4, PickedFacts, Zenon
      <3>2. Compiles(r) <=> Compiles(s)
        BY <2>1 DEF Compiles
      <3> QED
        BY <2>1, <3>1, <3>2
    <2> QED
      BY <1>2, <1>4, <2>1, <2>2
  <1>5. CASE r.path = "detail"
    <2>1. /\ r.zone = s.zone
          /\ Clamp(r.from, r.to)[1] = Clamp(s.from, s.to)[1]
          /\ Clamp(r.from, r.to)[2] = Clamp(s.from, s.to)[2]
      <3>1. /\ <<"detail", r.zone>> = <<"detail", s.zone>>
            /\ <<"from", Clamp(r.from, r.to)[1]>> = <<"from", Clamp(s.from, s.to)[1]>>
            /\ <<"to", Clamp(r.from, r.to)[2]>> = <<"to", Clamp(s.from, s.to)[2]>>
        BY <1>2, <1>5, OtherKeys
      <3>2. \A p, q, x, y : <<p, x>> = <<q, y>> => x = y
        OBVIOUS
      <3> QED
        BY <3>1, <3>2
    <2>2. Clamp(r.from, r.to) = Clamp(s.from, s.to)
      BY <2>1, ClampFacts
    <2>3. ASSUME NEW R PROVE Picked(r, R) = Picked(s, R)
      <3>1. /\ Picked(r, R) = {z \in {r.zone} : R[z] # "absent"}
            /\ Picked(s, R) = {z \in {s.zone} : R[z] # "absent"}
        BY <1>2, <1>5, PickedFacts, Zenon
      <3> QED
        BY <2>1, <3>1
    <2> QED
      BY <1>2, <1>5, <2>1, <2>2, <2>3
  <1> QED
    BY <1>1, <1>3, <1>4, <1>5

\* What an answer or an error is to its leader it is to everyone with his key and no '&' in
\* his texts.
LEMMA FitsAll ==
    ASSUME NEW r \in Accepted, NEW o,
           IF o.kind = "value" THEN Right(o.what, r) ELSE Fault(o.what.status, r)
    PROVE  Fits(o, KeyOf(r))
  <1> SUFFICES ASSUME NEW s \in Accepted, Plain(s), KeyOf(s) = KeyOf(r)
               PROVE  IF o.kind = "value" THEN Right(o.what, s) ELSE Fault(o.what.status, s)
    BY DEF Fits
  <1>1. /\ r.path = s.path /\ \A R : Picked(r, R) = Picked(s, R)
        /\ r.path # "account" => Clamp(r.from, r.to) = Clamp(s.from, s.to)
        /\ r.path = "zones" => r.filter = s.filter
        /\ r.path = "detail" => r.zone = s.zone
    BY SameQuestion
  <1>2. CASE o.kind = "value"
    BY <1>1, <1>2 DEF Right
  <1>3. CASE o.kind # "value"
    <2>1. Fault(o.what.status, r)
      BY <1>3
    <2> DEFINE c == o.what.status
    <2>2. Fault(c, r)
      BY <2>1
    <2> HIDE DEF c
    <2>3. Fault(c, s)
      BY <1>1, <2>2 DEF Fault, Compiles
    <2> QED
      BY <1>3, <2>3 DEF c
  <1> QED
    BY <1>2, <1>3

\* An upstream error is one of UpstreamCodes, or the 200 of a response that is
\* not what it should be; that one is no 400 or 404 of our own.
LEMMA ParseCode == ASSUME NEW p \in Api!Endpoints, NEW b PROVE Api!Parse(p, b).code = 200
  <1>0. Api!Result.code = 200 /\ Api!ApiError(200).code = 200 /\ Api!Exception.code = 200
    BY DEF Api!Result, Api!ApiError, Api!Exception
  <1>1. \A s \in {"object", "list"} : Api!Demand(s, b).code = 200
    BY <1>0 DEF Api!Demand
  <1>2. /\ Api!Balance(b).code = 200 /\ Api!Status(b).code = 200 /\ Api!Roster(b).code = 200
        /\ Api!Info(b).code = 200 /\ Api!CustomerBandwidth(b).code = 200
        /\ Api!Unavailable(b).code = 200
    BY <1>0, <1>1 DEF Api!Balance, Api!Status, Api!Roster, Api!Info,
                      Api!CustomerBandwidth, Api!Unavailable
  <1>3. /\ Api!Cost(b) = Api!Result /\ Api!ZoneBandwidth(b) = Api!Result
        /\ Api!NetworkStatus(b) = Api!Result /\ Api!PendingReplacement(b) = Api!Result
        /\ Api!RecentIps(b) = Api!Result /\ Api!IpsPerCountry(b) = Api!Result
        /\ Api!DedicatedVips(b) = Api!Result /\ Api!DomainConsumption(b) = Api!Result
    BY DEF Api!Cost, Api!ZoneBandwidth, Api!NetworkStatus, Api!PendingReplacement,
           Api!RecentIps, Api!IpsPerCountry, Api!DedicatedVips, Api!DomainConsumption
  <1>4. /\ p = "balance" => Api!Parse(p, b) = Api!Balance(b)
        /\ p = "status" => Api!Parse(p, b) = Api!Status(b)
        /\ p = "roster" => Api!Parse(p, b) = Api!Roster(b)
        /\ p = "info" => Api!Parse(p, b) = Api!Info(b)
        /\ p = "bandwidth" => Api!Parse(p, b) = Api!CustomerBandwidth(b)
        /\ p = "unavailable" => Api!Parse(p, b) = Api!Unavailable(b)
    BY Zenon DEF Api!Parse
  <1>5. /\ p = "cost" => Api!Parse(p, b) = Api!Cost(b)
        /\ p = "traffic" => Api!Parse(p, b) = Api!ZoneBandwidth(b)
        /\ p = "network" => Api!Parse(p, b) = Api!NetworkStatus(b)
        /\ p = "pending" => Api!Parse(p, b) = Api!PendingReplacement(b)
        /\ p = "recent" => Api!Parse(p, b) = Api!RecentIps(b)
        /\ p = "ips" => Api!Parse(p, b) = Api!IpsPerCountry(b)
        /\ p = "vips" => Api!Parse(p, b) = Api!DedicatedVips(b)
        /\ p \in {"domain_bw", "domain_req"} => Api!Parse(p, b) = Api!DomainConsumption(b)
    BY Zenon DEF Api!Parse
  <1>6. p \in {"balance", "status", "roster", "bandwidth", "network", "unavailable", "pending",
               "recent", "info", "cost", "traffic", "ips", "vips", "domain_bw", "domain_req"}
    BY DEF Api!Endpoints
  <1> QED
    BY <1>0, <1>2, <1>3, <1>4, <1>5, <1>6

LEMMA CodesAreNumbers == UpstreamCodes \cup {200} \subseteq Nat
  BY CodesAssumption

LEMMA ErrorCodeFacts ==
    ASSUME NEW p \in Calls, NEW code \in Api!ErrorCodes[p], NEW r
    PROVE  Fault(Surface(code), r) /\ Surface(code) \in Nat
           /\ Surface(code) \notin {400, 404} \ {Surface(c) : c \in UpstreamCodes}
  <1>1. p \in Api!Endpoints
    BY DEF Calls, Api!Endpoints
  <1>2. Api!ErrorCodes[p] = {e.code : e \in {x \in Api!Endings[p] : x.kind = "error"}}
    BY <1>1 DEF Api!ErrorCodes
  <1>3. Api!Endings[p] = {Api!Ending(p, q) : q \in Api!Responses}
    BY <1>1 DEF Api!Endings
  <1>4. PICK q \in Api!Responses : code = Api!Ending(p, q).code
    BY <1>2, <1>3
  <1>5. q.status \in UpstreamCodes \cup {200}
    BY CodesAssumption DEF Api!Responses
  <1>6. code \in UpstreamCodes \cup {200}
    <2>1. \/ Api!Ending(p, q) = Api!ApiError(q.status)
          \/ Api!Ending(p, q) = Api!Exception
          \/ Api!Ending(p, q) = Api!Parse(p, q.body)
      BY Zenon DEF Api!Ending
    <2>2. Api!ApiError(q.status).code = q.status /\ Api!Exception.code = 200
      BY DEF Api!ApiError, Api!Exception
    <2>3. Api!Parse(p, q.body).code = 200
      BY <1>1, ParseCode
    <2> QED
      BY <1>4, <1>5, <2>1, <2>2, <2>3
  <1>7. code \in Nat
    BY <1>6, CodesAreNumbers, Zenon
  <1>8. Surface(200) = 502
    BY DEF Surface
  <1>9. Surface(code) \notin {400, 404} \ {Surface(c) : c \in UpstreamCodes}
    BY <1>6, <1>8
  <1>10. Surface(code) \in Nat
    BY <1>7 DEF Surface
  <1> QED
    BY <1>9, <1>10 DEF Fault

----------------------------------------------------------------------------
\* The cache's part of a step, with outcomes that fit.
LEMMA EndInv ==
    ASSUME ServiceInv, NEW h \in Handlers, call[h] = "lead", NEW kind, NEW what,
           Cache!Complete(h, kind, what), request' = request,
           work' = [work EXCEPT ![h] = NoWork],
           Fits(Cache!Outcome(h, kind, what), KeyOf(request[h]))
    PROVE  ServiceInv' /\ got'[h] = Cache!Outcome(h, kind, what)
  <1> DEFINE o == Cache!Outcome(h, kind, what)
  <1>1. /\ key' = key /\ call' = [call EXCEPT ![h] = "idle"]
        /\ got' = [u \in Handlers |-> IF u = h \/ u \in Cache!Followers(h) THEN o ELSE got[u]]
        /\ IF kind = "value" THEN Cache!Keep(key[h], o) ELSE UNCHANGED kept
    BY DEF Cache!Complete
  <1>2. request[h] \in Accepted /\ key[h] = KeyOf(request[h])
    BY DEF ServiceInv, CallsFit
  <1>3. Fits(o, key[h])
    BY <1>2
  <1>4. \A u \in Handlers : u \in Cache!Followers(h) <=>
            call[u] = "follow" /\ key[u] = key[h] /\ got[u] = None
    BY DEF Cache!Followers
  <1> HIDE DEF o
  <1>5. DOMAIN kept' = Keys /\ KeptFits'
    <2>1. CASE kind = "value"
      <3>1. PICK lost \in SUBSET Keys :
               kept' = [j \in Keys |-> IF j \in lost THEN None ELSE [kept EXCEPT ![key[h]] = o][j]]
        BY <1>1, <2>1 DEF Cache!Keep, Cache!Held
      <3>2. \A j \in Keys : kept'[j] # None => kept'[j] = kept[j] \/ (j = key[h] /\ kept'[j] = o)
        BY <3>1 DEF ServiceInv, ServiceTypeOK
      <3>3. \A j \in Keys : kept'[j] # None => Fits(kept'[j], j)
        BY <1>3, <3>2 DEF ServiceInv, KeptFits
      <3> QED
        BY <3>1, <3>3 DEF KeptFits, Fits
    <2>2. CASE kind # "value"
      BY <1>1, <2>2 DEF ServiceInv, ServiceTypeOK, KeptFits, Fits
    <2> QED
      BY <2>1, <2>2
  <1>6. NoWork \in Works
    BY DEF NoWork, Works, NoRoster, AllRosters
  <1>7. ServiceTypeOK'
    BY <1>1, <1>5, <1>6 DEF ServiceInv, ServiceTypeOK
  <1>8. \A u \in Handlers :
            /\ call'[u] = IF u = h THEN "idle" ELSE call[u]
            /\ got'[u] = IF u = h \/ u \in Cache!Followers(h) THEN o ELSE got[u]
            /\ work'[u] = IF u = h THEN NoWork ELSE work[u]
    BY <1>1 DEF ServiceInv, ServiceTypeOK
  <1>9. GotFits'
    <2> SUFFICES ASSUME NEW u \in Handlers, request[u] \in Accepted,
                        call'[u] = "idle" \/ (call'[u] = "follow" /\ got'[u] # None)
                 PROVE  Fits(got'[u], KeyOf(request[u]))
      BY DEF GotFits, Fits
    <2>1. CASE u = h
      BY <1>2, <1>3, <1>8, <2>1
    <2>2. CASE u # h /\ u \in Cache!Followers(h)
      <3>1. key[u] = KeyOf(request[u]) /\ key[u] = key[h]
        BY <1>4, <2>2 DEF ServiceInv, CallsFit
      <3> QED
        BY <1>3, <1>8, <2>2, <3>1
    <2>3. CASE u # h /\ u \notin Cache!Followers(h)
      BY <1>8, <2>3 DEF ServiceInv, GotFits
    <2> QED
      BY <2>1, <2>2, <2>3
  <1>10. CallsFit'
    BY <1>1, <1>8 DEF ServiceInv, CallsFit
  <1> QED
    BY <1>5, <1>7, <1>8, <1>9, <1>10 DEF ServiceInv, o

\* A fan-out goes on.
LEMMA ProceedSound ==
    ASSUME ServiceInv, NEW h \in Handlers, call[h] = "lead",
           UNCHANGED cacheVars, request' = request,
           NEW v \in Works, work' = [work EXCEPT ![h] = v],
           v.at # "none", v.made = work[h].made + 1, Stage(request[h], v)
    PROVE  Sound(h)
  <1>1. UNCHANGED <<kept, call, key, got>>
    BY DEF cacheVars
  <1>2. ServiceTypeOK' /\ \A u \in Handlers : work'[u] = IF u = h THEN v ELSE work[u]
    BY <1>1 DEF ServiceInv, ServiceTypeOK
  <1>3. KeptFits' /\ GotFits'
    BY <1>1 DEF ServiceInv, KeptFits, GotFits, Fits
  <1>4. CallsFit'
    BY <1>1, <1>2 DEF ServiceInv, CallsFit
  <1> QED
    BY <1>1, <1>2, <1>3, <1>4 DEF ServiceInv, Sound

\* Nothing changes but the clock.
LEMMA IdleInv ==
    ASSUME ServiceInv, UNCHANGED <<kept, call, key, got, request, work>>
    PROVE  ServiceInv'
  BY DEF ServiceInv, ServiceTypeOK, KeptFits, GotFits, CallsFit, Fits

LEMMA RefuseInv ==
    ASSUME ServiceInv, NEW h \in Handlers, NEW r \in Requests, Refuse(h, r)
    PROVE  ServiceInv' /\ call' = call
  <1>1. /\ call[h] = "idle" /\ r \notin Accepted
        /\ request' = [request EXCEPT ![h] = r] /\ got' = [got EXCEPT ![h] = None]
        /\ key' = [key EXCEPT ![h] = None] /\ UNCHANGED <<kept, call, work>>
    BY DEF Refuse, Take
  <1>2. ServiceTypeOK' /\ \A u \in Handlers :
            /\ request'[u] = IF u = h THEN r ELSE request[u]
            /\ got'[u] = IF u = h THEN None ELSE got[u]
            /\ u # h => key'[u] = key[u]
    BY <1>1 DEF ServiceInv, ServiceTypeOK
  <1>3. KeptFits' /\ GotFits'
    BY <1>1, <1>2 DEF ServiceInv, KeptFits, GotFits, Fits
  <1>4. CallsFit'
    BY <1>1, <1>2 DEF ServiceInv, CallsFit
  <1> QED
    BY <1>1, <1>2, <1>3, <1>4 DEF ServiceInv

LEMMA HitInv ==
    ASSUME ServiceInv, NEW h \in Handlers, NEW r \in Requests, Hit(h, r)
    PROVE  ServiceInv' /\ call' = call
  <1> DEFINE k == KeyOf(r)
  <1>1. /\ call[h] = "idle" /\ r \in Accepted
        /\ request' = [request EXCEPT ![h] = r] /\ got' = [got EXCEPT ![h] = kept[k]]
        /\ key' = [key EXCEPT ![h] = k] /\ kept[k] # None
        /\ UNCHANGED <<kept, call, work>>
    BY DEF Hit, Take, Cache!Hit, Cache!Begin, Cache!Live
  <1>2. k \in Keys
    BY <1>1 DEF Keys
  <1> HIDE DEF k
  <1>3. ServiceTypeOK' /\ \A u \in Handlers :
            /\ request'[u] = IF u = h THEN r ELSE request[u]
            /\ got'[u] = IF u = h THEN kept[k] ELSE got[u]
            /\ key'[u] = IF u = h THEN k ELSE key[u]
    BY <1>1 DEF ServiceInv, ServiceTypeOK
  <1>4. Fits(kept[k], k)
    BY <1>1, <1>2 DEF ServiceInv, KeptFits
  <1>5. KeptFits' /\ GotFits'
    BY <1>1, <1>3, <1>4 DEF ServiceInv, KeptFits, GotFits, Fits, k
  <1>6. CallsFit'
    BY <1>1, <1>3 DEF ServiceInv, CallsFit
  <1> QED
    BY <1>1, <1>3, <1>5, <1>6 DEF ServiceInv

\* A miss, whether h follows or leads.
LEMMA MissInv ==
    ASSUME ServiceInv, NEW h \in Handlers, NEW r \in Accepted, Take(h, r),
           Cache!Miss(h, KeyOf(r)), NEW c \in {"lead", "follow"},
           call' = [call EXCEPT ![h] = c],
           NEW v \in Works, work' = [work EXCEPT ![h] = v],
           c = "lead" => v.at # "none" /\ Stage(r, v), c = "follow" => v = NoWork
    PROVE  ServiceInv' /\ call[h] = "idle"
  <1> DEFINE k == KeyOf(r)
  <1>1. /\ call[h] = "idle" /\ request' = [request EXCEPT ![h] = r]
        /\ got' = [got EXCEPT ![h] = None] /\ key' = [key EXCEPT ![h] = k]
        /\ kept' = [kept EXCEPT ![k] = None]
    BY DEF Take, Cache!Miss, Cache!Begin
  <1>2. r \in Requests
    BY DEF Accepted
  <1> HIDE DEF k
  <1>3. ServiceTypeOK' /\ \A u \in Handlers :
            /\ request'[u] = IF u = h THEN r ELSE request[u]
            /\ got'[u] = IF u = h THEN None ELSE got[u]
            /\ key'[u] = IF u = h THEN k ELSE key[u]
            /\ call'[u] = IF u = h THEN c ELSE call[u]
            /\ work'[u] = IF u = h THEN v ELSE work[u]
    BY <1>1, <1>2 DEF ServiceInv, ServiceTypeOK
  <1>4. KeptFits'
    <2>1. \A j \in Keys : kept'[j] = IF j = k THEN None ELSE kept[j]
      BY <1>1 DEF ServiceInv, ServiceTypeOK
    <2> QED
      BY <2>1 DEF ServiceInv, KeptFits, Fits
  <1>5. GotFits'
    BY <1>1, <1>3 DEF ServiceInv, GotFits, Fits
  <1>6. CallsFit'
    BY <1>1, <1>3 DEF ServiceInv, CallsFit, k
  <1> QED
    BY <1>1, <1>3, <1>4, <1>5, <1>6 DEF ServiceInv

LEMMA NoWorkFacts ==
    /\ NoWork \in Works /\ NoWork.at = "none" /\ NoWork.roster = NoRoster
    /\ NoWork.todo = {} /\ NoWork.rows = {} /\ NoWork.made = 0
  BY DEF NoWork, Works, NoRoster, AllRosters

LEMMA FollowInv ==
    ASSUME ServiceInv, NEW h \in Handlers, NEW r \in Requests, Follow(h, r)
    PROVE  ServiceInv' /\ call' = [call EXCEPT ![h] = "follow"] /\ call[h] = "idle"
  <1>1. /\ Take(h, r) /\ r \in Accepted /\ Cache!Miss(h, KeyOf(r))
        /\ call' = [call EXCEPT ![h] = "follow"] /\ work' = work
    BY DEF Follow, Cache!Follow
  <1>2. work[h] = NoWork
    BY <1>1 DEF Take, ServiceInv, CallsFit
  <1>3. work' = [work EXCEPT ![h] = NoWork]
    BY <1>1, <1>2 DEF ServiceInv, ServiceTypeOK
  <1> QED
    BY <1>1, <1>3, MissInv, NoWorkFacts

LEMMA LeadInv ==
    ASSUME ServiceInv, NEW h \in Handlers, NEW r \in Requests, Lead(h, r)
    PROVE  ServiceInv' /\ call' = [call EXCEPT ![h] = "lead"] /\ call[h] = "idle"
  <1> DEFINE a == IF r.path = "account" THEN "balance" ELSE "roster"
             v == [NoWork EXCEPT !.at = a]
  <1>1. /\ Take(h, r) /\ r \in Accepted /\ Cache!Miss(h, KeyOf(r))
        /\ call' = [call EXCEPT ![h] = "lead"] /\ work' = [work EXCEPT ![h].at = a]
    BY DEF Lead, Cache!Lead
  <1>2. work[h] = NoWork
    BY <1>1 DEF Take, ServiceInv, CallsFit
  <1>3. work' = [work EXCEPT ![h] = v]
    BY <1>1, <1>2 DEF ServiceInv, ServiceTypeOK
  <1>4. a \in Calls /\ a \in {"balance", "roster"} /\ (a = "balance" <=> r.path = "account")
    BY DEF Calls
  <1> HIDE DEF a
  <1>5. /\ v \in Works /\ v.at = a /\ v.roster = NoRoster /\ v.todo = {} /\ v.rows = {}
        /\ v.made = 0
    BY <1>4, NoWorkFacts DEF Works
  <1> HIDE DEF v
  <1>6. Stage(r, v)
    BY <1>4, <1>5 DEF Stage, Opening
  <1>7. v.at # "none"
    BY <1>4, <1>5
  <1> QED
    BY <1>1, <1>3, <1>5, <1>6, <1>7, MissInv

LEMMA AnswerInv ==
    ASSUME ServiceInv, NEW h \in Handlers, Answer(h)
    PROVE  ServiceInv' /\ call' = [call EXCEPT ![h] = "idle"] /\ call[h] = "follow"
  <1>1. /\ call[h] = "follow" /\ got[h] # None /\ call' = [call EXCEPT ![h] = "idle"]
        /\ UNCHANGED <<kept, key, got, request, work>>
    BY DEF Answer, Cache!Answer
  <1>2. ServiceTypeOK' /\ \A u \in Handlers : call'[u] = IF u = h THEN "idle" ELSE call[u]
    BY <1>1 DEF ServiceInv, ServiceTypeOK
  <1>3. KeptFits' /\ GotFits'
    BY <1>1, <1>2 DEF ServiceInv, KeptFits, GotFits, Fits
  <1>4. CallsFit'
    BY <1>1, <1>2 DEF ServiceInv, CallsFit
  <1> QED
    BY <1>1, <1>2, <1>3, <1>4 DEF ServiceInv

LEMMA GiveUpInv ==
    ASSUME ServiceInv, NEW h \in Handlers, GiveUp(h)
    PROVE  ServiceInv' /\ call' = [call EXCEPT ![h] = "idle"] /\ call[h] = "follow"
  <1> DEFINE o == Cache!Outcome(h, "timeout", [status |-> 500])
  <1>1. /\ call[h] = "follow" /\ call' = [call EXCEPT ![h] = "idle"]
        /\ got' = [got EXCEPT ![h] = o] /\ UNCHANGED <<kept, key, request, work>>
    BY DEF GiveUp, Cache!GiveUp
  <1>2. o.kind = "timeout" /\ o.what.status = 500
    BY DEF Cache!Outcome
  <1> HIDE DEF o
  <1>3. \A k : Fits(o, k)
    BY <1>2 DEF Fits, Fault
  <1>4. ServiceTypeOK' /\ \A u \in Handlers :
            /\ call'[u] = IF u = h THEN "idle" ELSE call[u]
            /\ got'[u] = IF u = h THEN o ELSE got[u]
    BY <1>1 DEF ServiceInv, ServiceTypeOK
  <1>5. KeptFits' /\ GotFits'
    BY <1>1, <1>3, <1>4 DEF ServiceInv, KeptFits, GotFits, Fits
  <1>6. CallsFit'
    BY <1>1, <1>4 DEF ServiceInv, CallsFit
  <1> QED
    BY <1>1, <1>4, <1>5, <1>6 DEF ServiceInv

----------------------------------------------------------------------------
\* What the calls of a fan-out may come to.
LEMMA CostFacts ==
    ASSUME NEW r, NEW R
    PROVE  /\ r.path = "account" => Cost(r, R) = 3
           /\ r.path = "detail" => Cost(r, R) = 6
           /\ r.path = "zones" => Cost(r, R) = 2 + 2 * Cardinality(Picked(r, R))
  BY Zenon DEF Cost

\* A detail is of one zone.
LEMMA DetailPicks ==
    ASSUME NEW r, NEW R, r.path = "detail", Picked(r, R) # {}
    PROVE  Picked(r, R) = {r.zone} /\ Cardinality(Picked(r, R)) = 1
  <1>1. Picked(r, R) = {z \in {r.zone} : R[z] # "absent"}
    BY PickedFacts, Zenon
  <1>2. Picked(r, R) = {r.zone}
    BY <1>1
  <1> QED
    BY <1>2, FS_Singleton

\* The rows done and the one under way.
LEMMA RowCount ==
    ASSUME NEW r \in Accepted, NEW w \in Works, InRow(r, w)
    PROVE  LET picked == Picked(r, w.roster)
               done == picked \ (w.todo \cup {w.zone})
           IN  /\ w.zone \in picked /\ w.zone \in Zones
               /\ IsFiniteSet(done) /\ Cardinality(done) \in Nat
               /\ Cardinality(done) + 1 <= Cardinality(picked)
               /\ Cardinality(done \cup {w.zone}) = Cardinality(done) + 1
  <1> DEFINE picked == Picked(r, w.roster)
             done == picked \ (w.todo \cup {w.zone})
  <1>1. picked \subseteq Zones /\ IsFiniteSet(picked) /\ Cardinality(picked) \in Nat
    BY PickedZones
  <1>2. w.zone \in picked
    BY DEF InRow
  <1> HIDE DEF picked
  <1>3. IsFiniteSet(done) /\ Cardinality(done) \in Nat
    BY <1>1, FS_Subset, FS_CardinalityType
  <1>4. w.zone \notin done /\ done \cup {w.zone} \subseteq picked
    BY <1>2
  <1> HIDE DEF done
  <1>5. Cardinality(done \cup {w.zone}) = Cardinality(done) + 1
    BY <1>3, <1>4, FS_AddElement
  <1>6. Cardinality(done \cup {w.zone}) <= Cardinality(picked)
    BY <1>1, <1>4, FS_Subset
  <1> QED
    BY <1>1, <1>2, <1>3, <1>5, <1>6 DEF picked, done

\* With its next call, a fan-out that knows its zones spends no more than they
\* cost.
LEMMA WithinCost ==
    ASSUME NEW r \in Accepted, NEW w \in Works, Stage(r, w),
           w.at \notin {"none", "balance", "status", "roster"}
    PROVE  w.made + 1 <= Cost(r, w.roster)
  <1> DEFINE n == Cardinality(Picked(r, w.roster))
  <1>0. w.at \in Calls /\ w.at \notin {"balance", "status", "roster"}
    BY DEF Works
  <1>1. n \in Nat
    BY PickedZones
  <1>2. r.path = "zones" => Cost(r, w.roster) = 2 + 2 * n
    BY CostFacts, Zenon
  <1>3. r.path = "detail" => Cost(r, w.roster) = 6
    BY CostFacts, Zenon
  <1> HIDE DEF n
  <1>4. CASE w.at = "bandwidth"
    BY <1>1, <1>2, <1>3, <1>4 DEF Stage, Listed
  <1>5. CASE w.at \in {"info", "cost"}
    <2> DEFINE d == Cardinality(Picked(r, w.roster) \ (w.todo \cup {w.zone}))
    <2>1. InRow(r, w)
      BY <1>5 DEF Stage
    <2>2. d \in Nat /\ d + 1 <= n
      BY <2>1, RowCount DEF n
    <2>3. w.made = (IF w.at = "info" THEN 2 ELSE 3) + 2 * d /\ r.path \in {"zones", "detail"}
      BY <2>1 DEF InRow
    <2>4. r.path = "detail" => n = 1
      <3>1. w.zone \in Picked(r, w.roster)
        BY <2>1 DEF InRow
      <3> QED
        BY <3>1, DetailPicks DEF n
    <2> HIDE DEF d
    <2> QED
      BY <1>1, <1>2, <1>3, <2>2, <2>3, <2>4
  <1>6. CASE w.at \in {"ips", "vips"}
    BY <1>3, <1>6 DEF Stage, Closing
  <1> QED
    BY <1>0, <1>4, <1>5, <1>6 DEF Calls

LEMMA LeaderFacts ==
    ASSUME ServiceInv, NEW h \in Handlers, call[h] = "lead"
    PROVE  /\ request[h] \in Accepted /\ work[h] \in Works
           /\ work[h].at # "none" /\ Stage(request[h], work[h])
           /\ work[h].at \notin {"balance", "status", "roster"} =>
                 work[h].made + 1 <= Cost(request[h], work[h].roster)
           /\ work[h].roster # NoRoster => work[h].made + 1 <= Cost(request[h], work[h].roster)
  <1>1. /\ request[h] \in Accepted /\ work[h] \in Works
        /\ work[h].at # "none" /\ Stage(request[h], work[h])
    BY DEF ServiceInv, ServiceTypeOK, CallsFit
  <1>2. work[h].at \notin {"balance", "status", "roster"} =>
           work[h].made + 1 <= Cost(request[h], work[h].roster)
    BY <1>1, WithinCost
  <1>3. work[h].roster # NoRoster => work[h].at \notin {"balance", "status", "roster"}
    BY <1>1 DEF Stage, Opening
  <1> QED
    BY <1>1, <1>2, <1>3

\* A fan-out that fails, and one that has its answer.
LEMMA RaiseInv ==
    ASSUME ServiceInv, NEW h \in Handlers, call[h] = "lead", request' = request,
           NEW status, Raise(h, status), Fault(status, request[h]),
           status \in {400, 404} \ {Surface(c) : c \in UpstreamCodes} => work[h].made = 0
    PROVE  ServiceInv' /\ Planned(h)
  <1> DEFINE o == Cache!Outcome(h, "error", [status |-> status])
  <1>1. /\ Cache!Complete(h, "error", [status |-> status])
        /\ work' = [work EXCEPT ![h] = NoWork]
    BY DEF Raise
  <1>2. o.kind = "error" /\ o.what.status = status
    BY DEF Cache!Outcome
  <1>3. request[h] \in Accepted
    BY LeaderFacts
  <1>4. Fits(o, KeyOf(request[h]))
    <2> HIDE DEF o
    <2>1. IF o.kind = "value" THEN Right(o.what, request[h]) ELSE Fault(o.what.status, request[h])
      BY <1>2
    <2> QED
      BY <1>3, <2>1, FitsAll
  <1>5. ServiceInv' /\ got'[h] = o
    BY <1>1, <1>4, EndInv
  <1> HIDE DEF o
  <1> QED
    BY <1>2, <1>5, LeaderFacts DEF Planned

LEMMA ReturnInv ==
    ASSUME ServiceInv, NEW h \in Handlers, call[h] = "lead", request' = request,
           NEW w, Return(h, w),
           w.rows = Shown(w.roster, Picked(request[h], w.roster)),
           work[h].made + 1 = Cost(request[h], w.roster)
    PROVE  ServiceInv' /\ Planned(h)
  <1> DEFINE r == request[h]
             a == [status |-> 200, path |-> r.path, rows |-> w.rows,
                   window |-> Clamp(r.from, r.to), roster |-> w.roster]
             o == Cache!Outcome(h, "value", a)
  <1>1. Cache!Complete(h, "value", a) /\ work' = [work EXCEPT ![h] = NoWork]
    BY DEF Return
  <1>2. o.kind = "value" /\ o.what = a
    BY DEF Cache!Outcome
  <1>3. request[h] \in Accepted
    BY LeaderFacts
  <1>4. Right(a, r) /\ a.status = 200 /\ a.roster = w.roster
    BY DEF Right
  <1>5. Fits(o, KeyOf(request[h]))
    <2> HIDE DEF o, a
    <2>1. IF o.kind = "value" THEN Right(o.what, request[h]) ELSE Fault(o.what.status, request[h])
      BY <1>2, <1>4
    <2> QED
      BY <1>3, <2>1, FitsAll
  <1>6. ServiceInv' /\ got'[h] = o
    BY <1>1, <1>5, EndInv
  <1> HIDE DEF o, a
  <1> QED
    BY <1>2, <1>4, <1>6, LeaderFacts DEF Planned

----------------------------------------------------------------------------
\* On to the next call.
LEMMA MoveFacts ==
    ASSUME NEW w \in Works, NEW a \in Calls
    PROVE  LET v == [[w EXCEPT !.at = a] EXCEPT !.made = @ + 1]
           IN  /\ v \in Works /\ v.at = a /\ v.made = w.made + 1 /\ v.roster = w.roster
               /\ v.todo = w.todo /\ v.rows = w.rows /\ v.zone = w.zone
  <1> DEFINE u == [w EXCEPT !.at = a]
             v == [u EXCEPT !.made = @ + 1]
  <1>1. /\ w.roster \in AllRosters /\ w.todo \in SUBSET Zones /\ w.zone \in Zones \cup {None}
        /\ w.rows \in SUBSET Rows /\ w.made \in Nat
    BY DEF Works
  <1>2. u = [at |-> a, roster |-> w.roster, todo |-> w.todo, zone |-> w.zone,
             rows |-> w.rows, made |-> w.made]
    BY DEF Works
  <1> HIDE DEF u
  <1>3. v = [at |-> a, roster |-> w.roster, todo |-> w.todo, zone |-> w.zone,
             rows |-> w.rows, made |-> w.made + 1]
    BY <1>2
  <1> HIDE DEF v
  <1>4. v \in Works
    BY <1>1, <1>3 DEF Works
  <1> QED
    BY <1>3, <1>4 DEF v, u

\* The calls of the account, and those that change nothing but their place.
LEMMA MoveSound ==
    ASSUME ServiceInv, NEW h \in Handlers,
           BalanceReply(h) \/ StatusReply(h) \/ InfoReply(h) \/ IpsEnds(h)
    PROVE  Sound(h)
  <1> DEFINE r == request[h]
             w == work[h]
             v(a) == [[w EXCEPT !.at = a] EXCEPT !.made = @ + 1]
  <1>1. /\ call[h] = "lead" /\ request' = request /\ UNCHANGED cacheVars
        /\ \/ w.at = "balance" /\ work' = [work EXCEPT ![h] = v("status")]
           \/ w.at = "status" /\ work' = [work EXCEPT ![h] = v("roster")]
           \/ w.at = "info" /\ work' = [work EXCEPT ![h] = v("cost")]
           \/ w.at = "ips" /\ work' = [work EXCEPT ![h] = v("vips")]
    BY DEF BalanceReply, StatusReply, InfoReply, IpsEnds, Ended, Proceed
  <1>2. r \in Accepted /\ w \in Works /\ Stage(r, w)
    BY <1>1, LeaderFacts
  <1>3. ASSUME NEW a \in {"status", "roster", "cost", "vips"},
               work' = [work EXCEPT ![h] = v(a)], Stage(r, v(a))
        PROVE  Sound(h)
    <2>1. a \in Calls /\ a # "none"
      BY DEF Calls
    <2>2. v(a) \in Works /\ v(a).at # "none" /\ v(a).made = work[h].made + 1
      BY <1>2, <2>1, MoveFacts
    <2> HIDE DEF v
    <2> QED
      BY <1>1, <1>3, <2>2, ProceedSound
  <1>4. ASSUME NEW a \in {"status", "roster", "cost", "vips"}
        PROVE  /\ v(a).at = a /\ v(a).made = w.made + 1 /\ v(a).roster = w.roster
               /\ v(a).todo = w.todo /\ v(a).rows = w.rows /\ v(a).zone = w.zone
    <2>1. a \in Calls
      BY DEF Calls
    <2> QED
      BY <1>2, <2>1, MoveFacts
  <1> HIDE DEF w, v, r
  <1>5. CASE w.at = "balance" /\ work' = [work EXCEPT ![h] = v("status")]
    <2>1. Stage(r, v("status"))
      BY <1>2, <1>4, <1>5 DEF Stage, Opening
    <2> QED
      BY <1>3, <1>5, <2>1 DEF w
  <1>6. CASE w.at = "status" /\ work' = [work EXCEPT ![h] = v("roster")]
    <2>1. Stage(r, v("roster"))
      BY <1>2, <1>4, <1>6 DEF Stage, Opening
    <2> QED
      BY <1>3, <1>6, <2>1 DEF w
  <1>7. CASE w.at = "info" /\ work' = [work EXCEPT ![h] = v("cost")]
    <2> DEFINE d == Cardinality(Picked(r, w.roster) \ (w.todo \cup {w.zone}))
    <2>1. InRow(r, w) /\ d \in Nat
      BY <1>2, <1>7, RowCount DEF Stage
    <2>2. w.made = 2 + 2 * d
      BY <1>7, <2>1 DEF InRow
    <2> HIDE DEF d
    <2>3. v("cost").made = 3 + 2 * d
      BY <1>4, <2>1, <2>2
    <2>4. InRow(r, v("cost"))
      BY <1>4, <2>1, <2>3 DEF InRow, d
    <2>5. v("cost").at = "cost" /\ v("cost").roster \in Rosters
      BY <1>2, <1>4, <1>7 DEF Stage
    <2>6. Stage(r, v("cost"))
      BY <2>4, <2>5 DEF Stage
    <2> QED
      BY <1>3, <1>7, <2>6 DEF w
  <1>8. CASE w.at = "ips" /\ work' = [work EXCEPT ![h] = v("vips")]
    <2>1. Stage(r, v("vips"))
      BY <1>2, <1>4, <1>8 DEF Stage, Closing
    <2> QED
      BY <1>3, <1>8, <2>1 DEF w
  <1> QED
    BY <1>1, <1>5, <1>6, <1>7, <1>8 DEF w

----------------------------------------------------------------------------
LEMMA RaiseSound ==
    ASSUME ServiceInv, NEW h \in Handlers, call[h] = "lead", request' = request,
           NEW status \in Nat, Raise(h, status), Fault(status, request[h]),
           status \in {400, 404} \ {Surface(c) : c \in UpstreamCodes} => work[h].made = 0
    PROVE  Sound(h)
  <1>1. ServiceInv' /\ Planned(h)
    BY RaiseInv
  <1>2. Cache!Complete(h, "error", [status |-> status]) /\ work' = [work EXCEPT ![h] = NoWork]
    BY DEF Raise
  <1>3. [status |-> status] \in Told
    BY DEF Told
  <1>4. \A u \in Handlers \ {h} : work'[u] = work[u]
    BY <1>2 DEF ServiceInv, ServiceTypeOK
  <1> QED
    BY <1>1, <1>2, <1>3, <1>4 DEF Sound, Ends

LEMMA ClampType ==
    ASSUME NEW r \in Accepted
    PROVE  Clamp(r.from, r.to) \in Int \X Int
  <1>1. r.from \in Int /\ r.to \in Int /\ MinDays \in Int
    BY AcceptedFacts, RequestsAssumption, SettingsAssumption
       DEF Oddities, Missing, Malformed, NoSuchDay
  <1> QED
    BY <1>1 DEF Clamp

LEMMA ReturnSound ==
    ASSUME ServiceInv, NEW h \in Handlers, call[h] = "lead", request' = request,
           NEW w, Return(h, w), w.roster \in AllRosters,
           w.rows = Shown(w.roster, Picked(request[h], w.roster)),
           work[h].made + 1 = Cost(request[h], w.roster)
    PROVE  Sound(h)
  <1> DEFINE r == request[h]
             a == [status |-> 200, path |-> r.path, rows |-> w.rows,
                   window |-> Clamp(r.from, r.to), roster |-> w.roster]
  <1>1. ServiceInv' /\ Planned(h)
    BY ReturnInv
  <1>2. Cache!Complete(h, "value", a) /\ work' = [work EXCEPT ![h] = NoWork]
    BY DEF Return
  <1>3. r \in Accepted
    BY LeaderFacts
  <1>4. r.path \in {"account", "zones", "detail"} /\ Clamp(r.from, r.to) \in Int \X Int
    BY <1>3, AcceptedFacts, ClampType
  <1>5. w.rows \in SUBSET Rows
    <2>1. Picked(r, w.roster) \subseteq Zones
      BY <1>3, PickedZones
    <2> QED
      BY <2>1 DEF Shown, Rows, AllRosters
  <1>6. a \in Told
    BY <1>4, <1>5 DEF Told
  <1>7. \A u \in Handlers \ {h} : work'[u] = work[u]
    BY <1>2 DEF ServiceInv, ServiceTypeOK
  <1> HIDE DEF a
  <1> QED
    BY <1>1, <1>2, <1>6, <1>7 DEF Sound, Ends

\* A fan-out's record with other fields.
LEMMA ListedShape ==
    ASSUME NEW w \in Works, NEW R, NEW a
    PROVE  [w EXCEPT !.roster = R, !.at = a] =
               [at |-> a, roster |-> R, todo |-> w.todo, zone |-> w.zone,
                rows |-> w.rows, made |-> w.made]
  <1> DEFINE v == [w EXCEPT !.roster = R]
  <1>1. v = [at |-> w.at, roster |-> R, todo |-> w.todo, zone |-> w.zone,
             rows |-> w.rows, made |-> w.made]
    BY DEF Works
  <1>2. [w EXCEPT !.roster = R, !.at = a] = [v EXCEPT !.at = a]
    OBVIOUS
  <1> HIDE DEF v
  <1> QED
    BY <1>1, <1>2

LEMMA InfoShape ==
    ASSUME NEW w \in Works, NEW z
    PROVE  [w EXCEPT !.at = "info", !.zone = z, !.todo = @ \ {z}] =
               [at |-> "info", roster |-> w.roster, todo |-> w.todo \ {z}, zone |-> z,
                rows |-> w.rows, made |-> w.made]
  <1> DEFINE u == [w EXCEPT !.at = "info"]
             v == [u EXCEPT !.zone = z]
  <1>1. u = [at |-> "info", roster |-> w.roster, todo |-> w.todo, zone |-> w.zone,
             rows |-> w.rows, made |-> w.made]
    BY DEF Works
  <1>2. [w EXCEPT !.at = "info", !.zone = z, !.todo = @ \ {z}] = [v EXCEPT !.todo = w.todo \ {z}]
    OBVIOUS
  <1> HIDE DEF u
  <1>3. v = [at |-> "info", roster |-> w.roster, todo |-> w.todo, zone |-> z,
             rows |-> w.rows, made |-> w.made]
    BY <1>1
  <1> HIDE DEF v
  <1> QED
    BY <1>2, <1>3

LEMMA RowShape ==
    ASSUME NEW w \in Works, NEW S
    PROVE  [w EXCEPT !.rows = S] =
               [at |-> w.at, roster |-> w.roster, todo |-> w.todo, zone |-> w.zone,
                rows |-> S, made |-> w.made]
  BY DEF Works

\* The zones are listed.
LEMMA RosterSound ==
    ASSUME ServiceInv, NEW h \in Handlers, RosterReply(h)
    PROVE  Sound(h)
  <1> DEFINE r == request[h]
  <1>1. call[h] = "lead" /\ request' = request /\ work[h].at = "roster"
    BY DEF RosterReply, Ended
  <1>2. /\ r \in Accepted /\ work[h] \in Works /\ Opening(r, work[h])
        /\ r.path \in {"account", "zones", "detail"}
    BY <1>1, LeaderFacts, AcceptedFacts DEF Stage
  <1>3. /\ work[h].rows = {} /\ work[h].todo = {}
        /\ work[h].made = IF r.path = "account" THEN 2 ELSE 0
    BY <1>1, <1>2 DEF Opening
  <1>4. PICK roster \in Rosters :
           LET w == [work[h] EXCEPT !.roster = roster, !.at = "bandwidth"]
           IN  CASE r.path = "account" -> Return(h, work[h])
                 [] r.path = "zones" ->
                       IF ~Compiles(r) THEN Raise(h, 400)
                       ELSE Proceed(h, [w EXCEPT !.todo = Picked(r, roster)])
                 [] r.path = "detail" ->
                       IF roster[r.zone] = "absent" THEN Raise(h, 404)
                       ELSE Proceed(h, [w EXCEPT !.todo = Picked(r, roster)])
    BY Zenon DEF RosterReply
  <1> DEFINE w == [work[h] EXCEPT !.roster = roster, !.at = "bandwidth"]
             v == [w EXCEPT !.todo = Picked(r, roster)]
  <1>5. /\ r.path = "account" => Return(h, work[h])
        /\ r.path = "zones" => IF ~Compiles(r) THEN Raise(h, 400) ELSE Proceed(h, v)
        /\ r.path = "detail" =>
              IF roster[r.zone] = "absent" THEN Raise(h, 404) ELSE Proceed(h, v)
    BY <1>4, Zenon
  <1>6. /\ w.roster = roster /\ w.rows = work[h].rows /\ w.made = work[h].made
        /\ v.at = "bandwidth" /\ v.todo = Picked(r, roster)
    BY <1>2 DEF Works
  <1>7. roster \in AllRosters
    BY RostersAssumption
  <1>8. ASSUME r.path \in {"zones", "detail"}, Proceed(h, v),
               r.path = "detail" => Picked(r, roster) # {}
        PROVE  Sound(h)
    <2> DEFINE u == [v EXCEPT !.made = @ + 1]
    <2>1. work' = [work EXCEPT ![h] = u] /\ UNCHANGED cacheVars
      BY <1>8 DEF Proceed
    <2>2. u = [at |-> "bandwidth", roster |-> roster, todo |-> Picked(r, roster),
               zone |-> work[h].zone, rows |-> work[h].rows, made |-> work[h].made + 1]
      <3>1. w = [at |-> "bandwidth", roster |-> roster, todo |-> work[h].todo,
                 zone |-> work[h].zone, rows |-> work[h].rows, made |-> work[h].made]
        BY <1>2, ListedShape
      <3> HIDE DEF w
      <3>2. v = [at |-> "bandwidth", roster |-> roster, todo |-> Picked(r, roster),
                 zone |-> work[h].zone, rows |-> work[h].rows, made |-> work[h].made]
        BY <3>1
      <3> HIDE DEF v
      <3> QED
        BY <3>2
    <2>3. /\ work[h].made + 1 = 1 /\ work[h].rows = {}
          /\ work[h].zone \in Zones \cup {None}
      BY <1>2, <1>3, <1>8 DEF Works
    <2>4. Picked(r, roster) \in SUBSET Zones
      BY <1>2, PickedZones
    <2> HIDE DEF u, v, w
    <2>5. /\ u.at = "bandwidth" /\ u.roster = roster /\ u.todo = Picked(r, roster)
          /\ u.rows = {} /\ u.made = 1
      BY <2>2, <2>3
    <2>6. u \in Works
      BY <1>7, <2>2, <2>3, <2>4 DEF Works, Calls
    <2>7. Stage(r, u)
      BY <1>8, <2>5 DEF Stage, Listed
    <2>8. u.at # "none" /\ u.made = work[h].made + 1
      BY <2>3, <2>5
    <2> QED
      BY <1>1, <2>1, <2>6, <2>7, <2>8, ProceedSound
  <1> HIDE DEF v
  <1>9. CASE r.path = "account"
    <2>1. Picked(r, work[h].roster) = {} /\ Cost(r, work[h].roster) = 3
      BY <1>9, PickedFacts, CostFacts
    <2>2. work[h].rows = Shown(work[h].roster, Picked(r, work[h].roster))
      BY <1>3, <2>1 DEF Shown
    <2>3. work[h].made + 1 = Cost(r, work[h].roster)
      BY <1>3, <1>9, <2>1
    <2>4. Return(h, work[h]) /\ work[h].roster \in AllRosters
      BY <1>2, <1>5, <1>9 DEF Works
    <2> QED
      BY <1>1, <2>2, <2>3, <2>4, ReturnSound
  <1>10. CASE r.path = "zones"
    <2>1. CASE Compiles(r)
      BY <1>5, <1>8, <1>10, <2>1
    <2>2. CASE ~Compiles(r)
      <3>1. Raise(h, 400) /\ Fault(400, r)
        BY <1>5, <1>10, <2>2 DEF Fault
      <3>2. work[h].made = 0
        BY <1>3, <1>10
      <3> QED
        BY <1>1, <3>1, <3>2, RaiseSound
    <2> QED
      BY <2>1, <2>2
  <1>11. CASE r.path = "detail"
    <2>1. CASE roster[r.zone] = "absent"
      <3>1. Raise(h, 404) /\ Fault(404, r)
        BY <1>5, <1>11, <2>1 DEF Fault
      <3>2. work[h].made = 0
        BY <1>3, <1>11
      <3> QED
        BY <1>1, <3>1, <3>2, RaiseSound
    <2>2. CASE roster[r.zone] # "absent"
      <3>1. Picked(r, roster) = {z \in {r.zone} : roster[z] # "absent"}
        BY <1>11, PickedFacts, Zenon
      <3>2. Picked(r, roster) # {}
        BY <2>2, <3>1
      <3> QED
        BY <1>5, <1>8, <1>11, <2>2, <3>2
    <2> QED
      BY <2>1, <2>2
  <1> QED
    BY <1>2, <1>9, <1>10, <1>11

\* A row's figures are fetched next, or all of them are there.
LEMMA NextRowSound ==
    ASSUME ServiceInv, NEW h \in Handlers, call[h] = "lead", request' = request,
           NEW w \in Works, NextRow(h, w),
           request[h].path \in {"zones", "detail"}, w.made = work[h].made, w.roster \in Rosters,
           w.todo \subseteq Picked(request[h], w.roster),
           w.rows = Shown(w.roster, Picked(request[h], w.roster) \ w.todo),
           w.made = 1 + 2 * Cardinality(Picked(request[h], w.roster) \ w.todo),
           request[h].path = "detail" => w.todo # {}
    PROVE  Sound(h)
  <1> DEFINE r == request[h]
             picked == Picked(r, w.roster)
  <1>0. r \in Accepted
    BY LeaderFacts
  <1>1. CASE w.todo = {}
    <2>1. Return(h, w)
      BY <1>1 DEF NextRow
    <2>2. picked \ w.todo = picked /\ r.path = "zones"
      BY <1>1
    <2>3. Cost(r, w.roster) = 2 + 2 * Cardinality(picked)
      BY <2>2, CostFacts, Zenon
    <2>4. Cardinality(picked) \in Nat
      BY <1>0, PickedZones
    <2>5. work[h].made = 1 + 2 * Cardinality(picked) /\ w.rows = Shown(w.roster, picked)
      BY <2>2
    <2>6. w.roster \in AllRosters
      BY DEF Works
    <2> QED
      BY <2>1, <2>3, <2>4, <2>5, <2>6, ReturnSound
  <1>2. CASE w.todo # {}
    <2>1. PICK z \in w.todo : Proceed(h, [w EXCEPT !.at = "info", !.zone = z, !.todo = @ \ {z}])
      BY <1>2 DEF NextRow
    <2> DEFINE v == [w EXCEPT !.at = "info", !.zone = z, !.todo = @ \ {z}]
               u == [v EXCEPT !.made = @ + 1]
    <2>2. work' = [work EXCEPT ![h] = u] /\ UNCHANGED cacheVars
      BY <2>1 DEF Proceed
    <2>3. u = [at |-> "info", roster |-> w.roster, todo |-> w.todo \ {z}, zone |-> z,
               rows |-> w.rows, made |-> w.made + 1]
      <3>1. v = [at |-> "info", roster |-> w.roster, todo |-> w.todo \ {z}, zone |-> z,
                 rows |-> w.rows, made |-> w.made]
        BY InfoShape
      <3> HIDE DEF v
      <3> QED
        BY <3>1
    <2> HIDE DEF u, v
    <2>4. /\ u.at = "info" /\ u.roster = w.roster /\ u.todo = w.todo \ {z} /\ u.zone = z
          /\ u.rows = w.rows /\ u.made = w.made + 1
      BY <2>3
    <2>5. w.roster \in AllRosters /\ w.todo \in SUBSET Zones /\ w.made \in Nat
          /\ w.rows \in SUBSET Rows
      BY DEF Works
    <2>6. u \in Works
      <3>1. z \in Zones /\ w.todo \ {z} \in SUBSET Zones /\ w.made + 1 \in Nat
        BY <2>5
      <3>2. "info" \in Calls
        BY DEF Calls
      <3> QED
        BY <2>3, <2>5, <3>1, <3>2 DEF Works
    <2>7. InRow(r, u)
      <3>1. u.todo \cup {u.zone} = w.todo /\ u.zone \notin u.todo
        BY <2>4
      <3>2. Picked(r, u.roster) \ (u.todo \cup {u.zone}) = picked \ w.todo
        BY <2>4, <3>1
      <3>3. Cardinality(picked \ w.todo) \in Nat
        BY <1>0, PickedZones, FS_Subset, FS_CardinalityType
      <3>4. u.made = 2 + 2 * Cardinality(picked \ w.todo)
        BY <2>4, <3>3
      <3> HIDE DEF picked
      <3> QED
        BY <2>4, <3>1, <3>2, <3>4 DEF InRow, picked
    <2>8. Stage(r, u) /\ u.at # "none"
      BY <2>4, <2>7 DEF Stage
    <2>9. u.made = work[h].made + 1
      BY <2>4
    <2> QED
      BY <2>2, <2>6, <2>8, <2>9, ProceedSound
  <1> QED
    BY <1>1, <1>2

LEMMA BandwidthSound ==
    ASSUME ServiceInv, NEW h \in Handlers, BandwidthReply(h)
    PROVE  Sound(h)
  <1> DEFINE w == work[h]
             picked == Picked(request[h], w.roster)
  <1>1. call[h] = "lead" /\ request' = request /\ w.at = "bandwidth" /\ NextRow(h, w)
    BY DEF BandwidthReply, Ended
  <1>2. request[h] \in Accepted /\ w \in Works /\ Listed(request[h], w) /\ w.roster \in Rosters
    BY <1>1, LeaderFacts DEF Stage
  <1>3. /\ request[h].path \in {"zones", "detail"} /\ w.todo = picked /\ w.rows = {}
        /\ w.made = 1 /\ (request[h].path = "detail" => w.todo # {})
    BY <1>2 DEF Listed
  <1>4. picked \ w.todo = {} /\ Cardinality({}) = 0
    BY <1>3, FS_EmptySet
  <1>5. w.rows = Shown(w.roster, picked \ w.todo) /\ w.made = 1 + 2 * Cardinality(picked \ w.todo)
    BY <1>3, <1>4 DEF Shown
  <1> HIDE DEF w
  <1>6. w.made = work[h].made
    BY DEF w
  <1> QED
    BY <1>1, <1>2, <1>3, <1>5, <1>6, NextRowSound

LEMMA CostSound ==
    ASSUME ServiceInv, NEW h \in Handlers, CostReply(h)
    PROVE  Sound(h)
  <1> DEFINE r == request[h]
             w == work[h]
             row == [zone |-> w.zone, status |-> w.roster[w.zone]]
             v == [w EXCEPT !.rows = @ \cup {row}]
             picked == Picked(r, w.roster)
             done == picked \ (w.todo \cup {w.zone})
  <1>1. /\ call[h] = "lead" /\ request' = request /\ w.at = "cost"
        /\ IF r.path = "detail" THEN Proceed(h, [v EXCEPT !.at = "ips"]) ELSE NextRow(h, v)
    BY DEF CostReply, Ended
  <1>2. r \in Accepted /\ w \in Works /\ InRow(r, w) /\ w.roster \in Rosters
    BY <1>1, LeaderFacts DEF Stage
  <1>3. /\ w.zone \in picked /\ w.zone \in Zones /\ IsFiniteSet(done)
        /\ Cardinality(done) \in Nat /\ Cardinality(done \cup {w.zone}) = Cardinality(done) + 1
    BY <1>2, RowCount
  <1>4. /\ r.path \in {"zones", "detail"} /\ w.zone \notin w.todo
        /\ w.todo \cup {w.zone} \subseteq picked /\ w.rows = Shown(w.roster, done)
        /\ w.made = 3 + 2 * Cardinality(done)
    BY <1>1, <1>2 DEF InRow
  <1>5. picked \ w.todo = done \cup {w.zone}
    BY <1>4
  <1>6. w.rows \cup {row} = Shown(w.roster, picked \ w.todo)
    BY <1>4, <1>5 DEF Shown
  <1>7. /\ w.roster \in AllRosters /\ w.todo \in SUBSET Zones /\ w.made \in Nat
        /\ w.rows \in SUBSET Rows
    BY <1>2 DEF Works
  <1>8. row \in Rows
    BY <1>3, <1>7 DEF AllRosters, Rows
  <1> HIDE DEF row
  <1>9. v = [at |-> "cost", roster |-> w.roster, todo |-> w.todo, zone |-> w.zone,
             rows |-> w.rows \cup {row}, made |-> w.made]
    BY <1>1, <1>2, RowShape
  <1>10. /\ v.roster = w.roster /\ v.todo = w.todo /\ v.made = w.made
         /\ v.rows = w.rows \cup {row}
    BY <1>9
  <1>11. v \in Works
    BY <1>3, <1>7, <1>8, <1>9 DEF Works, Calls
  <1> HIDE DEF v, done
  <1>12. w.made = 1 + 2 * Cardinality(picked \ w.todo)
    <2> DEFINE n == Cardinality(done)
    <2>1. n \in Nat /\ w.made = 3 + 2 * n /\ Cardinality(picked \ w.todo) = n + 1
      BY <1>3, <1>4, <1>5
    <2> HIDE DEF n, picked
    <2> QED
      BY <2>1
  <1> HIDE DEF picked
  <1>13. CASE r.path = "detail"
    <2> DEFINE u == [[v EXCEPT !.at = "ips"] EXCEPT !.made = @ + 1]
    <2>1. work' = [work EXCEPT ![h] = u] /\ UNCHANGED cacheVars
      BY <1>1, <1>13 DEF Proceed
    <2>2. "ips" \in Calls
      BY DEF Calls
    <2>3. /\ u \in Works /\ u.at = "ips" /\ u.made = v.made + 1 /\ u.roster = v.roster
          /\ u.rows = v.rows
      BY <1>11, <2>2, MoveFacts
    <2> HIDE DEF u
    <2>4. picked = {r.zone} /\ Cardinality(picked) = 1
      BY <1>3, <1>13, DetailPicks DEF picked
    <2>5. w.todo = {} /\ picked \ w.todo = picked
      BY <1>3, <1>4, <2>4
    <2>6. w.made = 3
      BY <1>12, <2>4, <2>5
    <2>7. u.made = 4 /\ u.rows = Shown(u.roster, Picked(r, u.roster))
      BY <1>6, <1>10, <2>3, <2>5, <2>6 DEF picked
    <2>8. Stage(r, u) /\ u.at # "none"
      BY <1>2, <1>10, <1>13, <2>3, <2>7 DEF Stage, Closing
    <2>9. u.made = work[h].made + 1
      BY <1>10, <2>3
    <2> QED
      BY <1>1, <2>1, <2>3, <2>8, <2>9, ProceedSound
  <1>14. CASE r.path # "detail"
    <2>1. NextRow(h, v)
      BY <1>1, <1>14
    <2>2. /\ v.todo \subseteq Picked(r, v.roster)
          /\ v.rows = Shown(v.roster, Picked(r, v.roster) \ v.todo)
          /\ v.made = 1 + 2 * Cardinality(Picked(r, v.roster) \ v.todo)
      BY <1>4, <1>6, <1>10, <1>12 DEF picked
    <2>3. v.made = work[h].made /\ v.roster \in Rosters
      BY <1>2, <1>10
    <2> QED
      BY <1>1, <1>4, <1>11, <1>14, <2>1, <2>2, <2>3, NextRowSound
  <1> QED
    BY <1>13, <1>14

LEMMA VipsSound ==
    ASSUME ServiceInv, NEW h \in Handlers, VipsEnds(h)
    PROVE  Sound(h)
  <1>1. call[h] = "lead" /\ request' = request /\ work[h].at = "vips" /\ Return(h, work[h])
    BY DEF VipsEnds, Ended
  <1>2. Closing(request[h], work[h])
    BY <1>1, LeaderFacts DEF Stage
  <1>3. /\ request[h].path = "detail" /\ work[h].made = 5
        /\ work[h].rows = Shown(work[h].roster, Picked(request[h], work[h].roster))
    BY <1>1, <1>2 DEF Closing
  <1>4. work[h].made + 1 = Cost(request[h], work[h].roster)
    BY <1>3, CostFacts
  <1>5. work[h].roster \in AllRosters
    BY <1>1, LeaderFacts DEF Works
  <1> QED
    BY <1>1, <1>3, <1>4, <1>5, ReturnSound

\* What upstream does wrong is not the caller's fault, and may come at any call.
LEMMA ErrorSound ==
    ASSUME ServiceInv, NEW h \in Handlers, UpstreamError(h) \/ UpstreamRaises(h)
    PROVE  Sound(h)
  <1>1. call[h] = "lead" /\ request' = request
    BY DEF UpstreamError, UpstreamRaises, Ended
  <1>2. CASE UpstreamError(h)
    <2>1. work[h].at \in Calls
      BY <1>1, LeaderFacts DEF Works
    <2>2. PICK code \in Api!ErrorCodes[work[h].at] : Raise(h, Surface(code))
      BY <1>2 DEF UpstreamError
    <2> DEFINE s == Surface(code)
    <2>3. /\ Fault(s, request[h]) /\ s \in Nat
          /\ s \notin {400, 404} \ {Surface(c) : c \in UpstreamCodes}
      BY <2>1, ErrorCodeFacts
    <2>4. Raise(h, s)
      BY <2>2
    <2> HIDE DEF s
    <2> QED
      BY <1>1, <2>3, <2>4, RaiseSound
  <1>3. CASE UpstreamRaises(h)
    <2>1. Raise(h, 500)
      BY <1>3 DEF UpstreamRaises
    <2>2. 500 \notin {400, 404} /\ Fault(500, request[h])
      BY DEF Fault
    <2> QED
      BY <1>1, <2>1, <2>2, RaiseSound
  <1> QED
    BY <1>2, <1>3

LEMMA UpstreamSound ==
    ASSUME ServiceInv, NEW h \in Handlers, UpstreamStep(h)
    PROVE  Sound(h)
  BY MoveSound, RosterSound, BandwidthSound, CostSound, VipsSound, ErrorSound DEF UpstreamStep

----------------------------------------------------------------------------
\* The whole step.
LEMMA HandlerSafe ==
    ASSUME ServiceInv, NEW h \in Handlers, HandlerStep(h)
    PROVE  /\ ServiceInv'
           /\ \A u \in Handlers : ~ (call[u] = "lead" /\ call'[u] = "idle")
  <1>0. call \in [Handlers -> {"idle", "lead", "follow"}]
    BY DEF ServiceInv, ServiceTypeOK
  <1>1. ASSUME NEW r \in Requests, Refuse(h, r) \/ Hit(h, r)
        PROVE  ServiceInv' /\ call' = call
    BY <1>1, RefuseInv, HitInv
  <1>2. ASSUME NEW r \in Requests, Follow(h, r) \/ Lead(h, r)
        PROVE  /\ ServiceInv' /\ call[h] = "idle"
               /\ \E c \in {"lead", "follow"} : call' = [call EXCEPT ![h] = c]
    BY <1>2, FollowInv, LeadInv
  <1>3. ASSUME Answer(h) \/ GiveUp(h)
        PROVE  ServiceInv' /\ call[h] = "follow" /\ call' = [call EXCEPT ![h] = "idle"]
    BY <1>3, AnswerInv, GiveUpInv
  <1>4. \/ ServiceInv' /\ call' = call
        \/ /\ ServiceInv' /\ call[h] = "idle"
           /\ \E c \in {"lead", "follow"} : call' = [call EXCEPT ![h] = c]
        \/ ServiceInv' /\ call[h] = "follow" /\ call' = [call EXCEPT ![h] = "idle"]
    BY <1>1, <1>2, <1>3 DEF HandlerStep
  <1> QED
    BY <1>0, <1>4

LEMMA NextSafe ==
    ASSUME ServiceInv, Next
    PROVE  /\ ServiceInv'
           /\ \A u \in Handlers : call[u] = "lead" /\ call'[u] = "idle" => Planned(u)
  <1>0. call \in [Handlers -> {"idle", "lead", "follow"}]
    BY DEF ServiceInv, ServiceTypeOK
  <1>1. CASE \E h \in Handlers : HandlerStep(h)
    BY <1>1, HandlerSafe
  <1>2. CASE \E h \in Handlers : UpstreamStep(h)
    <2>1. PICK h \in Handlers : UpstreamStep(h)
      BY <1>2
    <2>2. Sound(h)
      BY <2>1, UpstreamSound
    <2>3. /\ ServiceInv'
          /\ call' = call \/ (call' = [call EXCEPT ![h] = "idle"] /\ Planned(h))
      BY <2>2 DEF Sound, Ends, cacheVars, Cache!Complete
    <2> QED
      BY <1>0, <2>3
  <1>3. CASE Tick
    <2>1. UNCHANGED <<kept, call, key, got, request, work>>
      BY <1>3 DEF Tick, Cache!Tick
    <2> QED
      BY <1>0, <2>1, IdleInv
  <1> QED
    BY <1>1, <1>2, <1>3 DEF Next

LEMMA InitInv == Init => ServiceInv
  <1> SUFFICES ASSUME Init PROVE ServiceInv
    OBVIOUS
  <1>1. /\ kept = [k \in Keys |-> None] /\ call = [h \in Handlers |-> "idle"]
        /\ request = [h \in Handlers |-> None] /\ work = [h \in Handlers |-> NoWork]
        /\ DOMAIN key = Handlers /\ DOMAIN got = Handlers
    BY DEF Init, Cache!Init
  <1>2. None \notin Accepted
    BY NoneAssumption DEF Accepted
  <1>3. ServiceTypeOK
    BY <1>1, NoWorkFacts DEF ServiceTypeOK
  <1>4. KeptFits /\ GotFits /\ CallsFit
    BY <1>1, <1>2 DEF KeptFits, GotFits, CallsFit
  <1> QED
    BY <1>3, <1>4 DEF ServiceInv

THEOREM ServiceInvariance == Spec => []ServiceInv
  <1>1. ServiceInv /\ [Next]_vars => ServiceInv'
    <2> SUFFICES ASSUME ServiceInv, [Next]_vars PROVE ServiceInv'
      OBVIOUS
    <2>1. CASE Next
      BY <2>1, NextSafe
    <2>2. CASE UNCHANGED vars
      <3>1. UNCHANGED <<kept, call, key, got, request, work>>
        BY <2>2 DEF vars, cacheVars
      <3> QED
        BY <3>1, IdleInv
    <2> QED
      BY <2>1, <2>2
  <1> QED
    BY InitInv, <1>1, PTL DEF Spec

\* An answer to a caller with no '&' in his texts is to his question: the zones it picks
\* from one roster and no others, whoever's fan-out in service.py it stems from and
\* whatever the texts of that one.
THEOREM AnswersAreToTheQuestion == Spec => []AnswersTheQuestion
  <1>1. ServiceInv => AnswersTheQuestion
    <2> SUFFICES ASSUME ServiceInv, NEW h \in Handlers, Ok(h), Plain(request[h])
                 PROVE  LET a == got[h].what
                        IN  /\ a.path = request[h].path
                            /\ a.rows = {[zone |-> z, status |-> a.roster[z]] :
                                            z \in Picked(request[h], a.roster)}
      BY DEF AnswersTheQuestion
    <2>1. Right(got[h].what, request[h])
      BY DEF Ok, Answered, ServiceInv, GotFits, Fits
    <2> QED
      BY <2>1 DEF Right, Shown
  <1> QED
    BY ServiceInvariance, <1>1, PTL

\* For a caller with no '&' in his texts, the window of the figures ends where his does
\* and is widened by _clamp_window no more and no less than api_min_window_days asks,
\* also when another request with the same clamped window led the fan-out.
THEOREM WindowsAreCovered == Spec => []CoversTheWindow
  <1>1. ServiceInv => CoversTheWindow
    <2> SUFFICES ASSUME ServiceInv, NEW h \in Handlers, Ok(h), Plain(request[h]),
                        request[h].path # "account",
                        {request[h].from, request[h].to} \cap Oddities = {}
                 PROVE  LET r == request[h]
                            w == got[h].what.window
                        IN  /\ w[2] = r.to
                            /\ MinDays > 0 => w[2] - w[1] >= MinDays
                            /\ w[1] # r.from => w[2] - w[1] = MinDays /\ w[1] < r.from
      BY DEF CoversTheWindow
    <2> DEFINE f == request[h].from
               g == request[h].to
    <2>1. request[h] \in Accepted /\ Right(got[h].what, request[h])
      BY DEF Ok, Answered, ServiceInv, GotFits, Fits
    <2>2. got[h].what.window = Clamp(f, g)
      BY <2>1 DEF Right
    <2>3. f \in Nat /\ g \in Nat /\ MinDays \in Nat /\ {f, g} \cap Oddities = {}
      BY <2>1, RequestsAssumption, SettingsAssumption DEF Accepted
    <2> HIDE DEF f, g
    <2>4. TooShort(f, g) <=> MinDays > 0 /\ g - f < MinDays
      BY <2>3 DEF TooShort
    <2>5. CASE TooShort(f, g)
      <3>1. Clamp(f, g)[1] = g - MinDays /\ Clamp(f, g)[2] = g
        BY <2>5 DEF Clamp
      <3> QED
        BY <2>2, <2>3, <2>4, <2>5, <3>1 DEF f, g
    <2>6. CASE ~TooShort(f, g)
      <3>1. Clamp(f, g)[1] = f /\ Clamp(f, g)[2] = g
        BY <2>6 DEF Clamp
      <3> QED
        BY <2>2, <2>3, <2>4, <2>6, <3>1 DEF f, g
    <2> QED
      BY <2>5, <2>6
  <1> QED
    BY ServiceInvariance, <1>1, PTL

\* A 400 or 404 that upstream did not send is about the filter or the zone its
\* receiver named himself, though response_cache shares errors, as long as his own
\* texts have no '&'.
THEOREM FaultsAreOnesOwn == Spec => []ToldOwnFaults
  <1>1. ServiceInv => ToldOwnFaults
    <2> SUFFICES ASSUME ServiceInv, NEW h \in Handlers, Answered(h), Plain(request[h]),
                        Code(h) \in {400, 404} \ {Surface(c) : c \in UpstreamCodes}
                 PROVE  IF Code(h) = 400
                        THEN request[h].path = "zones" /\ ~Compiles(request[h])
                        ELSE /\ request[h].path = "detail"
                             /\ \E R \in Rosters : R[request[h].zone] = "absent"
      BY DEF ToldOwnFaults
    <2>1. request[h] \in Accepted /\ Fits(got[h], KeyOf(request[h]))
      BY DEF Answered, ServiceInv, GotFits
    <2>2. Code(h) = got[h].what.status
      BY <2>1 DEF Code
    <2>3. got[h].kind # "value"
      BY <2>1, <2>2 DEF Fits, Right
    <2>4. Fault(Code(h), request[h])
      BY <2>1, <2>2, <2>3 DEF Fits
    <2> QED
      BY <2>4 DEF Fault
  <1> QED
    BY ServiceInvariance, <1>1, PTL

\* Whatever becomes of a fan-out, it has made the upstream calls its answer takes
\* and no more, and one only when it finds the filter or the zone wrong.
THEOREM SpendingIsPlanned == Spec => SpendsWithinPlan
  <1>1. ServiceInv /\ [Next]_vars =>
          [\A h \in Handlers : call[h] = "lead" /\ call'[h] = "idle" => Planned(h)]_vars
    BY NextSafe
  <1>2. ServiceInv /\ [Next]_vars =>
          [\A h \in Handlers : call[h] = "lead" /\ call'[h] = "idle" =>
              LET made == work[h].made + 1
                  o == got'[h]
              IN  /\ o.kind = "value" => made = Cost(request[h], o.what.roster)
                  /\ o.what.status \in {400, 404} \ {Surface(c) : c \in UpstreamCodes}
                        => made = 1
                  /\ work[h].roster # NoRoster =>
                        made <= Cost(request[h], work[h].roster)]_vars
    BY <1>1 DEF Planned
  <1> QED
    BY ServiceInvariance, <1>2, PTL DEF Spec, SpendsWithinPlan

----------------------------------------------------------------------------
\* The flights: each has its leader, every leader his, and who waits has one that
\* began no later than his call.  Only giving up is a time-out.
FlightInv ==
    /\ clock \in 0 .. MaxClock /\ DOMAIN flight = Keys
    /\ since \in [Handlers -> 0 .. clock]
    /\ \A k \in Keys : flight[k] # None =>
          flight[k] \in Handlers /\ call[flight[k]] = "lead" /\ key[flight[k]] = k
    /\ \A h \in Handlers : call[h] = "lead" => flight[key[h]] = h
    /\ \A h \in Handlers : call[h] = "follow" /\ got[h] = None =>
          flight[key[h]] # None /\ since[flight[key[h]]] <= since[h]
    /\ \A k \in Keys : kept[k] # None => kept[k].kind # "timeout"
    /\ \A h \in Handlers : call[h] = "follow" /\ got[h] # None => got[h].kind # "timeout"

LEMMA CallKeys ==
    ASSUME ServiceInv, NEW h \in Handlers, call[h] # "idle"
    PROVE  key[h] \in Keys
  BY DEF ServiceInv, CallsFit, Keys

LEMMA OutcomeFacts ==
    ASSUME ServiceInv, FlightInv, NEW h \in Handlers, call[h] # "idle",
           NEW kind \in {"value", "error", "timeout"}, NEW what \in Told
    PROVE  LET o == Cache!Outcome(h, kind, what)
           IN  o # None /\ o.kind = kind
  <1> DEFINE o == Cache!Outcome(h, kind, what)
  <1>1. key[h] \in Keys /\ since[h] \in Nat /\ clock \in Nat
    BY CallKeys DEF FlightInv
  <1>2. o \in Outcomes /\ o.kind = kind
    BY <1>1 DEF Cache!Outcome, Outcomes
  <1> QED
    BY <1>2, NoneAssumption

LEMMA BeginFlights ==
    ASSUME ServiceInv, FlightInv, NEW h \in Handlers, NEW r \in Requests,
           Refuse(h, r) \/ Hit(h, r)
    PROVE  FlightInv'
  <1>1. /\ call[h] = "idle" /\ UNCHANGED <<clock, flight, kept, call>>
        /\ \A u \in Handlers \ {h} : key'[u] = key[u] /\ got'[u] = got[u]
        /\ \E s \in {0, clock} : since' = [since EXCEPT ![h] = s]
    BY DEF Refuse, Hit, Take, Cache!Hit, Cache!Begin, ServiceInv, ServiceTypeOK
  <1>2. clock \in Nat
    BY DEF FlightInv
  <1>3. since' \in [Handlers -> 0 .. clock] /\ \A u \in Handlers \ {h} : since'[u] = since[u]
    BY <1>1, <1>2 DEF FlightInv
  <1>4. \A u \in Handlers : call[u] # "idle" => u # h /\ key[u] \in Keys
    BY <1>1, CallKeys
  <1> QED
    BY <1>1, <1>3, <1>4 DEF FlightInv

LEMMA MissFlights ==
    ASSUME ServiceInv, FlightInv, NEW h \in Handlers, NEW r \in Requests,
           Follow(h, r) \/ Lead(h, r)
    PROVE  FlightInv'
  <1> DEFINE k == KeyOf(r)
  <1>1. /\ call[h] = "idle" /\ r \in Accepted /\ clock' = clock
        /\ key' = [key EXCEPT ![h] = k] /\ since' = [since EXCEPT ![h] = clock]
        /\ got' = [got EXCEPT ![h] = None] /\ kept' = [kept EXCEPT ![k] = None]
        /\ \/ /\ flight[k] # None /\ flight' = flight
              /\ call' = [call EXCEPT ![h] = "follow"]
           \/ /\ flight[k] = None /\ flight' = [flight EXCEPT ![k] = h]
              /\ call' = [call EXCEPT ![h] = "lead"]
    BY DEF Follow, Lead, Take, Cache!Follow, Cache!Lead, Cache!Miss, Cache!Begin
  <1>2. k \in Keys
    BY <1>1 DEF Keys
  <1> HIDE DEF k
  <1>3. clock \in Nat /\ \A u \in Handlers : since[u] \in Nat /\ since[u] <= clock
    BY DEF FlightInv
  <1>4. h # None
    BY NoneAssumption
  <1>5. /\ since' \in [Handlers -> 0 .. clock] /\ DOMAIN flight' = Keys
        /\ \A u \in Handlers :
              /\ key'[u] = IF u = h THEN k ELSE key[u]
              /\ since'[u] = IF u = h THEN clock ELSE since[u]
              /\ got'[u] = IF u = h THEN None ELSE got[u]
              /\ u # h => call'[u] = call[u]
        /\ \A j \in Keys : kept'[j] # None => kept'[j] = kept[j]
    BY <1>1, <1>3 DEF FlightInv, ServiceInv, ServiceTypeOK
  <1>6. \A u \in Handlers : call[u] # "idle" => u # h /\ key[u] \in Keys
    BY <1>1, CallKeys
  <1>7. CASE flight[k] # None /\ flight' = flight /\ call' = [call EXCEPT ![h] = "follow"]
    <2>1. call'[h] = "follow"
      BY <1>7 DEF ServiceInv, ServiceTypeOK
    <2>2. \A j \in Keys : flight[j] # None =>
             /\ flight[j] \in Handlers /\ flight[j] # h
             /\ call[flight[j]] = "lead" /\ key[flight[j]] = j
      BY <1>1 DEF FlightInv
    <2> QED
      BY <1>1, <1>2, <1>3, <1>5, <1>6, <1>7, <2>1, <2>2 DEF FlightInv
  <1>8. CASE /\ flight[k] = None /\ flight' = [flight EXCEPT ![k] = h]
             /\ call' = [call EXCEPT ![h] = "lead"]
    <2>1. call'[h] = "lead"
      BY <1>8 DEF ServiceInv, ServiceTypeOK
    <2>2. \A j \in Keys : flight'[j] = IF j = k THEN h ELSE flight[j]
      BY <1>8 DEF FlightInv
    <2>3. \A j \in Keys : flight[j] # None =>
             /\ flight[j] \in Handlers /\ flight[j] # h
             /\ call[flight[j]] = "lead" /\ key[flight[j]] = j
      BY <1>1 DEF FlightInv
    <2>4. \A j \in Keys : flight'[j] # None =>
             flight'[j] \in Handlers /\ call'[flight'[j]] = "lead" /\ key'[flight'[j]] = j
      BY <1>5, <2>1, <2>2, <2>3
    <2>5. \A u \in Handlers : call'[u] = "lead" => flight'[key'[u]] = u
      <3> SUFFICES ASSUME NEW u \in Handlers, call'[u] = "lead" PROVE flight'[key'[u]] = u
        OBVIOUS
      <3>1. CASE u = h
        BY <1>2, <1>5, <2>2, <3>1
      <3>2. CASE u # h
        <4>1. call[u] = "lead" /\ key'[u] = key[u] /\ key[u] \in Keys
          BY <1>5, <1>6, <3>2
        <4>2. flight[key[u]] = u /\ u # None
          BY <4>1, NoneAssumption DEF FlightInv
        <4> QED
          BY <1>8, <2>2, <4>1, <4>2
      <3> QED
        BY <3>1, <3>2
    <2>6. ASSUME NEW u \in Handlers, call'[u] = "follow"
          PROVE  /\ got'[u] = None => flight'[key'[u]] # None
                                      /\ since'[flight'[key'[u]]] <= since'[u]
                 /\ got'[u] # None => got'[u].kind # "timeout"
      <3>1. u # h /\ call[u] = "follow" /\ key[u] \in Keys
        BY <1>5, <1>6, <2>1, <2>6
      <3>2. key'[u] = key[u] /\ got'[u] = got[u] /\ since'[u] = since[u]
        BY <1>5, <3>1
      <3>3. CASE got[u] = None
        <4> DEFINE j == key[u]
        <4>1. flight[j] # None /\ since[flight[j]] <= since[u]
          BY <3>1, <3>3 DEF FlightInv
        <4>2. j # k /\ flight[j] \in Handlers /\ flight[j] # h
          BY <1>8, <2>3, <3>1, <4>1
        <4>3. flight'[j] = flight[j] /\ since'[flight[j]] = since[flight[j]]
          BY <1>5, <2>2, <3>1, <4>2
        <4> QED
          BY <3>2, <3>3, <4>1, <4>3
      <3>4. CASE got[u] # None
        BY <3>1, <3>2, <3>4 DEF FlightInv
      <3> QED
        BY <3>3, <3>4
    <2>7. \A j \in Keys : kept'[j] # None => kept'[j].kind # "timeout"
      BY <1>5 DEF FlightInv
    <2>8. clock' \in 0 .. MaxClock /\ since' \in [Handlers -> 0 .. clock']
      BY <1>1, <1>5 DEF FlightInv
    <2> QED
      BY <1>5, <2>4, <2>5, <2>6, <2>7, <2>8 DEF FlightInv
  <1> QED
    BY <1>1, <1>7, <1>8

LEMMA EndFlights ==
    ASSUME ServiceInv, FlightInv, NEW h \in Handlers, Answer(h) \/ GiveUp(h)
    PROVE  FlightInv'
  <1>1. /\ call[h] = "follow" /\ call' = [call EXCEPT ![h] = "idle"]
        /\ UNCHANGED <<clock, flight, kept, key, since>>
        /\ \A u \in Handlers \ {h} : got'[u] = got[u]
    BY DEF Answer, GiveUp, Cache!Answer, Cache!GiveUp, ServiceInv, ServiceTypeOK
  <1>2. \A u \in Handlers : call'[u] = IF u = h THEN "idle" ELSE call[u]
    BY <1>1 DEF ServiceInv, ServiceTypeOK
  <1>3. \A u \in Handlers : call[u] # "idle" => key[u] \in Keys
    BY CallKeys
  <1> QED
    BY <1>1, <1>2, <1>3 DEF FlightInv

LEMMA CompleteFlights ==
    ASSUME ServiceInv, FlightInv, NEW h \in Handlers, Ends(h)
    PROVE  /\ FlightInv' /\ call[h] = "lead" /\ clock' = clock /\ since' = since
           /\ \A u \in Handlers : call'[u] = IF u = h THEN "idle" ELSE call[u]
           /\ \A u \in Handlers \ {h} : got'[u] # got[u] => u \in Cache!Followers(h)
  <1>1. PICK kind \in {"value", "error"}, what \in Told : Cache!Complete(h, kind, what)
    BY DEF Ends
  <1> DEFINE o == Cache!Outcome(h, kind, what)
  <1>2. /\ call[h] = "lead" /\ flight' = [flight EXCEPT ![key[h]] = None]
        /\ call' = [call EXCEPT ![h] = "idle"]
        /\ got' = [u \in Handlers |-> IF u = h \/ u \in Cache!Followers(h) THEN o ELSE got[u]]
        /\ IF kind = "value" THEN Cache!Keep(key[h], o) ELSE UNCHANGED kept
        /\ UNCHANGED <<clock, key, since>>
    BY <1>1 DEF Cache!Complete
  <1>3. o # None /\ o.kind # "timeout"
    BY <1>2, OutcomeFacts
  <1>4. \A u \in Handlers : u \in Cache!Followers(h) <=>
            call[u] = "follow" /\ key[u] = key[h] /\ got[u] = None
    BY DEF Cache!Followers
  <1> HIDE DEF o
  <1>5. \A u \in Handlers : call'[u] = IF u = h THEN "idle" ELSE call[u]
    BY <1>2 DEF ServiceInv, ServiceTypeOK
  <1>6. \A u \in Handlers : call[u] # "idle" => key[u] \in Keys
    BY CallKeys
  <1>7. \A j \in Keys : flight'[j] = IF j = key[h] THEN None ELSE flight[j]
    BY <1>2 DEF FlightInv
  <1>8. \A j \in Keys : kept'[j] # None => kept'[j] = o \/ kept'[j] = kept[j]
    <2>1. CASE kind = "value"
      <3>1. PICK lost \in SUBSET Keys :
               kept' = [j \in Keys |-> IF j \in lost THEN None ELSE [kept EXCEPT ![key[h]] = o][j]]
        BY <1>2, <2>1 DEF Cache!Keep, Cache!Held
      <3> QED
        BY <3>1 DEF ServiceInv, ServiceTypeOK
    <2>2. CASE kind # "value"
      BY <1>2, <2>2
    <2> QED
      BY <2>1, <2>2
  <1>9. \A j \in Keys : kept'[j] # None => kept'[j].kind # "timeout"
    BY <1>3, <1>8 DEF FlightInv
  <1>10. DOMAIN flight' = Keys
    BY <1>2 DEF FlightInv
  <1>11. \A u \in Handlers : call'[u] = "lead" => flight'[key'[u]] = u
    BY <1>2, <1>5, <1>6, <1>7 DEF FlightInv
  <1>12. \A j \in Keys : flight'[j] # None =>
            flight'[j] \in Handlers /\ call'[flight'[j]] = "lead" /\ key'[flight'[j]] = j
    BY <1>2, <1>5, <1>6, <1>7 DEF FlightInv
  <1>13. ASSUME NEW u \in Handlers, call'[u] = "follow"
         PROVE  /\ got'[u] = None => flight'[key'[u]] # None
                                     /\ since'[flight'[key'[u]]] <= since'[u]
                /\ got'[u] # None => got'[u].kind # "timeout"
    <2>1. call[u] = "follow" /\ u # h /\ key[u] \in Keys
      BY <1>5, <1>6, <1>13
    <2>2. CASE u \in Cache!Followers(h)
      BY <1>2, <1>3, <2>2
    <2>3. CASE u \notin Cache!Followers(h)
      <3>1. got'[u] = got[u]
        BY <1>2, <2>1, <2>3
      <3>2. got[u] = None => key[u] # key[h]
        BY <1>4, <2>1, <2>3
      <3> QED
        BY <1>2, <1>7, <2>1, <3>1, <3>2 DEF FlightInv
    <2> QED
      BY <2>2, <2>3
  <1>14. FlightInv'
    BY <1>2, <1>9, <1>10, <1>11, <1>12, <1>13 DEF FlightInv
  <1> QED
    BY <1>2, <1>5, <1>14

LEMMA TickFlights ==
    ASSUME FlightInv, Tick
    PROVE  FlightInv'
  <1>1. /\ clock < MaxClock /\ clock' = clock + 1
        /\ UNCHANGED <<flight, kept, call, key, since, got>>
    BY DEF Tick, Cache!Tick
  <1>2. clock' \in 0 .. MaxClock /\ since' \in [Handlers -> 0 .. clock']
    BY <1>1, TimesAssumption DEF FlightInv
  <1> QED
    BY <1>1, <1>2 DEF FlightInv

LEMMA NextFlights ==
    ASSUME ServiceInv, FlightInv, Next
    PROVE  FlightInv'
  <1>1. ASSUME NEW h \in Handlers, HandlerStep(h) PROVE FlightInv'
    BY <1>1, BeginFlights, MissFlights, EndFlights DEF HandlerStep
  <1>2. ASSUME NEW h \in Handlers, UpstreamStep(h) PROVE FlightInv'
    <2>1. UNCHANGED cacheVars \/ Ends(h)
      BY <1>2, UpstreamSound DEF Sound
    <2>2. CASE UNCHANGED cacheVars
      BY <2>2 DEF cacheVars, FlightInv
    <2> QED
      BY <2>1, <2>2, CompleteFlights
  <1> QED
    BY <1>1, <1>2, TickFlights DEF Next

LEMMA InitFlights == Init => FlightInv
  BY TimesAssumption DEF Init, Cache!Init, FlightInv

THEOREM FlightInvariance == Spec => []FlightInv
  <1>1. ServiceInv /\ FlightInv /\ [Next]_vars => FlightInv'
    <2> SUFFICES ASSUME ServiceInv, FlightInv, [Next]_vars PROVE FlightInv'
      OBVIOUS
    <2>1. CASE UNCHANGED vars
      BY <2>1 DEF vars, cacheVars, FlightInv
    <2> QED
      BY <2>1, NextFlights
  <1> QED
    BY ServiceInvariance, InitFlights, <1>1, PTL DEF Spec

\* A fan-out makes no more calls than two lists and two per zone, and two more.
LEMMA MadeBound ==
    ASSUME NEW r \in Accepted, NEW w \in Works, w.at # "none", Stage(r, w)
    PROVE  w.made <= 3 + 2 * Cardinality(Zones)
  <1> DEFINE n == Cardinality(Zones)
  <1>1. n \in Nat /\ n >= 1
    BY AcceptedFacts, ZonesAssumption, FS_CardinalityType, FS_EmptySet
  <1>2. w.at \in Calls
    BY DEF Works
  <1>3. CASE w.at \in {"balance", "status", "roster"}
    BY <1>1, <1>3 DEF Stage, Opening
  <1>4. CASE w.at = "bandwidth"
    BY <1>1, <1>4 DEF Stage, Listed
  <1>5. CASE w.at \in {"info", "cost"}
    <2> DEFINE d == Cardinality(Picked(r, w.roster) \ (w.todo \cup {w.zone}))
               p == Cardinality(Picked(r, w.roster))
    <2>1. InRow(r, w)
      BY <1>5 DEF Stage
    <2>2. d \in Nat /\ d + 1 <= p
      BY <2>1, RowCount
    <2>3. p \in Nat /\ p <= n
      BY PickedZones, ZonesAssumption, FS_Subset
    <2>4. w.made = (IF w.at = "info" THEN 2 ELSE 3) + 2 * d
      BY <2>1 DEF InRow
    <2> HIDE DEF d, p, n
    <2> QED
      BY <1>1, <2>2, <2>3, <2>4 DEF n
  <1>6. CASE w.at \in {"ips", "vips"}
    BY <1>1, <1>6 DEF Stage, Closing
  <1> QED
    BY <1>2, <1>3, <1>4, <1>5, <1>6 DEF Calls

LEMMA TypesHold == ServiceInv /\ FlightInv => TypeOK
  <1> SUFFICES ASSUME ServiceInv, FlightInv PROVE TypeOK
    OBVIOUS
  <1>1. /\ clock \in 0 .. MaxClock /\ DOMAIN flight = Keys /\ DOMAIN kept = Keys
        /\ call \in [Handlers -> {"idle", "lead", "follow"}]
        /\ request \in [Handlers -> Requests \cup {None}]
    BY DEF ServiceInv, ServiceTypeOK, FlightInv
  <1>2. ASSUME NEW h \in Handlers
        PROVE  /\ work[h].at \in Calls \cup {"none"}
               /\ work[h].at = "none" <=> call[h] # "lead"
               /\ work[h].roster \in AllRosters /\ work[h].todo \subseteq Zones
               /\ work[h].made \in 0 .. 2 + 2 * Cardinality(Zones) + 2
    <2> DEFINE n == Cardinality(Zones)
               m == work[h].made
    <2>1. n \in Nat
      BY ZonesAssumption, FS_CardinalityType
    <2>2. work[h] \in Works
      BY DEF ServiceInv, ServiceTypeOK
    <2>3. /\ work[h].at \in Calls \cup {"none"} /\ work[h].roster \in AllRosters
          /\ work[h].todo \subseteq Zones /\ m \in Nat
      BY <2>2 DEF Works
    <2>4. CASE call[h] = "lead"
      <3>1. request[h] \in Accepted /\ work[h].at # "none" /\ Stage(request[h], work[h])
        BY <2>4, LeaderFacts
      <3>2. m <= 3 + 2 * n
        BY <2>2, <3>1, MadeBound
      <3> HIDE DEF m, n
      <3>3. m \in 0 .. 2 + 2 * n + 2
        BY <2>1, <2>3, <3>2
      <3> QED
        BY <2>3, <2>4, <3>1, <3>3 DEF m, n
    <2>5. CASE call[h] # "lead"
      <3>1. work[h].at = "none" /\ m = 0
        BY <2>5, NoWorkFacts DEF ServiceInv, CallsFit
      <3> HIDE DEF m, n
      <3>2. m \in 0 .. 2 + 2 * n + 2
        BY <2>1, <3>1
      <3> QED
        BY <2>3, <2>5, <3>1, <3>2 DEF m, n
    <2> QED
      BY <2>4, <2>5
  <1> QED
    BY <1>1, <1>2 DEF TypeOK

\* The REST half keeps its types: a handler works while it leads, and only then,
\* and its fan-out is bounded by the zones of the account.
THEOREM ServiceTypes == Spec => []TypeOK
  BY ServiceInvariance, FlightInvariance, TypesHold, PTL
============================================================================
