---------------------------- MODULE ExporterProofs ----------------------------
(***************************************************************************)
(* The exporter's safety for any handlers, requests, rosters and paces.    *)
(* How long a fan-out or a cycle may take is said of every instant, not of *)
(* its calls, so a step of somebody else can break it; and the share of a  *)
(* time-out counts the threads other than the follower, who has not        *)
(* queued.  ScheduleInv says both at once: of any set of threads outside   *)
(* which nobody has led, that a call under way ends within its slot and    *)
(* MaxLag, and how late each leader and the cycle can be with each call.   *)
(***************************************************************************)
EXTENDS Exporter, ServiceProofs

Beyond(t) == {c \in Waiting : slot[c] > t}

\* The limiter's queue, as RateLimiterProofs has it, and who is in it.
LimiterInv ==
    /\ last \in 0 .. MaxClock
    /\ pc \in [Threads -> {"idle", "waiting"}]
    /\ slot \in [Threads -> 0 .. MaxClock]
    /\ cycle \in 0 .. CycleCalls /\ begun \in 0 .. clock
    /\ \A c \in Waiting : NeedsCall(c) /\ slot[c] <= last /\ clock <= slot[c] + MaxLag
    /\ \A t \in Nat : t >= clock => last <= t + MinInterval * Cardinality(Beyond(t))

\* A handler that has led nothing.
Fresh(h) == request[h] = None \/ call[h] = "follow"

\* Nobody outside S has made a call.
Crowd(S) == \A c \in Threads \ S : c \in Handlers /\ Fresh(c)

\* Leaders and the cycle are no more than t late with each call.
OnSchedule(t) ==
    /\ \A h \in Handlers : call[h] = "lead" =>
          /\ pc[h] = "idle" => clock - since[h] <= work[h].made * t
          /\ pc[h] = "waiting" => slot[h] + MaxLag - since[h] <= (work[h].made + 1) * t
    /\ cycle < CycleCalls =>
          /\ pc[collector] = "idle" => clock - begun <= cycle * t
          /\ pc[collector] = "waiting" => slot[collector] + MaxLag - begun <= (cycle + 1) * t

ScheduleInv == \A S \in SUBSET Threads : Crowd(S) => OnSchedule(CallTime(Cardinality(S)))

\* h has waited no longer than the calls of its request take the others.
WithinShare(h) ==
    \E R \in Rosters :
        clock - since[h] <= Cost(request[h], R) * CallTime(Cardinality(Threads) - 1)

\* Who has been given an answer, and no '&' in his texts, was given it in time.
Delivered ==
    \A h \in Handlers :
        call[h] = "follow" /\ got[h] # None /\ Plain(request[h]) => WithinShare(h)

ExporterInv ==
    ServiceInv /\ FlightInv /\ LimiterInv /\ ScheduleInv /\ Delivered /\ TimeOutsAreEarned

----------------------------------------------------------------------------
LEMMA ThreadFacts ==
    /\ IsFiniteSet(Threads) /\ Cardinality(Threads) \in Nat \ {0}
    /\ \A S \in SUBSET Threads : IsFiniteSet(S) /\ Cardinality(S) \in Nat
    /\ \A h \in Handlers : Cardinality(Threads \ {h}) = Cardinality(Threads) - 1
  <1>1. IsFiniteSet(Threads)
    BY WiringAssumption, FS_AddElement DEF Threads
  <1>2. \A S \in SUBSET Threads : IsFiniteSet(S) /\ Cardinality(S) \in Nat
    BY <1>1, FS_Subset, FS_CardinalityType
  <1>3. Threads # {}
    BY DEF Threads
  <1>4. Cardinality(Threads) \in Nat \ {0}
    BY <1>1, <1>2, <1>3, FS_EmptySet
  <1>5. \A h \in Handlers : Cardinality(Threads \ {h}) = Cardinality(Threads) - 1
    BY <1>1, FS_RemoveElement DEF Threads
  <1> QED
    BY <1>1, <1>2, <1>4, <1>5

LEMMA CallTimeFacts ==
    ASSUME NEW n \in Nat
    PROVE  /\ CallTime(n) \in Nat /\ CallTime(n) = MinInterval * n + MaxLag
           /\ MinInterval * n \in Nat
  BY WiringAssumption DEF CallTime

LEMMA Times ==
    ASSUME NEW t \in Nat, NEW a \in Nat
    PROVE  a * t \in Nat /\ (a + 1) * t = a * t + t /\ 0 * t = 0
  OBVIOUS

LEMMA TimesMonotone ==
    ASSUME NEW t \in Nat, NEW a \in Nat, NEW b \in Nat, a <= b
    PROVE  a * t <= b * t
  OBVIOUS

LEMMA Intervals ==
    ASSUME NEW a \in Nat, NEW b \in Nat, a <= b
    PROVE  /\ MinInterval * a \in Nat
           /\ MinInterval * a <= MinInterval * b
           /\ MinInterval * (a + 1) = MinInterval * a + MinInterval
  BY WiringAssumption

\* The numbers of a state.
LEMMA Numbers ==
    ASSUME ServiceInv, FlightInv, LimiterInv
    PROVE  /\ clock \in Nat /\ clock <= MaxClock /\ last \in Nat /\ cycle \in Nat /\ begun \in Nat
           /\ begun <= clock
           /\ MaxLag \in Nat /\ MinInterval \in Nat /\ MaxClock \in Nat /\ FlightTimeout \in Nat
           /\ \A c \in Threads : slot[c] \in Nat
           /\ \A h \in Handlers : since[h] \in Nat /\ since[h] <= clock /\ work[h].made \in Nat
  <1>1. \A h \in Handlers : work[h].made \in Nat
    BY DEF ServiceInv, ServiceTypeOK, Works
  <1>2. clock \in Nat /\ \A h \in Handlers : since[h] \in Nat /\ since[h] <= clock
    BY DEF FlightInv
  <1>3. /\ last \in Nat /\ cycle \in Nat /\ begun \in Nat /\ begun <= clock
        /\ \A c \in Threads : slot[c] \in Nat
    BY <1>2 DEF LimiterInv
  <1> QED
    BY <1>1, <1>2, <1>3, WiringAssumption, TimesAssumption DEF FlightInv

----------------------------------------------------------------------------
\* What the steps of Service do to the clockwork of the others.

\* A handler at the door of the cache touches its own call only, and leads
\* nothing yet.
LEMMA HandlerFacts ==
    ASSUME ServiceInv, FlightInv, NEW h \in Handlers, HandlerStep(h)
    PROVE  /\ call[h] # "lead" /\ clock' = clock
           /\ \A u \in Handlers \ {h} :
                 /\ call'[u] = call[u] /\ since'[u] = since[u] /\ request'[u] = request[u]
                 /\ work'[u] = work[u] /\ got'[u] = got[u]
           /\ call'[h] = "lead" => since'[h] = clock /\ work'[h].made = 0
           /\ call'[h] = "follow" => got'[h] = None
           /\ call[h] = "idle" => request'[h] # None
           /\ call[h] # "idle" => call'[h] = "idle" /\ request'[h] = request[h]
           /\ request'[h] \in Accepted /\ call'[h] = "idle" /\ got'[h].kind = "timeout" =>
                 /\ call[h] = "follow" /\ clock >= since[h] + FlightTimeout
                 /\ request'[h] = request[h]
  <1>1. /\ DOMAIN key = Handlers /\ DOMAIN got = Handlers /\ DOMAIN since = Handlers
        /\ DOMAIN call = Handlers /\ DOMAIN request = Handlers /\ DOMAIN work = Handlers
        /\ DOMAIN kept = Keys
    BY DEF ServiceInv, ServiceTypeOK, FlightInv
  <1>2. \A r \in Requests : r # None
    BY NoneAssumption
  <1>3. ASSUME NEW r \in Requests, Refuse(h, r)
        PROVE  /\ call[h] = "idle" /\ UNCHANGED <<clock, call, work>>
               /\ request' = [request EXCEPT ![h] = r] /\ r \notin Accepted
               /\ got' = [got EXCEPT ![h] = None] /\ since' = [since EXCEPT ![h] = 0]
    BY <1>3 DEF Refuse, Take
  <1>4. ASSUME NEW r \in Requests, Hit(h, r)
        PROVE  /\ call[h] = "idle" /\ UNCHANGED <<clock, call, work>>
               /\ request' = [request EXCEPT ![h] = r]
               /\ since' = [since EXCEPT ![h] = clock]
               /\ got' = [got EXCEPT ![h] = kept[KeyOf(r)]] /\ kept[KeyOf(r)].kind # "timeout"
    <2>1. KeyOf(r) \in Keys
      BY <1>4 DEF Hit, Keys
    <2> QED
      BY <1>4, <2>1 DEF Hit, Take, Cache!Hit, Cache!Begin, Cache!Live, FlightInv
  <1>5. ASSUME NEW r \in Requests, Follow(h, r)
        PROVE  /\ call[h] = "idle" /\ UNCHANGED <<clock, work>>
               /\ call' = [call EXCEPT ![h] = "follow"]
               /\ request' = [request EXCEPT ![h] = r]
               /\ got' = [got EXCEPT ![h] = None] /\ since' = [since EXCEPT ![h] = clock]
    BY <1>5 DEF Follow, Take, Cache!Follow, Cache!Miss, Cache!Begin
  <1>6. ASSUME NEW r \in Requests, Lead(h, r)
        PROVE  /\ call[h] = "idle" /\ clock' = clock
               /\ call' = [call EXCEPT ![h] = "lead"]
               /\ request' = [request EXCEPT ![h] = r]
               /\ got' = [got EXCEPT ![h] = None] /\ since' = [since EXCEPT ![h] = clock]
               /\ \A u \in Handlers \ {h} : work'[u] = work[u]
               /\ work'[h].made = 0
    <2> DEFINE a == IF r.path = "account" THEN "balance" ELSE "roster"
    <2>1. /\ call[h] = "idle" /\ clock' = clock
          /\ call' = [call EXCEPT ![h] = "lead"]
          /\ request' = [request EXCEPT ![h] = r]
          /\ got' = [got EXCEPT ![h] = None] /\ since' = [since EXCEPT ![h] = clock]
          /\ work' = [work EXCEPT ![h].at = a]
      BY <1>6 DEF Lead, Take, Cache!Lead, Cache!Miss, Cache!Begin
    <2> HIDE DEF a
    <2>2. work[h] = NoWork
      BY <2>1 DEF ServiceInv, CallsFit
    <2>3. work'[h] = [NoWork EXCEPT !.at = a] /\ \A u \in Handlers \ {h} : work'[u] = work[u]
      BY <1>1, <2>1, <2>2
    <2>4. work'[h].made = 0
      BY <2>3 DEF NoWork
    <2> QED
      BY <2>1, <2>3, <2>4
  <1>7. ASSUME Answer(h)
        PROVE  /\ call[h] = "follow" /\ UNCHANGED <<clock, since, got, request, work>>
               /\ call' = [call EXCEPT ![h] = "idle"] /\ got[h].kind # "timeout"
    BY <1>7 DEF Answer, Cache!Answer, FlightInv
  <1>8. ASSUME GiveUp(h)
        PROVE  /\ call[h] = "follow" /\ UNCHANGED <<clock, since, request, work>>
               /\ call' = [call EXCEPT ![h] = "idle"] /\ clock >= since[h] + FlightTimeout
               /\ \A u \in Handlers \ {h} : got'[u] = got[u]
    BY <1>1, <1>8 DEF GiveUp, Cache!GiveUp
  <1>9. CASE \E r \in Requests : Refuse(h, r)
    BY <1>1, <1>2, <1>3, <1>9
  <1>10. CASE \E r \in Requests : Hit(h, r)
    BY <1>1, <1>2, <1>4, <1>10
  <1>11. CASE \E r \in Requests : Follow(h, r)
    BY <1>1, <1>2, <1>5, <1>11
  <1>12. CASE \E r \in Requests : Lead(h, r)
    BY <1>1, <1>2, <1>6, <1>12
  <1>13. CASE Answer(h)
    BY <1>1, <1>7, <1>13
  <1>14. CASE GiveUp(h)
    BY <1>1, <1>8, <1>14
  <1> QED
    BY <1>9, <1>10, <1>11, <1>12, <1>13, <1>14 DEF HandlerStep

\* A fan-out's step makes one call, and gives an answer to its followers only.
LEMMA UpstreamFacts ==
    ASSUME ServiceInv, FlightInv, NEW h \in Handlers, UpstreamStep(h)
    PROVE  /\ call[h] = "lead" /\ clock' = clock /\ since' = since /\ request' = request
           /\ \A u \in Handlers \ {h} : work'[u] = work[u] /\ call'[u] = call[u]
           /\ call'[h] \in {"lead", "idle"}
           /\ call'[h] = "lead" => work'[h].made = work[h].made + 1
           /\ call'[h] = "idle" => got'[h].kind # "timeout"
           /\ \A u \in Handlers \ {h} : got'[u] # got[u] => u \in Cache!Followers(h)
  <1>1. Sound(h)
    BY UpstreamSound
  <1>2. call[h] = "lead"
    BY DEF UpstreamStep, BalanceReply, StatusReply, RosterReply, BandwidthReply, InfoReply,
           CostReply, IpsEnds, VipsEnds, UpstreamError, UpstreamRaises, Ended
  <1>3. CASE UNCHANGED cacheVars /\ work'[h].made = work[h].made + 1
    BY <1>1, <1>2, <1>3 DEF Sound, cacheVars
  <1>4. CASE Ends(h)
    <2>1. /\ clock' = clock /\ since' = since
          /\ \A u \in Handlers : call'[u] = IF u = h THEN "idle" ELSE call[u]
          /\ \A u \in Handlers \ {h} : got'[u] # got[u] => u \in Cache!Followers(h)
      BY <1>4, CompleteFlights
    <2>2. got'[h].kind # "timeout"
      <3>1. PICK kind \in {"value", "error"}, what \in Told : Cache!Complete(h, kind, what)
        BY <1>4 DEF Ends
      <3>2. got'[h] = Cache!Outcome(h, kind, what)
        BY <3>1 DEF Cache!Complete
      <3>3. Cache!Outcome(h, kind, what).kind = kind
        BY <1>2, OutcomeFacts
      <3> QED
        BY <3>2, <3>3
    <2> QED
      BY <1>1, <1>2, <2>1, <2>2 DEF Sound
  <1> QED
    BY <1>1, <1>3, <1>4 DEF Sound

----------------------------------------------------------------------------
\* The limiter.

LEMMA BeyondFacts ==
    ASSUME NEW t
    PROVE  /\ Beyond(t) \subseteq Waiting /\ Waiting \subseteq Threads
           /\ IsFiniteSet(Beyond(t)) /\ Cardinality(Beyond(t)) \in Nat
  <1>1. Beyond(t) \in SUBSET Threads /\ Beyond(t) \subseteq Waiting /\ Waiting \subseteq Threads
    BY DEF Beyond, Waiting
  <1> QED
    BY <1>1, ThreadFacts

LEMMA ReserveFacts ==
    ASSUME ServiceInv, FlightInv, LimiterInv, NEW c \in Threads, Reserve(c)
    PROVE  /\ NeedsCall(c) /\ pc[c] = "idle" /\ UNCHANGED <<vars, cycleVars>>
           /\ pc' = [pc EXCEPT ![c] = "waiting"]
           /\ \A d \in Threads : pc'[d] = IF d = c THEN "waiting" ELSE pc[d]
           /\ slot' = [slot EXCEPT ![c] = last']
           /\ \A d \in Threads : slot'[d] = IF d = c THEN last' ELSE slot[d]
           /\ last' \in Nat /\ last' <= MaxClock /\ clock <= last' /\ last <= last'
           /\ last' = clock \/ last' = last + MinInterval
           /\ Waiting' = Waiting \cup {c} /\ c \notin Waiting
  <1> DEFINE s == Limiter!NextSlot
  <1>1. /\ NeedsCall(c) /\ pc[c] = "idle" /\ UNCHANGED <<vars, cycleVars>>
        /\ pc' = [pc EXCEPT ![c] = "waiting"] /\ slot' = [slot EXCEPT ![c] = s]
        /\ last' = s /\ s <= MaxClock
    BY DEF Reserve, Limiter!Reserve
  <1>2. clock \in Nat /\ last \in Nat /\ MinInterval \in Nat
    BY Numbers
  <1>3. /\ s \in Nat /\ clock <= s /\ last <= s
        /\ s = clock \/ s = last + MinInterval
    BY <1>2 DEF Limiter!NextSlot, Limiter!Later
  <1> HIDE DEF s
  <1>4. pc \in [Threads -> {"idle", "waiting"}] /\ slot \in [Threads -> 0 .. MaxClock]
    BY DEF LimiterInv
  <1>5. Waiting' = Waiting \cup {c} /\ c \notin Waiting
    BY <1>1, <1>4 DEF Waiting
  <1> QED
    BY <1>1, <1>3, <1>4, <1>5

LEMMA CallEndsFacts ==
    ASSUME ServiceInv, FlightInv, LimiterInv, NEW c \in Threads, CallEnds(c)
    PROVE  /\ pc[c] = "waiting" /\ clock >= slot[c] /\ last' = last
           /\ pc' \in [Threads -> {"idle", "waiting"}] /\ slot' \in [Threads -> 0 .. MaxClock]
           /\ pc'[c] = "idle" /\ slot'[c] = 0
           /\ \A d \in Threads \ {c} : pc'[d] = pc[d] /\ slot'[d] = slot[d]
           /\ c \in Waiting /\ Waiting' = Waiting \ {c}
           /\ \A t \in Nat : t >= clock => Beyond(t)' = Beyond(t)
  <1>1. /\ pc[c] = "waiting" /\ clock >= slot[c] /\ last' = last
        /\ pc' = [pc EXCEPT ![c] = "idle"] /\ slot' = [slot EXCEPT ![c] = 0]
    BY DEF CallEnds
  <1>2. pc \in [Threads -> {"idle", "waiting"}] /\ slot \in [Threads -> 0 .. MaxClock]
    BY DEF LimiterInv
  <1>3. 0 \in 0 .. MaxClock
    BY TimesAssumption
  <1>4. /\ pc' \in [Threads -> {"idle", "waiting"}] /\ slot' \in [Threads -> 0 .. MaxClock]
        /\ pc'[c] = "idle" /\ slot'[c] = 0
        /\ \A d \in Threads \ {c} : pc'[d] = pc[d] /\ slot'[d] = slot[d]
    BY <1>1, <1>2, <1>3
  <1>5. c \in Waiting /\ Waiting' = Waiting \ {c}
    BY <1>1, <1>4 DEF Waiting
  <1>6. ASSUME NEW t \in Nat, t >= clock PROVE Beyond(t)' = Beyond(t)
    <2>1. ~(slot[c] > t)
      <3>1. slot[c] \in Nat /\ clock \in Int
        BY Numbers
      <3> QED
        BY <1>1, <1>6, <3>1
    <2> QED
      BY <1>4, <1>5, <2>1 DEF Beyond, Waiting
  <1> QED
    BY <1>1, <1>4, <1>5, <1>6

LEMMA ReserveLimiter ==
    ASSUME ServiceInv, FlightInv, LimiterInv, NEW c \in Threads, Reserve(c)
    PROVE  LimiterInv'
  <1>1. /\ NeedsCall(c) /\ pc[c] = "idle" /\ UNCHANGED <<vars, cycleVars>>
        /\ pc' = [pc EXCEPT ![c] = "waiting"]
        /\ slot' = [slot EXCEPT ![c] = last']
        /\ \A d \in Threads : slot'[d] = IF d = c THEN last' ELSE slot[d]
        /\ last' \in Nat /\ last' <= MaxClock /\ clock <= last' /\ last <= last'
        /\ last' = clock \/ last' = last + MinInterval
        /\ Waiting' = Waiting \cup {c} /\ c \notin Waiting
    BY ReserveFacts
  <1>2. /\ clock \in Nat /\ last \in Nat
        /\ MinInterval \in Nat /\ MaxLag \in Nat /\ MaxClock \in Nat
        /\ \A d \in Threads : slot[d] \in Nat
    BY Numbers
  <1>3. clock' = clock /\ call' = call /\ cycle' = cycle /\ begun' = begun
    BY <1>1 DEF vars, cacheVars, cycleVars
  <1>4. /\ last' \in 0 .. MaxClock /\ pc' \in [Threads -> {"idle", "waiting"}]
        /\ slot' \in [Threads -> 0 .. MaxClock]
        /\ cycle' \in 0 .. CycleCalls /\ begun' \in 0 .. clock'
    BY <1>1, <1>2, <1>3 DEF LimiterInv
  <1>5. \A d \in Waiting' : NeedsCall(d)' /\ slot'[d] <= last' /\ clock' <= slot'[d] + MaxLag
    <2>1. \A d : NeedsCall(d)' <=> NeedsCall(d)
      BY <1>3 DEF NeedsCall
    <2>2. \A d \in Waiting : d \in Threads /\ NeedsCall(d) /\ slot[d] <= last
                             /\ clock <= slot[d] + MaxLag
      BY DEF LimiterInv, Waiting
    <2>3. last' <= last' /\ clock <= last' + MaxLag /\ NeedsCall(c)
      <3>1. last' \in Nat /\ clock <= last' /\ NeedsCall(c)
        BY <1>1
      <3>2. clock \in Nat /\ MaxLag \in Nat
        BY <1>2
      <3>3. \A a, b, l \in Nat : a <= b => b <= b /\ a <= b + l
        OBVIOUS
      <3> QED
        BY <3>1, <3>2, <3>3
    <2>4. ASSUME NEW d \in Waiting
          PROVE  NeedsCall(d) /\ slot'[d] <= last' /\ clock <= slot'[d] + MaxLag
      <3>1. d \in Threads /\ slot'[d] = slot[d] /\ d # c
        BY <1>1, <2>2
      <3>2. slot[d] <= last'
        BY <1>1, <1>2, <2>2, <3>1
      <3> QED
        BY <2>2, <3>1, <3>2
    <2>5. ASSUME NEW d \in Waiting'
          PROVE  NeedsCall(d) /\ slot'[d] <= last' /\ clock <= slot'[d] + MaxLag
      <3>1. CASE d = c
        <4>1. slot'[d] = last'
          BY <1>1, <3>1
        <4> QED
          BY <2>3, <3>1, <4>1
      <3> QED
        BY <1>1, <2>4, <3>1
    <2> QED
      BY <1>3, <2>1, <2>5
  <1>6. ASSUME NEW t \in Nat, t >= clock
        PROVE  last' <= t + MinInterval * Cardinality(Beyond(t)')
    <2>1. Cardinality(Beyond(t)) \in Nat /\ IsFiniteSet(Beyond(t))
      BY BeyondFacts
    <2>2. last <= t + MinInterval * Cardinality(Beyond(t))
      BY <1>6 DEF LimiterInv
    <2>3. \A d \in Waiting : d # c /\ slot'[d] = slot[d]
      BY <1>1 DEF Waiting
    <2>4. CASE last' > t
      <3>1. Beyond(t)' = Beyond(t) \cup {c} /\ c \notin Beyond(t)
        BY <1>1, <2>3, <2>4 DEF Beyond
      <3>2. Cardinality(Beyond(t)') = Cardinality(Beyond(t)) + 1
        BY <2>1, <3>1, FS_AddElement
      <3>3. last' = last + MinInterval
        BY <1>1, <1>2, <1>6, <2>4
      <3>4. /\ MinInterval * Cardinality(Beyond(t)') =
                 MinInterval * Cardinality(Beyond(t)) + MinInterval
            /\ MinInterval * Cardinality(Beyond(t)) \in Nat
        BY <2>1, <3>2, Intervals
      <3> QED
        BY <1>2, <1>6, <2>2, <3>3, <3>4
    <2>5. CASE ~(last' > t)
      <3>1. Cardinality(Beyond(t)') \in Nat
        <4>1. Beyond(t)' = Beyond(t)
          BY <1>1, <2>3, <2>5 DEF Beyond
        <4> QED
          BY <2>1, <4>1
      <3>2. MinInterval * Cardinality(Beyond(t)') \in Nat
        BY <3>1, Intervals
      <3> QED
        BY <1>1, <2>5, <3>2
    <2> QED
      BY <2>4, <2>5
  <1> QED
    BY <1>3, <1>4, <1>5, <1>6 DEF LimiterInv

\* Steps that leave the limiter alone and nobody in its queue without a call.
LEMMA OtherLimiter ==
    ASSUME LimiterInv, UNCHANGED limiterVars, clock' = clock,
           cycle' \in 0 .. CycleCalls, begun' \in 0 .. clock,
           \A c \in Waiting : NeedsCall(c)'
    PROVE  LimiterInv'
  <1>1. last' = last /\ pc' = pc /\ slot' = slot
    BY DEF limiterVars
  <1>2. Waiting' = Waiting /\ \A t : Beyond(t)' = Beyond(t)
    BY <1>1 DEF Waiting, Beyond
  <1> QED
    BY <1>1, <1>2 DEF LimiterInv

LEMMA HandleLimiter ==
    ASSUME ServiceInv, FlightInv, LimiterInv, NEW h \in Handlers, Handle(h)
    PROVE  LimiterInv'
  <1>1. HandlerStep(h) /\ UNCHANGED <<limiterVars, cycleVars>>
    BY DEF Handle
  <1>2. /\ call[h] # "lead" /\ clock' = clock
        /\ \A u \in Handlers \ {h} : call'[u] = call[u]
    BY <1>1, HandlerFacts
  <1>3. cycle' = cycle /\ begun' = begun /\ UNCHANGED limiterVars
    BY <1>1 DEF cycleVars
  <1>4. \A c \in Waiting : NeedsCall(c)'
    BY <1>2, <1>3, WiringAssumption DEF LimiterInv, Waiting, NeedsCall, Threads
  <1>5. cycle' \in 0 .. CycleCalls /\ begun' \in 0 .. clock
    BY <1>3 DEF LimiterInv
  <1> QED
    BY <1>2, <1>3, <1>4, <1>5, OtherLimiter

LEMMA StartCycleLimiter ==
    ASSUME ServiceInv, FlightInv, LimiterInv, StartCycle
    PROVE  LimiterInv'
  <1>1. /\ cycle = CycleCalls /\ cycle' = 0 /\ begun' = clock
        /\ UNCHANGED <<vars, limiterVars>>
    BY DEF StartCycle
  <1>2. clock' = clock /\ call' = call /\ UNCHANGED limiterVars
    BY <1>1 DEF vars, cacheVars
  <1>3. clock \in Nat /\ CycleCalls \in Nat \ {0}
    BY Numbers, WiringAssumption
  <1>4. \A c \in Waiting : NeedsCall(c)'
    BY <1>1, <1>2, <1>3 DEF LimiterInv, NeedsCall
  <1> QED
    BY <1>1, <1>2, <1>3, <1>4, OtherLimiter

\* A call that ends leaves the queue to the others.
LEMMA CallEndsLimiter ==
    ASSUME ServiceInv, FlightInv, LimiterInv, NEW c \in Threads, CallEnds(c), clock' = clock,
           cycle' \in 0 .. CycleCalls, begun' \in 0 .. clock,
           \A d \in Waiting \ {c} : NeedsCall(d)'
    PROVE  LimiterInv'
  <1>1. /\ last' = last
        /\ pc' \in [Threads -> {"idle", "waiting"}] /\ slot' \in [Threads -> 0 .. MaxClock]
        /\ \A d \in Threads \ {c} : pc'[d] = pc[d] /\ slot'[d] = slot[d]
        /\ c \in Waiting /\ Waiting' = Waiting \ {c}
        /\ \A t \in Nat : t >= clock => Beyond(t)' = Beyond(t)
    BY CallEndsFacts
  <1>2. \A d \in Waiting' : d \in Threads \ {c} /\ d \in Waiting
    BY <1>1 DEF Waiting
  <1>3. \A d \in Waiting' : NeedsCall(d)' /\ slot'[d] <= last' /\ clock' <= slot'[d] + MaxLag
    BY <1>1, <1>2 DEF LimiterInv
  <1>4. \A t \in Nat : t >= clock' => last' <= t + MinInterval * Cardinality(Beyond(t)')
    BY <1>1 DEF LimiterInv
  <1> QED
    BY <1>1, <1>3, <1>4 DEF LimiterInv

LEMMA ApiCallLimiter ==
    ASSUME ServiceInv, FlightInv, LimiterInv, NEW h \in Handlers, ApiCall(h)
    PROVE  LimiterInv'
  <1>1. CallEnds(h) /\ UpstreamStep(h) /\ cycle' = cycle /\ begun' = begun
    BY DEF ApiCall, cycleVars
  <1>2. clock' = clock /\ \A u \in Handlers \ {h} : call'[u] = call[u]
    BY <1>1, UpstreamFacts
  <1>3. \A d \in Waiting \ {h} : NeedsCall(d)'
    BY <1>1, <1>2, WiringAssumption DEF LimiterInv, Waiting, NeedsCall, Threads
  <1>4. h \in Threads /\ cycle' \in 0 .. CycleCalls /\ begun' \in 0 .. clock
    BY <1>1 DEF LimiterInv, Threads
  <1> QED
    BY <1>1, <1>2, <1>3, <1>4, CallEndsLimiter

LEMMA CycleCallLimiter ==
    ASSUME ServiceInv, FlightInv, LimiterInv, CycleCall
    PROVE  LimiterInv'
  <1>1. /\ CallEnds(collector) /\ cycle' = cycle + 1
        /\ begun' = IF cycle' = CycleCalls THEN 0 ELSE begun
        /\ UNCHANGED vars
    BY DEF CycleCall
  <1>2. clock' = clock /\ call' = call
    BY <1>1 DEF vars, cacheVars
  <1>3. collector \in Threads
    BY DEF Threads
  <1>4. collector \in Waiting
    BY <1>1, <1>3, CallEndsFacts
  <1>5. cycle < CycleCalls
    BY <1>4 DEF LimiterInv, NeedsCall
  <1>6. cycle \in Nat /\ clock \in Nat /\ begun \in Nat /\ begun <= clock /\ CycleCalls \in Nat
    BY Numbers, WiringAssumption
  <1>7. cycle' \in 0 .. CycleCalls /\ begun' \in 0 .. clock
    BY <1>1, <1>5, <1>6
  <1>8. \A d \in Waiting \ {collector} : NeedsCall(d)'
    BY <1>2 DEF LimiterInv, NeedsCall
  <1> QED
    BY <1>1, <1>2, <1>3, <1>7, <1>8, CallEndsLimiter

LEMMA TimeLimiter ==
    ASSUME ServiceInv, FlightInv, LimiterInv, Time
    PROVE  LimiterInv'
  <1>1. /\ \A c \in Threads : NeedsCall(c) => pc[c] = "waiting" /\ clock < slot[c] + MaxLag
        /\ clock' = clock + 1 /\ call' = call
        /\ last' = last /\ pc' = pc /\ slot' = slot /\ cycle' = cycle /\ begun' = begun
    BY DEF Time, Tick, Cache!Tick, limiterVars, cycleVars
  <1>2. clock \in Nat /\ MaxLag \in Nat /\ \A c \in Threads : slot[c] \in Nat
    BY Numbers
  <1>3. /\ Waiting' = Waiting /\ \A t : Beyond(t)' = Beyond(t)
        /\ \A c : NeedsCall(c)' <=> NeedsCall(c)
    BY <1>1 DEF Waiting, Beyond, NeedsCall
  <1>4. \A c \in Waiting : NeedsCall(c)' /\ slot'[c] <= last' /\ clock' <= slot'[c] + MaxLag
    BY <1>1, <1>2, <1>3 DEF LimiterInv, Waiting
  <1>5. begun' \in 0 .. clock'
    BY <1>1, <1>2 DEF LimiterInv
  <1>6. \A t \in Nat : t >= clock' => last' <= t + MinInterval * Cardinality(Beyond(t)')
    BY <1>1, <1>2, <1>3 DEF LimiterInv
  <1> QED
    BY <1>1, <1>3, <1>4, <1>5, <1>6 DEF LimiterInv

----------------------------------------------------------------------------
\* Who crowds the limiter.

LEMMA FreshFacts ==
    ASSUME ServiceInv, FlightInv, LimiterInv, ExporterNext, NEW h \in Handlers, Fresh(h)'
    PROVE  Fresh(h)
  <1>1. /\ call[h] \in {"idle", "lead", "follow"}
        /\ \A u \in Handlers : call[u] = "lead" => request[u] # None
    BY LeaderFacts, AcceptedFacts DEF ServiceInv, ServiceTypeOK
  <1>2. CASE UNCHANGED <<call, request>>
    BY <1>2 DEF Fresh
  <1>3. ASSUME NEW u \in Handlers, Handle(u) PROVE Fresh(h)
    <2>1. HandlerStep(u) /\ (call[u] = "idle" => request[u] = None)
      BY <1>3 DEF Handle
    <2>2. /\ call[u] # "lead"
          /\ u # h => call'[h] = call[h] /\ request'[h] = request[h]
      BY <2>1, HandlerFacts
    <2> QED
      BY <1>1, <2>1, <2>2 DEF Fresh
  <1>4. ASSUME NEW u \in Handlers, ApiCall(u) PROVE Fresh(h)
    <2>1. /\ call[u] = "lead" /\ request' = request /\ call'[u] \in {"lead", "idle"}
          /\ u # h => call'[h] = call[h]
      BY <1>4, UpstreamFacts DEF ApiCall
    <2> QED
      BY <1>1, <2>1 DEF Fresh
  <1>5. CASE (\E c \in Threads : Reserve(c)) \/ StartCycle \/ CycleCall \/ Time
    <2>1. UNCHANGED <<call, request>>
      BY <1>5 DEF Reserve, StartCycle, CycleCall, Time, Tick, Cache!Tick, vars, cacheVars
    <2> QED
      BY <1>2, <2>1
  <1> QED
    BY <1>3, <1>4, <1>5 DEF ExporterNext

LEMMA CallersInCrowd ==
    ASSUME ServiceInv, NEW S \in SUBSET Threads, Crowd(S), NEW c \in Threads, NeedsCall(c)
    PROVE  c \in S
  <1> SUFFICES ASSUME c \notin S PROVE FALSE
    OBVIOUS
  <1>1. c \in Handlers /\ Fresh(c) /\ c # collector
    BY WiringAssumption DEF Crowd
  <1>2. call[c] = "lead"
    BY <1>1 DEF NeedsCall
  <1>3. request[c] # None
    BY <1>1, <1>2, LeaderFacts, AcceptedFacts
  <1> QED
    BY <1>1, <1>2, <1>3 DEF Fresh

\* A slot is no further off than one interval of everybody in the crowd.
LEMMA SlotInCrowd ==
    ASSUME ServiceInv, FlightInv, LimiterInv, NEW c \in Threads, Reserve(c),
           NEW S \in SUBSET Threads, Crowd(S)
    PROVE  last' + MaxLag <= clock + CallTime(Cardinality(S))
  <1>1. /\ NeedsCall(c) /\ Waiting' = Waiting \cup {c} /\ last' \in Nat
        /\ UNCHANGED <<vars, cycleVars>>
    BY ReserveFacts
  <1>2. clock' = clock
    BY <1>1 DEF vars, cacheVars
  <1>3. clock \in Nat /\ MaxLag \in Nat
    BY Numbers
  <1>4. LimiterInv'
    BY ReserveLimiter
  <1>5. last' <= clock + MinInterval * Cardinality(Beyond(clock)')
    BY <1>2, <1>3, <1>4 DEF LimiterInv
  <1>6. Beyond(clock)' \subseteq S
    <2>1. \A d \in Waiting : d \in Threads /\ NeedsCall(d)
      BY DEF LimiterInv, Waiting
    <2>2. Waiting' \subseteq S
      BY <1>1, <2>1, CallersInCrowd
    <2> QED
      BY <2>2 DEF Beyond
  <1>7. /\ IsFiniteSet(S) /\ Cardinality(S) \in Nat
        /\ Cardinality(Beyond(clock)') \in Nat /\ Cardinality(Beyond(clock)') <= Cardinality(S)
    BY <1>6, ThreadFacts, FS_Subset, FS_CardinalityType
  <1>8. /\ MinInterval * Cardinality(Beyond(clock)') <= MinInterval * Cardinality(S)
        /\ MinInterval * Cardinality(Beyond(clock)') \in Nat
        /\ MinInterval * Cardinality(S) \in Nat
    BY <1>7, Intervals
  <1>9. CallTime(Cardinality(S)) = MinInterval * Cardinality(S) + MaxLag
    BY <1>7, CallTimeFacts
  <1> QED
    BY <1>1, <1>3, <1>5, <1>8, <1>9

----------------------------------------------------------------------------
\* Everyone keeps to the schedule, whatever t is worth it.

LEMMA ReserveOnSchedule ==
    ASSUME ServiceInv, FlightInv, LimiterInv, NEW c \in Threads, Reserve(c),
           NEW t \in Nat, OnSchedule(t), last' + MaxLag <= clock + t
    PROVE  OnSchedule(t)'
  <1>1. /\ NeedsCall(c) /\ pc[c] = "idle" /\ UNCHANGED <<vars, cycleVars>>
        /\ \A d \in Threads : pc'[d] = IF d = c THEN "waiting" ELSE pc[d]
        /\ \A d \in Threads : slot'[d] = IF d = c THEN last' ELSE slot[d]
        /\ last' \in Nat
    BY ReserveFacts
  <1>2. /\ call' = call /\ since' = since /\ work' = work
        /\ cycle' = cycle /\ begun' = begun
    BY <1>1 DEF vars, cacheVars, cycleVars
  <1>3. /\ clock \in Nat /\ MaxLag \in Nat /\ cycle \in Nat /\ begun \in Nat
        /\ \A h \in Handlers : since[h] \in Nat /\ work[h].made \in Nat
    BY Numbers
  <1>4. ASSUME NEW a \in Nat, NEW s \in Nat, clock - s <= a * t
        PROVE  last' + MaxLag - s <= (a + 1) * t
    <2>1. last' \in Nat /\ clock \in Nat /\ MaxLag \in Nat
      BY <1>1, <1>3
    <2>2. \A l, m, k, p, q \in Nat :
             l + m <= k + t /\ k - s <= p /\ q = p + t => l + m - s <= q
      OBVIOUS
    <2>3. a * t \in Nat /\ (a + 1) * t \in Nat /\ (a + 1) * t = a * t + t
      BY Times
    <2> QED
      BY <1>4, <2>1, <2>2, <2>3
  <1>5. ASSUME NEW h \in Handlers, call[h] = "lead"
        PROVE  /\ pc'[h] = "idle" => clock - since[h] <= work[h].made * t
               /\ pc'[h] = "waiting" => slot'[h] + MaxLag - since[h] <= (work[h].made + 1) * t
    <2>1. h \in Threads
      BY DEF Threads
    <2>2. CASE h = c
      <3>1. clock - since[h] <= work[h].made * t /\ slot'[h] = last' /\ pc'[h] = "waiting"
        BY <1>1, <1>5, <2>1, <2>2 DEF OnSchedule
      <3>2. last' + MaxLag - since[h] <= (work[h].made + 1) * t
        BY <1>3, <1>4, <3>1
      <3> QED
        BY <3>1, <3>2
    <2>3. CASE h # c
      <3>1. pc'[h] = pc[h] /\ slot'[h] = slot[h]
        BY <1>1, <2>1, <2>3
      <3> QED
        BY <1>5, <3>1 DEF OnSchedule
    <2> QED
      BY <2>2, <2>3
  <1>6. ASSUME cycle < CycleCalls
        PROVE  /\ pc'[collector] = "idle" => clock - begun <= cycle * t
               /\ pc'[collector] = "waiting" =>
                     slot'[collector] + MaxLag - begun <= (cycle + 1) * t
    <2>1. collector \in Threads
      BY DEF Threads
    <2>2. CASE collector = c
      <3>1. clock - begun <= cycle * t /\ slot'[collector] = last' /\ pc'[collector] = "waiting"
        BY <1>1, <1>6, <2>1, <2>2 DEF OnSchedule
      <3>2. last' + MaxLag - begun <= (cycle + 1) * t
        BY <1>3, <1>4, <3>1
      <3> QED
        BY <3>1, <3>2
    <2>3. CASE collector # c
      <3>1. pc'[collector] = pc[collector] /\ slot'[collector] = slot[collector]
        BY <1>1, <2>1, <2>3
      <3> QED
        BY <1>6, <3>1 DEF OnSchedule
    <2> QED
      BY <2>2, <2>3
  <1>7. clock' = clock
    BY <1>1 DEF vars, cacheVars
  <1> QED
    BY <1>2, <1>5, <1>6, <1>7 DEF OnSchedule

\* Who has nothing to call upstream for is not in the queue.
LEMMA NotQueued ==
    ASSUME LimiterInv, NEW c \in Threads, ~NeedsCall(c)
    PROVE  pc[c] = "idle"
  BY DEF LimiterInv, Waiting

LEMMA HandleOnSchedule ==
    ASSUME ServiceInv, FlightInv, LimiterInv, NEW h \in Handlers, Handle(h),
           NEW t \in Nat, OnSchedule(t)
    PROVE  OnSchedule(t)'
  <1>1. HandlerStep(h) /\ pc' = pc /\ slot' = slot /\ cycle' = cycle /\ begun' = begun
    BY DEF Handle, limiterVars, cycleVars
  <1>2. /\ call[h] # "lead" /\ clock' = clock
        /\ \A u \in Handlers \ {h} :
              call'[u] = call[u] /\ since'[u] = since[u] /\ work'[u] = work[u]
        /\ call'[h] = "lead" => since'[h] = clock /\ work'[h].made = 0
    BY <1>1, HandlerFacts
  <1>3. pc[h] = "idle"
    BY <1>2, WiringAssumption, NotQueued DEF NeedsCall, Threads
  <1>4. call'[h] = "lead" => clock' - since'[h] <= work'[h].made * t
    <2>1. 0 * t = 0 /\ clock \in Nat
      BY Times, Numbers
    <2> QED
      BY <1>2, <2>1
  <1> QED
    BY <1>1, <1>2, <1>3, <1>4 DEF OnSchedule

LEMMA StartCycleOnSchedule ==
    ASSUME ServiceInv, FlightInv, LimiterInv, StartCycle, NEW t \in Nat, OnSchedule(t)
    PROVE  OnSchedule(t)'
  <1>1. /\ cycle = CycleCalls /\ cycle' = 0 /\ begun' = clock
        /\ pc' = pc /\ slot' = slot /\ clock' = clock
        /\ call' = call /\ since' = since /\ work' = work
    BY DEF StartCycle, vars, cacheVars, limiterVars
  <1>2. pc[collector] = "idle"
    BY <1>1, WiringAssumption, NotQueued DEF NeedsCall, Threads
  <1>3. clock' - begun' <= cycle' * t
    <2>1. 0 * t = 0 /\ clock \in Nat
      BY Times, Numbers
    <2> QED
      BY <1>1, <2>1
  <1> QED
    BY <1>1, <1>2, <1>3 DEF OnSchedule

\* A call that ends has been no longer than the schedule says.
LEMMA ApiCallOnSchedule ==
    ASSUME ServiceInv, FlightInv, LimiterInv, NEW h \in Handlers, ApiCall(h),
           NEW t \in Nat, OnSchedule(t)
    PROVE  OnSchedule(t)'
  <1>1. CallEnds(h) /\ UpstreamStep(h) /\ cycle' = cycle /\ begun' = begun /\ h \in Threads
    BY DEF ApiCall, cycleVars, Threads
  <1>2. /\ call[h] = "lead" /\ clock' = clock /\ since' = since
        /\ \A u \in Handlers \ {h} : work'[u] = work[u] /\ call'[u] = call[u]
        /\ call'[h] = "lead" => work'[h].made = work[h].made + 1
    BY <1>1, UpstreamFacts
  <1>3. /\ pc[h] = "waiting" /\ pc'[h] = "idle" /\ h \in Waiting
        /\ \A d \in Threads \ {h} : pc'[d] = pc[d] /\ slot'[d] = slot[d]
    BY <1>1, CallEndsFacts
  <1>4. slot[h] + MaxLag - since[h] <= (work[h].made + 1) * t /\ clock <= slot[h] + MaxLag
    BY <1>2, <1>3 DEF OnSchedule, LimiterInv
  <1>5. /\ slot[h] \in Nat /\ MaxLag \in Nat /\ since[h] \in Nat /\ clock \in Nat
        /\ (work[h].made + 1) * t \in Nat
    BY <1>1, Numbers, Times
  <1>6. clock - since[h] <= (work[h].made + 1) * t
    BY <1>4, <1>5
  <1>7. collector \in Threads \ {h} /\ \A u \in Handlers \ {h} : u \in Threads \ {h}
    BY WiringAssumption DEF Threads
  <1> QED
    BY <1>1, <1>2, <1>3, <1>6, <1>7 DEF OnSchedule

LEMMA CycleCallOnSchedule ==
    ASSUME ServiceInv, FlightInv, LimiterInv, CycleCall, NEW t \in Nat, OnSchedule(t)
    PROVE  OnSchedule(t)'
  <1>1. /\ CallEnds(collector) /\ cycle' = cycle + 1 /\ collector \in Threads
        /\ cycle' # CycleCalls => begun' = begun
        /\ clock' = clock /\ call' = call /\ since' = since /\ work' = work
    BY DEF CycleCall, vars, cacheVars, Threads
  <1>2. /\ pc[collector] = "waiting" /\ pc'[collector] = "idle" /\ collector \in Waiting
        /\ \A d \in Threads \ {collector} : pc'[d] = pc[d] /\ slot'[d] = slot[d]
    BY <1>1, CallEndsFacts
  <1>3. cycle < CycleCalls /\ clock <= slot[collector] + MaxLag
    BY <1>2 DEF LimiterInv, NeedsCall
  <1>4. slot[collector] + MaxLag - begun <= (cycle + 1) * t
    BY <1>2, <1>3 DEF OnSchedule
  <1>5. /\ slot[collector] \in Nat /\ MaxLag \in Nat /\ begun \in Nat /\ clock \in Nat
        /\ cycle \in Nat /\ (cycle + 1) * t \in Nat
    BY <1>1, Numbers, Times
  <1>6. clock - begun <= (cycle + 1) * t
    BY <1>3, <1>4, <1>5
  <1>7. cycle' < CycleCalls => cycle' # CycleCalls
    BY <1>1, <1>5, WiringAssumption
  <1>8. \A u \in Handlers : u \in Threads \ {collector}
    BY WiringAssumption DEF Threads
  <1> QED
    BY <1>1, <1>2, <1>6, <1>7, <1>8 DEF OnSchedule

\* Time does not pass for who has to get into the queue.
LEMMA TimeOnSchedule ==
    ASSUME Time, NEW t \in Nat, OnSchedule(t)
    PROVE  OnSchedule(t)'
  <1>1. /\ \A c \in Threads : NeedsCall(c) => pc[c] = "waiting"
        /\ call' = call /\ since' = since /\ work' = work
        /\ pc' = pc /\ slot' = slot /\ cycle' = cycle /\ begun' = begun
    BY DEF Time, Tick, Cache!Tick, limiterVars, cycleVars
  <1>2. /\ \A h \in Handlers : call[h] = "lead" => pc[h] = "waiting"
        /\ cycle < CycleCalls => pc[collector] = "waiting"
    BY <1>1, WiringAssumption DEF NeedsCall, Threads
  <1> QED
    BY <1>1, <1>2 DEF OnSchedule

LEMMA ScheduleKept ==
    ASSUME ServiceInv, FlightInv, LimiterInv, ScheduleInv, ExporterNext
    PROVE  ScheduleInv'
  <1> SUFFICES ASSUME NEW S \in SUBSET Threads, Crowd(S)'
               PROVE  OnSchedule(CallTime(Cardinality(S)))'
    BY DEF ScheduleInv
  <1> DEFINE t == CallTime(Cardinality(S))
  <1>1. Crowd(S)
    BY FreshFacts DEF Crowd
  <1>2. OnSchedule(t) /\ t \in Nat
    BY <1>1, ThreadFacts, CallTimeFacts DEF ScheduleInv
  <1>3. ASSUME NEW c \in Threads, Reserve(c) PROVE last' + MaxLag <= clock + t
    BY <1>1, <1>3, SlotInCrowd
  <1> HIDE DEF t
  <1>4. OnSchedule(t)'
    BY <1>2, <1>3, ReserveOnSchedule, HandleOnSchedule, StartCycleOnSchedule,
       ApiCallOnSchedule, CycleCallOnSchedule, TimeOnSchedule DEF ExporterNext
  <1> QED
    BY <1>4 DEF t

----------------------------------------------------------------------------
\* Whoever follows waits no longer than the fan-out takes.

LEMMA CostType ==
    ASSUME NEW r \in Accepted, NEW R
    PROVE  /\ Cost(r, R) \in Nat /\ Cost(r, R) >= 2
           /\ r.path = "account" => Cost(r, R) = 3
  <1>1. r.path \in {"account", "zones", "detail"}
    BY AcceptedFacts
  <1>2. \A n \in Nat : 2 + 2 * n \in Nat /\ 2 + 2 * n >= 2
    OBVIOUS
  <1>3. Cardinality(Picked(r, R)) \in Nat
    BY PickedZones
  <1>4. 2 + 2 * Cardinality(Picked(r, R)) \in Nat /\ 2 + 2 * Cardinality(Picked(r, R)) >= 2
    BY <1>2, <1>3
  <1>5. /\ r.path = "account" => Cost(r, R) = 3
        /\ r.path = "detail" => Cost(r, R) = 6
        /\ r.path = "zones" => Cost(r, R) = 2 + 2 * Cardinality(Picked(r, R))
    BY CostFacts
  <1> QED
    BY <1>1, <1>4, <1>5

\* A fan-out under way has a call left of those some roster costs.
LEMMA CallsLeft ==
    ASSUME ServiceInv, NEW h \in Handlers, call[h] = "lead"
    PROVE  \E R \in Rosters : work[h].made + 1 <= Cost(request[h], R)
  <1>1. /\ request[h] \in Accepted /\ work[h] \in Works
        /\ work[h].at # "none" /\ Stage(request[h], work[h])
        /\ work[h].at \notin {"balance", "status", "roster"} =>
              work[h].made + 1 <= Cost(request[h], work[h].roster)
    BY LeaderFacts
  <1>2. CASE work[h].at \in {"balance", "status", "roster"}
    <2>1. PICK R \in Rosters : TRUE
      BY RostersAssumption
    <2>2. Opening(request[h], work[h])
      BY <1>1, <1>2 DEF Stage
    <2>3. work[h].made \in {0, 1, 2} /\ (work[h].made # 0 => request[h].path = "account")
      BY <1>2, <2>2 DEF Opening
    <2> QED
      BY <1>1, <2>3, CostType
  <1>3. CASE work[h].at \notin {"balance", "status", "roster"}
    BY <1>1, <1>3 DEF Stage
  <1> QED
    BY <1>2, <1>3

LEMMA LeaderInTime ==
    ASSUME ServiceInv, FlightInv, LimiterInv, NEW h \in Handlers, call[h] = "lead",
           NEW t \in Nat, OnSchedule(t)
    PROVE  clock - since[h] <= (work[h].made + 1) * t
  <1>1. /\ clock \in Nat /\ MaxLag \in Nat /\ since[h] \in Nat /\ slot[h] \in Nat
        /\ work[h].made \in Nat /\ h \in Threads
    BY Numbers DEF Threads
  <1>2. /\ work[h].made * t \in Nat
        /\ (work[h].made + 1) * t = work[h].made * t + t
    BY <1>1, Times
  <1>3. CASE pc[h] = "idle"
    <2>1. clock - since[h] <= work[h].made * t
      BY <1>3 DEF OnSchedule
    <2>2. \A p, q \in Nat : clock - since[h] <= p /\ q = p + t => clock - since[h] <= q
      BY <1>1
    <2>3. (work[h].made + 1) * t \in Nat
      BY <1>1, Times
    <2> QED
      BY <1>2, <2>1, <2>2, <2>3
  <1>4. CASE pc[h] = "waiting"
    <2>1. slot[h] + MaxLag - since[h] <= (work[h].made + 1) * t /\ clock <= slot[h] + MaxLag
      BY <1>1, <1>4 DEF OnSchedule, LimiterInv, Waiting
    <2>2. \A q \in Nat :
             slot[h] + MaxLag - since[h] <= q /\ clock <= slot[h] + MaxLag => clock - since[h] <= q
      BY <1>1
    <2>3. (work[h].made + 1) * t \in Nat
      BY <1>1, Times
    <2> QED
      BY <2>1, <2>2, <2>3
  <1> QED
    BY <1>1, <1>3, <1>4 DEF LimiterInv

\* The calls of a leader are at the share of the others, as a follower makes none; and
\* they are those of the follower's own request, as that has no '&' in its texts.
LEMMA FollowerInShare ==
    ASSUME ServiceInv, FlightInv, LimiterInv, ScheduleInv,
           NEW h \in Handlers, call[h] = "follow", got[h] = None, Plain(request[h])
    PROVE  WithinShare(h)
  <1> DEFINE u == flight[key[h]]
             t == CallTime(Cardinality(Threads) - 1)
  <1>1. key[h] \in Keys
    BY CallKeys
  <1>2. u \in Handlers /\ call[u] = "lead" /\ key[u] = key[h] /\ since[u] <= since[h]
    BY <1>1 DEF FlightInv
  <1>3. request[h] \in Accepted /\ request[u] \in Accepted /\ KeyOf(request[h]) = KeyOf(request[u])
    BY <1>2 DEF ServiceInv, CallsFit
  <1> HIDE DEF u
  <1>4. Crowd(Threads \ {h})
    BY DEF Crowd, Fresh, Threads
  <1>5. t = CallTime(Cardinality(Threads \ {h}))
    BY ThreadFacts
  <1>6. OnSchedule(t) /\ t \in Nat
    <2>1. Cardinality(Threads \ {h}) \in Nat
      BY ThreadFacts
    <2> QED
      BY <1>4, <1>5, <2>1, CallTimeFacts DEF ScheduleInv
  <1>7. clock - since[u] <= (work[u].made + 1) * t
    BY <1>2, <1>6, LeaderInTime
  <1>8. PICK R \in Rosters : work[u].made + 1 <= Cost(request[u], R)
    BY <1>2, CallsLeft
  <1>9. Cost(request[h], R) = Cost(request[u], R) /\ Cost(request[u], R) \in Nat
    <2>1. /\ request[h].path = request[u].path
          /\ Picked(request[h], R) = Picked(request[u], R)
      BY <1>3, SameQuestion
    <2> QED
      BY <1>3, <2>1, CostType DEF Cost
  <1>10. /\ clock \in Nat /\ since[u] \in Nat /\ since[h] \in Nat /\ work[u].made \in Nat
    BY <1>2, Numbers
  <1>11. /\ (work[u].made + 1) * t <= Cost(request[u], R) * t
         /\ (work[u].made + 1) * t \in Nat /\ Cost(request[u], R) * t \in Nat
    BY <1>6, <1>8, <1>9, <1>10, Times, TimesMonotone
  <1>12. \A p, q \in Nat : clock - since[u] <= p /\ p <= q => clock - since[h] <= q
    BY <1>2, <1>10
  <1>13. clock - since[h] <= Cost(request[h], R) * t
    BY <1>7, <1>9, <1>11, <1>12
  <1> QED
    BY <1>13 DEF WithinShare

LEMMA InShare ==
    ASSUME ExporterInv, NEW h \in Handlers, call[h] = "follow", Plain(request[h])
    PROVE  WithinShare(h)
  BY FollowerInShare DEF ExporterInv, Delivered

LEMMA ShareStays ==
    ASSUME NEW h \in Handlers, WithinShare(h), UNCHANGED <<clock, since[h], request[h]>>
    PROVE  WithinShare(h)'
  BY DEF WithinShare

LEMMA DeliveredKept ==
    ASSUME ExporterInv, ExporterNext
    PROVE  Delivered'
  <1> SUFFICES ASSUME NEW h \in Handlers, call'[h] = "follow", got'[h] # None, Plain(request'[h])
               PROVE  WithinShare(h)'
    BY DEF Delivered
  <1>0. ServiceInv /\ FlightInv /\ LimiterInv
    BY DEF ExporterInv
  <1>1. ASSUME call[h] = "follow", UNCHANGED <<clock, since[h], request[h]>>
        PROVE  WithinShare(h)'
    BY <1>1, InShare, ShareStays
  <1>2. ASSUME NEW u \in Handlers, Handle(u) PROVE WithinShare(h)'
    <2>1. /\ call'[u] = "follow" => got'[u] = None
          /\ u # h => UNCHANGED <<call[h], since[h], request[h]>>
          /\ clock' = clock
      BY <1>0, <1>2, HandlerFacts DEF Handle
    <2> QED
      BY <1>1, <2>1
  <1>3. ASSUME NEW u \in Handlers, ApiCall(u) PROVE WithinShare(h)'
    <2>1. /\ call'[u] \in {"lead", "idle"} /\ UNCHANGED <<clock, since, request>>
          /\ u # h => call'[h] = call[h]
      BY <1>0, <1>3, UpstreamFacts DEF ApiCall
    <2> QED
      BY <1>1, <2>1
  <1>4. ASSUME (\E c \in Threads : Reserve(c)) \/ StartCycle \/ CycleCall PROVE WithinShare(h)'
    <2>1. UNCHANGED <<call, clock, since, request>>
      BY <1>4 DEF Reserve, StartCycle, CycleCall, vars, cacheVars
    <2> QED
      BY <1>1, <2>1
  <1>5. ~Time
    BY DEF Time, Tick, Cache!Tick
  <1> QED
    BY <1>2, <1>3, <1>4, <1>5 DEF ExporterNext

LEMMA TimeOutsKept ==
    ASSUME ExporterInv, ExporterNext
    PROVE  TimeOutsAreEarned'
  <1> DEFINE Earned(r) == \E R \in Rosters :
                 FlightTimeout <= Cost(r, R) * CallTime(Cardinality(Threads) - 1)
  <1> SUFFICES ASSUME NEW h \in Handlers, Answered(h)', Plain(request'[h]),
                      got'[h].kind = "timeout"
               PROVE  Earned(request'[h])
    BY DEF TimeOutsAreEarned
  <1>0. ServiceInv /\ FlightInv /\ LimiterInv
    BY DEF ExporterInv
  <1>1. call'[h] = "idle" /\ request'[h] \in Accepted
    BY DEF Answered
  <1>2. ASSUME UNCHANGED <<call[h], request[h], got[h]>> PROVE Earned(request'[h])
    <2>1. Answered(h) /\ got[h].kind = "timeout"
      BY <1>1, <1>2 DEF Answered
    <2> QED
      BY <1>2, <2>1 DEF ExporterInv, TimeOutsAreEarned
  <1>3. ASSUME NEW u \in Handlers, Handle(u) PROVE Earned(request'[h])
    <2>1. HandlerStep(u)
      BY <1>3 DEF Handle
    <2>2. CASE u = h
      <3>1. /\ call[h] = "follow" /\ clock >= since[h] + FlightTimeout
            /\ request'[h] = request[h]
        BY <1>0, <1>1, <2>1, <2>2, HandlerFacts
      <3>2. PICK R \in Rosters :
               clock - since[h] <= Cost(request[h], R) * CallTime(Cardinality(Threads) - 1)
        BY <3>1, InShare DEF WithinShare
      <3> DEFINE p == Cost(request[h], R) * CallTime(Cardinality(Threads) - 1)
      <3>3. p \in Nat
        <4>1. Cost(request[h], R) \in Nat
          BY <1>1, <3>1, CostType
        <4>2. Cardinality(Threads) - 1 \in Nat
          BY ThreadFacts
        <4>3. CallTime(Cardinality(Threads) - 1) \in Nat
          BY <4>2, CallTimeFacts
        <4> QED
          BY <4>1, <4>3, Times
      <3>4. clock \in Nat /\ since[h] \in Nat /\ FlightTimeout \in Nat
        BY <1>0, Numbers
      <3>5. FlightTimeout <= p
        <4>1. clock - since[h] <= p
          BY <3>2
        <4> HIDE DEF p
        <4> QED
          BY <3>1, <3>3, <3>4, <4>1
      <3> QED
        BY <3>1, <3>5
    <2>3. CASE u # h
      <3>1. UNCHANGED <<call[h], request[h], got[h]>>
        BY <1>0, <2>1, <2>3, HandlerFacts
      <3> QED
        BY <1>2, <3>1
    <2> QED
      BY <2>2, <2>3
  <1>4. ASSUME NEW u \in Handlers, ApiCall(u) PROVE Earned(request'[h])
    <2>1. /\ request' = request
          /\ call'[u] = "idle" => got'[u].kind # "timeout"
          /\ \A v \in Handlers \ {u} :
                call'[v] = call[v] /\ (got'[v] # got[v] => v \in Cache!Followers(u))
      BY <1>0, <1>4, UpstreamFacts DEF ApiCall
    <2>2. h # u /\ call[h] = "idle"
      BY <1>1, <2>1
    <2>3. got'[h] = got[h]
      BY <2>1, <2>2 DEF Cache!Followers
    <2> QED
      BY <1>1, <1>2, <2>1, <2>2, <2>3
  <1>5. ASSUME (\E c \in Threads : Reserve(c)) \/ StartCycle \/ CycleCall \/ Time
        PROVE  Earned(request'[h])
    <2>1. UNCHANGED <<call, request, got>>
      BY <1>5 DEF Reserve, StartCycle, CycleCall, Time, Tick, Cache!Tick, vars, cacheVars
    <2> QED
      BY <1>2, <2>1
  <1> QED
    BY <1>3, <1>4, <1>5 DEF ExporterNext

----------------------------------------------------------------------------
\* The whole step.

LEMMA StepOfService == ExporterNext => [Next]_vars
  BY DEF ExporterNext, Reserve, Handle, ApiCall, StartCycle, CycleCall, Time, Next

LEMMA ExporterStep ==
    ASSUME ExporterInv, [ExporterNext]_exporterVars
    PROVE  ExporterInv'
  <1>0. ServiceInv /\ FlightInv /\ LimiterInv /\ ScheduleInv
    BY DEF ExporterInv
  <1>1. CASE ExporterNext
    <2>1. ServiceInv' /\ FlightInv'
      <3>1. CASE Next
        BY <1>0, <3>1, NextSafe, NextFlights
      <3>2. CASE UNCHANGED vars
        <4>1. /\ UNCHANGED <<kept, call, key, got, request, work>>
              /\ UNCHANGED <<clock, flight, since>>
          BY <3>2 DEF vars, cacheVars
        <4> QED
          BY <1>0, <4>1, IdleInv DEF FlightInv
      <3> QED
        BY <1>1, <3>1, <3>2, StepOfService
    <2>2. LimiterInv'
      BY <1>0, <1>1, ReserveLimiter, HandleLimiter, StartCycleLimiter, ApiCallLimiter,
         CycleCallLimiter, TimeLimiter DEF ExporterNext
    <2>3. ScheduleInv' /\ Delivered' /\ TimeOutsAreEarned'
      BY <1>0, <1>1, ScheduleKept, DeliveredKept, TimeOutsKept
    <2> QED
      BY <2>1, <2>2, <2>3 DEF ExporterInv
  <1>2. CASE UNCHANGED exporterVars
    <2>1. /\ UNCHANGED <<kept, call, key, got, request, work, clock, flight, since>>
          /\ UNCHANGED <<last, pc, slot, cycle, begun>>
      BY <1>2 DEF exporterVars, vars, cacheVars, limiterVars, cycleVars
    <2>2. ServiceInv'
      BY <1>0, <2>1, IdleInv
    <2>3. FlightInv'
      BY <1>0, <2>1 DEF FlightInv
    <2>4. LimiterInv'
      BY <1>0, <2>1 DEF LimiterInv, Waiting, Beyond, NeedsCall
    <2>5. ScheduleInv'
      BY <1>0, <2>1 DEF ScheduleInv, Crowd, Fresh, OnSchedule
    <2>6. Delivered' /\ TimeOutsAreEarned'
      BY <2>1 DEF ExporterInv, Delivered, WithinShare, TimeOutsAreEarned, Answered
    <2> QED
      BY <2>2, <2>3, <2>4, <2>5, <2>6 DEF ExporterInv
  <1> QED
    BY <1>1, <1>2

LEMMA ExporterStarts == ExporterInit => ExporterInv
  <1> SUFFICES ASSUME ExporterInit PROVE ExporterInv
    OBVIOUS
  <1>1. /\ Init /\ last = 0 /\ cycle = CycleCalls /\ begun = 0
        /\ pc = [c \in Threads |-> "idle"] /\ slot = [c \in Threads |-> 0]
    BY DEF ExporterInit
  <1>2. /\ clock = 0 /\ call = [h \in Handlers |-> "idle"]
        /\ request = [h \in Handlers |-> None]
    BY <1>1 DEF Init, Cache!Init
  <1>3. ServiceInv /\ FlightInv
    BY <1>1, InitInv, InitFlights
  <1>4. LimiterInv
    <2>1. MaxClock \in Nat /\ CycleCalls \in Nat
      BY TimesAssumption, WiringAssumption
    <2>2. Waiting = {}
      BY <1>1 DEF Waiting
    <2>3. ASSUME NEW t \in Nat PROVE last <= t + MinInterval * Cardinality(Beyond(t))
      <3>1. MinInterval * Cardinality(Beyond(t)) \in Nat
        BY BeyondFacts, Intervals
      <3> QED
        BY <1>1, <3>1
    <2> QED
      BY <1>1, <1>2, <2>1, <2>2, <2>3 DEF LimiterInv
  <1>5. ScheduleInv
    BY <1>1, <1>2, WiringAssumption DEF ScheduleInv, OnSchedule
  <1>6. Delivered
    BY <1>2 DEF Delivered
  <1>7. TimeOutsAreEarned
    BY <1>2, AcceptedFacts DEF TimeOutsAreEarned, Answered
  <1> QED
    BY <1>3, <1>4, <1>5, <1>6, <1>7 DEF ExporterInv

\* The inductive invariant of the exporter.
THEOREM ExporterInvariance == ExporterSpec => []ExporterInv
  BY ExporterStarts, ExporterStep, PTL DEF ExporterSpec

\* Wiring the handlers to one limiter and a collector takes nothing from the
\* service: every run of the exporter, its limiter and its cycles left out, is
\* one of the service.
THEOREM ExporterIsAService == ExporterSpec => Spec
  <1>1. ExporterInit => Init
    BY DEF ExporterInit
  <1>2. [ExporterNext]_exporterVars => [Next]_vars
    BY StepOfService DEF exporterVars
  <1> QED
    BY <1>1, <1>2, PTL DEF ExporterSpec, Spec

\* So what the service promises of its answers, the exporter keeps.
THEOREM ExporterAnswers ==
    ExporterSpec =>
        [](AnswersTheQuestion /\ CoversTheWindow /\ ToldOwnFaults) /\ SpendsWithinPlan
  BY ExporterIsAService, AnswersAreToTheQuestion, WindowsAreCovered, FaultsAreOnesOwn,
     SpendingIsPlanned, PTL

\* Types of the limiter and the cycle, and who queues: only a thread with a call
\* to make, for a slot that has been handed out.
THEOREM ExporterTypes == ExporterSpec => []ExporterTypeOK
  <1>1. ExporterInv => ExporterTypeOK
    BY TypesHold DEF ExporterInv, LimiterInv, ExporterTypeOK
  <1> QED
    BY ExporterInvariance, <1>1, PTL

\* However many handlers crowd the limiter, a fan-out and a cycle get on: each of
\* their calls takes at most one slot of every thread and the lag of the last.
THEOREM EveryoneIsServed == ExporterSpec => []EveryoneGetsOn
  <1>1. ExporterInv => EveryoneGetsOn
    <2> SUFFICES ASSUME ExporterInv PROVE EveryoneGetsOn
      OBVIOUS
    <2> DEFINE t == CallTime(Cardinality(Threads))
    <2>0. ServiceInv /\ FlightInv /\ LimiterInv
      BY DEF ExporterInv
    <2>1. OnSchedule(t) /\ t \in Nat
      BY ThreadFacts, CallTimeFacts DEF ExporterInv, ScheduleInv, Crowd
    <2> HIDE DEF t
    <2>2. \A h \in Handlers : call[h] = "lead" => clock - since[h] <= (work[h].made + 1) * t
      BY <2>0, <2>1, LeaderInTime
    <2>3. cycle < CycleCalls => clock - begun <= (cycle + 1) * t
      <3> SUFFICES ASSUME cycle < CycleCalls PROVE clock - begun <= (cycle + 1) * t
        OBVIOUS
      <3>1. CASE pc[collector] = "idle"
        <4>1. clock - begun <= cycle * t
          BY <2>1, <3>1 DEF OnSchedule
        <4>2. /\ cycle * t \in Nat /\ (cycle + 1) * t \in Nat
              /\ (cycle + 1) * t = cycle * t + t
          BY <2>0, <2>1, Numbers, Times
        <4>3. clock \in Nat /\ begun \in Nat
          BY <2>0, Numbers
        <4>4. \A p, q \in Nat : clock - begun <= p /\ q = p + t => clock - begun <= q
          BY <2>1, <4>3
        <4> QED
          BY <4>1, <4>2, <4>4
      <3>2. CASE pc[collector] = "waiting"
        <4>1. /\ slot[collector] + MaxLag - begun <= (cycle + 1) * t
              /\ clock <= slot[collector] + MaxLag
          BY <2>0, <2>1, <3>2 DEF OnSchedule, LimiterInv, Waiting, Threads
        <4>2. (cycle + 1) * t \in Nat /\ slot[collector] \in Nat /\ MaxLag \in Nat
              /\ clock \in Nat /\ begun \in Nat
          BY <2>0, <2>1, Numbers, Times DEF Threads
        <4>3. \A q \in Nat :
                 slot[collector] + MaxLag - begun <= q /\ clock <= slot[collector] + MaxLag
                     => clock - begun <= q
          BY <4>2
        <4> QED
          BY <4>1, <4>2, <4>3
      <3> QED
        BY <2>0, <3>1, <3>2 DEF LimiterInv, Threads
    <2> QED
      BY <2>2, <2>3 DEF EveryoneGetsOn, t
  <1> QED
    BY ExporterInvariance, <1>1, PTL

\* Whoever follows a fan-out, without an '&' in his texts, runs into _Promise.wait's 60
\* seconds only if the calls of his request take the other threads that long.
THEOREM FollowersTimeOutsAreEarned == ExporterSpec => []TimeOutsAreEarned
  <1>1. ExporterInv => TimeOutsAreEarned
    BY DEF ExporterInv
  <1> QED
    BY ExporterInvariance, <1>1, PTL
=============================================================================
