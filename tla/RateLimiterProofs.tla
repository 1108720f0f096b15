------------------------- MODULE RateLimiterProofs -------------------------
(***************************************************************************)
(* RateLimiter's safety for any finite number of callers, any interval and *)
(* any lateness, and that it implements PacedGrants.  Nothing the runs     *)
(* check is inductive:                                                     *)
(*   - SlotsApart does not relate _last to the slots handed out, nor a     *)
(*     request to the slot it was made in (LimiterInv does);               *)
(*   - QueueBound counts all sleepers, at one reading of the clock: a tick *)
(*     that frees one of them breaks the count (QueueInv says it of every  *)
(*     later instant and of the slots after that);                         *)
(*   - NoIdleSlot does not say where _last comes from (LastHandedOut);     *)
(*   - RateLaw counts requests, whose instants no step orders (Sparse says *)
(*     it of the slots, which only grow at their end, for every stretch).  *)
(***************************************************************************)
EXTENDS RateLimiter, FiniteSetTheorems, TLAPS

Apart(a, b) == a >= b + MinInterval \/ b >= a + MinInterval

\* _last is the newest slot.
LastIsNewest ==
    /\ \A c \in Waiting : slot[c] <= last
    /\ \A r \in issued : r.slot <= last

\* Slots are apart, and the slot of a sleeper is not the slot of a past call.
AllApart ==
    /\ \A c, d \in Waiting : c # d => Apart(slot[c], slot[d])
    /\ \A c \in Waiting : \A r \in issued : Apart(slot[c], r.slot)
    /\ \A q, r \in issued : q # r => Apart(q.slot, r.slot)

\* A request leaves in its slot or up to MaxLag after it.
OnTime ==
    /\ \A c \in Waiting : clock <= slot[c] + MaxLag
    /\ \A r \in issued : r.slot <= r.at /\ r.at <= r.slot + MaxLag

LimiterInv == TypeOK /\ LastIsNewest /\ AllApart /\ OnTime

----------------------------------------------------------------------------
USE IntervalAssumption, LagAssumption, ClockAssumption

\* The slot reserved next is in range and an interval past everything reserved.
LEMMA NextSlotFresh ==
    ASSUME LimiterInv, NextSlot <= MaxClock
    PROVE  /\ NextSlot \in Instants
           /\ clock <= NextSlot
           /\ last <= NextSlot
           /\ \A c \in Waiting : Apart(NextSlot, slot[c])
           /\ \A r \in issued : Apart(NextSlot, r.slot)
  <1>1. /\ clock \in Nat /\ last \in Nat
        /\ \A c \in Waiting : slot[c] \in Nat
        /\ \A r \in issued : r.slot \in Nat
    BY DEF LimiterInv, TypeOK, Instants, Waiting, Calls
  <1>2. NextSlot \in Nat /\ clock <= NextSlot /\ last + MinInterval <= NextSlot
    BY <1>1 DEF NextSlot, Later
  <1>3. /\ \A c \in Waiting : slot[c] <= last
        /\ \A r \in issued : r.slot <= last
    BY DEF LimiterInv, LastIsNewest
  <1> QED
    BY <1>1, <1>2, <1>3 DEF Apart, Instants

LEMMA InitInv == Init => LimiterInv
  BY DEF Init, LimiterInv, TypeOK, LastIsNewest, AllApart, OnTime, Waiting, Instants, Calls

LEMMA ReserveInv ==
    ASSUME LimiterInv, NEW c \in Callers, Reserve(c)
    PROVE  LimiterInv'
  <1>1. /\ pc[c] = "idle" /\ pc' = [pc EXCEPT ![c] = "waiting"]
        /\ slot' = [slot EXCEPT ![c] = NextSlot]
        /\ last' = NextSlot /\ clock' = clock /\ issued' = issued
        /\ NextSlot <= MaxClock
    BY DEF Reserve
  <1>2. /\ NextSlot \in Instants /\ clock <= NextSlot /\ last <= NextSlot
        /\ \A d \in Waiting : Apart(NextSlot, slot[d])
        /\ \A r \in issued : Apart(NextSlot, r.slot)
    BY <1>1, NextSlotFresh
  <1>3. TypeOK
    BY DEF LimiterInv
  <1>4. /\ Waiting' = Waiting \cup {c} /\ c \notin Waiting
        /\ slot'[c] = NextSlot
        /\ \A d \in Waiting : slot'[d] = slot[d] /\ slot[d] \in Nat
    BY <1>1, <1>3 DEF TypeOK, Waiting, Instants
  <1>5. NextSlot \in Nat /\ last \in Nat /\ clock \in Nat /\ \A r \in issued : r.slot \in Nat
    BY <1>2, <1>3 DEF TypeOK, Instants, Calls
  <1>6. TypeOK'
    BY <1>1, <1>2, <1>3 DEF TypeOK
  <1>7. LastIsNewest'
    BY <1>1, <1>2, <1>4, <1>5 DEF LimiterInv, LastIsNewest
  <1>8. AllApart'
    BY <1>1, <1>2, <1>4, <1>5 DEF LimiterInv, AllApart, Apart
  <1>9. OnTime'
    BY <1>1, <1>2, <1>4, <1>5 DEF LimiterInv, OnTime
  <1> QED
    BY <1>6, <1>7, <1>8, <1>9 DEF LimiterInv

LEMMA ReturnInv ==
    ASSUME LimiterInv, NEW c \in Callers, Return(c)
    PROVE  LimiterInv'
  <1> DEFINE new == [who |-> c, slot |-> slot[c], at |-> clock]
  <1>1. /\ pc[c] = "waiting" /\ pc' = [pc EXCEPT ![c] = "idle"]
        /\ clock >= slot[c] /\ issued' = issued \cup {new}
        /\ clock' = clock /\ last' = last /\ slot' = slot
    BY DEF Return, ReturnAt
  <1>2. TypeOK
    BY DEF LimiterInv
  <1>3. c \in Waiting /\ Waiting' = Waiting \ {c}
    BY <1>1, <1>2 DEF TypeOK, Waiting
  <1>4. new \in Calls /\ new.slot = slot[c] /\ new.at = clock
    BY <1>2 DEF TypeOK, Calls
  <1>5. TypeOK'
    BY <1>1, <1>2, <1>4 DEF TypeOK
  <1>6. LastIsNewest'
    BY <1>1, <1>3, <1>4 DEF LimiterInv, LastIsNewest
  <1>7. AllApart'
    BY <1>1, <1>3, <1>4 DEF LimiterInv, AllApart, Apart
  <1>8. OnTime'
    BY <1>1, <1>3, <1>4 DEF LimiterInv, OnTime
  <1> QED
    BY <1>5, <1>6, <1>7, <1>8 DEF LimiterInv

LEMMA TickInv ==
    ASSUME LimiterInv, Tick
    PROVE  LimiterInv'
  <1>1. /\ clock < MaxClock /\ clock' = clock + 1
        /\ \A c \in Waiting : clock < slot[c] + MaxLag
        /\ last' = last /\ pc' = pc /\ slot' = slot /\ issued' = issued
    BY DEF Tick
  <1>2. TypeOK
    BY DEF LimiterInv
  <1>3. Waiting' = Waiting /\ \A c \in Waiting : slot[c] \in Nat
    BY <1>1, <1>2 DEF TypeOK, Waiting, Instants
  <1>4. TypeOK'
    BY <1>1, <1>2 DEF TypeOK, Instants
  <1>5. LastIsNewest' /\ AllApart'
    BY <1>1, <1>3 DEF LimiterInv, LastIsNewest, AllApart, Apart
  <1>6. OnTime'
    BY <1>1, <1>2, <1>3 DEF LimiterInv, OnTime, TypeOK, Instants
  <1> QED
    BY <1>4, <1>5, <1>6 DEF LimiterInv

LEMMA NextInv == LimiterInv /\ [Next]_vars => LimiterInv'
  <1> SUFFICES ASSUME LimiterInv, [Next]_vars PROVE LimiterInv'
    OBVIOUS
  <1>1. ASSUME NEW c \in Callers, Reserve(c) PROVE LimiterInv'
    BY <1>1, ReserveInv
  <1>2. ASSUME NEW c \in Callers, Return(c) PROVE LimiterInv'
    BY <1>2, ReturnInv
  <1>3. CASE Tick
    BY <1>3, TickInv
  <1>4. CASE UNCHANGED vars
    BY <1>4 DEF vars, LimiterInv, TypeOK, LastIsNewest, AllApart, OnTime, Waiting, Apart
  <1> QED
    BY <1>1, <1>2, <1>3, <1>4 DEF Next, Finished

\* The limiter's inductive invariant holds in every reachable state.
THEOREM InvHolds == Spec => []LimiterInv
  BY InitInv, NextInv, PTL DEF Spec

----------------------------------------------------------------------------
\* The state of the limiter is of its types, whoever calls it and when.
THEOREM TypeCorrect == Spec => []TypeOK
  <1>1. LimiterInv => TypeOK
    BY DEF LimiterInv
  <1> QED
    BY <1>1, InvHolds, PTL

\* No two calls of acquire() are ever given slots closer than one interval.
THEOREM SlotsAreApart == Spec => []SlotsApart
  <1>1. LimiterInv => SlotsApart
    BY DEF LimiterInv, AllApart, SlotsApart, Allotted, Apart
  <1> QED
    BY <1>1, InvHolds, PTL

\* Two requests leave at least one interval apart, but for MaxLag.
THEOREM RequestsAreApart == Spec => []CompletionsApart
  <1>1. ASSUME LimiterInv PROVE CompletionsApart
    <2>1. SUFFICES ASSUME NEW q \in issued, NEW r \in issued, q # r
                   PROVE  \/ q.at + MaxLag >= r.at + MinInterval
                          \/ r.at + MaxLag >= q.at + MinInterval
      BY DEF CompletionsApart
    <2>2. /\ q.slot \in Nat /\ q.at \in Nat /\ r.slot \in Nat /\ r.at \in Nat
      BY <1>1 DEF LimiterInv, TypeOK, Calls, Instants
    <2>3. Apart(q.slot, r.slot)
      BY <1>1, <2>1 DEF LimiterInv, AllApart
    <2>4. /\ q.slot <= q.at /\ q.at <= q.slot + MaxLag
          /\ r.slot <= r.at /\ r.at <= r.slot + MaxLag
      BY <1>1 DEF LimiterInv, OnTime
    <2> QED
      BY <2>2, <2>3, <2>4 DEF Apart
  <1> QED
    BY <1>1, InvHolds, PTL

----------------------------------------------------------------------------
\* The queue.  QueueBound counts all sleepers at one reading of the clock; what
\* each step keeps is the same of every later instant and the slots after it.

Beyond(t) == {c \in Waiting : slot[c] > t}

QueueInv == \A t \in Nat : t >= clock => last <= t + MinInterval * Cardinality(Beyond(t))

LEMMA BeyondFinite ==
    ASSUME NEW t
    PROVE  /\ IsFiniteSet(Waiting) /\ Cardinality(Waiting) \in Nat
           /\ IsFiniteSet(Beyond(t)) /\ Cardinality(Beyond(t)) \in Nat
           /\ Cardinality(Beyond(t)) <= Cardinality(Waiting)
  <1>1. Waiting \in SUBSET Callers /\ Beyond(t) \in SUBSET Waiting
    BY DEF Waiting, Beyond
  <1>2. IsFiniteSet(Waiting)
    BY <1>1, CallersAssumption, FS_Subset
  <1>3. IsFiniteSet(Beyond(t)) /\ Cardinality(Beyond(t)) <= Cardinality(Waiting)
    BY <1>1, <1>2, FS_Subset
  <1> QED
    BY <1>2, <1>3, FS_CardinalityType

LEMMA Intervals ==
    ASSUME NEW a \in Nat, NEW b \in Nat, a <= b
    PROVE  /\ MinInterval * a \in Nat
           /\ MinInterval * a <= MinInterval * b
           /\ MinInterval * (a + 1) = MinInterval * a + MinInterval
  OBVIOUS

LEMMA ReserveQueue ==
    ASSUME LimiterInv, QueueInv, NEW c \in Callers, Reserve(c)
    PROVE  QueueInv'
  <1>1. /\ pc[c] = "idle" /\ pc' = [pc EXCEPT ![c] = "waiting"]
        /\ slot' = [slot EXCEPT ![c] = NextSlot] /\ last' = NextSlot /\ clock' = clock
        /\ NextSlot <= MaxClock
    BY DEF Reserve
  <1>2. /\ clock \in Nat /\ last \in Nat /\ NextSlot \in Nat
        /\ NextSlot = clock \/ NextSlot = last + MinInterval
    BY DEF LimiterInv, TypeOK, Instants, NextSlot, Later
  <1>3. Waiting' = Waiting \cup {c} /\ c \notin Waiting
    BY <1>1 DEF LimiterInv, TypeOK, Waiting
  <1>4. slot'[c] = NextSlot /\ \A d \in Waiting : slot'[d] = slot[d]
    BY <1>1, <1>3 DEF LimiterInv, TypeOK, Waiting
  <1> SUFFICES ASSUME NEW t \in Nat, t >= clock
               PROVE  NextSlot <= t + MinInterval * Cardinality(Beyond(t)')
    BY <1>1 DEF QueueInv
  <1>5. Cardinality(Beyond(t)) \in Nat /\ IsFiniteSet(Beyond(t))
    BY BeyondFinite
  <1>6. last <= t + MinInterval * Cardinality(Beyond(t))
    BY DEF QueueInv
  <1>7. CASE NextSlot > t
    <2>1. Beyond(t)' = Beyond(t) \cup {c} /\ c \notin Beyond(t)
      BY <1>3, <1>4, <1>7 DEF Beyond
    <2>2. Cardinality(Beyond(t)') = Cardinality(Beyond(t)) + 1
      BY <1>5, <2>1, FS_AddElement
    <2>3. NextSlot = last + MinInterval
      BY <1>2, <1>7
    <2>4. MinInterval * Cardinality(Beyond(t)') = MinInterval * Cardinality(Beyond(t)) + MinInterval
      BY <1>5, <2>2, Intervals
    <2>5. MinInterval * Cardinality(Beyond(t)) \in Nat
      BY <1>5, Intervals
    <2> QED
      BY <1>2, <1>6, <2>3, <2>4, <2>5
  <1>8. CASE ~ (NextSlot > t)
    <2>1. Beyond(t)' = Beyond(t)
      BY <1>3, <1>4, <1>8 DEF Beyond
    <2>2. MinInterval * Cardinality(Beyond(t)') \in Nat
      BY <1>5, <2>1, Intervals
    <2> QED
      BY <1>2, <1>8, <2>2
  <1> QED
    BY <1>7, <1>8

LEMMA ReturnQueue ==
    ASSUME LimiterInv, QueueInv, NEW c \in Callers, Return(c)
    PROVE  QueueInv'
  <1>1. /\ pc' = [pc EXCEPT ![c] = "idle"] /\ clock >= slot[c]
        /\ clock' = clock /\ last' = last /\ slot' = slot
    BY DEF Return, ReturnAt
  <1>2. Waiting' = Waiting \ {c}
    BY <1>1 DEF LimiterInv, TypeOK, Waiting
  <1>3. clock \in Nat /\ slot[c] \in Nat
    BY DEF LimiterInv, TypeOK, Instants
  <1>4. ASSUME NEW t \in Nat, t >= clock
        PROVE  Beyond(t)' = Beyond(t)
    BY <1>1, <1>2, <1>3, <1>4 DEF Beyond
  <1> QED
    BY <1>1, <1>4 DEF QueueInv

LEMMA TickQueue ==
    ASSUME LimiterInv, QueueInv, Tick
    PROVE  QueueInv'
  <1>1. clock' = clock + 1 /\ last' = last /\ clock \in Nat
    BY DEF Tick, LimiterInv, TypeOK, Instants
  <1>2. \A t : Beyond(t)' = Beyond(t)
    BY DEF Tick, Beyond, Waiting
  <1> QED
    BY <1>1, <1>2 DEF QueueInv

LEMMA QueueStep == LimiterInv /\ QueueInv /\ [Next]_vars => QueueInv'
  <1> SUFFICES ASSUME LimiterInv, QueueInv, [Next]_vars PROVE QueueInv'
    OBVIOUS
  <1>1. CASE UNCHANGED vars
    BY <1>1 DEF vars, QueueInv, Beyond, Waiting
  <1> QED
    BY <1>1, ReserveQueue, ReturnQueue, TickQueue DEF Next, Finished

LEMMA InitQueue == Init => QueueInv
  <1> SUFFICES ASSUME Init, NEW t \in Nat, t >= clock
               PROVE  last <= t + MinInterval * Cardinality(Beyond(t))
    BY DEF QueueInv
  <1>1. Cardinality(Beyond(t)) \in Nat
    BY BeyondFinite
  <1>2. MinInterval * Cardinality(Beyond(t)) \in Nat
    BY <1>1, Intervals
  <1> QED
    BY <1>2 DEF Init

\* Nobody who calls acquire() now waits longer than an interval for each call
\* still waiting, and one more.
THEOREM QueueIsBounded == Spec => []QueueBound
  <1>1. Spec => []QueueInv
    BY InitQueue, QueueStep, InvHolds, PTL DEF Spec
  <1>2. ASSUME LimiterInv, QueueInv
        PROVE  QueueBound
    <2>1. clock \in Nat /\ last \in Nat
      BY <1>2 DEF LimiterInv, TypeOK, Instants
    <2>2. last <= clock + MinInterval * Cardinality(Beyond(clock))
      BY <1>2, <2>1 DEF QueueInv
    <2>3. /\ Cardinality(Waiting) \in Nat /\ Cardinality(Beyond(clock)) \in Nat
          /\ Cardinality(Beyond(clock)) <= Cardinality(Waiting)
      BY BeyondFinite
    <2>4. /\ MinInterval * Cardinality(Beyond(clock)) <= MinInterval * Cardinality(Waiting)
          /\ MinInterval * Cardinality(Beyond(clock)) \in Nat
          /\ MinInterval * Cardinality(Waiting) \in Nat
      BY <2>3, Intervals
    <2> QED
      BY <2>1, <2>2, <2>4 DEF QueueBound
  <1> QED
    BY <1>1, <1>2, InvHolds, PTL

----------------------------------------------------------------------------
\* The slots handed out, as a set of instants.  Only Reserve adds to it.

Slots == {s \in Instants : (\E c \in Waiting : slot[c] = s) \/ (\E r \in issued : r.slot = s)}

LEMMA SlotsAllotted ==
    ASSUME NEW s \in Slots
    PROVE  \E a \in Allotted : a[2] = s
  <1>1. CASE \E c \in Waiting : slot[c] = s
    <2>1. PICK c \in Waiting : slot[c] = s
      BY <1>1
    <2>2. <<c, s>> \in Allotted
      BY <2>1 DEF Allotted
    <2> QED
      BY <2>2
  <1>2. CASE \E r \in issued : r.slot = s
    <2>1. PICK r \in issued : r.slot = s
      BY <1>2
    <2>2. <<r.who, s>> \in Allotted
      BY <2>1 DEF Allotted
    <2> QED
      BY <2>2
  <1> QED
    BY <1>1, <1>2 DEF Slots

LEMMA ReserveSlots ==
    ASSUME LimiterInv, NEW c \in Callers, Reserve(c)
    PROVE  /\ NextSlot \in Nat /\ Slots' = Slots \cup {NextSlot}
           /\ last' = NextSlot /\ clock' = clock
           /\ \A d \in Waiting' :
                 slot'[d] = NextSlot \/ (d \in Waiting /\ slot'[d] = slot[d])
  <1>1. /\ pc[c] = "idle" /\ pc' = [pc EXCEPT ![c] = "waiting"]
        /\ slot' = [slot EXCEPT ![c] = NextSlot] /\ last' = NextSlot
        /\ issued' = issued /\ NextSlot <= MaxClock /\ clock' = clock
    BY DEF Reserve
  <1>2. Waiting' = Waiting \cup {c} /\ c \notin Waiting
    BY <1>1 DEF LimiterInv, TypeOK, Waiting
  <1>3. slot'[c] = NextSlot /\ \A d \in Waiting : slot'[d] = slot[d]
    BY <1>1, <1>2 DEF LimiterInv, TypeOK, Waiting
  <1>4. NextSlot \in Nat /\ NextSlot \in Instants
    BY <1>1, NextSlotFresh DEF Instants
  <1>5. Slots' = Slots \cup {NextSlot}
    BY <1>1, <1>2, <1>3, <1>4 DEF Slots, Instants
  <1> QED
    BY <1>1, <1>2, <1>3, <1>4, <1>5

LEMMA ReturnSlots ==
    ASSUME LimiterInv, NEW c \in Callers, Return(c)
    PROVE  /\ Slots' = Slots /\ last' = last /\ clock' = clock
           /\ \A d \in Waiting' : d \in Waiting /\ slot'[d] = slot[d]
  <1> DEFINE new == [who |-> c, slot |-> slot[c], at |-> clock]
  <1>1. /\ pc[c] = "waiting" /\ pc' = [pc EXCEPT ![c] = "idle"]
        /\ slot' = slot /\ last' = last /\ clock' = clock /\ issued' = issued \cup {new}
    BY DEF Return, ReturnAt
  <1>2. c \in Waiting /\ Waiting' = Waiting \ {c}
    BY <1>1 DEF LimiterInv, TypeOK, Waiting
  <1>3. new \in issued' /\ new.slot = slot[c] /\ \A r \in issued' : r \in issued \/ r = new
    BY <1>1
  <1>4. Slots' = Slots
    BY <1>1, <1>2, <1>3 DEF Slots, Instants
  <1> QED
    BY <1>1, <1>2, <1>4

LEMMA OtherSlots ==
    ASSUME Tick \/ UNCHANGED vars
    PROVE  /\ Slots' = Slots /\ last' = last /\ Waiting' = Waiting /\ slot' = slot
           /\ issued' = issued
  BY DEF Tick, vars, Slots, Instants, Waiting

\* _last is a slot that was handed out, or the zero it starts from.
LastHandedOut == last = 0 \/ last \in Slots

\* A slot in the future follows another one directly, or the zero.
Following == \A c \in Waiting : slot[c] > clock =>
                slot[c] = MinInterval \/ slot[c] - MinInterval \in Slots

LEMMA FollowingStep ==
    ASSUME LimiterInv, LastHandedOut, Following, [Next]_vars
    PROVE  LastHandedOut' /\ Following'
  <1>1. /\ clock \in Nat /\ last \in Nat
        /\ \A c \in Waiting : slot[c] \in Nat
    BY DEF LimiterInv, TypeOK, Instants, Waiting
  <1>2. ASSUME NEW c \in Callers, Reserve(c)
        PROVE  LastHandedOut' /\ Following'
    <2>1. /\ NextSlot \in Nat /\ Slots' = Slots \cup {NextSlot}
          /\ last' = NextSlot /\ clock' = clock
          /\ \A d \in Waiting' :
                slot'[d] = NextSlot \/ (d \in Waiting /\ slot'[d] = slot[d])
      BY <1>2, ReserveSlots
    <2>2. NextSlot > clock => NextSlot - MinInterval = last /\ NextSlot = last + MinInterval
      BY <1>1 DEF NextSlot, Later
    <2>3. LastHandedOut'
      BY <2>1 DEF LastHandedOut
    <2>4. Following'
      BY <1>1, <2>1, <2>2 DEF Following, LastHandedOut
    <2> QED
      BY <2>3, <2>4
  <1>3. ASSUME NEW c \in Callers, Return(c)
        PROVE  LastHandedOut' /\ Following'
    BY <1>3, ReturnSlots DEF LastHandedOut, Following
  <1>4. CASE Tick
    <2>1. clock' = clock + 1
      BY <1>4 DEF Tick
    <2> QED
      BY <1>1, <1>4, <2>1, OtherSlots DEF LastHandedOut, Following
  <1>5. CASE UNCHANGED vars
    <2>1. clock' = clock
      BY <1>5 DEF vars
    <2> QED
      BY <1>5, <2>1, OtherSlots DEF LastHandedOut, Following
  <1> QED
    BY <1>2, <1>3, <1>4, <1>5 DEF Next, Finished

\* Nobody is told to wait for an instant that no other call is the reason for.
THEOREM NoSlotIsIdle == Spec => []NoIdleSlot
  <1>1. Init => LastHandedOut /\ Following
    BY DEF Init, LastHandedOut, Following, Waiting
  <1>2. Spec => [](LastHandedOut /\ Following)
    BY <1>1, FollowingStep, InvHolds, PTL DEF Spec
  <1>3. Following => NoIdleSlot
    BY SlotsAllotted DEF Following, NoIdleSlot
  <1> QED
    BY <1>2, <1>3, PTL

----------------------------------------------------------------------------
\* The rate law.  How many slots a stretch of time can hold is kept by every
\* step for all stretches at once: a new slot is past all others by an interval,
\* so the others of its stretch fit one that is shorter by an interval.

SlotsIn(a, b) == {s \in Slots : a <= s /\ s <= b}

Sparse ==
    \A a, b \in Int :
        SlotsIn(a, b) # {} => MinInterval * (Cardinality(SlotsIn(a, b)) - 1) <= b - a

LEMMA SlotsInFinite ==
    ASSUME NEW a, NEW b
    PROVE  IsFiniteSet(SlotsIn(a, b)) /\ Cardinality(SlotsIn(a, b)) \in Nat
  <1>1. SlotsIn(a, b) \in SUBSET (0 .. MaxClock)
    BY DEF SlotsIn, Slots, Instants
  <1>2. IsFiniteSet(0 .. MaxClock)
    BY FS_Interval
  <1> QED
    BY <1>1, <1>2, FS_Subset, FS_CardinalityType

LEMMA ReserveSparse ==
    ASSUME LimiterInv, Sparse, NEW c \in Callers, Reserve(c)
    PROVE  Sparse'
  <1>1. NextSlot \in Nat /\ Slots' = Slots \cup {NextSlot}
    BY ReserveSlots
  <1>2. \A s \in Slots : s \in Nat /\ (s = NextSlot \/ s <= NextSlot - MinInterval)
    <2>1. /\ \A d \in Waiting : slot[d] <= last
          /\ \A r \in issued : r.slot <= last
      BY DEF LimiterInv, LastIsNewest
    <2>2. last + MinInterval <= NextSlot /\ last \in Nat
      BY DEF LimiterInv, TypeOK, Instants, NextSlot, Later
    <2> QED
      BY <1>1, <2>1, <2>2 DEF Slots, Instants
  <1> SUFFICES ASSUME NEW a \in Int, NEW b \in Int, SlotsIn(a, b)' # {}
               PROVE  MinInterval * (Cardinality(SlotsIn(a, b)') - 1) <= b - a
    BY DEF Sparse
  <1>3. CASE ~ (a <= NextSlot /\ NextSlot <= b) \/ NextSlot \in Slots
    <2>1. SlotsIn(a, b)' = SlotsIn(a, b)
      BY <1>1, <1>3 DEF SlotsIn
    <2> QED
      BY <2>1 DEF Sparse
  <1>4. CASE a <= NextSlot /\ NextSlot <= b /\ NextSlot \notin Slots
    <2> DEFINE e == NextSlot - MinInterval
               k == Cardinality(SlotsIn(a, e))
    <2>1. SlotsIn(a, b)' = SlotsIn(a, e) \cup {NextSlot} /\ NextSlot \notin SlotsIn(a, e)
      BY <1>1, <1>2, <1>4 DEF SlotsIn
    <2>2. k \in Nat /\ IsFiniteSet(SlotsIn(a, e))
      BY SlotsInFinite
    <2>3. Cardinality(SlotsIn(a, b)') = k + 1
      BY <2>1, <2>2, FS_AddElement
    <2>4. CASE SlotsIn(a, e) = {}
      <3>1. k = 0
        BY <2>4, FS_EmptySet
      <3> QED
        BY <1>1, <1>4, <2>3, <3>1
    <2>5. CASE SlotsIn(a, e) # {}
      <3>1. MinInterval * (k - 1) <= e - a
        BY <1>1, <2>5 DEF Sparse
      <3>2. MinInterval * k = MinInterval * (k - 1) + MinInterval
        BY <2>2
      <3>3. MinInterval * (k - 1) \in Int
        BY <2>2
      <3> QED
        BY <1>1, <1>4, <2>2, <2>3, <3>1, <3>2, <3>3
    <2> QED
      BY <2>4, <2>5
  <1> QED
    BY <1>3, <1>4

LEMMA SparseStep == LimiterInv /\ Sparse /\ [Next]_vars => Sparse'
  <1> SUFFICES ASSUME LimiterInv, Sparse, [Next]_vars PROVE Sparse'
    OBVIOUS
  <1>1. ASSUME NEW c \in Callers, Return(c) PROVE Sparse'
    BY <1>1, ReturnSlots DEF Sparse, SlotsIn
  <1>2. CASE Tick \/ UNCHANGED vars
    BY <1>2, OtherSlots DEF Sparse, SlotsIn
  <1> QED
    BY <1>1, <1>2, ReserveSparse DEF Next, Finished

\* A stretch of w units holds at most w / MinInterval slots and one more.
LEMMA StretchHolds ==
    ASSUME Sparse, NEW a \in Int, NEW w \in Nat
    PROVE  Cardinality(SlotsIn(a, a + w)) <= w \div MinInterval + 1
  <1> DEFINE k == Cardinality(SlotsIn(a, a + w))
  <1>1. k \in Nat
    BY SlotsInFinite
  <1>2. w \div MinInterval \in Nat
    OBVIOUS
  <1>3. CASE SlotsIn(a, a + w) = {}
    BY <1>2, <1>3, FS_EmptySet
  <1>4. CASE SlotsIn(a, a + w) # {}
    <2>1. MinInterval * (k - 1) <= w
      BY <1>4 DEF Sparse
    <2>2. \A j \in Int : MinInterval * j <= w => j <= w \div MinInterval
      OBVIOUS
    <2> QED
      BY <1>1, <1>2, <2>1, <2>2
  <1> QED
    BY <1>3, <1>4

\* The limit over any stretch of time: requests leave in their slots or up to
\* MaxLag after them, so those of a stretch have different slots of a stretch
\* that begins MaxLag earlier.
THEOREM RateIsLimited == Spec => []RateLaw
  <1>1. Init => Sparse
    BY DEF Init, Sparse, SlotsIn, Slots, Waiting
  <1>2. Spec => []Sparse
    BY <1>1, SparseStep, InvHolds, PTL DEF Spec
  <1>3. ASSUME LimiterInv, Sparse
        PROVE  RateLaw
    <2> SUFFICES ASSUME NEW t \in Instants, NEW u \in Instants, t <= u
                 PROVE  Cardinality({r \in issued : t <= r.at /\ r.at <= u})
                            <= (u - t + MaxLag) \div MinInterval + 1
      BY DEF RateLaw
    <2> DEFINE R == {r \in issued : t <= r.at /\ r.at <= u}
               a == t - MaxLag
               w == u - t + MaxLag
               S == SlotsIn(a, a + w)
               f == [r \in R |-> r.slot]
    <2>1. t \in Nat /\ u \in Nat /\ a \in Int /\ w \in Nat /\ a + w = u
      BY DEF Instants
    <2>2. \A r \in issued : /\ r.slot \in Instants /\ r.slot \in Nat /\ r.at \in Nat
                            /\ r.slot <= r.at /\ r.at <= r.slot + MaxLag
      BY <1>3 DEF LimiterInv, TypeOK, Calls, Instants, OnTime
    <2>3. \A r \in R : r.slot \in S
      BY <2>1, <2>2 DEF SlotsIn, Slots
    <2>4. \A q, r \in R : q.slot = r.slot => q = r
      BY <1>3, <2>2 DEF LimiterInv, AllApart, Apart
    <2>5. f \in Injection(R, S)
      BY <2>3, <2>4 DEF Injection, IsInjective
    <2>6. IsFiniteSet(S) /\ Cardinality(S) \in Nat
      BY SlotsInFinite
    <2>7. IsFiniteSet(R) /\ Cardinality(R) <= Cardinality(S)
      BY <2>5, <2>6, FS_Injection
    <2>8. Cardinality(S) <= w \div MinInterval + 1
      BY <1>3, <2>1, StretchHolds
    <2>9. Cardinality(R) \in Nat /\ w \div MinInterval \in Nat
      BY <2>1, <2>7, FS_CardinalityType
    <2> QED
      BY <2>6, <2>7, <2>8, <2>9
  <1> QED
    BY <1>2, <1>3, InvHolds, PTL

----------------------------------------------------------------------------
\* RateLimiter implements PacedGrants.  A slot is granted when the clock reaches
\* it: by the reservation if it is not in the future, else by the tick that gets
\* there, and no tick gets to two.

LEMMA PassedIs == LimiterInv => Passed = {0} \cup {s \in Slots : s <= clock}
  <1> SUFFICES ASSUME LimiterInv PROVE Passed = {0} \cup {s \in Slots : s <= clock}
    OBVIOUS
  <1>1. \A a \in Allotted : a[2] \in Slots
    BY DEF Allotted, Slots, LimiterInv, TypeOK, Calls, Waiting
  <1>2. \A s \in Slots : \E a \in Allotted : a[2] = s
    BY SlotsAllotted
  <1> QED
    BY <1>1, <1>2 DEF Passed

LEMMA Greatest ==
    ASSUME NEW S \in SUBSET Int, NEW m \in S, \A s \in S : s <= m
    PROVE  (CHOOSE x \in S : \A s \in S : s <= x) = m
  <1>1. \A x \in S : (\A s \in S : s <= x) => x = m
    OBVIOUS
  <1> QED
    BY <1>1

Latest(m) == m \in Passed /\ \A s \in Passed : s <= m

\* There is a latest grant, no slot is before the first interval is over, and no
\* request was made in the future.
PacedInv ==
    /\ \E m \in Nat : Latest(m)
    /\ \A s \in Slots : s >= MinInterval
    /\ \A r \in issued : r.at <= clock

LEMMA LastGrantIs ==
    ASSUME LimiterInv, NEW m \in Nat, Latest(m)
    PROVE  LastGrant = m
  <1>1. Passed \in SUBSET Int
    BY PassedIs DEF Slots, Instants
  <1> QED
    BY <1>1, Greatest DEF LastGrant, Latest

LEMMA PassedNext == LimiterInv' => Passed' = {0} \cup {s \in Slots' : s <= clock'}
  <1>1. (LimiterInv => Passed = {0} \cup {s \in Slots : s <= clock})'
    BY PassedIs, PTL
  <1> QED
    BY <1>1

LEMMA LastGrantNext ==
    ASSUME LimiterInv', NEW m \in Nat, Latest(m)'
    PROVE  LastGrant' = m
  <1>1. Passed' \in SUBSET Int
    BY PassedNext DEF Slots, Instants
  <1> QED
    BY <1>1, Greatest DEF LastGrant, Latest

\* A slot that is not passed yet leaves the latest grant as it is.
LEMMA NoGrant ==
    ASSUME LimiterInv, PacedInv, LimiterInv', Passed' = Passed
    PROVE  LastGrant' = LastGrant /\ \E m \in Nat : Latest(m)'
  <1>1. PICK m \in Nat : Latest(m)
    BY DEF PacedInv
  <1>2. Latest(m)'
    BY <1>1 DEF Latest
  <1> QED
    BY <1>1, <1>2, LastGrantIs, LastGrantNext

\* A slot that is passed at the new reading of the clock is the latest grant, and
\* an interval after the one before.
LEMMA GrantNow ==
    ASSUME LimiterInv, PacedInv, LimiterInv', NEW n \in Nat,
           Passed' = Passed \cup {n}, \A s \in Slots : s <= clock => n >= s + MinInterval,
           n >= MinInterval
    PROVE  /\ LastGrant \in Nat /\ LastGrant' = n /\ n >= LastGrant + MinInterval
           /\ \E m \in Nat : Latest(m)'
  <1>1. PICK m \in Nat : Latest(m)
    BY DEF PacedInv
  <1>2. LastGrant = m
    BY <1>1, LastGrantIs
  <1>3. \A s \in Passed : s \in Nat /\ n >= s + MinInterval
    BY PassedIs DEF Slots, Instants
  <1>4. Latest(n)'
    BY <1>3 DEF Latest
  <1> QED
    BY <1>1, <1>2, <1>3, <1>4, LastGrantNext DEF Latest

LEMMA InitPaced == Init => PacedInv /\ Paced!Init
  <1> SUFFICES ASSUME Init PROVE PacedInv /\ Paced!Init
    OBVIOUS
  <1>1. Waiting = {} /\ Slots = {} /\ issued = {} /\ clock \in Instants
    BY DEF Init, Waiting, Slots
  <1>2. Passed = {0}
    BY <1>1, InitInv, PassedIs
  <1>3. Latest(0)
    BY <1>2 DEF Latest
  <1>4. LastGrant = 0
    BY <1>3, InitInv, LastGrantIs
  <1>5. Due = {}
    BY <1>1 DEF Due
  <1> QED
    BY <1>1, <1>3, <1>4, <1>5 DEF PacedInv, Paced!Init, Instants

LEMMA ReservePaced ==
    ASSUME LimiterInv, PacedInv, NEW c \in Callers, Reserve(c)
    PROVE  PacedInv' /\ [Paced!Next]_Paced!vars
  <1>1. /\ pc[c] = "idle" /\ pc' = [pc EXCEPT ![c] = "waiting"]
        /\ slot' = [slot EXCEPT ![c] = NextSlot] /\ issued' = issued /\ clock' = clock
    BY DEF Reserve
  <1>2. NextSlot \in Nat /\ Slots' = Slots \cup {NextSlot} /\ clock \in Nat /\ last \in Nat
    BY ReserveSlots DEF LimiterInv, TypeOK, Instants
  <1>3. LimiterInv'
    BY ReserveInv
  <1>4. /\ NextSlot >= clock /\ NextSlot >= MinInterval
        /\ \A s \in Slots : s \in Nat /\ NextSlot >= s + MinInterval
    BY <1>2 DEF NextSlot, Later, LimiterInv, LastIsNewest, Slots, Instants
  <1>5. Waiting' = Waiting \cup {c} /\ c \notin Waiting
    BY <1>1 DEF LimiterInv, TypeOK, Waiting
  <1>6. slot'[c] = NextSlot /\ \A d \in Waiting : slot'[d] = slot[d]
    BY <1>1, <1>5 DEF LimiterInv, TypeOK, Waiting
  <1>7. (\A s \in Slots : s >= MinInterval)' /\ (\A r \in issued : r.at <= clock)'
    BY <1>1, <1>2, <1>4 DEF PacedInv
  <1>8. CASE NextSlot = clock
    <2>1. Passed' = Passed \cup {clock}
      BY <1>1, <1>2, <1>3, <1>8, PassedIs, PassedNext
    <2>2. /\ LastGrant \in Nat /\ LastGrant' = clock /\ clock >= LastGrant + MinInterval
          /\ \E m \in Nat : Latest(m)'
      BY <1>2, <1>3, <1>4, <1>8, <2>1, GrantNow
    <2>3. Due' = Due \cup {c} /\ c \notin Due
      BY <1>1, <1>2, <1>5, <1>6, <1>8 DEF Due
    <2>4. Paced!Grant(c)
      BY <1>1, <2>2, <2>3 DEF Paced!Grant
    <2> QED
      BY <1>7, <2>2, <2>4 DEF PacedInv, Paced!Next
  <1>9. CASE NextSlot # clock
    <2>1. Passed' = Passed
      BY <1>1, <1>2, <1>3, <1>4, <1>9, PassedIs, PassedNext
    <2>2. LastGrant' = LastGrant /\ \E m \in Nat : Latest(m)'
      BY <1>3, <2>1, NoGrant
    <2>3. Due' = Due
      BY <1>1, <1>2, <1>4, <1>5, <1>6, <1>9 DEF Due
    <2> QED
      BY <1>1, <1>7, <2>2, <2>3 DEF PacedInv, Paced!vars
  <1> QED
    BY <1>8, <1>9

LEMMA ReturnPaced ==
    ASSUME LimiterInv, PacedInv, NEW c \in Callers, Return(c)
    PROVE  PacedInv' /\ [Paced!Next]_Paced!vars
  <1>1. /\ pc[c] = "waiting" /\ pc' = [pc EXCEPT ![c] = "idle"] /\ clock >= slot[c]
        /\ issued' = issued \cup {[who |-> c, slot |-> slot[c], at |-> clock]}
        /\ slot' = slot /\ clock' = clock
    BY DEF Return, ReturnAt
  <1>2. Slots' = Slots /\ LimiterInv' /\ clock \in Nat /\ slot[c] \in Nat
    BY ReturnSlots, ReturnInv DEF LimiterInv, TypeOK, Instants
  <1>3. Passed' = Passed
    BY <1>1, <1>2, PassedIs, PassedNext
  <1>4. LastGrant' = LastGrant /\ \E m \in Nat : Latest(m)'
    BY <1>2, <1>3, NoGrant
  <1>5. c \in Waiting /\ Waiting' = Waiting \ {c}
    BY <1>1 DEF LimiterInv, TypeOK, Waiting
  <1>6. c \in Due /\ Due' = Due \ {c}
    BY <1>1, <1>2, <1>5 DEF Due
  <1>7. Paced!Spend(c)
    BY <1>1, <1>4, <1>6 DEF Paced!Spend
  <1>8. (\A s \in Slots : s >= MinInterval)' /\ (\A r \in issued : r.at <= clock)'
    BY <1>1, <1>2 DEF PacedInv
  <1> QED
    BY <1>4, <1>7, <1>8 DEF PacedInv, Paced!Next

LEMMA TickPaced ==
    ASSUME LimiterInv, PacedInv, Tick
    PROVE  PacedInv' /\ [Paced!Next]_Paced!vars
  <1>1. /\ clock' = clock + 1 /\ clock \in Nat
        /\ Slots' = Slots /\ Waiting' = Waiting /\ slot' = slot /\ issued' = issued
        /\ \A c \in Waiting : slot[c] \in Nat
    BY OtherSlots DEF Tick, LimiterInv, TypeOK, Instants, Waiting
  <1>2. LimiterInv'
    BY TickInv
  <1>3. Slots \subseteq Nat
    BY DEF Slots, Instants
  <1>4. (\A s \in Slots : s >= MinInterval)' /\ (\A r \in issued : r.at <= clock)'
    BY <1>1 DEF PacedInv, LimiterInv, TypeOK, Calls, Instants
  <1>5. \A s \in Slots : s <= clock' <=> s <= clock \/ s = clock + 1
    BY <1>1, <1>3
  <1>6. /\ Passed = {0} \cup {s \in Slots : s <= clock}
        /\ Passed' = {0} \cup {s \in Slots : s <= clock'}
    BY <1>1, <1>2, PassedIs, PassedNext
  <1>7. CASE \E c \in Waiting : slot[c] = clock + 1
    <2>1. PICK c \in Waiting : slot[c] = clock + 1
      BY <1>7
    <2>2. clock + 1 \in Slots
      BY <2>1 DEF Slots, LimiterInv, TypeOK, Waiting
    <2>3. Passed' = Passed \cup {clock + 1}
      BY <1>5, <1>6, <2>2
    <2>4. \A s \in Slots : s <= clock => clock + 1 >= s + MinInterval
      BY <1>1, <1>3, <2>1 DEF Slots, LimiterInv, AllApart, Apart
    <2>5. clock + 1 >= MinInterval
      BY <2>2 DEF PacedInv
    <2>6. /\ LastGrant \in Nat /\ LastGrant' = clock + 1
          /\ clock + 1 >= LastGrant + MinInterval
          /\ \E m \in Nat : Latest(m)'
      BY <1>1, <1>2, <2>3, <2>4, <2>5, GrantNow
    <2>7. \A d \in Waiting : slot[d] = clock + 1 => d = c
      BY <1>1, <2>1 DEF LimiterInv, AllApart, Apart
    <2>8. Due' = Due \cup {c} /\ c \notin Due
      BY <1>1, <2>1, <2>7 DEF Due
    <2>9. c \in Callers /\ Paced!Grant(c)
      BY <1>1, <2>1, <2>6, <2>8 DEF Paced!Grant, Waiting
    <2> QED
      BY <1>4, <2>6, <2>9 DEF PacedInv, Paced!Next
  <1>8. CASE ~ \E c \in Waiting : slot[c] = clock + 1
    <2>1. clock + 1 \notin Slots
      BY <1>1, <1>8 DEF Slots, PacedInv, LimiterInv, OnTime, TypeOK, Calls, Instants
    <2>2. Passed' = Passed
      BY <1>5, <1>6, <2>1
    <2>3. LastGrant' = LastGrant /\ \E m \in Nat : Latest(m)'
      BY <1>2, <2>2, NoGrant
    <2>4. Due' = Due
      BY <1>1, <1>8 DEF Due
    <2>5. Paced!Pass
      BY <1>1, <2>3, <2>4 DEF Paced!Pass
    <2> QED
      BY <1>4, <2>3, <2>5 DEF PacedInv, Paced!Next
  <1> QED
    BY <1>7, <1>8

LEMMA PacedStep ==
    ASSUME LimiterInv, PacedInv, [Next]_vars
    PROVE  PacedInv' /\ [Paced!Next]_Paced!vars
  <1>1. CASE UNCHANGED vars
    BY <1>1 DEF vars, PacedInv, Latest, Passed, Allotted, Slots, Waiting, Instants, Paced!vars,
       Due, LastGrant
  <1> QED
    BY <1>1, ReservePaced, ReturnPaced, TickPaced DEF Next, Finished

\* Every run of the limiter is one of PacedGrants, with the sleepers whose slot
\* has come as the threads that hold a grant.
THEOREM ImplementsPacedGrants == Spec => PacedSpec
  <1>1. Init => PacedInv /\ Paced!Init
    BY InitPaced
  <1>2. LimiterInv /\ PacedInv /\ [Next]_vars => PacedInv' /\ [Paced!Next]_Paced!vars
    BY PacedStep
  <1> QED
    BY <1>1, <1>2, InvHolds, PTL DEF Spec, PacedSpec, Paced!Spec
=============================================================================
