--------------------------- MODULE TTLCacheProofs ---------------------------
(***************************************************************************)
(* TTLCache's safety for any threads, keys, TTL and timeout.  The promise  *)
(* a follower waits on is what needs strengthening: SingleFlight and the   *)
(* rest do not say that its leader computes the follower's own key, nor    *)
(* that the computation was still going on when the follower joined.       *)
(*                                                                         *)
(* From the invariant follow the properties of one state, that the cache   *)
(* implements SingleFlight, and that a key is asked for once per TTL.      *)
(***************************************************************************)
EXTENDS TTLCache, LruStoreProofs

USE TTLAssumption, FlightTimeoutAssumption, ClockAssumption, NoneAssumption, MaxSizeAssumption

\* An entry holds a value of its own key, ages from when it was computed, and
\* is not beside a flight.
EntriesSound ==
    \A k \in Keys : entry[k] # None =>
        /\ entry[k].value.kind = "value"
        /\ entry[k].value.key = k
        /\ entry[k].value.done <= clock
        /\ entry[k].expires = entry[k].value.done + TTL
        /\ inflight[k] = None

\* A call knows its key, its leader has an outcome to publish, and what it has
\* for its caller is of its key and recent enough.
CallsSound ==
    \A t \in Threads :
        /\ since[t] <= clock
        /\ pc[t] # "idle" => key[t] \in Keys
        /\ pc[t] = "publish" => result[t] # None
        /\ result[t] # None =>
              /\ result[t].key = key[t]
              /\ result[t].done <= clock
              /\ result[t].kind = "value" =>
                    result[t].done >= since[t] \/ since[t] < result[t].done + TTL
              /\ result[t].kind = "error" => result[t].done >= since[t]

\* A follower with nothing yet joined a computation of its key before it ended.
FollowersSound ==
    \A t \in Threads : pc[t] = "wait" /\ result[t] = None =>
        /\ leader[t] \in Threads
        /\ pc[leader[t]] \in {"compute", "publish"}
        /\ key[leader[t]] = key[t]
        /\ pc[leader[t]] = "publish" => since[t] <= result[leader[t]].done

\* The recency order is a bounded list of the keys that have an entry.
StoreSound ==
    /\ Once(order)
    /\ Len(order) <= MaxSize
    /\ \A k \in Keys : entry[k] # None <=> k \in ToSet(order)

CacheInv ==
    /\ TypeOK
    /\ ClaimsAreComputing
    /\ EntriesSound
    /\ CallsSound
    /\ FollowersSound
    /\ StoreSound

----------------------------------------------------------------------------
LEMMA OutcomeType ==
    ASSUME TypeOK, NEW t \in Threads, key[t] \in Keys,
           NEW kind \in {"value", "error", "timeout"}
    PROVE  /\ Outcome(t, kind) \in Outcomes
           /\ Outcome(t, kind) # None
           /\ NewEntry(t, kind) \in Entries
           /\ NewEntry(t, kind) # None
  <1>1. Outcome(t, kind) \in Outcomes
    BY DEF Outcome, Outcomes, TypeOK
  <1>2. clock + TTL \in 0 .. MaxClock + TTL
    BY DEF TypeOK, Instants
  <1>3. NewEntry(t, kind) \in Entries
    BY <1>1, <1>2 DEF NewEntry, Entries
  <1> QED
    BY <1>1, <1>3

LEMMA InitInv == Init => CacheInv
  <1>1. <<>> \in Seq(Keys) /\ Once(<<>>) /\ Len(<<>>) <= MaxSize
    <2>1. \A i \in DOMAIN <<>> : FALSE
      OBVIOUS
    <2> QED
      BY <2>1 DEF Once
  <1> SUFFICES ASSUME Init PROVE CacheInv
    OBVIOUS
  <1>2. TypeOK /\ StoreSound
    <2>1. ToSet(<<>>) = {}
      BY DEF ToSet
    <2> QED
      BY <1>1, <2>1 DEF Init, TypeOK, Instants, StoreSound
  <1>3. ClaimsAreComputing /\ EntriesSound /\ CallsSound /\ FollowersSound
    BY DEF Init, ClaimsAreComputing, EntriesSound, CallsSound, FollowersSound
  <1> QED
    BY <1>2, <1>3 DEF CacheInv

\* Reading, dropping and storing an entry keep the store sound.
LEMMA ReadStore ==
    ASSUME TypeOK, StoreSound, NEW k \in Keys, entry[k] # None,
           order' = Touch(order, k), entry' = entry
    PROVE  order' \in Seq(Keys) /\ StoreSound'
  <1>1. order \in Seq(Keys) /\ Once(order) /\ k \in ToSet(order)
    BY DEF TypeOK, StoreSound
  <1>2. /\ order' \in Seq(Keys) /\ Once(order')
        /\ ToSet(order') = ToSet(order) \cup {k}
    BY <1>1, TouchFacts
  <1>3. Len(order') = Len(order)
    BY <1>1, TouchPresent
  <1> QED
    BY <1>1, <1>2, <1>3 DEF StoreSound

LEMMA PopStore ==
    ASSUME TypeOK, StoreSound, NEW k \in Keys, Pop(k)
    PROVE  /\ order' \in Seq(Keys) /\ StoreSound'
           /\ entry' \in [Keys -> Entries \cup {None}]
           /\ \A j \in Keys : entry'[j] = IF j = k THEN None ELSE entry[j]
  <1>1. order \in Seq(Keys) /\ Once(order) /\ Len(order) <= MaxSize
        /\ entry \in [Keys -> Entries \cup {None}]
    BY DEF TypeOK, StoreSound
  <1>2. order' = Drop(order, k) /\ entry' = [entry EXCEPT ![k] = None]
    BY DEF Pop
  <1>3. /\ order' \in Seq(Keys) /\ Once(order') /\ Len(order') <= Len(order)
        /\ ToSet(order') = ToSet(order) \ {k}
    BY <1>1, <1>2, DropFacts
  <1>4. Len(order') <= MaxSize
    BY <1>1, <1>3
  <1>5. \A j \in Keys : entry'[j] = IF j = k THEN None ELSE entry[j]
    BY <1>1, <1>2
  <1>6. \A j \in Keys : entry'[j] # None <=> j \in ToSet(order')
    BY <1>3, <1>5 DEF StoreSound
  <1> QED
    BY <1>1, <1>2, <1>3, <1>4, <1>5, <1>6 DEF StoreSound

LEMMA KeepStore ==
    ASSUME TypeOK, StoreSound, NEW k \in Keys, NEW e \in Entries, Keep(k, e)
    PROVE  /\ order' \in Seq(Keys) /\ StoreSound'
           /\ entry' \in [Keys -> Entries \cup {None}]
           /\ entry' = [j \in Keys |-> IF j = k THEN e
                                        ELSE IF j \in ToSet(order') THEN entry[j] ELSE None]
           /\ entry'[k] = e
           /\ \A j \in Keys \ {k} : entry'[j] \in {entry[j], None}
  <1>1. order \in Seq(Keys) /\ Once(order)
        /\ entry \in [Keys -> Entries \cup {None}]
    BY DEF TypeOK, StoreSound
  <1> DEFINE s == Insert(order, k)
  <1>2. order' = s
        /\ entry' = [j \in Keys |-> IF j = k THEN e
                                     ELSE IF j \in ToSet(s) THEN entry[j] ELSE None]
    BY DEF Keep
  <1>3. /\ s \in Seq(Keys) /\ Once(s) /\ Len(s) <= MaxSize
        /\ s # <<>> /\ s[Len(s)] = k
    BY <1>1, InsertFacts
  <1> HIDE DEF s
  <1>4. k \in ToSet(s) /\ ToSet(s) \subseteq ToSet(order) \cup {k}
    BY <1>1, InsertKeeps DEF s
  <1>5. \A j \in Keys : entry'[j] # None <=> j \in ToSet(order')
    BY <1>2, <1>4 DEF StoreSound
  <1> QED
    BY <1>1, <1>2, <1>3, <1>5 DEF StoreSound

LEMMA HitInv ==
    ASSUME CacheInv, NEW t \in Threads, NEW k \in Keys, Hit(t, k)
    PROVE  CacheInv'
  <1>1. TypeOK /\ StoreSound
    BY DEF CacheInv
  <1>2. /\ entry[k] # None /\ entry[k].expires > clock
        /\ pc[t] = "idle"
        /\ key' = [key EXCEPT ![t] = k] /\ since' = [since EXCEPT ![t] = clock]
        /\ result' = [result EXCEPT ![t] = entry[k].value]
        /\ order' = Touch(order, k)
        /\ UNCHANGED <<clock, entry, inflight, pc, leader>>
    BY DEF Hit, Live, Begin
  <1>3. /\ entry[k] \in Entries /\ entry[k].value \in Outcomes
        /\ entry[k].value.done \in Nat /\ clock \in Nat
    BY <1>1, <1>2 DEF TypeOK, Entries, Outcomes, Instants
  <1>4. /\ entry[k].value.kind = "value" /\ entry[k].value.key = k
        /\ entry[k].value.done <= clock
        /\ entry[k].expires = entry[k].value.done + TTL
    BY <1>2 DEF CacheInv, EntriesSound
  <1>5. TypeOK'
    <2>1. order' \in Seq(Keys)
      BY <1>1, <1>2, ReadStore
    <2> QED
      BY <1>1, <1>2, <1>3, <2>1 DEF TypeOK
  <1>6. ClaimsAreComputing'
    BY <1>1, <1>2 DEF CacheInv, ClaimsAreComputing, TypeOK
  <1>7. EntriesSound'
    BY <1>2 DEF CacheInv, EntriesSound
  <1>8. CallsSound'
    BY <1>1, <1>2, <1>3, <1>4 DEF CacheInv, CallsSound, TypeOK
  <1>9. FollowersSound'
    BY <1>1, <1>2 DEF CacheInv, FollowersSound, TypeOK
  <1>10. StoreSound'
    BY <1>1, <1>2, ReadStore
  <1> QED
    BY <1>5, <1>6, <1>7, <1>8, <1>9, <1>10 DEF CacheInv

LEMMA ClaimInv ==
    ASSUME CacheInv, NEW t \in Threads, NEW k \in Keys, Claim(t, k)
    PROVE  CacheInv'
  <1>1. TypeOK /\ StoreSound
    BY DEF CacheInv
  <1>2. /\ inflight[k] = None /\ pc[t] = "idle" /\ Pop(k)
        /\ key' = [key EXCEPT ![t] = k] /\ since' = [since EXCEPT ![t] = clock]
        /\ inflight' = [inflight EXCEPT ![k] = t]
        /\ pc' = [pc EXCEPT ![t] = "compute"]
        /\ result' = [result EXCEPT ![t] = None]
        /\ clock' = clock /\ leader' = leader
    BY DEF Claim, ClaimStep, Begin
  <1>3. /\ order' \in Seq(Keys) /\ StoreSound'
        /\ entry' \in [Keys -> Entries \cup {None}]
        /\ \A j \in Keys : entry'[j] = IF j = k THEN None ELSE entry[j]
    BY <1>1, <1>2, PopStore
  <1>4. TypeOK'
    BY <1>1, <1>2, <1>3 DEF TypeOK
  <1>5. ClaimsAreComputing'
    BY <1>1, <1>2 DEF CacheInv, ClaimsAreComputing, TypeOK
  <1>6. EntriesSound'
    BY <1>1, <1>2, <1>3 DEF CacheInv, EntriesSound, TypeOK
  <1>7. CallsSound'
    <2>1. clock \in Nat
      BY <1>1 DEF TypeOK, Instants
    <2> QED
      BY <1>1, <1>2, <2>1 DEF CacheInv, CallsSound, TypeOK
  <1>8. FollowersSound'
    BY <1>1, <1>2 DEF CacheInv, FollowersSound, TypeOK
  <1> QED
    BY <1>3, <1>4, <1>5, <1>6, <1>7, <1>8 DEF CacheInv

LEMMA JoinInv ==
    ASSUME CacheInv, NEW t \in Threads, NEW k \in Keys, Join(t, k)
    PROVE  CacheInv'
  <1>1. TypeOK /\ StoreSound
    BY DEF CacheInv
  <1>2. /\ inflight[k] # None /\ pc[t] = "idle" /\ Pop(k)
        /\ key' = [key EXCEPT ![t] = k] /\ since' = [since EXCEPT ![t] = clock]
        /\ leader' = [leader EXCEPT ![t] = inflight[k]]
        /\ pc' = [pc EXCEPT ![t] = "wait"]
        /\ result' = [result EXCEPT ![t] = None]
        /\ clock' = clock /\ inflight' = inflight
    BY DEF Join, Begin
  <1>3. /\ order' \in Seq(Keys) /\ StoreSound'
        /\ entry' \in [Keys -> Entries \cup {None}]
        /\ \A j \in Keys : entry'[j] = IF j = k THEN None ELSE entry[j]
    BY <1>1, <1>2, PopStore
  <1>4. inflight[k] \in Threads
    BY <1>1, <1>2 DEF TypeOK
  <1>5. pc[inflight[k]] = "compute" /\ key[inflight[k]] = k /\ inflight[k] # t
    BY <1>2, <1>4 DEF CacheInv, ClaimsAreComputing
  <1>6. TypeOK'
    BY <1>1, <1>2, <1>3, <1>4 DEF TypeOK
  <1>7. ClaimsAreComputing'
    BY <1>1, <1>2 DEF CacheInv, ClaimsAreComputing, TypeOK
  <1>8. EntriesSound'
    BY <1>1, <1>2, <1>3 DEF CacheInv, EntriesSound, TypeOK
  <1>9. CallsSound'
    <2>1. clock \in Nat
      BY <1>1 DEF TypeOK, Instants
    <2> QED
      BY <1>1, <1>2, <2>1 DEF CacheInv, CallsSound, TypeOK
  <1>10. FollowersSound'
    BY <1>1, <1>2, <1>4, <1>5 DEF CacheInv, FollowersSound, TypeOK
  <1> QED
    BY <1>3, <1>6, <1>7, <1>8, <1>9, <1>10 DEF CacheInv

\* compute() ended, in either way: what both ends share.
LEMMA FinishInv ==
    ASSUME CacheInv, NEW t \in Threads, NEW kind \in {"value", "error"},
           Finish(t, kind), Release(key[t])
    PROVE  /\ key[t] \in Keys
           /\ clock' = clock /\ key' = key /\ since' = since /\ leader' = leader
           /\ inflight' \in [Keys -> Threads \cup {None}]
           /\ pc' \in [Threads -> {"idle", "compute", "publish", "wait"}]
           /\ result' \in [Threads -> Outcomes \cup {None}]
           /\ ClaimsAreComputing' /\ CallsSound' /\ FollowersSound'
           /\ \A k \in Keys : inflight'[k] = IF k = key[t] THEN None ELSE inflight[k]
  <1>1. TypeOK
    BY DEF CacheInv
  <1>2. /\ pc[t] = "compute" /\ pc' = [pc EXCEPT ![t] = "publish"]
        /\ result' = [result EXCEPT ![t] = Outcome(t, kind)]
        /\ inflight' = [inflight EXCEPT ![key[t]] = None]
        /\ clock' = clock /\ key' = key /\ since' = since /\ leader' = leader
    BY DEF Finish, Release
  <1>3. key[t] \in Keys /\ since[t] <= clock
    BY <1>2 DEF CacheInv, CallsSound
  <1>4. Outcome(t, kind) \in Outcomes /\ Outcome(t, kind) # None
    BY <1>1, <1>3, OutcomeType
  <1>5. /\ Outcome(t, kind).key = key[t] /\ Outcome(t, kind).done = clock
        /\ Outcome(t, kind).kind = kind
    BY DEF Outcome
  <1>6. clock \in Nat /\ \A u \in Threads : since[u] \in Nat
    BY <1>1 DEF TypeOK, Instants
  <1>7. /\ inflight' \in [Keys -> Threads \cup {None}]
        /\ pc' \in [Threads -> {"idle", "compute", "publish", "wait"}]
        /\ result' \in [Threads -> Outcomes \cup {None}]
        /\ \A k \in Keys : inflight'[k] = IF k = key[t] THEN None ELSE inflight[k]
    BY <1>1, <1>2, <1>3, <1>4 DEF TypeOK
  <1>8. ClaimsAreComputing'
    BY <1>1, <1>2, <1>3 DEF CacheInv, ClaimsAreComputing, TypeOK
  <1>9. CallsSound'
    BY <1>1, <1>2, <1>3, <1>4, <1>5, <1>6 DEF CacheInv, CallsSound, TypeOK
  <1>10. FollowersSound'
    <2> SUFFICES ASSUME NEW u \in Threads, pc'[u] = "wait", result'[u] = None
                 PROVE  /\ leader[u] \in Threads
                        /\ pc'[leader[u]] \in {"compute", "publish"}
                        /\ key[leader[u]] = key[u]
                        /\ pc'[leader[u]] = "publish" => since[u] <= result'[leader[u]].done
      BY <1>2 DEF FollowersSound
    <2>1. u # t /\ pc[u] = "wait" /\ result[u] = None
      BY <1>1, <1>2 DEF TypeOK
    <2>2. /\ leader[u] \in Threads /\ pc[leader[u]] \in {"compute", "publish"}
          /\ key[leader[u]] = key[u]
          /\ pc[leader[u]] = "publish" => since[u] <= result[leader[u]].done
      BY <2>1 DEF CacheInv, FollowersSound
    <2>3. CASE leader[u] = t
      <3>1. since[u] <= clock
        BY DEF CacheInv, CallsSound
      <3> QED
        BY <1>1, <1>2, <1>5, <2>2, <2>3, <3>1 DEF TypeOK
    <2>4. CASE leader[u] # t
      BY <1>1, <1>2, <2>2, <2>4 DEF TypeOK
    <2> QED
      BY <2>3, <2>4
  <1> QED
    BY <1>2, <1>3, <1>7, <1>8, <1>9, <1>10

LEMMA StoreInv ==
    ASSUME CacheInv, NEW t \in Threads, Store(t)
    PROVE  CacheInv'
  <1>1. TypeOK /\ StoreSound
    BY DEF CacheInv
  <1>2. Finish(t, "value") /\ Keep(key[t], NewEntry(t, "value")) /\ Release(key[t])
    BY DEF Store
  <1> DEFINE k == key[t]
             e == NewEntry(t, "value")
  <1>3. /\ k \in Keys
        /\ clock' = clock /\ key' = key /\ since' = since /\ leader' = leader
        /\ inflight' \in [Keys -> Threads \cup {None}]
        /\ pc' \in [Threads -> {"idle", "compute", "publish", "wait"}]
        /\ result' \in [Threads -> Outcomes \cup {None}]
        /\ ClaimsAreComputing' /\ CallsSound' /\ FollowersSound'
        /\ \A j \in Keys : inflight'[j] = IF j = k THEN None ELSE inflight[j]
    BY <1>2, FinishInv
  <1>4. e \in Entries /\ e # None
    BY <1>1, <1>3, OutcomeType
  <1>5. /\ e.value.kind = "value" /\ e.value.key = k /\ e.value.done = clock
        /\ e.expires = clock + TTL
    BY DEF NewEntry, Outcome
  <1>6. clock \in Nat
    BY <1>1 DEF TypeOK, Instants
  <1> HIDE DEF k, e
  <1>7. /\ order' \in Seq(Keys) /\ StoreSound'
        /\ entry' \in [Keys -> Entries \cup {None}]
        /\ entry'[k] = e
        /\ \A j \in Keys \ {k} : entry'[j] \in {entry[j], None}
    BY <1>1, <1>2, <1>3, <1>4, KeepStore DEF k, e
  <1>8. TypeOK'
    BY <1>1, <1>3, <1>7 DEF TypeOK
  <1>9. EntriesSound'
    BY <1>3, <1>5, <1>6, <1>7 DEF CacheInv, EntriesSound
  <1> QED
    BY <1>3, <1>7, <1>8, <1>9 DEF CacheInv

LEMMA FailInv ==
    ASSUME CacheInv, NEW t \in Threads, Fail(t)
    PROVE  CacheInv'
  <1>1. TypeOK /\ StoreSound
    BY DEF CacheInv
  <1>2. Finish(t, "error") /\ Release(key[t]) /\ order' = order /\ entry' = entry
    BY DEF Fail, store
  <1>3. /\ key[t] \in Keys
        /\ clock' = clock /\ key' = key /\ since' = since /\ leader' = leader
        /\ inflight' \in [Keys -> Threads \cup {None}]
        /\ pc' \in [Threads -> {"idle", "compute", "publish", "wait"}]
        /\ result' \in [Threads -> Outcomes \cup {None}]
        /\ ClaimsAreComputing' /\ CallsSound' /\ FollowersSound'
        /\ \A k \in Keys : inflight'[k] = IF k = key[t] THEN None ELSE inflight[k]
    BY <1>2, FinishInv
  <1>4. TypeOK'
    BY <1>1, <1>2, <1>3 DEF TypeOK
  <1>5. StoreSound' /\ EntriesSound'
    BY <1>1, <1>2, <1>3 DEF CacheInv, StoreSound, EntriesSound
  <1> QED
    BY <1>3, <1>4, <1>5 DEF CacheInv

LEMMA SettleInv ==
    ASSUME CacheInv, NEW t \in Threads, Fulfill(t) \/ Reject(t)
    PROVE  CacheInv'
  <1>1. TypeOK
    BY DEF CacheInv
  <1>2. /\ pc[t] = "publish" /\ result[t].kind \in {"value", "error"}
        /\ pc' = [pc EXCEPT ![t] = "idle"]
        /\ result' = [u \in Threads |->
              IF leader[u] = t /\ pc[u] = "wait" /\ result[u] = None
              THEN result[t] ELSE result[u]]
        /\ UNCHANGED <<clock, order, entry, inflight, key, since, leader>>
    BY DEF Fulfill, Reject, Settle, Followers
  <1>3. result[t] \in Outcomes /\ result[t] # None
    BY <1>1, <1>2 DEF CacheInv, CallsSound, TypeOK
  <1>4. TypeOK'
    BY <1>1, <1>2, <1>3 DEF TypeOK
  <1>5. ClaimsAreComputing'
    BY <1>1, <1>2 DEF CacheInv, ClaimsAreComputing, TypeOK
  <1>6. EntriesSound' /\ StoreSound'
    BY <1>2 DEF CacheInv, EntriesSound, StoreSound
  <1>7. CallsSound'
    <2> SUFFICES ASSUME NEW u \in Threads
                 PROVE  /\ since[u] <= clock
                        /\ pc'[u] # "idle" => key[u] \in Keys
                        /\ pc'[u] = "publish" => result'[u] # None
                        /\ result'[u] # None =>
                            /\ result'[u].key = key[u]
                            /\ result'[u].done <= clock
                            /\ result'[u].kind = "value" =>
                                  \/ result'[u].done >= since[u]
                                  \/ since[u] < result'[u].done + TTL
                            /\ result'[u].kind = "error" => result'[u].done >= since[u]
      BY <1>2 DEF CallsSound
    <2>1. CASE leader[u] = t /\ pc[u] = "wait" /\ result[u] = None
      <3>1. /\ result'[u] = result[t] /\ key[t] = key[u] /\ since[u] <= result[t].done
        BY <1>2, <2>1 DEF CacheInv, FollowersSound
      <3>2. result[t].key = key[t] /\ result[t].done <= clock
        BY <1>3 DEF CacheInv, CallsSound
      <3>3. result[t].done \in Nat /\ since[u] \in Nat
        BY <1>1, <1>3 DEF TypeOK, Outcomes, Instants
      <3>4. since[u] <= clock /\ key[u] \in Keys /\ pc'[u] = "wait"
        BY <1>1, <1>2, <2>1 DEF CacheInv, CallsSound, TypeOK
      <3> QED
        BY <1>3, <3>1, <3>2, <3>3, <3>4
    <2>2. CASE ~(leader[u] = t /\ pc[u] = "wait" /\ result[u] = None)
      <3>1. result'[u] = result[u] /\ pc'[u] \in {pc[u], "idle"}
        BY <1>1, <1>2, <2>2 DEF TypeOK
      <3> QED
        BY <3>1 DEF CacheInv, CallsSound
    <2> QED
      BY <2>1, <2>2
  <1>8. FollowersSound'
    <2> SUFFICES ASSUME NEW u \in Threads, pc'[u] = "wait", result'[u] = None
                 PROVE  /\ leader[u] \in Threads
                        /\ pc'[leader[u]] \in {"compute", "publish"}
                        /\ key[leader[u]] = key[u]
                        /\ pc'[leader[u]] = "publish" => since[u] <= result'[leader[u]].done
      BY <1>2 DEF FollowersSound
    <2>1. u # t /\ pc[u] = "wait" /\ result[u] = None /\ leader[u] # t
      BY <1>1, <1>2, <1>3 DEF TypeOK
    <2>2. /\ leader[u] \in Threads /\ pc[leader[u]] \in {"compute", "publish"}
          /\ key[leader[u]] = key[u]
          /\ pc[leader[u]] = "publish" => since[u] <= result[leader[u]].done
      BY <2>1 DEF CacheInv, FollowersSound
    <2> QED
      BY <1>1, <1>2, <2>1, <2>2 DEF TypeOK
  <1> QED
    BY <1>4, <1>5, <1>6, <1>7, <1>8 DEF CacheInv

LEMMA WakeInv ==
    ASSUME CacheInv, NEW t \in Threads, Wake(t)
    PROVE  CacheInv'
  <1>1. TypeOK
    BY DEF CacheInv
  <1>2. /\ pc[t] = "wait" /\ pc' = [pc EXCEPT ![t] = "idle"]
        /\ leader' = [leader EXCEPT ![t] = None]
        /\ UNCHANGED <<clock, order, entry, inflight, key, since, result>>
    BY DEF Wake
  <1>3. TypeOK'
    BY <1>1, <1>2 DEF TypeOK
  <1>4. ClaimsAreComputing'
    BY <1>1, <1>2 DEF CacheInv, ClaimsAreComputing, TypeOK
  <1>5. EntriesSound' /\ StoreSound'
    BY <1>2 DEF CacheInv, EntriesSound, StoreSound
  <1>6. CallsSound'
    BY <1>1, <1>2 DEF CacheInv, CallsSound, TypeOK
  <1>7. FollowersSound'
    BY <1>1, <1>2 DEF CacheInv, FollowersSound, TypeOK
  <1> QED
    BY <1>3, <1>4, <1>5, <1>6, <1>7 DEF CacheInv

LEMMA TimeOutInv ==
    ASSUME CacheInv, NEW t \in Threads, TimeOut(t)
    PROVE  CacheInv'
  <1>1. TypeOK
    BY DEF CacheInv
  <1>2. /\ pc[t] = "wait" /\ pc' = [pc EXCEPT ![t] = "idle"]
        /\ leader' = [leader EXCEPT ![t] = None]
        /\ result' = [result EXCEPT ![t] = Outcome(t, "timeout")]
        /\ UNCHANGED <<clock, order, entry, inflight, key, since>>
    BY DEF TimeOut
  <1>3. key[t] \in Keys
    BY <1>2 DEF CacheInv, CallsSound
  <1>4. /\ Outcome(t, "timeout") \in Outcomes
        /\ Outcome(t, "timeout").key = key[t] /\ Outcome(t, "timeout").done = clock
        /\ Outcome(t, "timeout").kind = "timeout"
    BY <1>1, <1>3, OutcomeType DEF Outcome
  <1>5. clock \in Nat
    BY <1>1 DEF TypeOK, Instants
  <1>6. TypeOK'
    BY <1>1, <1>2, <1>4 DEF TypeOK
  <1>7. ClaimsAreComputing'
    BY <1>1, <1>2 DEF CacheInv, ClaimsAreComputing, TypeOK
  <1>8. EntriesSound' /\ StoreSound'
    BY <1>2 DEF CacheInv, EntriesSound, StoreSound
  <1>9. CallsSound'
    BY <1>1, <1>2, <1>4, <1>5 DEF CacheInv, CallsSound, TypeOK
  <1>10. FollowersSound'
    BY <1>1, <1>2 DEF CacheInv, FollowersSound, TypeOK
  <1> QED
    BY <1>6, <1>7, <1>8, <1>9, <1>10 DEF CacheInv

\* The calls that touch the store alone: get, invalidate and clear.
LEMMA StoreOnlyInv ==
    ASSUME CacheInv, (\E k \in Keys : Get(k) \/ Invalidate(k)) \/ Clear
    PROVE  CacheInv'
  <1>1. TypeOK /\ StoreSound
    BY DEF CacheInv
  <1>2. UNCHANGED <<clock, inflight, pc, key, since, leader, result>>
    BY DEF Get, Invalidate, Clear
  <1>3. /\ order' \in Seq(Keys) /\ StoreSound'
        /\ entry' \in [Keys -> Entries \cup {None}]
        /\ \A k \in Keys : entry'[k] \in {entry[k], None}
    <2>1. ASSUME NEW k \in Keys, Get(k) PROVE <1>3!:
      BY <1>1, <2>1, ReadStore DEF Get, Live, TypeOK
    <2>2. ASSUME NEW k \in Keys, Invalidate(k) PROVE <1>3!:
      BY <1>1, <2>2, PopStore DEF Invalidate
    <2>3. CASE Clear
      <3>1. <<>> \in Seq(Keys) /\ Once(<<>>) /\ Len(<<>>) <= MaxSize /\ ToSet(<<>>) = {}
        <4>1. \A i \in DOMAIN <<>> : FALSE
          OBVIOUS
        <4> QED
          BY <4>1 DEF Once, ToSet
      <3> QED
        BY <2>3, <3>1 DEF Clear, StoreSound
    <2> QED
      BY <2>1, <2>2, <2>3
  <1>4. TypeOK'
    BY <1>1, <1>2, <1>3 DEF TypeOK
  <1>5. ClaimsAreComputing' /\ CallsSound' /\ FollowersSound'
    BY <1>2 DEF CacheInv, ClaimsAreComputing, CallsSound, FollowersSound
  <1>6. EntriesSound'
    BY <1>2, <1>3 DEF CacheInv, EntriesSound
  <1> QED
    BY <1>3, <1>4, <1>5, <1>6 DEF CacheInv

LEMMA TickInv ==
    ASSUME CacheInv, Tick
    PROVE  CacheInv'
  <1>1. TypeOK
    BY DEF CacheInv
  <1>2. /\ clock < MaxClock /\ clock' = clock + 1
        /\ UNCHANGED <<order, entry, inflight, pc, key, since, leader, result>>
    BY DEF Tick
  <1>3. clock \in Nat /\ \A t \in Threads : since[t] \in Nat
    BY <1>1 DEF TypeOK, Instants
  <1>4. TypeOK'
    BY <1>1, <1>2 DEF TypeOK, Instants
  <1>5. ClaimsAreComputing' /\ FollowersSound' /\ StoreSound'
    BY <1>2 DEF CacheInv, ClaimsAreComputing, FollowersSound, StoreSound
  <1>6. EntriesSound'
    <2>1. \A k \in Keys : entry[k] # None => entry[k].value.done \in Nat
      BY <1>1 DEF TypeOK, Entries, Outcomes, Instants
    <2> QED
      BY <1>2, <1>3, <2>1 DEF CacheInv, EntriesSound
  <1>7. CallsSound'
    <2>1. \A t \in Threads : result[t] # None => result[t].done \in Nat
      BY <1>1 DEF TypeOK, Outcomes, Instants
    <2> QED
      BY <1>2, <1>3, <2>1 DEF CacheInv, CallsSound
  <1> QED
    BY <1>4, <1>5, <1>6, <1>7 DEF CacheInv

LEMMA NextInv == CacheInv /\ [Next]_vars => CacheInv'
  <1> SUFFICES ASSUME CacheInv, [Next]_vars PROVE CacheInv'
    OBVIOUS
  <1>1. ASSUME NEW t \in Threads, GetOrCompute(t) PROVE CacheInv'
    BY <1>1, HitInv, ClaimInv, JoinInv, StoreInv, FailInv, SettleInv, WakeInv, TimeOutInv
       DEF GetOrCompute
  <1>2. CASE (\E k \in Keys : Get(k) \/ Invalidate(k)) \/ Clear
    BY <1>2, StoreOnlyInv
  <1>3. CASE Tick
    BY <1>3, TickInv
  <1>4. CASE UNCHANGED vars
    BY <1>4 DEF vars, CacheInv, TypeOK, ClaimsAreComputing, EntriesSound, CallsSound,
                FollowersSound, StoreSound
  <1> QED
    BY <1>1, <1>2, <1>3, <1>4 DEF Next

\* The cache's inductive invariant holds in every reachable state.
THEOREM InvHolds == Spec => []CacheInv
  BY InitInv, NextInv, PTL DEF Spec

----------------------------------------------------------------------------
\* The state of the cache is of its types.
THEOREM TypeCorrect == Spec => []TypeOK
  <1>1. CacheInv => TypeOK
    BY DEF CacheInv
  <1> QED
    BY <1>1, InvHolds, PTL

\* Never two threads computing one key, and a claim is held exactly as long
\* as its key is computed.
THEOREM FlightsAreSingle == Spec => [](SingleFlight /\ ClaimsAreComputing)
  <1>1. CacheInv => SingleFlight /\ ClaimsAreComputing
    <2> SUFFICES ASSUME CacheInv PROVE SingleFlight /\ ClaimsAreComputing
      OBVIOUS
    <2>1. \A t \in Threads : pc[t] = "compute" => key[t] \in Keys
      BY DEF CacheInv, CallsSound
    <2> QED
      BY <2>1 DEF CacheInv, ClaimsAreComputing, SingleFlight
  <1> QED
    BY <1>1, InvHolds, PTL

\* No follower waits on a thread that has nothing more to tell it.
THEOREM FollowersHaveLeaders == Spec => []NoOrphans
  <1>1. CacheInv => NoOrphans
    BY DEF CacheInv, FollowersSound, NoOrphans
  <1> QED
    BY <1>1, InvHolds, PTL

\* A call's answer is for its key, and no older than TTL when the call began;
\* a failure was met during the call.
THEOREM AnswersAreFresh == Spec => [](OwnKey /\ Fresh /\ FailuresNotCached)
  <1>1. CacheInv => OwnKey /\ Fresh /\ FailuresNotCached
    BY DEF CacheInv, CallsSound, OwnKey, Fresh, FailuresNotCached
  <1> QED
    BY <1>1, InvHolds, PTL

\* The store stays within max_size and holds nothing beside a flight.
THEOREM StoreIsBounded == Spec => [](Bounded /\ NoStaleBesideFlight)
  <1>1. CacheInv => Bounded /\ NoStaleBesideFlight
    BY OnceIsInjective DEF CacheInv, StoreSound, EntriesSound, Bounded, NoStaleBesideFlight
  <1> QED
    BY <1>1, InvHolds, PTL

----------------------------------------------------------------------------
(***************************************************************************)
(* The cache implements SingleFlight.  What needs care: the followers of a *)
(* promise are, at the moment its computation ends, exactly the threads    *)
(* with nothing yet that wait for that key; settling it later shows nobody *)
(* anything new; and what eviction drops is no more than has to go.        *)
(***************************************************************************)
LEMMA SameCardinality == ASSUME NEW S PROVE Flights!Cardinality(S) = Cardinality(S)
  BY Zenon DEF Flights!Cardinality, Cardinality

LEMMA AbstractFacts ==
    ASSUME NEW o \in Outcomes
    PROVE  /\ Abstract(o) \in AbstractOutcomes
           /\ Abstract(o) # None
           /\ Abstract(o).done = o.done
  <1>1. o # None
    OBVIOUS
  <1>2. Abstract(o) = [kind |-> o.kind, what |-> "any", key |-> o.key,
                       start |-> o.start, done |-> o.done]
    BY <1>1 DEF Abstract
  <1>3. Abstract(o) \in AbstractOutcomes
    BY <1>2 DEF Outcomes, AbstractOutcomes
  <1> QED
    BY <1>2, <1>3

\* What t ends with is what its abstract call ends with.
LEMMA AbstractOutcome ==
    ASSUME NEW t \in Threads, NEW kind, Outcome(t, kind) # None
    PROVE  Abstract(Outcome(t, kind)) = Flights!Outcome(t, kind, "any")
  BY DEF Abstract, Outcome, Flights!Outcome

\* The keys that are held abstractly, and how long they are fresh for.
LEMMA KeptFacts ==
    ASSUME TypeOK, EntriesSound, NEW k \in Keys
    PROVE  /\ KeptOutcomes[k] # None <=> entry[k] # None
           /\ entry[k] # None => KeptOutcomes[k] = Abstract(entry[k].value)
           /\ Flights!Live(k) <=> Live(k)
  <1>1. KeptOutcomes[k] = IF entry[k] = None THEN None ELSE Abstract(entry[k].value)
    BY DEF KeptOutcomes
  <1>2. CASE entry[k] = None
    BY <1>1, <1>2 DEF Flights!Live, Live
  <1>3. CASE entry[k] # None
    <2>1. entry[k].value \in Outcomes /\ entry[k].expires = entry[k].value.done + TTL
      BY <1>3 DEF TypeOK, Entries, EntriesSound
    <2>2. KeptOutcomes[k] = Abstract(entry[k].value) /\ KeptOutcomes[k] # None
          /\ KeptOutcomes[k].done = entry[k].value.done
      BY <1>1, <1>3, <2>1, AbstractFacts
    <2> QED
      BY <1>3, <2>1, <2>2 DEF Flights!Live, Live
  <1> QED
    BY <1>2, <1>3

\* What a call has abstractly is nothing exactly when it has nothing here.
LEMMA GotFacts ==
    ASSUME CacheInv, NEW t \in Threads
    PROVE  /\ GotOutcomes[t] = Abstract(Delivered(t))
           /\ GotOutcomes[t] = None <=> Delivered(t) = None
           /\ Delivered(t) \in Outcomes \cup {None}
           /\ result[t] # None => Delivered(t) = result[t]
           /\ pc[t] # "wait" => Delivered(t) = result[t]
           /\ Delivered(t) = None <=>
                 /\ result[t] = None
                 /\ pc[t] = "wait" => pc[leader[t]] = "compute"
  <1>1. GotOutcomes[t] = Abstract(Delivered(t))
    BY DEF GotOutcomes
  <1>2. \A u \in Threads : result[u] \in Outcomes \cup {None}
    BY DEF CacheInv, TypeOK
  <1>3. CASE pc[t] = "wait" /\ result[t] = None
    <2>1. leader[t] \in Threads /\ pc[leader[t]] \in {"compute", "publish"}
      BY <1>3 DEF CacheInv, FollowersSound
    <2>2. pc[leader[t]] = "publish" => result[leader[t]] \in Outcomes
      BY <1>2, <2>1 DEF CacheInv, CallsSound
    <2>3. Delivered(t) \in Outcomes \cup {None}
          /\ (Delivered(t) = None <=> pc[leader[t]] = "compute")
      BY <1>3, <2>1, <2>2 DEF Delivered
    <2> QED
      BY <1>1, <1>3, <2>3, AbstractFacts DEF Abstract
  <1>4. CASE ~(pc[t] = "wait" /\ result[t] = None)
    <2>1. Delivered(t) = result[t]
      BY <1>4 DEF Delivered
    <2> QED
      BY <1>1, <1>2, <1>4, <2>1, AbstractFacts DEF Abstract
  <1> QED
    BY <1>3, <1>4

LEMMA CallFacts ==
    ASSUME NEW t \in Threads
    PROVE  /\ CallStates[t] = "lead" <=> pc[t] = "compute"
           /\ CallStates[t] = "follow" <=> pc[t] = "wait"
           /\ CallStates[t] = "idle" <=> pc[t] \notin {"compute", "wait"}
  BY DEF CallStates

\* The mapped variables change where the mapped state does.
LEMMA GotChange ==
    ASSUME NEW t \in Threads, NEW o,
           Delivered(t)' = o, \A u \in Threads \ {t} : Delivered(u)' = Delivered(u)
    PROVE  GotOutcomes' = [GotOutcomes EXCEPT ![t] = Abstract(o)]
  <1>1. GotOutcomes' = [u \in Threads |-> Abstract(Delivered(u)')]
    BY DEF GotOutcomes
  <1>2. \A u \in Threads : Abstract(Delivered(u)') =
            IF u = t THEN Abstract(o) ELSE GotOutcomes[u]
    BY DEF GotOutcomes
  <1>3. GotOutcomes = [u \in Threads |-> GotOutcomes[u]]
    BY DEF GotOutcomes
  <1> QED
    BY <1>1, <1>2, <1>3, Zenon

LEMMA GotSame ==
    ASSUME \A u \in Threads : Delivered(u)' = Delivered(u)
    PROVE  GotOutcomes' = GotOutcomes
  <1>1. GotOutcomes' = [u \in Threads |-> Abstract(Delivered(u)')]
    BY DEF GotOutcomes
  <1>2. \A u \in Threads : Abstract(Delivered(u)') = GotOutcomes[u]
    BY DEF GotOutcomes
  <1>3. GotOutcomes = [u \in Threads |-> GotOutcomes[u]]
    BY DEF GotOutcomes
  <1> QED
    BY <1>1, <1>2, <1>3, Zenon

\* A thread that is idle leads nobody: starting a call changes what it has and
\* what nobody else has.
LEMMA BeginDelivers ==
    ASSUME CacheInv, NEW t \in Threads, pc[t] = "idle", NEW o, NEW p,
           pc' = [pc EXCEPT ![t] = p], result' = [result EXCEPT ![t] = o],
           p = "wait" => leader'[t] \in Threads /\ pc[leader'[t]] = "compute",
           p # "publish",
           \A u \in Threads \ {t} : leader'[u] = leader[u]
    PROVE  GotOutcomes' = [GotOutcomes EXCEPT ![t] = Abstract(o)]
  <1>1. /\ \A u \in Threads \ {t} : pc'[u] = pc[u] /\ result'[u] = result[u]
        /\ pc'[t] = p /\ result'[t] = o
    BY DEF CacheInv, TypeOK
  <1>2. ASSUME NEW u \in Threads \ {t} PROVE Delivered(u)' = Delivered(u)
    <2>1. CASE pc[u] = "wait" /\ result[u] = None
      <3>1. leader[u] \in Threads \ {t}
        BY <2>1 DEF CacheInv, FollowersSound
      <3> QED
        BY <1>1, <2>1, <3>1 DEF Delivered
    <2>2. CASE ~(pc[u] = "wait" /\ result[u] = None)
      BY <1>1, <2>2 DEF Delivered
    <2> QED
      BY <2>1, <2>2
  <1>3. Delivered(t)' = o
    BY <1>1 DEF Delivered
  <1> QED
    BY <1>2, <1>3, GotChange

\* A call served from the store is served abstractly.
LEMMA HitSimulates ==
    ASSUME CacheInv, NEW t \in Threads, NEW k \in Keys, Hit(t, k)
    PROVE  Flights!Hit(t, k)
  <1>1. TypeOK /\ EntriesSound
    BY DEF CacheInv
  <1>2. /\ Live(k) /\ entry[k] # None /\ pc[t] = "idle"
        /\ key' = [key EXCEPT ![t] = k] /\ since' = [since EXCEPT ![t] = clock]
        /\ result' = [result EXCEPT ![t] = entry[k].value]
        /\ UNCHANGED <<clock, entry, inflight, pc, leader>>
    BY DEF Hit, Live, Begin
  <1>3. KeptOutcomes' = KeptOutcomes /\ CallStates' = CallStates
    BY <1>2 DEF KeptOutcomes, CallStates
  <1>4. GotOutcomes' = [GotOutcomes EXCEPT ![t] = Abstract(entry[k].value)]
    <2>1. pc' = [pc EXCEPT ![t] = "idle"]
      BY <1>1, <1>2 DEF TypeOK
    <2> QED
      BY <1>2, <2>1, BeginDelivers
  <1>5. Flights!Live(k) /\ KeptOutcomes[k] = Abstract(entry[k].value)
    BY <1>1, <1>2, KeptFacts
  <1>6. CallStates[t] = "idle"
    BY <1>2, CallFacts
  <1> QED
    BY <1>2, <1>3, <1>4, <1>5, <1>6 DEF Flights!Hit, Flights!Begin

\* A miss drops what is left of the key.
LEMMA MissSimulates ==
    ASSUME CacheInv, NEW t \in Threads, NEW k \in Keys, ~Live(k), Pop(k), Begin(t, k),
           clock' = clock, NEW p \in {"compute", "wait"},
           pc' = [pc EXCEPT ![t] = p], result' = [result EXCEPT ![t] = None],
           p = "wait" => leader'[t] \in Threads /\ pc[leader'[t]] = "compute",
           \A u \in Threads \ {t} : leader'[u] = leader[u]
    PROVE  Flights!Miss(t, k)
  <1>1. TypeOK /\ EntriesSound /\ StoreSound
    BY DEF CacheInv
  <1>2. /\ pc[t] = "idle" /\ key' = [key EXCEPT ![t] = k]
        /\ since' = [since EXCEPT ![t] = clock]
    BY DEF Begin
  <1>3. \A j \in Keys : entry'[j] = IF j = k THEN None ELSE entry[j]
    BY <1>1, PopStore
  <1>4. KeptOutcomes' = [KeptOutcomes EXCEPT ![k] = None]
    BY <1>3 DEF KeptOutcomes
  <1>5. GotOutcomes' = [GotOutcomes EXCEPT ![t] = None]
    <2>1. GotOutcomes' = [GotOutcomes EXCEPT ![t] = Abstract(None)]
      BY <1>2, BeginDelivers
    <2> QED
      BY <2>1 DEF Abstract
  <1>6. CallStates[t] = "idle" /\ ~Flights!Live(k)
    BY <1>1, <1>2, CallFacts, KeptFacts
  <1> QED
    BY <1>2, <1>4, <1>5, <1>6 DEF Flights!Miss, Flights!Begin

LEMMA ClaimSimulates ==
    ASSUME CacheInv, NEW t \in Threads, NEW k \in Keys, Claim(t, k)
    PROVE  Flights!Lead(t, k)
  <1>1. /\ ~Live(k) /\ inflight[k] = None /\ Pop(k) /\ Begin(t, k)
        /\ inflight' = [inflight EXCEPT ![k] = t]
        /\ pc' = [pc EXCEPT ![t] = "compute"]
        /\ result' = [result EXCEPT ![t] = None]
        /\ clock' = clock /\ leader' = leader
    BY DEF Claim, ClaimStep
  <1>2. Flights!Miss(t, k)
    BY <1>1, MissSimulates
  <1>3. CallStates' = [CallStates EXCEPT ![t] = "lead"]
    BY <1>1 DEF CallStates, CacheInv, TypeOK
  <1> QED
    BY <1>1, <1>2, <1>3 DEF Flights!Lead

LEMMA JoinSimulates ==
    ASSUME CacheInv, NEW t \in Threads, NEW k \in Keys, Join(t, k)
    PROVE  Flights!Follow(t, k)
  <1>1. /\ ~Live(k) /\ inflight[k] # None /\ Pop(k) /\ Begin(t, k)
        /\ leader' = [leader EXCEPT ![t] = inflight[k]]
        /\ pc' = [pc EXCEPT ![t] = "wait"]
        /\ result' = [result EXCEPT ![t] = None]
        /\ clock' = clock /\ inflight' = inflight
    BY DEF Join
  <1>2. TypeOK /\ inflight[k] \in Threads /\ pc[inflight[k]] = "compute"
    BY <1>1 DEF CacheInv, TypeOK, ClaimsAreComputing
  <1>3. /\ leader'[t] = inflight[k]
        /\ \A u \in Threads \ {t} : leader'[u] = leader[u]
    BY <1>1, <1>2 DEF TypeOK
  <1>4. Flights!Miss(t, k)
    BY <1>1, <1>2, <1>3, MissSimulates
  <1>5. CallStates' = [CallStates EXCEPT ![t] = "follow"]
    BY <1>1, <1>2 DEF CallStates, TypeOK
  <1> QED
    BY <1>1, <1>4, <1>5 DEF Flights!Follow

\* When a computation ends, its outcome is what everyone has who waits for the
\* key, and nobody else's.
LEMMA FinishDelivers ==
    ASSUME CacheInv, NEW t \in Threads, NEW kind \in {"value", "error"}, Finish(t, kind)
    PROVE  GotOutcomes' =
              [u \in Threads |-> IF u = t \/ u \in Flights!Followers(t)
                                 THEN Flights!Outcome(t, kind, "any") ELSE GotOutcomes[u]]
  <1> DEFINE o == Outcome(t, kind)
  <1>1. TypeOK /\ key[t] \in Keys /\ pc[t] = "compute"
    BY DEF CacheInv, CallsSound, Finish
  <1>2. o \in Outcomes /\ o # None
    BY <1>1, OutcomeType
  <1>3. /\ pc'[t] = "publish" /\ result'[t] = o
        /\ \A u \in Threads \ {t} : pc'[u] = pc[u] /\ result'[u] = result[u]
        /\ leader' = leader
    BY <1>1 DEF Finish, TypeOK
  <1> HIDE DEF o
  <1>4. Abstract(o) = Flights!Outcome(t, kind, "any")
    BY <1>2, AbstractOutcome DEF o
  <1>5. Delivered(t)' = o
    BY <1>3 DEF Delivered
  <1>6. ASSUME NEW u \in Threads \ {t}
        PROVE  Delivered(u)' = IF u \in Flights!Followers(t) THEN o ELSE Delivered(u)
    <2>1. u \in Flights!Followers(t) <=>
            /\ pc[u] = "wait" /\ key[u] = key[t] /\ result[u] = None
            /\ pc[leader[u]] = "compute"
      BY GotFacts, CallFacts DEF Flights!Followers
    <2>2. CASE pc[u] = "wait" /\ result[u] = None
      <3>1. leader[u] \in Threads /\ pc[leader[u]] \in {"compute", "publish"}
            /\ key[leader[u]] = key[u]
        BY <2>2 DEF CacheInv, FollowersSound
      <3>2. CASE leader[u] = t
        BY <1>1, <1>3, <2>1, <2>2, <3>1, <3>2 DEF Delivered
      <3>3. CASE leader[u] # t
        <4>1. ~(pc[leader[u]] = "compute" /\ key[u] = key[t])
          BY <1>1, <3>1, <3>3 DEF CacheInv, ClaimsAreComputing
        <4> QED
          BY <1>3, <2>1, <2>2, <3>1, <3>3, <4>1 DEF Delivered
      <3> QED
        BY <3>2, <3>3
    <2>3. CASE ~(pc[u] = "wait" /\ result[u] = None)
      BY <1>3, <2>1, <2>3 DEF Delivered
    <2> QED
      BY <2>2, <2>3
  <1>7. GotOutcomes' = [u \in Threads |-> Abstract(Delivered(u)')]
    BY DEF GotOutcomes
  <1>8. \A u \in Threads : Abstract(Delivered(u)') =
           IF u = t \/ u \in Flights!Followers(t) THEN Abstract(o) ELSE GotOutcomes[u]
    BY <1>5, <1>6, GotFacts
  <1> QED
    BY <1>4, <1>7, <1>8, Zenon

\* Whatever the outcome, the flight ends and its leader is done.
LEMMA FinishSimulates ==
    ASSUME CacheInv, NEW t \in Threads, NEW kind \in {"value", "error"}, Finish(t, kind),
           Release(key[t]),
           IF kind = "value" THEN Flights!Keep(key[t], Flights!Outcome(t, kind, "any"))
                             ELSE KeptOutcomes' = KeptOutcomes
    PROVE  Flights!Complete(t, kind, "any")
  <1>1. /\ pc[t] = "compute" /\ pc' = [pc EXCEPT ![t] = "publish"]
        /\ inflight' = [inflight EXCEPT ![key[t]] = None]
        /\ UNCHANGED <<clock, key, since>>
    BY DEF Finish, Release
  <1>2. CallStates[t] = "lead" /\ CallStates' = [CallStates EXCEPT ![t] = "idle"]
    BY <1>1, CallFacts DEF CallStates, CacheInv, TypeOK
  <1>3. GotOutcomes' =
           [u \in Threads |-> IF u = t \/ u \in Flights!Followers(t)
                              THEN Flights!Outcome(t, kind, "any") ELSE GotOutcomes[u]]
    BY FinishDelivers
  <1> QED
    BY <1>1, <1>2, <1>3, Zenon DEF Flights!Complete

\* Eviction drops no more than the room for a new value takes.
LEMMA KeepSimulates ==
    ASSUME CacheInv, NEW k \in Keys, NEW e \in Entries, Keep(k, e)
    PROVE  Flights!Keep(k, Abstract(e.value))
  <1> DEFINE o == Abstract(e.value)
             full == [KeptOutcomes EXCEPT ![k] = o]
             lost == {j \in Keys \ {k} : entry[j] # None /\ j \notin ToSet(order')}
  <1>1. TypeOK /\ EntriesSound /\ StoreSound /\ order \in Seq(Keys) /\ Once(order)
    BY DEF CacheInv, TypeOK, StoreSound
  <1>2. /\ order' \in Seq(Keys) /\ StoreSound'
        /\ entry' = [j \in Keys |-> IF j = k THEN e
                                     ELSE IF j \in ToSet(order') THEN entry[j] ELSE None]
    BY <1>1, KeepStore
  <1>3. order' = Insert(order, k)
    BY DEF Keep
  <1>4. o # None
    <2>1. e.value \in Outcomes
      BY DEF Entries
    <2> QED
      BY <2>1, AbstractFacts
  <1>5. KeptOutcomes' = [j \in Keys |-> IF j \in lost THEN None ELSE full[j]]
    <2>1. e # None
      OBVIOUS
    <2>2. ASSUME NEW j \in Keys
          PROVE  (IF entry'[j] = None THEN None ELSE Abstract(entry'[j].value)) =
                    IF j \in lost THEN None ELSE full[j]
      BY <1>2, <2>1 DEF KeptOutcomes
    <2> QED
      BY <2>2 DEF KeptOutcomes
  <1> HIDE DEF o
  <1>6. Flights!Held(KeptOutcomes) = ToSet(order)
    <2>1. \A j \in Keys : KeptOutcomes[j] # None <=> j \in ToSet(order)
      BY <1>1, KeptFacts DEF StoreSound
    <2>2. ToSet(order) \subseteq Keys
      BY <1>1 DEF ToSet
    <2> QED
      BY <2>1, <2>2 DEF Flights!Held
  <1>7. /\ Flights!Held(full) = ToSet(order) \cup {k}
        /\ Flights!Held(full) = ToSet(Touch(order, k))
    <2>1. ToSet(Touch(order, k)) = ToSet(order) \cup {k}
      BY <1>1, TouchFacts
    <2>2. \A j \in Keys : full[j] = IF j = k THEN o ELSE KeptOutcomes[j]
      BY DEF KeptOutcomes
    <2>3. Flights!Held(full) = Flights!Held(KeptOutcomes) \cup {k}
      BY <1>4, <2>2 DEF Flights!Held
    <2> QED
      BY <1>6, <2>1, <2>3
  <1>8. lost \in SUBSET (Flights!Held(KeptOutcomes) \ {k})
    BY <1>1, <1>6 DEF StoreSound
  <1>9. /\ IsFiniteSet(Flights!Held(full))
        /\ Cardinality(Flights!Held(full)) = Len(Touch(order, k))
    <2>1. Touch(order, k) \in Seq(Keys) /\ Once(Touch(order, k))
      BY <1>1, TouchFacts
    <2> QED
      BY <1>7, <2>1, OnceCardinality
  <1>10. Cardinality(Flights!Held(full)) - Cardinality(lost) <= MaxSize
    <2>1. lost \subseteq Flights!Held(full)
      <3> HIDE DEF full, lost
      <3> QED
        BY <1>6, <1>7, <1>8
    <2>2. Flights!Held(full) \ lost = ToSet(order')
      <3>1. ToSet(order') \subseteq ToSet(order) \cup {k} /\ k \in ToSet(order')
        BY <1>1, <1>3, InsertKeeps
      <3>2. Flights!Held(full) = ToSet(order) \cup {k}
        BY <1>7
      <3>3. \A j \in Keys : entry[j] # None <=> j \in ToSet(order)
        BY <1>1 DEF StoreSound
      <3>4. ToSet(order) \subseteq Keys
        BY <1>1 DEF ToSet
      <3> QED
        BY <3>1, <3>2, <3>3, <3>4
    <2>3. Cardinality(ToSet(order')) = Len(order') /\ Len(order') <= MaxSize
      BY <1>2, OnceCardinality DEF StoreSound
    <2>4. Flights!Held(full) \cap lost = lost
      BY <2>1
    <2> HIDE DEF lost, full
    <2>5. Cardinality(Flights!Held(full) \ lost)
             = Cardinality(Flights!Held(full)) - Cardinality(lost)
      BY <1>9, <2>4, FS_Difference
    <2> QED
      BY <2>2, <2>3, <2>5
  <1>11. lost # {} => Cardinality(Flights!Held(full)) > MaxSize
    <2>1. Len(Touch(order, k)) \in Nat
      BY <1>1, TouchFacts
    <2>2. ASSUME Len(Touch(order, k)) <= MaxSize PROVE lost = {}
      <3>1. ToSet(order') = ToSet(order) \cup {k}
        BY <1>1, <1>3, <2>2, InsertKeeps
      <3> QED
        BY <1>1, <3>1 DEF StoreSound
    <2> HIDE DEF full, lost
    <2> QED
      BY <1>9, <2>1, <2>2
  <1> HIDE DEF lost
  <1> QED
    BY <1>5, <1>8, <1>10, <1>11, SameCardinality DEF Flights!Keep, o

LEMMA StoreSimulates ==
    ASSUME CacheInv, NEW t \in Threads, Store(t)
    PROVE  Flights!Complete(t, "value", "any")
  <1>1. Finish(t, "value") /\ Keep(key[t], NewEntry(t, "value")) /\ Release(key[t])
    BY DEF Store
  <1>2. TypeOK /\ key[t] \in Keys
    BY <1>1 DEF CacheInv, CallsSound, Finish
  <1>3. NewEntry(t, "value") \in Entries /\ Outcome(t, "value") # None
    BY <1>2, OutcomeType
  <1>4. Flights!Keep(key[t], Abstract(Outcome(t, "value")))
    <2>1. NewEntry(t, "value").value = Outcome(t, "value")
      BY DEF NewEntry
    <2> QED
      BY <1>1, <1>2, <1>3, <2>1, KeepSimulates
  <1>5. Flights!Keep(key[t], Flights!Outcome(t, "value", "any"))
    BY <1>3, <1>4, AbstractOutcome
  <1> QED
    BY <1>1, <1>5, FinishSimulates

LEMMA FailSimulates ==
    ASSUME CacheInv, NEW t \in Threads, Fail(t)
    PROVE  Flights!Complete(t, "error", "any")
  <1>1. Finish(t, "error") /\ Release(key[t]) /\ entry' = entry
    BY DEF Fail, store
  <1>2. KeptOutcomes' = KeptOutcomes
    BY <1>1 DEF KeptOutcomes
  <1> QED
    BY <1>1, <1>2, FinishSimulates

\* Setting the event tells its waiters what they were already said to have.
LEMMA SettleStutters ==
    ASSUME CacheInv, NEW t \in Threads, Fulfill(t) \/ Reject(t)
    PROVE  UNCHANGED Flights!vars
  <1>1. /\ pc[t] = "publish" /\ pc' = [pc EXCEPT ![t] = "idle"]
        /\ result' = [u \in Threads |->
              IF leader[u] = t /\ pc[u] = "wait" /\ result[u] = None
              THEN result[t] ELSE result[u]]
        /\ UNCHANGED <<clock, entry, inflight, key, since, leader>>
    BY DEF Fulfill, Reject, Settle, Followers
  <1>2. result[t] # None /\ TypeOK
    BY <1>1 DEF CacheInv, CallsSound
  <1>3. KeptOutcomes' = KeptOutcomes
    BY <1>1 DEF KeptOutcomes
  <1>4. CallStates' = CallStates
    BY <1>1, <1>2 DEF CallStates, TypeOK
  <1>5. GotOutcomes' = GotOutcomes
    <2> SUFFICES ASSUME NEW u \in Threads PROVE Delivered(u)' = Delivered(u)
      BY GotSame
    <2>0. /\ \A v \in Threads : pc'[v] = IF v = t THEN "idle" ELSE pc[v]
          /\ \A v \in Threads : result'[v] =
                IF leader[v] = t /\ pc[v] = "wait" /\ result[v] = None
                THEN result[t] ELSE result[v]
      BY <1>1, <1>2 DEF TypeOK
    <2>1. CASE pc[u] = "wait" /\ result[u] = None
      <3>1. leader[u] \in Threads /\ u # t
        BY <1>1, <2>1 DEF CacheInv, FollowersSound
      <3>2. CASE leader[u] = t
        BY <1>1, <1>2, <2>0, <2>1, <3>1, <3>2 DEF Delivered
      <3>3. CASE leader[u] # t
        <4>1. pc'[leader[u]] = pc[leader[u]] /\ pc[leader[u]] # "wait"
          BY <2>0, <2>1, <3>1, <3>3 DEF CacheInv, FollowersSound
        <4>2. result'[leader[u]] = result[leader[u]]
          BY <2>0, <3>1, <4>1
        <4> QED
          BY <1>1, <2>0, <2>1, <3>1, <3>3, <4>1, <4>2 DEF Delivered
      <3> QED
        BY <3>2, <3>3
    <2>2. CASE ~(pc[u] = "wait" /\ result[u] = None)
      <3>1. ~(pc'[u] = "wait" /\ result'[u] = None) /\ result'[u] = result[u]
        BY <1>1, <2>0, <2>2
      <3> QED
        BY <2>2, <3>1 DEF Delivered
    <2> QED
      BY <2>1, <2>2
  <1> QED
    BY <1>1, <1>3, <1>4, <1>5 DEF Flights!vars

LEMMA WakeSimulates ==
    ASSUME CacheInv, NEW t \in Threads, Wake(t)
    PROVE  Flights!Answer(t)
  <1>1. /\ pc[t] = "wait" /\ result[t] # None /\ pc' = [pc EXCEPT ![t] = "idle"]
        /\ leader' = [leader EXCEPT ![t] = None]
        /\ UNCHANGED <<clock, entry, inflight, key, since, result>>
    BY DEF Wake
  <1>2. TypeOK
    BY DEF CacheInv
  <1>3. KeptOutcomes' = KeptOutcomes
    BY <1>1 DEF KeptOutcomes
  <1>4. CallStates' = [CallStates EXCEPT ![t] = "idle"]
    BY <1>1, <1>2 DEF CallStates, TypeOK
  <1>5. CallStates[t] = "follow" /\ GotOutcomes[t] # None
    BY <1>1, CallFacts, GotFacts
  <1>6. GotOutcomes' = GotOutcomes
    <2> SUFFICES ASSUME NEW u \in Threads PROVE Delivered(u)' = Delivered(u)
      BY GotSame
    <2>1. CASE u # t /\ pc[u] = "wait" /\ result[u] = None
      <3>1. leader[u] \in Threads \ {t}
        BY <1>1, <2>1 DEF CacheInv, FollowersSound
      <3> QED
        BY <1>1, <1>2, <2>1, <3>1 DEF Delivered, TypeOK
    <2>2. CASE ~(u # t /\ pc[u] = "wait" /\ result[u] = None)
      BY <1>1, <1>2, <2>2 DEF Delivered, TypeOK
    <2> QED
      BY <2>1, <2>2
  <1> QED
    BY <1>1, <1>3, <1>4, <1>5, <1>6 DEF Flights!Answer

LEMMA TimeOutSimulates ==
    ASSUME CacheInv, NEW t \in Threads, TimeOut(t)
    PROVE  Flights!GiveUp(t, "any")
  <1>1. /\ pc[t] = "wait" /\ clock >= since[t] + FlightTimeout
        /\ pc' = [pc EXCEPT ![t] = "idle"]
        /\ leader' = [leader EXCEPT ![t] = None]
        /\ result' = [result EXCEPT ![t] = Outcome(t, "timeout")]
        /\ UNCHANGED <<clock, entry, inflight, key, since>>
    BY DEF TimeOut
  <1>2. TypeOK /\ key[t] \in Keys
    BY <1>1 DEF CacheInv, CallsSound
  <1>3. Outcome(t, "timeout") # None
    BY <1>2, OutcomeType
  <1>4. KeptOutcomes' = KeptOutcomes
    BY <1>1 DEF KeptOutcomes
  <1>5. CallStates[t] = "follow" /\ CallStates' = [CallStates EXCEPT ![t] = "idle"]
    BY <1>1, <1>2, CallFacts DEF CallStates, TypeOK
  <1>6. GotOutcomes' = [GotOutcomes EXCEPT ![t] = Abstract(Outcome(t, "timeout"))]
    <2>1. Delivered(t)' = Outcome(t, "timeout")
      BY <1>1, <1>2 DEF Delivered, TypeOK
    <2>2. ASSUME NEW u \in Threads \ {t} PROVE Delivered(u)' = Delivered(u)
      <3>1. CASE pc[u] = "wait" /\ result[u] = None
        <4>1. leader[u] \in Threads \ {t}
          BY <1>1, <3>1 DEF CacheInv, FollowersSound
        <4> QED
          BY <1>1, <1>2, <3>1, <4>1 DEF Delivered, TypeOK
      <3>2. CASE ~(pc[u] = "wait" /\ result[u] = None)
        BY <1>1, <1>2, <3>2 DEF Delivered, TypeOK
      <3> QED
        BY <3>1, <3>2
    <2> QED
      BY <2>1, <2>2, GotChange
  <1>7. Abstract(Outcome(t, "timeout")) = Flights!Outcome(t, "timeout", "any")
    BY <1>3, AbstractOutcome
  <1> QED
    BY <1>1, <1>4, <1>5, <1>6, <1>7 DEF Flights!GiveUp

\* The calls that touch the store alone forget a key, all keys, or none.
LEMMA StoreOnlySimulates ==
    ASSUME CacheInv, (\E k \in Keys : Get(k) \/ Invalidate(k)) \/ Clear
    PROVE  Flights!Forget \/ UNCHANGED Flights!vars
  <1>1. UNCHANGED <<clock, inflight, pc, key, since, leader, result>>
    BY DEF Get, Invalidate, Clear
  <1>2. CallStates' = CallStates /\ GotOutcomes' = GotOutcomes
    <2>1. \A u \in Threads : Delivered(u)' = Delivered(u)
      BY <1>1 DEF Delivered
    <2> QED
      BY <1>1, <2>1, GotSame DEF CallStates
  <1>3. ASSUME NEW k \in Keys, Get(k) PROVE UNCHANGED Flights!vars
    <2>1. KeptOutcomes' = KeptOutcomes
      BY <1>3 DEF Get, KeptOutcomes
    <2> QED
      BY <1>1, <1>2, <2>1 DEF Flights!vars
  <1>4. ASSUME NEW lost \in SUBSET Keys,
               \A j \in Keys : entry'[j] = IF j \in lost THEN None ELSE entry[j]
        PROVE  Flights!Forget
    <2>1. KeptOutcomes' = [j \in Keys |-> IF j \in lost THEN None ELSE KeptOutcomes[j]]
      BY <1>4 DEF KeptOutcomes
    <2> QED
      BY <1>1, <1>2, <2>1 DEF Flights!Forget
  <1>5. ASSUME NEW k \in Keys, Invalidate(k) PROVE Flights!Forget
    <2>1. \A j \in Keys : entry'[j] = IF j \in {k} THEN None ELSE entry[j]
      BY <1>5, PopStore DEF Invalidate, CacheInv
    <2> QED
      BY <1>4, <2>1
  <1>6. ASSUME Clear PROVE Flights!Forget
    <2>1. \A j \in Keys : entry'[j] = IF j \in Keys THEN None ELSE entry[j]
      BY <1>6 DEF Clear
    <2> QED
      BY <1>4, <2>1
  <1> QED
    BY <1>3, <1>5, <1>6

LEMMA TickSimulates ==
    ASSUME CacheInv, Tick
    PROVE  Flights!Tick
  <1>1. /\ clock < MaxClock /\ clock' = clock + 1
        /\ UNCHANGED <<entry, inflight, pc, key, since, leader, result>>
    BY DEF Tick
  <1>2. \A u \in Threads : Delivered(u)' = Delivered(u)
    BY <1>1 DEF Delivered
  <1>3. UNCHANGED <<KeptOutcomes, CallStates, GotOutcomes>>
    BY <1>1, <1>2, GotSame DEF KeptOutcomes, CallStates
  <1> QED
    BY <1>1, <1>3 DEF Flights!Tick

LEMMA InitSimulates == Init => Flights!Init
  <1> SUFFICES ASSUME Init PROVE Flights!Init
    OBVIOUS
  <1>1. KeptOutcomes = [k \in Keys |-> None]
    BY DEF Init, KeptOutcomes
  <1>2. CallStates = [t \in Threads |-> "idle"]
    BY DEF Init, CallStates
  <1>3. GotOutcomes = [t \in Threads |-> None]
    BY DEF Init, GotOutcomes, Delivered, Abstract
  <1> QED
    BY <1>1, <1>2, <1>3 DEF Init, Flights!Init

LEMMA StepSimulates ==
    CacheInv /\ [Next]_vars => [Flights!Next]_Flights!vars
  <1> SUFFICES ASSUME CacheInv, [Next]_vars PROVE Flights!Next \/ UNCHANGED Flights!vars
    BY Zenon
  <1>1. ASSUME NEW t \in Threads, NEW k \in Keys, Hit(t, k) \/ Claim(t, k) \/ Join(t, k)
        PROVE  Flights!Next
    <2>1. Flights!Hit(t, k) \/ Flights!Lead(t, k) \/ Flights!Follow(t, k)
      BY <1>1, HitSimulates, ClaimSimulates, JoinSimulates
    <2> QED
      BY <2>1, Zenon DEF Flights!Next
  <1>2. ASSUME NEW t \in Threads, Store(t) \/ Fail(t) \/ TimeOut(t) PROVE Flights!Next
    <2>1. \/ Flights!Complete(t, "value", "any") \/ Flights!Complete(t, "error", "any")
          \/ Flights!GiveUp(t, "any")
      BY <1>2, StoreSimulates, FailSimulates, TimeOutSimulates
    <2>2. "any" \in {"any"}
      OBVIOUS
    <2> QED
      BY <2>1, <2>2, Zenon DEF Flights!Next
  <1>3. ASSUME NEW t \in Threads, Fulfill(t) \/ Reject(t) PROVE UNCHANGED Flights!vars
    BY <1>3, SettleStutters
  <1>4. ASSUME NEW t \in Threads, Wake(t) PROVE Flights!Next
    <2>1. Flights!Answer(t)
      BY <1>4, WakeSimulates
    <2> QED
      BY <2>1, Zenon DEF Flights!Next
  <1>5. ASSUME (\E k \in Keys : Get(k) \/ Invalidate(k)) \/ Clear
        PROVE  Flights!Next \/ UNCHANGED Flights!vars
    <2>1. Flights!Forget \/ UNCHANGED Flights!vars
      BY <1>5, StoreOnlySimulates
    <2> QED
      BY <2>1, Zenon DEF Flights!Next
  <1>6. ASSUME Tick PROVE Flights!Next
    <2>1. Flights!Tick
      BY <1>6, TickSimulates
    <2> QED
      BY <2>1, Zenon DEF Flights!Next
  <1>7. ASSUME UNCHANGED vars PROVE UNCHANGED Flights!vars
    <2>1. \A u \in Threads : Delivered(u)' = Delivered(u)
      BY <1>7 DEF vars, Delivered
    <2>2. UNCHANGED <<KeptOutcomes, CallStates, GotOutcomes>>
      BY <1>7, <2>1, GotSame DEF vars, KeptOutcomes, CallStates
    <2> QED
      BY <1>7, <2>2 DEF vars, Flights!vars
  <1> QED
    BY <1>1, <1>2, <1>3, <1>4, <1>5, <1>6, <1>7 DEF Next, GetOrCompute

\* Every behaviour of the locks, promises and recency list is one of the plain
\* promise: single flight, expiry, a bounded store, and everyone's own answer.
THEOREM ImplementsSingleFlight == Spec => FlightsSpec
  <1>1. Spec => Flights!Init /\ [][Flights!Next]_Flights!vars
    BY InitSimulates, StepSimulates, InvHolds, PTL DEF Spec
  <1> QED
    BY <1>1 DEF FlightsSpec, Flights!Spec

----------------------------------------------------------------------------
(***************************************************************************)
(* One computation per TTL.  Two answers that exist together say nothing   *)
(* of the answers a claim may meet later, so the invariant speaks of every *)
(* value of a key still held anywhere: each has expired or is outlived by  *)
(* the entry, and a computation under way began after all of them expired. *)
(***************************************************************************)
Answers(k) ==
    {o \in Outcomes :
        /\ o.kind = "value" /\ o.key = k
        /\ \/ \E t \in Threads : result[t] = o
           \/ entry[k] # None /\ entry[k].value = o}

ExpiredOrKept ==
    \A k \in Keys : \A o \in Answers(k) :
        \/ clock >= o.done + TTL
        \/ entry[k] # None /\ entry[k].value.done >= o.done

AskedAfterExpiry ==
    \A t \in Threads : pc[t] = "compute" =>
        \A o \in Answers(key[t]) : since[t] >= o.done + TTL

AnswersApart ==
    \A k \in Keys : \A v, w \in Answers(k) :
        v.done < w.done => w.start >= v.done + TTL

OnceInv == CacheInv /\ ExpiredOrKept /\ AskedAfterExpiry /\ AnswersApart

\* What an answer says of itself: when it was begun and done, by now.
LEMMA AnswerFacts ==
    ASSUME CacheInv, NEW k \in Keys, NEW o \in Answers(k)
    PROVE  /\ o \in Outcomes /\ o.key = k /\ o.kind = "value"
           /\ o.done \in Nat /\ o.start \in Nat /\ o.done <= clock /\ clock \in Nat
  <1>1. o \in Outcomes /\ o.key = k /\ o.kind = "value"
    BY DEF Answers
  <1>2. o.done \in Nat /\ o.start \in Nat /\ clock \in Nat
    BY <1>1 DEF Outcomes, Instants, CacheInv, TypeOK
  <1>3. CASE \E t \in Threads : result[t] = o
    <2>1. PICK t \in Threads : result[t] = o
      BY <1>3
    <2>2. o # None
      BY <1>1
    <2> QED
      BY <1>1, <1>2, <2>1, <2>2 DEF CacheInv, CallsSound
  <1>4. CASE entry[k] # None /\ entry[k].value = o
    BY <1>1, <1>2, <1>4 DEF CacheInv, EntriesSound
  <1> QED
    BY <1>1, <1>2, <1>3, <1>4 DEF Answers

\* A key whose entry is no longer live may be asked for again.
LEMMA StaleMeansExpired ==
    ASSUME CacheInv, ExpiredOrKept, NEW k \in Keys, ~Live(k), NEW o \in Answers(k)
    PROVE  clock >= o.done + TTL
  <1>1. o.done \in Nat /\ clock \in Nat
    BY AnswerFacts
  <1>2. CASE entry[k] # None
    <2>1. entry[k] \in Entries /\ entry[k].expires = entry[k].value.done + TTL
      BY <1>2 DEF CacheInv, TypeOK, EntriesSound
    <2>2. entry[k].value.done \in Nat
      BY <2>1 DEF Entries, Outcomes, Instants
    <2>3. entry[k].expires <= clock
      BY <1>1, <1>2, <2>1, <2>2 DEF Live
    <2>4. clock >= o.done + TTL \/ entry[k].value.done >= o.done
      BY DEF ExpiredOrKept
    <2> QED
      BY <1>1, <2>1, <2>2, <2>3, <2>4
  <1>3. CASE entry[k] = None
    BY <1>3 DEF ExpiredOrKept
  <1> QED
    BY <1>2, <1>3

\* A step that makes no answer, keeps what is not expired and starts only
\* computations of keys that are, keeps the answers apart.
LEMMA NoAnswerInv ==
    ASSUME OnceInv, \A k \in Keys : Answers(k)' \subseteq Answers(k),
           clock' \in Nat, clock' >= clock,
           \A k \in Keys : Live(k) => entry'[k] = entry[k],
           \A k \in Keys : entry'[k] \in {entry[k], None},
           \A t \in Threads : pc'[t] = "compute" =>
              \/ pc[t] = "compute" /\ key'[t] = key[t] /\ since'[t] = since[t]
              \/ key'[t] \in Keys /\ ~Live(key'[t]) /\ since'[t] = clock
    PROVE  ExpiredOrKept' /\ AskedAfterExpiry' /\ AnswersApart'
  <1>1. CacheInv /\ ExpiredOrKept /\ AskedAfterExpiry /\ AnswersApart
    BY DEF OnceInv
  <1>2. ExpiredOrKept'
    <2> SUFFICES ASSUME NEW k \in Keys, NEW o \in Answers(k)'
                 PROVE  \/ clock' >= o.done + TTL
                        \/ entry'[k] # None /\ entry'[k].value.done >= o.done
      BY DEF ExpiredOrKept
    <2>1. o \in Answers(k) /\ o.done \in Nat /\ clock \in Nat
      BY <1>1, AnswerFacts
    <2>2. CASE Live(k)
      <3>1. entry'[k] = entry[k]
        BY <2>2
      <3>2. \/ clock >= o.done + TTL
            \/ entry[k] # None /\ entry[k].value.done >= o.done
        BY <1>1, <2>1 DEF ExpiredOrKept
      <3> QED
        BY <2>1, <3>1, <3>2
    <2>3. CASE ~Live(k)
      <3>1. clock >= o.done + TTL
        BY <1>1, <2>1, <2>3, StaleMeansExpired
      <3> QED
        BY <2>1, <3>1
    <2> QED
      BY <2>2, <2>3
  <1>3. AskedAfterExpiry'
    <2> SUFFICES ASSUME NEW t \in Threads, pc'[t] = "compute", NEW o \in Answers(key[t])'
                 PROVE  since'[t] >= o.done + TTL
      BY DEF AskedAfterExpiry
    <2>1. CASE pc[t] = "compute" /\ key'[t] = key[t] /\ since'[t] = since[t]
      <3>1. key[t] \in Keys
        BY <1>1, <2>1 DEF CacheInv, CallsSound
      <3>2. o \in Answers(key[t])
        BY <2>1, <3>1 DEF Answers
      <3> QED
        BY <1>1, <2>1, <3>2 DEF AskedAfterExpiry
    <2>2. CASE key'[t] \in Keys /\ ~Live(key'[t]) /\ since'[t] = clock
      <3> DEFINE k == key'[t]
      <3>1. k \in Keys /\ ~Live(k)
        BY <2>2
      <3>2. o \in Answers(k)
        BY <3>1 DEF Answers
      <3> HIDE DEF k
      <3>3. clock >= o.done + TTL
        BY <1>1, <3>1, <3>2, StaleMeansExpired
      <3> QED
        BY <2>2, <3>3
    <2> QED
      BY <2>1, <2>2
  <1>4. AnswersApart'
    BY <1>1 DEF AnswersApart
  <1> QED
    BY <1>2, <1>3, <1>4

\* While the keys fit, storing one evicts none.
LEMMA NothingEvicted ==
    ASSUME IsFiniteSet(Keys), Cardinality(Keys) <= MaxSize,
           CacheInv, NEW k \in Keys, NEW e \in Entries, Keep(k, e)
    PROVE  \A j \in Keys : entry'[j] = IF j = k THEN e ELSE entry[j]
  <1>1. TypeOK /\ StoreSound /\ order \in Seq(Keys) /\ Once(order)
    BY DEF CacheInv, TypeOK, StoreSound
  <1>2. entry' = [j \in Keys |-> IF j = k THEN e
                                 ELSE IF j \in ToSet(order') THEN entry[j] ELSE None]
        /\ order' = Insert(order, k)
    BY <1>1, KeepStore DEF Keep
  <1>3. Touch(order, k) \in Seq(Keys) /\ Once(Touch(order, k))
    BY <1>1, TouchFacts
  <1>4. ToSet(Touch(order, k)) \in SUBSET Keys
    BY <1>3 DEF ToSet
  <1>5. Cardinality(ToSet(Touch(order, k))) <= Cardinality(Keys)
    BY <1>4, FS_Subset
  <1>6. Len(Touch(order, k)) <= MaxSize
    <2>1. Cardinality(ToSet(Touch(order, k))) = Len(Touch(order, k))
      BY <1>3, OnceCardinality
    <2>2. Cardinality(Keys) \in Nat
      BY FS_CardinalityType
    <2> QED
      BY <1>3, <1>5, <2>1, <2>2
  <1>7. ToSet(order') = ToSet(order) \cup {k}
    BY <1>1, <1>2, <1>6, InsertKeeps
  <1> QED
    BY <1>1, <1>2, <1>7 DEF StoreSound

\* A computation that ends adds an answer later than all others of its key, and
\* begun after all of them had expired.
LEMMA StoreOnce ==
    ASSUME IsFiniteSet(Keys), Cardinality(Keys) <= MaxSize,
           OnceInv, NEW t \in Threads, Store(t)
    PROVE  ExpiredOrKept' /\ AskedAfterExpiry' /\ AnswersApart'
  <1> DEFINE c == key[t]
             w == Outcome(t, "value")
  <1>1. CacheInv /\ TypeOK /\ ExpiredOrKept /\ AskedAfterExpiry /\ AnswersApart
    BY DEF OnceInv, CacheInv
  <1>2. /\ Finish(t, "value") /\ Keep(c, NewEntry(t, "value"))
        /\ pc[t] = "compute" /\ c \in Keys
    BY <1>1 DEF Store, Finish, CacheInv, CallsSound
  <1>3. /\ w \in Outcomes /\ NewEntry(t, "value") \in Entries
        /\ NewEntry(t, "value") # None /\ NewEntry(t, "value").value = w
    BY <1>1, <1>2, OutcomeType DEF NewEntry
  <1>4. w.key = c /\ w.start = since[t] /\ w.done = clock
    BY DEF Outcome
  <1>5. /\ entry'[c] # None /\ entry'[c].value = w
        /\ \A k \in Keys \ {c} : entry'[k] = entry[k]
    BY <1>1, <1>2, <1>3, NothingEvicted
  <1>6. /\ \A u \in Threads : result'[u] = IF u = t THEN w ELSE result[u]
        /\ \A u \in Threads : pc'[u] = IF u = t THEN "publish" ELSE pc[u]
        /\ clock' = clock /\ key' = key /\ since' = since
    BY <1>1, <1>2 DEF Finish, TypeOK
  <1>7. clock \in Nat /\ since[t] \in Nat
    BY <1>1 DEF TypeOK, Instants
  <1> HIDE DEF c, w
  <1>8. ASSUME NEW k \in Keys, NEW o \in Answers(k)'
        PROVE  o \in Answers(k) \/ (k = c /\ o = w)
    <2>1. o \in Outcomes /\ o.kind = "value" /\ o.key = k
      BY DEF Answers
    <2>2. CASE \E u \in Threads : result'[u] = o
      <3>1. o = w \/ \E u \in Threads : result[u] = o
        BY <1>6, <2>2
      <3> QED
        BY <1>4, <2>1, <3>1 DEF Answers
    <2>3. CASE entry'[k] # None /\ entry'[k].value = o
      <3>1. CASE k = c
        BY <1>5, <2>3, <3>1
      <3>2. CASE k # c
        BY <1>5, <2>1, <2>3, <3>2 DEF Answers
      <3> QED
        BY <3>1, <3>2
    <2> QED
      BY <2>2, <2>3 DEF Answers
  <1>9. ASSUME NEW o \in Answers(c)
        PROVE  since[t] >= o.done + TTL /\ o.done \in Nat /\ o.done <= clock
    <2>1. o.done \in Nat /\ o.done <= clock
      BY <1>1, <1>2, AnswerFacts
    <2> QED
      BY <1>1, <1>2, <2>1 DEF AskedAfterExpiry, c
  <1>10. ExpiredOrKept'
    <2> SUFFICES ASSUME NEW k \in Keys, NEW o \in Answers(k)'
                 PROVE  \/ clock >= o.done + TTL
                        \/ entry'[k] # None /\ entry'[k].value.done >= o.done
      BY <1>6 DEF ExpiredOrKept
    <2>1. CASE k = c
      <3>1. o.done <= clock
        BY <1>4, <1>7, <1>8, <1>9, <2>1
      <3> QED
        BY <1>4, <1>5, <2>1, <3>1
    <2>2. CASE k # c
      BY <1>1, <1>5, <1>8, <2>2 DEF ExpiredOrKept
    <2> QED
      BY <2>1, <2>2
  <1>11. AskedAfterExpiry'
    <2> SUFFICES ASSUME NEW u \in Threads, pc'[u] = "compute", NEW o \in Answers(key[u])'
                 PROVE  since[u] >= o.done + TTL
      BY <1>6 DEF AskedAfterExpiry
    <2>1. u # t /\ pc[u] = "compute"
      BY <1>6
    <2>2. key[u] \in Keys /\ key[u] # c
      BY <1>1, <1>2, <2>1 DEF CacheInv, CallsSound, ClaimsAreComputing, c
    <2>3. o \in Answers(key[u])
      <3>1. PICK k \in Keys : k = key[u]
        BY <2>2
      <3>2. k # c /\ o \in Answers(k)'
        BY <1>6, <2>2, <3>1 DEF Answers
      <3>3. o \in Answers(k)
        BY <1>8, <3>2
      <3> QED
        BY <3>1, <3>3
    <2> QED
      BY <1>1, <2>1, <2>3 DEF AskedAfterExpiry
  <1>12. AnswersApart'
    <2> SUFFICES ASSUME NEW k \in Keys, NEW v \in Answers(k)', NEW x \in Answers(k)',
                        v.done < x.done
                 PROVE  x.start >= v.done + TTL
      BY DEF AnswersApart
    <2>1. CASE v \in Answers(k) /\ x \in Answers(k)
      BY <1>1, <2>1 DEF AnswersApart
    <2>2. CASE v \in Answers(k) /\ k = c /\ x = w
      BY <1>4, <1>9, <2>2
    <2>3. CASE k = c /\ v = w
      <3>1. x.done <= clock
        BY <1>4, <1>7, <1>8, <1>9, <2>3
      <3>2. x.done \in Nat
        BY <1>4, <1>7, <1>8, <1>9, <2>3
      <3> QED
        BY <1>4, <1>7, <2>3, <3>1, <3>2
    <2> QED
      BY <1>8, <2>1, <2>2, <2>3
  <1> QED
    BY <1>10, <1>11, <1>12

\* The next step of a cache nobody drops from.
ServedNext == (\E t \in Threads : GetOrCompute(t)) \/ Tick

\* Every step but the storing of a value makes no answer.
LEMMA OtherOnce ==
    ASSUME OnceInv, NEW t \in Threads, NEW k \in Keys,
           \/ Hit(t, k) \/ Claim(t, k) \/ Join(t, k)
           \/ Fail(t) \/ Fulfill(t) \/ Reject(t) \/ Wake(t) \/ TimeOut(t)
    PROVE  ExpiredOrKept' /\ AskedAfterExpiry' /\ AnswersApart'
  <1>1. CacheInv /\ TypeOK /\ StoreSound /\ clock \in Nat
    BY DEF OnceInv, CacheInv, TypeOK, Instants
  <1>2. ASSUME NEW j \in Keys, Pop(j), ~Live(j)
        PROVE  /\ \A i \in Keys : Live(i) => entry'[i] = entry[i]
               /\ \A i \in Keys : entry'[i] \in {entry[i], None}
    <2>1. \A i \in Keys : entry'[i] = IF i = j THEN None ELSE entry[i]
      BY <1>1, <1>2, PopStore
    <2> QED
      BY <1>2, <2>1
  <1>3. /\ clock' = clock
        /\ \A j \in Keys : Live(j) => entry'[j] = entry[j]
        /\ \A j \in Keys : entry'[j] \in {entry[j], None}
    <2>1. CASE Claim(t, k) \/ Join(t, k)
      <3>1. Pop(k) /\ ~Live(k) /\ clock' = clock
        BY <2>1 DEF Claim, ClaimStep, Join
      <3> QED
        BY <1>2, <3>1
    <2>2. CASE Hit(t, k) \/ Fail(t) \/ Fulfill(t) \/ Reject(t) \/ Wake(t) \/ TimeOut(t)
      <3>1. clock' = clock /\ entry' = entry
        BY <2>2 DEF Hit, Fail, Finish, store, Fulfill, Reject, Settle, Wake, TimeOut
      <3> QED
        BY <3>1
    <2> QED
      BY <2>1, <2>2
  <1>4. ASSUME NEW u \in Threads, pc'[u] = "compute"
        PROVE  \/ pc[u] = "compute" /\ key'[u] = key[u] /\ since'[u] = since[u]
               \/ key'[u] \in Keys /\ ~Live(key'[u]) /\ since'[u] = clock
    <2>1. CASE Claim(t, k)
      <3>1. /\ ~Live(k) /\ pc' = [pc EXCEPT ![t] = "compute"]
            /\ key' = [key EXCEPT ![t] = k] /\ since' = [since EXCEPT ![t] = clock]
        BY <2>1 DEF Claim, ClaimStep, Begin
      <3> QED
        BY <1>1, <1>4, <3>1 DEF TypeOK
    <2>2. CASE Hit(t, k) \/ Join(t, k)
      <3>1. /\ pc[t] = "idle" /\ (pc' = pc \/ pc' = [pc EXCEPT ![t] = "wait"])
            /\ key' = [key EXCEPT ![t] = k] /\ since' = [since EXCEPT ![t] = clock]
        BY <2>2 DEF Hit, Join, Begin
      <3> QED
        BY <1>1, <1>4, <3>1 DEF TypeOK
    <2>3. CASE Fail(t) \/ Fulfill(t) \/ Reject(t) \/ Wake(t) \/ TimeOut(t)
      <3>1. /\ key' = key /\ since' = since
            /\ pc' = [pc EXCEPT ![t] = "publish"] \/ pc' = [pc EXCEPT ![t] = "idle"]
        BY <2>3 DEF Fail, Finish, Fulfill, Reject, Settle, Wake, TimeOut
      <3> QED
        BY <1>1, <1>4, <3>1 DEF TypeOK
    <2> QED
      BY <2>1, <2>2, <2>3
  <1>5. ASSUME NEW u \in Threads, result'[u] \in Outcomes, result'[u].kind = "value"
        PROVE  \/ \E v \in Threads : result'[u] = result[v]
               \/ \E j \in Keys : entry[j] # None /\ result'[u] = entry[j].value
    <2>1. CASE Hit(t, k)
      <3>1. entry[k] # None /\ result' = [result EXCEPT ![t] = entry[k].value]
        BY <2>1 DEF Hit, Live
      <3> QED
        BY <1>1, <3>1 DEF TypeOK
    <2>2. CASE Claim(t, k) \/ Join(t, k)
      <3>1. result' = [result EXCEPT ![t] = None]
        BY <2>2 DEF Claim, ClaimStep, Join
      <3> QED
        BY <1>1, <1>5, <3>1 DEF TypeOK
    <2>3. CASE Fail(t) \/ TimeOut(t)
      <3>1. PICK kind \in {"error", "timeout"} : result' = [result EXCEPT ![t] = Outcome(t, kind)]
        BY <2>3 DEF Fail, Finish, TimeOut
      <3> QED
        BY <1>1, <1>5, <3>1 DEF TypeOK, Outcome
    <2>4. CASE Fulfill(t) \/ Reject(t)
      <3>1. \A v \in Threads : result'[v] \in {result[v], result[t]}
        BY <2>4 DEF Fulfill, Reject, Settle
      <3> QED
        BY <3>1
    <2>5. CASE Wake(t)
      BY <2>5 DEF Wake
    <2> QED
      BY <2>1, <2>2, <2>3, <2>4, <2>5
  <1>6. ASSUME NEW j \in Keys, NEW o \in Answers(j)' PROVE o \in Answers(j)
    <2>1. o \in Outcomes /\ o.kind = "value" /\ o.key = j
      BY DEF Answers
    <2>2. CASE \E u \in Threads : result'[u] = o
      <3>1. \/ \E v \in Threads : result[v] = o
            \/ \E i \in Keys : entry[i] # None /\ entry[i].value = o
        BY <1>5, <2>1, <2>2
      <3>2. \A i \in Keys : entry[i] # None /\ entry[i].value = o => i = j
        BY <1>1, <2>1 DEF CacheInv, EntriesSound
      <3> QED
        BY <2>1, <3>1, <3>2 DEF Answers
    <2>3. CASE entry'[j] # None /\ entry'[j].value = o
      <3>1. entry[j] # None /\ entry[j].value = o
        BY <1>3, <2>3
      <3> QED
        BY <2>1, <3>1 DEF Answers
    <2> QED
      BY <2>2, <2>3 DEF Answers
  <1>7. clock' \in Nat /\ clock' >= clock
    BY <1>1, <1>3
  <1> QED
    BY <1>3, <1>4, <1>6, <1>7, NoAnswerInv

LEMMA TickOnce ==
    ASSUME OnceInv, Tick
    PROVE  ExpiredOrKept' /\ AskedAfterExpiry' /\ AnswersApart'
  <1>1. /\ clock' = clock + 1
        /\ UNCHANGED <<entry, pc, key, since, result>>
    BY DEF Tick
  <1>2. clock \in Nat
    BY DEF OnceInv, CacheInv, TypeOK, Instants
  <1>3. \A k \in Keys : Answers(k)' \subseteq Answers(k)
    BY <1>1 DEF Answers
  <1> QED
    BY <1>1, <1>2, <1>3, NoAnswerInv

\* While the keys fit and nobody drops them, a key is asked for again only TTL
\* after its last answer, whoever got that answer and whoever asks.
THEOREM AskedOncePerTTL ==
    ASSUME IsFiniteSet(Keys), Cardinality(Keys) <= MaxSize
    PROVE  ServedSpec => []OncePerTTL
  <1>1. ServedSpec => Init /\ [][ServedNext]_vars
    BY PTL DEF ServedSpec, ServedNext
  <1>2. Init => OnceInv
    <2> SUFFICES ASSUME Init PROVE OnceInv
      OBVIOUS
    <2>1. CacheInv
      BY InitInv
    <2>2. \A k \in Keys : Answers(k) = {}
      BY DEF Init, Answers
    <2>3. \A t \in Threads : pc[t] # "compute"
      BY DEF Init
    <2> QED
      BY <2>1, <2>2, <2>3 DEF OnceInv, ExpiredOrKept, AskedAfterExpiry, AnswersApart
  <1>3. OnceInv /\ [ServedNext]_vars => OnceInv'
    <2> SUFFICES ASSUME OnceInv, [ServedNext]_vars PROVE OnceInv'
      OBVIOUS
    <2>1. CacheInv'
      <3>1. CacheInv /\ [Next]_vars
        BY DEF OnceInv, ServedNext, Next
      <3> QED
        BY <3>1, NextInv
    <2>2. CASE \E t \in Threads : GetOrCompute(t)
      <3>1. PICK t \in Threads : GetOrCompute(t)
        BY <2>2
      <3>2. CASE Store(t)
        BY <2>1, <3>2, StoreOnce DEF OnceInv
      <3>3. ASSUME NEW k \in Keys, Hit(t, k) \/ Claim(t, k) \/ Join(t, k)
            PROVE  OnceInv'
        BY <2>1, <3>3, OtherOnce DEF OnceInv
      <3>4. CASE Fail(t) \/ Fulfill(t) \/ Reject(t) \/ Wake(t) \/ TimeOut(t)
        <4>1. PICK k \in Keys : k = key[t]
          BY <3>4 DEF OnceInv, CacheInv, CallsSound, Fail, Finish, Fulfill, Reject, Wake, TimeOut
        <4> QED
          BY <2>1, <3>4, OtherOnce DEF OnceInv
      <3> QED
        BY <3>1, <3>2, <3>3, <3>4 DEF GetOrCompute
    <2>3. CASE Tick
      BY <2>1, <2>3, TickOnce DEF OnceInv
    <2>4. CASE UNCHANGED vars
      BY <2>1, <2>4 DEF vars, OnceInv, ExpiredOrKept, AskedAfterExpiry, AnswersApart,
                        Answers
    <2> QED
      BY <2>2, <2>3, <2>4 DEF ServedNext
  <1>4. OnceInv => OncePerTTL
    <2> SUFFICES ASSUME OnceInv, NEW t \in Threads, NEW u \in Threads,
                        result[t] # None, result[t].kind = "value",
                        result[u] # None, result[u].kind = "value",
                        result[t].key = result[u].key, result[t].done < result[u].done
                 PROVE  result[u].start >= result[t].done + TTL
      BY DEF OncePerTTL
    <2>1. result[t] \in Outcomes /\ result[u] \in Outcomes
      BY DEF OnceInv, CacheInv, TypeOK
    <2>2. result[t].key \in Keys
      BY <2>1 DEF Outcomes
    <2>3. result[t] \in Answers(result[t].key) /\ result[u] \in Answers(result[t].key)
      BY <2>1 DEF Answers
    <2> QED
      BY <2>2, <2>3 DEF OnceInv, AnswersApart
  <1> QED
    BY <1>1, <1>2, <1>3, <1>4, PTL
============================================================================
