-------------------------- MODULE LruHistoryProofs --------------------------
(***************************************************************************)
(* The store is a least-recently-used store for any keys and any bound.    *)
(***************************************************************************)
EXTENDS LruHistory, LruStoreProofs

USE MaxSizeAssumption

LruInv == TypeOK /\ Bounded /\ OrderedByUse

\* OrderedByUse, of a given store and a given history.
ByUse(s, h) ==
    \A i, j \in DOMAIN s : i < j => s[j] \in h[s[i]] /\ s[i] \notin h[s[j]]

----------------------------------------------------------------------------
\* Entries that keep their order stay ordered by use.
LEMMA ByUseWithin ==
    ASSUME NEW s \in Seq(Keys), NEW t \in Seq(Keys), NEW h, Within(t, s), ByUse(s, h)
    PROVE  ByUse(t, h)
  <1> SUFFICES ASSUME NEW i \in DOMAIN t, NEW j \in DOMAIN t, i < j
               PROVE  t[j] \in h[t[i]] /\ t[i] \notin h[t[j]]
    BY DEF ByUse
  <1>1. PICK m, n \in DOMAIN s : m < n /\ t[i] = s[m] /\ t[j] = s[n]
    BY DEF Within
  <1> QED
    BY <1>1 DEF ByUse

\* Using a key at the recent end keeps the store ordered by use.
LEMMA ByUseTouch ==
    ASSUME LruInv, NEW k \in Keys, Use(k)
    PROVE  ByUse(Touch(order, k), newer')
  <1> DEFINE d == Drop(order, k)
             t == Touch(order, k)
  <1>1. order \in Seq(Keys) /\ newer \in [Keys -> SUBSET Keys]
        /\ Once(order) /\ ByUse(order, newer)
    BY OnceIsInjective DEF LruInv, TypeOK, Bounded, OrderedByUse, ByUse
  <1>2. /\ d \in Seq(Keys) /\ Within(d, order) /\ ToSet(d) = ToSet(order) \ {k}
    BY <1>1, DropFacts
  <1>3. /\ Len(t) = Len(d) + 1 /\ t \in Seq(Keys)
        /\ \A i \in 1 .. Len(d) : t[i] = d[i]
        /\ t[Len(d) + 1] = k
    BY <1>1, TouchFacts
  <1>4. ByUse(d, newer)
    BY <1>1, <1>2, ByUseWithin
  <1> HIDE DEF d, t
  <1>5. \A i \in 1 .. Len(d) : d[i] \in Keys /\ d[i] # k
    BY <1>2 DEF ToSet
  <1>6. \A j \in Keys : newer'[j] = IF j = k THEN {} ELSE newer[j] \cup {k}
    BY DEF Use
  <1>7. ASSUME NEW i \in DOMAIN t, NEW j \in DOMAIN t, i < j
        PROVE  t[j] \in newer'[t[i]] /\ t[i] \notin newer'[t[j]]
    <2>1. i \in 1 .. Len(d) /\ t[i] = d[i]
      BY <1>2, <1>3, <1>7
    <2>2. CASE j = Len(d) + 1
      <3>1. t[i] \in Keys /\ t[i] # k /\ t[j] = k
        BY <1>3, <1>5, <2>1, <2>2
      <3>2. newer'[t[i]] = newer[t[i]] \cup {k} /\ newer'[k] = {}
        BY <1>6, <3>1
      <3> QED
        BY <3>1, <3>2
    <2>3. CASE j # Len(d) + 1
      <3>1. j \in 1 .. Len(d) /\ t[j] = d[j]
        BY <1>2, <1>3, <2>3
      <3>2. d[j] \in newer[d[i]] /\ d[i] \notin newer[d[j]]
        BY <1>2, <1>4, <1>7, <2>1, <3>1 DEF ByUse
      <3> QED
        BY <1>5, <1>6, <2>1, <3>1, <3>2
    <2> QED
      BY <2>2, <2>3
  <1> QED
    BY <1>7 DEF ByUse, t

LEMMA LruInit == Init => LruInv
  <1>1. /\ <<>> \in Seq(Keys) /\ Len(<<>>) <= MaxSize
        /\ \A i \in DOMAIN <<>> : FALSE
    OBVIOUS
  <1> QED
    BY <1>1 DEF Init, LruInv, TypeOK, Bounded, OrderedByUse, IsInjective

LEMMA LruNext == LruInv /\ [Next]_vars => LruInv'
  <1> SUFFICES ASSUME LruInv, [Next]_vars PROVE LruInv'
    OBVIOUS
  <1>1. order \in Seq(Keys) /\ newer \in [Keys -> SUBSET Keys]
        /\ Once(order) /\ Len(order) <= MaxSize /\ ByUse(order, newer)
    BY OnceIsInjective DEF LruInv, TypeOK, Bounded, OrderedByUse, ByUse
  <1>2. ASSUME order' \in Seq(Keys), newer' \in [Keys -> SUBSET Keys],
               Once(order'), Len(order') <= MaxSize, ByUse(order', newer')
        PROVE  LruInv'
    BY <1>2, OnceIsInjective DEF LruInv, TypeOK, Bounded, OrderedByUse, ByUse, IsInjective, Once
  <1>3. ASSUME NEW k \in Keys, Use(k) PROVE newer' \in [Keys -> SUBSET Keys]
    BY <1>1, <1>3 DEF Use
  <1>4. ASSUME NEW k \in Keys, Put(k) PROVE LruInv'
    <2>1. order' = Insert(order, k) /\ Use(k)
      BY <1>4 DEF Put
    <2>2. /\ Insert(order, k) \in Seq(Keys) /\ Once(Insert(order, k))
          /\ Len(Insert(order, k)) <= MaxSize /\ Within(Insert(order, k), Touch(order, k))
      BY <1>1, InsertFacts
    <2>3. ByUse(Insert(order, k), newer')
      BY <1>1, <2>1, <2>2, ByUseTouch, ByUseWithin, TouchFacts
    <2> QED
      BY <1>2, <1>3, <2>1, <2>2, <2>3
  <1>5. ASSUME NEW k \in Keys, Read(k) PROVE LruInv'
    <2>1. order' = Touch(order, k) /\ Use(k) /\ k \in ToSet(order)
      BY <1>1, <1>5 DEF Read, Contains, ToSet
    <2>2. Touch(order, k) \in Seq(Keys) /\ Once(Touch(order, k))
      BY <1>1, TouchFacts
    <2>3. Len(Touch(order, k)) = Len(order)
      BY <1>1, <2>1, TouchPresent
    <2> QED
      BY <1>1, <1>2, <1>3, <2>1, <2>2, <2>3, ByUseTouch
  <1>6. ASSUME NEW k \in Keys, Discard(k) PROVE LruInv'
    <2>1. order' = Drop(order, k) /\ newer' = newer
      BY <1>6 DEF Discard
    <2>2. /\ Drop(order, k) \in Seq(Keys) /\ Once(Drop(order, k))
          /\ Len(Drop(order, k)) <= Len(order) /\ Within(Drop(order, k), order)
      BY <1>1, DropFacts
    <2>3. Len(Drop(order, k)) <= MaxSize
      BY <1>1, <2>2
    <2> QED
      BY <1>1, <1>2, <2>1, <2>2, <2>3, ByUseWithin
  <1>7. CASE Clear
    <2>1. order' = <<>> /\ newer' = newer
      BY <1>7 DEF Clear
    <2>2. /\ <<>> \in Seq(Keys) /\ Len(<<>>) <= MaxSize
          /\ \A i \in DOMAIN <<>> : FALSE
      OBVIOUS
    <2>3. Once(<<>>) /\ ByUse(<<>>, newer)
      BY <2>2 DEF Once, ByUse
    <2> QED
      BY <1>1, <1>2, <2>1, <2>2, <2>3
  <1>8. CASE UNCHANGED vars
    BY <1>8, <1>1, <1>2 DEF vars
  <1> QED
    BY <1>4, <1>5, <1>6, <1>7, <1>8 DEF Next

\* The store never holds more than MaxSize entries, nor one of them twice.
THEOREM StoreIsBounded == Spec => []Bounded
  <1>1. LruInv => Bounded
    BY DEF LruInv
  <1> QED
    BY <1>1, LruInit, LruNext, PTL DEF Spec

\* An entry stands behind exactly the entries used before it, in every
\* reachable state: reads count as uses, and the bound is kept.
THEOREM StoreIsOrderedByUse == Spec => [](Bounded /\ OrderedByUse)
  <1>1. LruInv => Bounded /\ OrderedByUse
    BY DEF LruInv
  <1> QED
    BY <1>1, LruInit, LruNext, PTL DEF Spec

\* A result stored costs at most the least recently used entry, and costs it
\* only when the store was full.
LEMMA PutEvicts ==
    ASSUME LruInv, NEW j \in Keys, Put(j)
    PROVE  EvictsLeastRecent
  <1> DEFINE u == Touch(order, j)
             g == IF Len(u) > MaxSize THEN Len(u) - MaxSize ELSE 0
  <1>1. order \in Seq(Keys) /\ Once(order) /\ Len(order) <= MaxSize
    BY OnceIsInjective DEF LruInv, TypeOK, Bounded
  <1> SUFFICES ASSUME NEW k \in ToSet(order) \ ToSet(order')
               PROVE  /\ Len(order) = MaxSize
                      /\ \A i \in ToSet(order) \ {k} : i \in newer[k]
    BY DEF EvictsLeastRecent
  <1>2. order' = Evict(u)
    BY DEF Put, Insert
  <1>3. u \in Seq(Keys) /\ Once(u) /\ ToSet(u) = ToSet(order) \cup {j}
    BY <1>1, TouchFacts
  <1>4. /\ Evict(u) \in Seq(Keys) /\ Len(Evict(u)) = Len(u) - g
        /\ \A i \in 1 .. Len(u) - g : Evict(u)[i] = u[i + g]
    BY <1>3, EvictFacts
  <1>5. Len(u) > MaxSize
    <2>1. SUFFICES ASSUME ~(Len(u) > MaxSize) PROVE FALSE
      OBVIOUS
    <2>2. order' = u
      BY <1>2, <2>1 DEF Evict
    <2> QED
      BY <1>3, <2>2
  <1>6. j \notin ToSet(order)
    BY <1>1, <1>5, TouchPresent
  <1>7. /\ Len(u) = Len(order) + 1
        /\ \A i \in 1 .. Len(order) : u[i] = order[i]
    <2>1. Drop(order, j) = order
      BY <1>1, <1>6, DropAbsent
    <2>2. u = Append(order, j)
      BY <2>1 DEF Touch
    <2> QED
      BY <1>1, <2>2
  <1> HIDE DEF u
  <1>8. Len(order) = MaxSize
    BY <1>1, <1>5, <1>7
  <1>9. k = order[1]
    <2>1. PICK p \in DOMAIN order : order[p] = k
      BY DEF ToSet
    <2>2. SUFFICES ASSUME p # 1 PROVE FALSE
      BY <2>1
    <2>3. p \in 2 .. Len(order)
      BY <1>1, <2>1, <2>2
    <2>4. p - 1 \in DOMAIN order' /\ order'[p - 1] = k
      BY <1>1, <1>2, <1>4, <1>7, <1>8, <2>1, <2>3
    <2> QED
      BY <2>4 DEF ToSet
  <1>10. ASSUME NEW x \in ToSet(order) \ {k} PROVE x \in newer[k]
    <2>1. PICK p \in DOMAIN order : order[p] = x
      BY DEF ToSet
    <2>2. 1 \in DOMAIN order /\ 1 < p
      BY <1>1, <1>8, <1>9, <2>1
    <2> QED
      BY <1>9, <2>1, <2>2 DEF LruInv, OrderedByUse
  <1> QED
    BY <1>8, <1>10

\* The eviction loop takes from the other end than the one a result is put at.
LEMMA PutStays ==
    ASSUME LruInv, NEW j \in Keys, Put(j)
    PROVE  j \in ToSet(order')
  <1> DEFINE d == Drop(order, j)
             u == Touch(order, j)
             g == IF Len(u) > MaxSize THEN Len(u) - MaxSize ELSE 0
  <1>1. order \in Seq(Keys) /\ Once(order)
    BY OnceIsInjective DEF LruInv, TypeOK, Bounded
  <1>2. order' = Evict(u)
    BY DEF Put, Insert
  <1>3. d \in Seq(Keys) /\ u = Append(d, j)
    BY <1>1, DropFacts DEF Touch
  <1>4. u \in Seq(Keys) /\ Once(u) /\ Len(u) \in Nat \ {0} /\ u[Len(u)] = j
    <2>1. u \in Seq(Keys) /\ Once(u)
      BY <1>1, TouchFacts
    <2> HIDE DEF d
    <2>2. Len(u) = Len(d) + 1 /\ u[Len(d) + 1] = j
      BY <1>3
    <2> QED
      BY <1>3, <2>1, <2>2
  <1> HIDE DEF u
  <1>5. /\ Evict(u) \in Seq(Keys) /\ Len(Evict(u)) = Len(u) - g
        /\ \A i \in 1 .. Len(u) - g : Evict(u)[i] = u[i + g]
    BY <1>4, EvictFacts
  <1>6. g \in Nat /\ Len(u) - g \in 1 .. Len(u) - g
    BY <1>4, MaxSizeAssumption
  <1>7. Len(u) - g \in DOMAIN order' /\ order'[Len(u) - g] = j
    BY <1>2, <1>4, <1>5, <1>6
  <1> QED
    BY <1>7 DEF ToSet

\* A result stored is there, and has cost the least recently used entry at most,
\* whatever calls came before.
THEOREM EvictionIsLeastRecent == Spec => EvictionIsLru
  <1>1. LruInv /\ [Next]_vars
          => [\A k \in Keys : Put(k) => k \in ToSet(order') /\ EvictsLeastRecent]_vars
    BY PutEvicts, PutStays
  <1> QED
    BY <1>1, LruInit, LruNext, PTL DEF Spec, EvictionIsLru
============================================================================
