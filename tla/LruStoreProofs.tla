--------------------------- MODULE LruStoreProofs ---------------------------
(***************************************************************************)
(* What the operators of LruStore return, for any store and any bound.     *)
(***************************************************************************)
EXTENDS LruStore, SequenceTheorems, FiniteSetTheorems, TLAPS

USE MaxSizeAssumption

\* t holds some of the entries of s, in the order s has them.
Within(t, s) ==
    \A i, j \in DOMAIN t :
        i < j => \E m, n \in DOMAIN s : m < n /\ t[i] = s[m] /\ t[j] = s[n]

\* Each entry of s at most once.
Once(s) == \A i, j \in DOMAIN s : s[i] = s[j] => i = j

LEMMA OnceIsInjective == ASSUME NEW s PROVE IsInjective(s) <=> Once(s)
  BY DEF IsInjective, Once

LEMMA WithinOnce ==
    ASSUME NEW s \in Seq(Keys), NEW t \in Seq(Keys), Within(t, s), Once(s)
    PROVE  Once(t)
  <1>1. ASSUME NEW i \in DOMAIN t, NEW j \in DOMAIN t, t[i] = t[j], i < j
        PROVE  FALSE
    <2>1. PICK m, n \in DOMAIN s : m < n /\ t[i] = s[m] /\ t[j] = s[n]
      BY <1>1 DEF Within
    <2>2. m \in 1 .. Len(s) /\ n \in 1 .. Len(s)
      OBVIOUS
    <2>3. m # n
      BY <2>1, <2>2
    <2>4. s[m] = s[n]
      BY <1>1, <2>1
    <2> QED
      BY <2>3, <2>4 DEF Once
  <1>2. DOMAIN t = 1 .. Len(t)
    OBVIOUS
  <1> QED
    BY <1>1, <1>2 DEF Once

LEMMA DropAbsent ==
    ASSUME NEW s \in Seq(Keys), NEW k, k \notin ToSet(s)
    PROVE  Drop(s, k) = s
  BY DEF Drop, ToSet

\* Dropping the key at position p closes the gap it leaves.
LEMMA DropPresent ==
    ASSUME NEW s \in Seq(Keys), NEW p \in DOMAIN s, Once(s)
    PROVE  /\ Drop(s, s[p]) \in Seq(Keys)
           /\ Len(Drop(s, s[p])) = Len(s) - 1
           /\ \A i \in 1 .. Len(s) - 1 :
                 Drop(s, s[p])[i] = IF i < p THEN s[i] ELSE s[i + 1]
  <1> DEFINE at == {i \in DOMAIN s : s[i] = s[p]}
  <1>1. at = {p} /\ (CHOOSE i \in at : TRUE) = p
    BY DEF Once
  <1>2. Drop(s, s[p]) = SubSeq(s, 1, p - 1) \o SubSeq(s, p + 1, Len(s))
    BY <1>1 DEF Drop, RemoveAt
  <1>3. p \in 1 .. Len(s) /\ Len(s) \in Nat
    OBVIOUS
  <1> DEFINE a == SubSeq(s, 1, p - 1)
             b == SubSeq(s, p + 1, Len(s))
  <1>4. a \in Seq(Keys) /\ Len(a) = p - 1 /\ \A i \in 1 .. p - 1 : a[i] = s[i]
    BY <1>3
  <1>5. b \in Seq(Keys) /\ Len(b) = Len(s) - p /\ \A i \in 1 .. Len(s) - p : b[i] = s[p + i]
    BY <1>3
  <1> HIDE DEF a, b
  <1>6. /\ a \o b \in Seq(Keys)
        /\ Len(a \o b) = Len(s) - 1
        /\ \A i \in 1 .. Len(s) - 1 :
              (a \o b)[i] = IF i < p THEN a[i] ELSE b[i - (p - 1)]
    <2>1. /\ a \o b \in Seq(Keys)
          /\ Len(a \o b) = Len(a) + Len(b)
          /\ \A i \in 1 .. Len(a) + Len(b) :
                (a \o b)[i] = IF i <= Len(a) THEN a[i] ELSE b[i - Len(a)]
      BY <1>4, <1>5, ConcatProperties, Zenon
    <2>2. Len(a) = p - 1 /\ Len(a) + Len(b) = Len(s) - 1
      BY <1>3, <1>4, <1>5
    <2>3. \A i \in 1 .. Len(s) - 1 : i <= p - 1 <=> i < p
      BY <1>3
    <2> QED
      BY <2>1, <2>2, <2>3
  <1>7. ASSUME NEW i \in 1 .. Len(s) - 1
        PROVE  (a \o b)[i] = IF i < p THEN s[i] ELSE s[i + 1]
    <2>1. CASE i < p
      BY <1>3, <1>4, <1>6, <2>1
    <2>2. CASE ~(i < p)
      <3>1. i - (p - 1) \in 1 .. Len(s) - p /\ p + (i - (p - 1)) = i + 1
        BY <1>3, <2>2
      <3> QED
        BY <1>5, <1>6, <2>2, <3>1
    <2> QED
      BY <2>1, <2>2
  <1>8. Drop(s, s[p]) = a \o b
    BY <1>2 DEF a, b
  <1> QED
    BY <1>6, <1>7, <1>8

\* Dropping a key keeps the other entries, in their order, and only them.
LEMMA DropFacts ==
    ASSUME NEW s \in Seq(Keys), NEW k \in Keys, Once(s)
    PROVE  /\ Drop(s, k) \in Seq(Keys)
           /\ Within(Drop(s, k), s)
           /\ ToSet(Drop(s, k)) = ToSet(s) \ {k}
           /\ Once(Drop(s, k))
           /\ Len(Drop(s, k)) <= Len(s)
  <1>1. CASE k \notin ToSet(s)
    BY <1>1, DropAbsent DEF Within, ToSet
  <1>2. CASE k \in ToSet(s)
    <2> DEFINE t == Drop(s, k)
    <2>1. PICK p \in DOMAIN s : s[p] = k
      BY <1>2 DEF ToSet
    <2>2. /\ t \in Seq(Keys) /\ Len(t) = Len(s) - 1
          /\ \A i \in 1 .. Len(s) - 1 : t[i] = IF i < p THEN s[i] ELSE s[i + 1]
      BY <2>1, DropPresent
    <2> HIDE DEF t
    <2> DEFINE from(i) == IF i < p THEN i ELSE i + 1
    <2>0. ASSUME NEW i \in DOMAIN t
          PROVE  from(i) \in DOMAIN s /\ t[i] = s[from(i)] /\ from(i) # p
      BY <2>2
    <2>3. Within(t, s)
      <3> SUFFICES ASSUME NEW i \in DOMAIN t, NEW j \in DOMAIN t, i < j
                   PROVE  \E m, n \in DOMAIN s : m < n /\ t[i] = s[m] /\ t[j] = s[n]
        BY DEF Within
      <3>1. from(i) < from(j)
        BY <2>2
      <3> HIDE DEF from
      <3> QED
        BY <2>0, <3>1
    <2>4. ASSUME NEW x \in ToSet(t) PROVE x \in ToSet(s) \ {k}
      <3>1. PICK i \in DOMAIN t : x = t[i]
        BY DEF ToSet
      <3>2. from(i) \in DOMAIN s /\ x = s[from(i)] /\ from(i) # p
        BY <2>0, <3>1
      <3> QED
        BY <2>1, <3>2 DEF ToSet, Once
    <2>5. ASSUME NEW x \in ToSet(s) \ {k} PROVE x \in ToSet(t)
      <3>1. PICK i \in DOMAIN s : x = s[i]
        BY DEF ToSet
      <3>2. CASE i < p
        <4>1. i \in DOMAIN t /\ t[i] = x
          BY <2>2, <3>1, <3>2
        <4> QED
          BY <4>1 DEF ToSet
      <3>3. CASE i > p
        <4>1. i - 1 \in 1 .. Len(s) - 1 /\ ~(i - 1 < p) /\ (i - 1) + 1 = i
          BY <3>3
        <4>2. i - 1 \in DOMAIN t /\ t[i - 1] = x
          BY <2>2, <3>1, <4>1
        <4> QED
          BY <4>2 DEF ToSet
      <3> QED
        BY <2>1, <3>1, <3>2, <3>3
    <2>6. Once(t)
      BY <2>2, <2>3, WithinOnce
    <2>7. Len(t) <= Len(s)
      BY <2>2
    <2> QED
      BY <2>2, <2>3, <2>4, <2>5, <2>6, <2>7 DEF t
  <1> QED
    BY <1>1, <1>2

\* Using a key puts it at the recent end and moves nothing else.
LEMMA TouchFacts ==
    ASSUME NEW s \in Seq(Keys), NEW k \in Keys, Once(s)
    PROVE  LET d == Drop(s, k)
           IN  /\ Touch(s, k) \in Seq(Keys)
               /\ Once(Touch(s, k))
               /\ ToSet(Touch(s, k)) = ToSet(s) \cup {k}
               /\ Len(Touch(s, k)) = Len(d) + 1
               /\ \A i \in 1 .. Len(d) : Touch(s, k)[i] = d[i]
               /\ Touch(s, k)[Len(d) + 1] = k
  <1> DEFINE d == Drop(s, k)
  <1>1. d \in Seq(Keys) /\ Once(d) /\ ToSet(d) = ToSet(s) \ {k}
    BY DropFacts
  <1> HIDE DEF d
  <1>2. /\ Append(d, k) \in Seq(Keys)
        /\ Len(Append(d, k)) = Len(d) + 1
        /\ \A i \in 1 .. Len(d) : Append(d, k)[i] = d[i]
        /\ Append(d, k)[Len(d) + 1] = k
    BY <1>1
  <1>3. \A i \in 1 .. Len(d) : d[i] \in ToSet(d)
    BY <1>1 DEF ToSet
  <1>4. Once(Append(d, k))
    BY <1>1, <1>2, <1>3 DEF Once
  <1>5. ToSet(Append(d, k)) = ToSet(d) \cup {k}
    BY <1>1, <1>2 DEF ToSet
  <1>6. Touch(s, k) = Append(d, k)
    BY DEF Touch, d
  <1> QED
    BY <1>1, <1>2, <1>4, <1>5, <1>6 DEF d

\* Using a key that is there changes no length.
LEMMA TouchPresent ==
    ASSUME NEW s \in Seq(Keys), NEW k \in ToSet(s), Once(s)
    PROVE  Len(Touch(s, k)) = Len(s)
  <1>1. PICK p \in DOMAIN s : s[p] = k
    BY DEF ToSet
  <1>2. k \in Keys /\ Len(Drop(s, k)) = Len(s) - 1
    BY <1>1, DropPresent
  <1> QED
    BY <1>2, TouchFacts

\* Evicting keeps the most recent entries, at most MaxSize of them.
LEMMA EvictFacts ==
    ASSUME NEW s \in Seq(Keys), Once(s)
    PROVE  LET g == IF Len(s) > MaxSize THEN Len(s) - MaxSize ELSE 0
           IN  /\ Evict(s) \in Seq(Keys)
               /\ Len(Evict(s)) = Len(s) - g
               /\ \A i \in 1 .. Len(s) - g : Evict(s)[i] = s[i + g]
               /\ Len(Evict(s)) <= MaxSize
               /\ Once(Evict(s))
               /\ Within(Evict(s), s)
  <1> DEFINE g == IF Len(s) > MaxSize THEN Len(s) - MaxSize ELSE 0
             t == Evict(s)
  <1>1. /\ t \in Seq(Keys) /\ Len(t) = Len(s) - g
        /\ \A i \in 1 .. Len(s) - g : t[i] = s[i + g]
        /\ Len(t) <= MaxSize /\ g \in Nat
    BY DEF Evict
  <1> HIDE DEF t, g
  <1>2. Within(t, s)
    <2> SUFFICES ASSUME NEW i \in DOMAIN t, NEW j \in DOMAIN t, i < j
                 PROVE  \E m, n \in DOMAIN s : m < n /\ t[i] = s[m] /\ t[j] = s[n]
      BY DEF Within
    <2>1. i + g \in DOMAIN s /\ j + g \in DOMAIN s /\ i + g < j + g
      BY <1>1
    <2>2. t[i] = s[i + g] /\ t[j] = s[j + g]
      BY <1>1
    <2> QED
      BY <2>1, <2>2
  <1>3. Once(t)
    BY <1>1, <1>2, WithinOnce
  <1> QED
    BY <1>1, <1>2, <1>3 DEF t, g

\* Storing a key leaves each entry once, the key among them, within the bound.
LEMMA InsertFacts ==
    ASSUME NEW s \in Seq(Keys), NEW k \in Keys, Once(s)
    PROVE  /\ Insert(s, k) \in Seq(Keys)
           /\ Once(Insert(s, k))
           /\ Len(Insert(s, k)) <= MaxSize
           /\ Within(Insert(s, k), Touch(s, k))
           /\ Insert(s, k) # <<>>
           /\ Insert(s, k)[Len(Insert(s, k))] = k
  <1> DEFINE d == Drop(s, k)
             u == Touch(s, k)
             g == IF Len(u) > MaxSize THEN Len(u) - MaxSize ELSE 0
             t == Evict(u)
  <1>1. /\ u \in Seq(Keys) /\ Once(u) /\ Len(u) = Len(d) + 1 /\ u[Len(d) + 1] = k
        /\ d \in Seq(Keys)
    BY TouchFacts, DropFacts
  <1> HIDE DEF d, u
  <1>2. /\ t \in Seq(Keys) /\ Once(t) /\ Len(t) <= MaxSize /\ Within(t, u)
        /\ Len(t) = Len(u) - g /\ \A i \in 1 .. Len(u) - g : t[i] = u[i + g]
    BY <1>1, EvictFacts
  <1>3. Insert(s, k) = t
    BY DEF Insert, u
  <1> HIDE DEF t
  <1>4. Len(t) \in 1 .. Len(u) - g /\ Len(t) + g = Len(u)
    BY <1>1, <1>2
  <1>5. t # <<>> /\ t[Len(t)] = k
    <2>1. t[Len(t)] = u[Len(t) + g]
      BY <1>2, <1>4
    <2>2. u[Len(t) + g] = k
      BY <1>1, <1>4
    <2> QED
      BY <1>2, <1>4, <2>1, <2>2
  <1> QED
    BY <1>1, <1>2, <1>3, <1>5 DEF u

\* Storing a key drops none of the others while there is room.
LEMMA InsertKeeps ==
    ASSUME NEW s \in Seq(Keys), NEW k \in Keys, Once(s)
    PROVE  /\ ToSet(Insert(s, k)) \subseteq ToSet(s) \cup {k}
           /\ k \in ToSet(Insert(s, k))
           /\ Len(Touch(s, k)) > MaxSize => Len(Insert(s, k)) = MaxSize
           /\ Len(Touch(s, k)) <= MaxSize => ToSet(Insert(s, k)) = ToSet(s) \cup {k}
  <1> DEFINE u == Touch(s, k)
             g == IF Len(u) > MaxSize THEN Len(u) - MaxSize ELSE 0
             t == Insert(s, k)
  <1>1. u \in Seq(Keys) /\ Once(u) /\ ToSet(u) = ToSet(s) \cup {k} /\ Insert(s, k) = Evict(u)
    BY TouchFacts DEF Insert
  <1> HIDE DEF u
  <1>2. /\ t \in Seq(Keys) /\ Len(t) = Len(u) - g
        /\ \A i \in 1 .. Len(u) - g : t[i] = u[i + g]
    BY <1>1, EvictFacts
  <1>3. t # <<>> /\ t[Len(t)] = k
    BY InsertFacts
  <1> HIDE DEF t
  <1>4. ToSet(t) \subseteq ToSet(u)
    <2> SUFFICES ASSUME NEW i \in DOMAIN t PROVE t[i] \in ToSet(u)
      BY DEF ToSet
    <2>1. i + g \in DOMAIN u /\ t[i] = u[i + g]
      BY <1>1, <1>2
    <2> QED
      BY <2>1 DEF ToSet
  <1>5. k \in ToSet(t)
    <2>1. Len(t) \in DOMAIN t
      BY <1>2, <1>3
    <2> QED
      BY <1>3, <2>1 DEF ToSet
  <1>6. Len(u) > MaxSize => Len(t) = MaxSize
    BY <1>1, <1>2
  <1>7. ASSUME Len(u) <= MaxSize PROVE ToSet(t) = ToSet(u)
    <2>1. Insert(s, k) = u
      BY <1>1, <1>7 DEF Evict
    <2> QED
      BY <2>1 DEF t
  <1> QED
    BY <1>1, <1>4, <1>5, <1>6, <1>7 DEF t, u

\* A list with each entry once is as long as the set of its entries is large.
LEMMA OnceCardinality ==
    ASSUME NEW S, NEW s \in Seq(S), Once(s)
    PROVE  IsFiniteSet(ToSet(s)) /\ Cardinality(ToSet(s)) = Len(s)
  <1>1. s \in [1 .. Len(s) -> ToSet(s)] /\ Len(s) \in Nat
    BY DEF ToSet
  <1>2. IsFiniteSet(1 .. Len(s)) /\ Cardinality(1 .. Len(s)) = Len(s)
    <2>1. 1 \in Int /\ Len(s) \in Int
      BY <1>1
    <2>2. Cardinality(1 .. Len(s)) = IF 1 > Len(s) THEN 0 ELSE Len(s) - 1 + 1
      BY <2>1, FS_Interval, Zenon
    <2> QED
      BY <1>1, <2>1, <2>2, FS_Interval
  <1>3. s \in Bijection(1 .. Len(s), ToSet(s))
    BY <1>1 DEF Bijection, Injection, Surjection, IsInjective, Once, ToSet
  <1>4. ExistsBijection(1 .. Len(s), ToSet(s))
    BY <1>3 DEF ExistsBijection
  <1> QED
    BY <1>2, <1>4, FS_Bijection
============================================================================
