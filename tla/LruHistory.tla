----------------------------- MODULE LruHistory -----------------------------
(***************************************************************************)
(* LruStore driven by every sequence of the calls TTLCache makes on its    *)
(* OrderedDict, beside a history of which keys were used after which.  The *)
(* order in the store must say the same as that history.                   *)
(***************************************************************************)
EXTENDS LruStore, FiniteSets

VARIABLES
    order,   \* the keys of the store, least recently used first
    newer    \* history: newer[k] is the set of keys used since k was last used

vars == <<order, newer>>

Use(k) == newer' = [j \in Keys |-> IF j = k THEN {} ELSE newer[j] \cup {k}]

Init ==
    /\ order = <<>>
    /\ newer = [k \in Keys |-> {}]

\* A leader's result is stored.
Put(k) ==
    /\ order' = Insert(order, k)
    /\ Use(k)

\* A live entry is returned.
Read(k) ==
    /\ Contains(order, k)
    /\ order' = Touch(order, k)
    /\ Use(k)

\* A stale or invalidated entry is dropped.
Discard(k) ==
    /\ order' = Drop(order, k)
    /\ UNCHANGED newer

Clear ==
    /\ order' = <<>>
    /\ UNCHANGED newer

Next ==
    \/ \E k \in Keys : Put(k) \/ Read(k) \/ Discard(k)
    \/ Clear

Spec == Init /\ [][Next]_vars

----------------------------------------------------------------------------
TypeOK ==
    /\ order \in Seq(Keys)
    /\ newer \in [Keys -> SUBSET Keys]

\* One entry per key and never more than max_size of them.
Bounded == IsInjective(order) /\ Len(order) <= MaxSize

\* Whatever calls came before, an entry stands behind exactly the entries used
\* before it: a read counts as a use just as a write does.
OrderedByUse ==
    \A i, j \in DOMAIN order :
        i < j => order[j] \in newer[order[i]] /\ order[i] \notin newer[order[j]]

\* A step only ever costs the entry that every other one was used after, and
\* costs one only when the store was full.
EvictsLeastRecent ==
    \A k \in Keys :
        k \in ToSet(order) \ ToSet(order') =>
            /\ Len(order) = MaxSize
            /\ \A j \in ToSet(order) \ {k} : j \in newer[k]

\* A result stored is in the store, at the cost of the least recently used entry
\* at most, and of that one only when the store was full.
EvictionIsLru ==
    [][\A k \in Keys : Put(k) => k \in ToSet(order') /\ EvictsLeastRecent]_vars
============================================================================
