---------------------------- MODULE RepliesProofs ----------------------------
(***************************************************************************)
(* Billing and Bandwidth for replies of any size.  That scheme, rate and   *)
(* gauges agree is true of all amounts that are naturals, so the state has *)
(* only to be shown to be such; that the two ways to read the traffic      *)
(* agree needs what has been read so far.                                  *)
(***************************************************************************)
EXTENDS Replies, TLAPS

USE UsersAssumption, AmountAssumption, BoundsAssumption, NoneAssumption

\* What has been added up is a number of each field.
ChargesOK == charges \in [Fields -> Nat]

TrafficOK ==
    /\ bulk \in [Zones -> Nat \cup {None}]
    /\ single \in [Zones -> Nat]

RepliesInv == ChargesOK /\ TrafficOK /\ SameFigures

----------------------------------------------------------------------------
\* The first of some signals is one of them.
LEMMA FirstFacts ==
    ASSUME NEW S \in SUBSET (1 .. 4), S # {}
    PROVE  Min(S) \in S /\ First(S) = Signals[Min(S)]
  <1>0. \A y \in S : y \in {1, 2, 3, 4}
    OBVIOUS
  <1>1. \E x \in S : \A y \in S : x <= y
    <2>1. CASE 1 \in S
      BY <1>0, <2>1
    <2>2. CASE 1 \notin S /\ 2 \in S
      BY <1>0, <2>2
    <2>3. CASE 1 \notin S /\ 2 \notin S /\ 3 \in S
      BY <1>0, <2>3
    <2>4. CASE 1 \notin S /\ 2 \notin S /\ 3 \notin S
      <3>1. S = {4}
        BY <1>0, <2>4
      <3> QED
        BY <3>1
    <2> QED
      BY <2>1, <2>2, <2>3, <2>4
  <1>2. Min(S) \in S
    BY <1>1 DEF Min
  <1> QED
    BY <1>2 DEF First

\* The signals are fields, and each has its scheme and its unit.
LEMMA SignalFacts ==
    /\ Fields = {"cost", "gbs", "reqs", "ips", "vips"}
    /\ DOMAIN Signals = 1 .. 4
    /\ Signals[1] = "gbs" /\ Signals[2] = "reqs" /\ Signals[3] = "ips" /\ Signals[4] = "vips"
    /\ \A i \in 1 .. 4 : UnitOf[Signals[i]] = UnitOfScheme[SchemeOf[Signals[i]]]
  <1>1. DOMAIN Signals = 1 .. 4
        /\ Signals[1] = "gbs" /\ Signals[2] = "reqs" /\ Signals[3] = "ips" /\ Signals[4] = "vips"
    BY DEF Signals
  <1>2. Fields = {"cost", "gbs", "reqs", "ips", "vips"}
    BY DEF Fields, SchemeOf
  <1>3. \A s \in {"gbs", "reqs", "ips", "vips"} : UnitOf[s] = UnitOfScheme[SchemeOf[s]]
    BY DEF UnitOf, UnitOfScheme, SchemeOf
  <1>4. \A i \in 1 .. 4 : Signals[i] \in {"gbs", "reqs", "ips", "vips"}
    BY <1>1
  <1> QED
    BY <1>1, <1>2, <1>3, <1>4

\* The scheme of some charges and the unit they are shown in are told by the
\* same signal, unless VIPs are billed at no cost.
LEMMA SchemeMatchesUnit ==
    ASSUME NEW c \in [Fields -> Nat], c["cost"] > 0 \/ c["vips"] = 0
    PROVE  Display(c).unit = UnitOfScheme[Model(c)]
  <1>1. Populated(c) \in SUBSET (1 .. 4)
    BY SignalFacts DEF Populated
  <1>2. Displayed(c) = Populated(c)
    BY SignalFacts DEF Displayed, Populated
  <1>3. CASE Populated(c) # {}
    <2>1. /\ Display(c).unit = UnitOf[First(Populated(c))]
          /\ Model(c) = SchemeOf[First(Populated(c))]
      BY <1>2, <1>3 DEF Display, Model
    <2>2. PICK i \in 1 .. 4 : First(Populated(c)) = Signals[i]
      BY <1>1, <1>3, FirstFacts
    <2> QED
      BY <2>1, <2>2, SignalFacts
  <1>4. CASE Populated(c) = {}
    <2>1. UnitOfScheme["unknown"] = "period" /\ UnitOfScheme["idle"] = "none"
      BY DEF UnitOfScheme
    <2> QED
      BY <1>2, <1>4, <2>1 DEF Display, Model
  <1> QED
    BY <1>3, <1>4

\* What is shown per GB or per thousand requests divides the cost by the very
\* field the gauge divides it by.
LEMMA DisplayIsGauge ==
    ASSUME NEW c \in [Fields -> Nat], Display(c).unit \in {"GB", "CPM"}, c["cost"] > 0
    PROVE  Display(c) \in RateGauges(c)
  <1>1. Displayed(c) \in SUBSET (1 .. 4) /\ Displayed(c) \subseteq Populated(c)
    BY SignalFacts DEF Displayed, Populated
  <1>2. Displayed(c) # {}
    BY DEF Display
  <1>3. PICK i \in Displayed(c) : First(Displayed(c)) = Signals[i]
    BY <1>1, <1>2, FirstFacts
  <1> DEFINE f == Signals[i]
  <1>4. Display(c) = [unit |-> UnitOf[f], rate |-> <<c["cost"], IF f = "ips" THEN 1 ELSE c[f]>>]
    BY <1>2, <1>3 DEF Display
  <1>5. f \in {"gbs", "reqs", "ips", "vips"} /\ c[f] > 0
    BY <1>1, SignalFacts DEF Populated
  <1> HIDE DEF f
  <1>6. /\ UnitOf["gbs"] = "GB" /\ UnitOf["reqs"] = "CPM"
        /\ UnitOf["ips"] = "month" /\ UnitOf["vips"] = "VIP"
    BY DEF UnitOf
  <1>7. f \in {"gbs", "reqs"}
    BY <1>4, <1>5, <1>6
  <1>8. CASE f = "gbs"
    <2>1. Display(c) = [unit |-> "GB", rate |-> <<c["cost"], c["gbs"]>>] /\ c["gbs"] > 0
      BY <1>4, <1>5, <1>6, <1>8
    <2> QED
      BY <2>1 DEF RateGauges
  <1>9. CASE f = "reqs"
    <2>1. Display(c) = [unit |-> "CPM", rate |-> <<c["cost"], c["reqs"]>>] /\ c["reqs"] > 0
      BY <1>4, <1>5, <1>6, <1>9
    <2> QED
      BY <2>1 DEF RateGauges
  <1> QED
    BY <1>7, <1>8, <1>9

----------------------------------------------------------------------------
\* One more user, or one more customer.
LEMMA AddUserInv ==
    ASSUME ChargesOK, ChargesNext
    PROVE  ChargesOK'
  <1>1. PICK custom \in Amounts(MaxAmount) : AddUser(custom)
    BY DEF ChargesNext
  <1>2. \A f \in Fields : custom[f] \in Nat /\ charges[f] \in Nat
    BY DEF Amounts, ChargesOK
  <1>3. charges' = [f \in Fields |-> charges[f] + custom[f]]
    BY <1>1 DEF AddUser
  <1> QED
    BY <1>2, <1>3 DEF ChargesOK

\* What a cell adds to a zone's entry.
LEMMA MergeFacts ==
    ASSUME NEW z \in Zones, NEW cell \in Cells
    PROVE  /\ cell.kind = "absent" => Merge(z, cell) = bulk[z]
           /\ cell.kind # "absent" /\ bulk[z] = None => Merge(z, cell) = BulkFigure(cell)
           /\ cell.kind # "absent" /\ bulk[z] # None
                 => Merge(z, cell) = bulk[z] + BulkFigure(cell)
  BY Zenon DEF Merge

\* The two readings of a cell that is neither text nor a word.
LEMMA CellFacts ==
    ASSUME NEW cell \in Cells
    PROVE  /\ BulkFigure(cell) \in Nat /\ SingleFigure(cell) \in Nat
           /\ cell.kind \notin {"text", "word"} => BulkFigure(cell) = SingleFigure(cell)
           /\ cell.kind = "absent" => SingleFigure(cell) = 0
  BY DEF Cells, BulkFigure, SingleFigure

LEMMA ReadCustomerInv ==
    ASSUME TrafficOK, SameFigures, TrafficNext
    PROVE  TrafficOK' /\ SameFigures'
  <1>1. PICK sums \in [Zones -> Cells] : ReadCustomer(sums)
    BY DEF TrafficNext
  <1>2. /\ raised' <=> (raised \/ \E z \in Zones : sums[z].kind = "word")
        /\ texts' <=> (texts \/ \E z \in Zones : sums[z].kind = "text")
        /\ bulk' = [z \in Zones |-> IF raised' THEN None ELSE Merge(z, sums[z])]
        /\ single' = [z \in Zones |-> single[z] + SingleFigure(sums[z])]
    BY <1>1, Zenon DEF ReadCustomer
  <1>3. ASSUME NEW z \in Zones
        PROVE  /\ sums[z] \in Cells /\ single[z] \in Nat /\ bulk[z] \in Nat \cup {None}
               /\ Merge(z, sums[z]) \in Nat \cup {None}
    <2>1. sums[z] \in Cells /\ bulk[z] \in Nat \cup {None} /\ single[z] \in Nat
      BY DEF TrafficOK
    <2>2. BulkFigure(sums[z]) \in Nat
      BY <2>1, CellFacts
    <2> QED
      BY <2>1, <2>2, MergeFacts
  <1>4. TrafficOK'
    <2>1. \A z \in Zones : single[z] + SingleFigure(sums[z]) \in Nat
      BY <1>3, CellFacts
    <2> QED
      BY <1>2, <1>3, <2>1 DEF TrafficOK
  <1>5. SameFigures'
    <2> SUFFICES ASSUME ~raised', ~texts', NEW z \in Zones
                 PROVE  IF bulk'[z] = None THEN single'[z] = 0 ELSE bulk'[z] = single'[z]
      BY DEF SameFigures
    <2>1. /\ ~raised /\ ~texts /\ sums[z].kind \notin {"text", "word"}
          /\ bulk'[z] = Merge(z, sums[z]) /\ single'[z] = single[z] + SingleFigure(sums[z])
      BY <1>2
    <2>2. IF bulk[z] = None THEN single[z] = 0 ELSE bulk[z] = single[z]
      BY <2>1 DEF SameFigures
    <2>3. BulkFigure(sums[z]) = SingleFigure(sums[z]) /\ SingleFigure(sums[z]) \in Nat
      BY <1>3, <2>1, CellFacts
    <2>4. CASE sums[z].kind = "absent"
      <3>1. Merge(z, sums[z]) = bulk[z] /\ SingleFigure(sums[z]) = 0
        BY <1>3, <2>4, MergeFacts, CellFacts
      <3> QED
        BY <1>3, <2>1, <2>2, <3>1
    <2>5. CASE sums[z].kind # "absent" /\ bulk[z] = None
      <3>1. Merge(z, sums[z]) = BulkFigure(sums[z])
        BY <1>3, <2>5, MergeFacts
      <3> QED
        BY <1>3, <2>1, <2>2, <2>3, <2>5, <3>1
    <2>6. CASE sums[z].kind # "absent" /\ bulk[z] # None
      <3>1. Merge(z, sums[z]) = bulk[z] + BulkFigure(sums[z])
        BY <1>3, <2>6, MergeFacts
      <3>2. bulk[z] \in Nat
        BY <1>3, <2>6
      <3> QED
        BY <1>3, <2>1, <2>2, <2>3, <2>6, <3>1, <3>2
    <2> QED
      BY <2>4, <2>5, <2>6
  <1> QED
    BY <1>4, <1>5

\* Amounts are natural numbers, and the two readings of the traffic agree.
THEOREM RepliesInvariance == Spec => []RepliesInv
  <1>1. Init => RepliesInv
    <2>1. \A z \in Zones : [y \in Zones |-> None][z] = None
      OBVIOUS
    <2> QED
      BY <2>1 DEF Init, ChargesInit, TrafficInit, RepliesInv, ChargesOK, TrafficOK, SameFigures
  <1>2. RepliesInv /\ [Next]_<<chargesVars, trafficVars>> => RepliesInv'
    <2> SUFFICES ASSUME RepliesInv, [Next]_<<chargesVars, trafficVars>> PROVE RepliesInv'
      OBVIOUS
    <2>1. CASE ChargesNext /\ UNCHANGED trafficVars
      <3>1. TrafficOK' /\ SameFigures'
        BY <2>1 DEF trafficVars, RepliesInv, TrafficOK, SameFigures
      <3> QED
        BY <2>1, <3>1, AddUserInv DEF RepliesInv
    <2>2. CASE TrafficNext /\ UNCHANGED chargesVars
      <3>1. ChargesOK'
        BY <2>2 DEF chargesVars, RepliesInv, ChargesOK
      <3> QED
        BY <2>2, <3>1, ReadCustomerInv DEF RepliesInv
    <2>3. CASE UNCHANGED <<chargesVars, trafficVars>>
      BY <2>3 DEF chargesVars, trafficVars, RepliesInv, ChargesOK, TrafficOK, SameFigures
    <2> QED
      BY <2>1, <2>2, <2>3 DEF Next
  <1> QED
    BY <1>1, <1>2, PTL DEF Spec

\* A zone's billing scheme and its displayed rate name one and the same unit,
\* unless VIPs are billed at no cost.
THEOREM SchemeAndRateAgree == Spec => []PairAgrees
  <1>1. RepliesInv => PairAgrees
    BY SchemeMatchesUnit DEF RepliesInv, ChargesOK, PairAgrees
  <1> QED
    BY <1>1, RepliesInvariance, PTL

\* A displayed rate per GB or per thousand requests is a published one, where there
\* is a cost.
THEOREM DisplayedRateIsPublished == Spec => []RateIsPublished
  <1>1. RepliesInv => RateIsPublished
    BY DisplayIsGauge DEF RepliesInv, ChargesOK, RateIsPublished
  <1> QED
    BY <1>1, RepliesInvariance, PTL

\* Reading all zones from one reply gives each the figures of its own reply.
THEOREM BulkEqualsSingle == Spec => []SameFigures
  <1>1. RepliesInv => SameFigures
    BY DEF RepliesInv
  <1> QED
    BY <1>1, RepliesInvariance, PTL
============================================================================
