-------------------------- MODULE Platform_proofs --------------------------
(***************************************************************************)
(* What the pure functions of Platform return, for every platform and task *)
(* set: the facts the proofs about Engine rest on.                         *)
(***************************************************************************)
EXTENDS Platform, TLAPS, WellFoundedInduction

(* Rounding up never leaves the naturals: the divisor is the numerator of a *)
(* speed factor or bandwidth that is known not to be zero.                  *)
LEMMA CeilDivNat ==
    ASSUME NEW a \in Nat, NEW b \in Nat, b # 0
    PROVE  CeilDiv(a, b) \in Nat
  <1>1. a + b - 1 \in Nat
    OBVIOUS
  <1>2. (a + b - 1) \div b \in Nat
    BY <1>1, SMT
  <1> QED BY <1>2 DEF CeilDiv

(* Converting work to wall time yields a duration.                          *)
LEMMA WorkToWallNat ==
    ASSUME NEW d \in DeviceIds, NEW work \in Nat
    PROVE  WorkToWall(work, d) \in Nat
  <1>1. Device[d].num \in Nat /\ Device[d].den \in Nat
    BY PlatformAssumption DEF DeviceRecord
  <1>2. work * Device[d].den \in Nat
    BY <1>1
  <1> QED BY <1>1, <1>2, CeilDivNat DEF WorkToWall

(* Converting wall time to work yields an amount of work.                   *)
LEMMA WallToWorkNat ==
    ASSUME NEW d \in DeviceIds, NEW wall \in Nat
    PROVE  WallToWork(wall, d) \in Nat
  <1>1. Device[d].num \in Nat /\ Device[d].den \in Nat \ {0}
    BY PlatformAssumption DEF DeviceRecord
  <1>2. wall * Device[d].num \in Nat
    BY <1>1
  <1>3. (wall * Device[d].num) \div Device[d].den \in Nat
    BY <1>1, <1>2, SMT
  <1> QED BY <1>1, <1>3 DEF WallToWork

(* A model found for a device type is one of the task's models.             *)
LEMMA ModelsAreModels ==
    ASSUME NEW t \in TaskIds, NEW type, NEW m \in ModelFor(t, type)
    PROVE  /\ m.lo \in Nat
           /\ m.hi \in Nat
           /\ m.kind \in {"Deterministic", "Stochastic", "MixedCriticality"}
  <1> DEFINE Entry == [type: DeviceTypes, model: ExecModel]
  <1>1. Task[t].execTimes \in Seq(Entry)
    BY PlatformAssumption DEF TaskRecord
  <1>2. PICK i \in DOMAIN Task[t].execTimes : m = Task[t].execTimes[i].model
    BY DEF ModelFor, FirstOf
  <1>3. Task[t].execTimes[i] \in Entry
    <2> HIDE DEF Entry
    <2> QED BY <1>1, <1>2
  <1>4. m \in ExecModel
    BY <1>2, <1>3
  <1> QED BY <1>4 DEF ExecModel

(* Every resolved execution time is a duration.                             *)
LEMMA SampleExecTimeNat ==
    ASSUME NEW t \in TaskIds, NEW d \in DeviceIds, NEW l \in Levels,
           NEW x \in SampleExecTime(t, d, l)
    PROVE  x \in Nat
  <1>1. PICK m \in ModelFor(t, Device[d].type) : x \in Outcomes(m, l)
    BY DEF SampleExecTime
  <1> QED BY <1>1, ModelsAreModels DEF Outcomes

(* A model always has an outcome: there is none to choose from only when no *)
(* model was found.                                                         *)
LEMMA SampleExecTimeExists ==
    ASSUME NEW t \in TaskIds, NEW d \in DeviceIds, NEW l \in Levels,
           SampleExecTime(t, d, l) = {}
    PROVE  ModelFor(t, Device[d].type) = {}
  <1> SUFFICES ASSUME NEW m \in ModelFor(t, Device[d].type) PROVE FALSE
    OBVIOUS
  <1>5. /\ m.lo \in Nat
        /\ m.hi \in Nat
        /\ m.kind \in {"Deterministic", "Stochastic", "MixedCriticality"}
    BY ModelsAreModels
  <1>6. \E x : x \in Outcomes(m, l)
    <2>1. CASE m.kind = "Stochastic" /\ m.hi > m.lo
      <3>1. m.lo \in Outcomes(m, l)
        BY <1>5, <2>1 DEF Outcomes
      <3> QED BY <3>1
    <2>2. CASE ~(m.kind = "Stochastic" /\ m.hi > m.lo)
      <3>1. m.lo \in Outcomes(m, l) \/ m.hi \in Outcomes(m, l)
        BY <1>5, <2>2 DEF Outcomes
      <3> QED BY <3>1
    <2> QED BY <2>1, <2>2
  <1> QED BY <1>6 DEF SampleExecTime

(* The policed LO budget is a duration.                                     *)
LEMMA LoWcetNat ==
    ASSUME NEW t \in TaskIds, NEW b \in LoWcet(t)
    PROVE  b \in Nat
  <1>1. PICK m \in ModelFor(t, "Cpu") : b = m.lo
    BY DEF LoWcet
  <1> QED BY <1>1, ModelsAreModels

(* The instant a dispatched job starts to make progress is not before now.  *)
LEMMA ExecutionStartNat ==
    ASSUME NEW n \in Nat, NEW d \in DeviceIds, NEW penalty \in Nat
    PROVE  ExecutionStart(n, d, penalty) \in Nat /\ ExecutionStart(n, d, penalty) >= n
  <1>1. Device[d].contextSwitch \in Nat /\ Device[d].overhead \in Nat
    BY PlatformAssumption DEF DeviceRecord
  <1> QED BY <1>1 DEF ExecutionStart

(* The penalty a preemption adds to the next dispatch is a duration.        *)
LEMMA PreemptionPenaltyNat ==
    ASSUME NEW d \in DeviceIds
    PROVE  PreemptionPenalty(d) \in Nat
  <1>1. Device[d].overhead \in Nat
    BY PlatformAssumption DEF DeviceRecord
  <1> QED BY <1>1 DEF PreemptionPenalty

(* A link found is a configured one.                                        *)
LEMMA LinksAreLinks ==
    /\ \A from, to : FindInterconnect(from, to) \subseteq LinkRecord
    /\ \A bus, target : LinkOnBus(bus, target) \subseteq LinkRecord
  <1>1. \A i \in DOMAIN Links : Links[i] \in LinkRecord
    BY PlatformAssumption
  <1> QED BY <1>1 DEF FindInterconnect, LinkOnBus, FirstOf

(* The time a transfer takes is a duration.                                 *)
LEMMA TransferTimeNat ==
    ASSUME NEW link \in LinkRecord, NEW size \in Nat
    PROVE  TransferTime(link, size) \in Nat
  <1>1. link.latency \in Nat /\ link.num \in Nat /\ link.den \in Nat
    BY DEF LinkRecord
  <1>2. size * link.den \in Nat
    BY <1>1
  <1> QED BY <1>1, <1>2, CeilDivNat DEF TransferTime

(* The first device of a type is a configured device.                       *)
LEMMA DeviceForTypeIsDevice ==
    \A type : DeviceForType(type) \subseteq DeviceIds
  BY DEF DeviceForType, FirstOf

-----------------------------------------------------------------------------
(* The link of a waiting transfer                                           *)

Less == {ss \in Nat \X Nat : ss[1] < ss[2]}

(* A set of naturals that is not empty has a first element.                 *)
LEMMA FirstOfNat ==
    ASSUME NEW S \in SUBSET Nat, S # {}
    PROVE  FirstOf(S) # {}
  <1>1. IsWellFoundedOn(Less, Nat)
    BY NatLessThanWellFounded DEF OpToRel, Less
  <1>2. PICK i \in S : \A k \in S : ~ (<<k, i>> \in Less)
    BY <1>1, WFMin
  <1>3. \A k, n \in Nat : k < n => <<k, n>> \in Less
    BY DEF Less
  <1>4. \A k \in S : ~ (k < i)
    BY <1>2, <1>3, Zenon
  <1>5. \A k \in S : i <= k
    BY <1>4
  <1> QED BY <1>5 DEF FirstOf

(* The positions of the links are naturals.                                 *)
LEMMA LinkPositions == DOMAIN Links \subseteq Nat
  BY PlatformAssumption

(* A bus that carries data to a device has one link that starts a transfer  *)
(* to it.                                                                   *)
LEMMA LinkOnBusIsUnique ==
    ASSUME NEW bus, NEW target
    PROVE  \A l, m \in LinkOnBus(bus, target) : l = m
  <1> DEFINE S == {k \in DOMAIN Links :
                      Links[k].bus = bus /\ target \in {Links[k].from, Links[k].to}}
  <1>1. \A i, k \in FirstOf(S) : i \in Nat /\ k \in Nat /\ i <= k /\ k <= i
    BY LinkPositions DEF FirstOf
  <1>2. \A i, k \in FirstOf(S) : i = k
    BY <1>1
  <1>3. LinkOnBus(bus, target) = {Links[i] : i \in FirstOf(S)}
    BY DEF LinkOnBus
  <1> QED BY <1>2, <1>3

(* The bus of a link to the target reaches the target.                      *)
LEMMA BusReachesTarget ==
    ASSUME NEW from, NEW to, NEW link \in FindInterconnect(from, to)
    PROVE  LinkOnBus(link.bus, to) # {}
  <1> DEFINE S == {k \in DOMAIN Links :
                      Links[k].bus = link.bus /\ to \in {Links[k].from, Links[k].to}}
  <1>1. PICK i \in DOMAIN Links : link = Links[i] /\ to \in {Links[i].from, Links[i].to}
    BY DEF FindInterconnect, FirstOf
  <1>2. i \in S /\ S \in SUBSET Nat
    BY <1>1, LinkPositions
  <1>3. FirstOf(S) # {}
    BY <1>2, FirstOfNat
  <1>4. LinkOnBus(link.bus, to) = {Links[k] : k \in FirstOf(S)}
    BY DEF LinkOnBus
  <1> QED BY <1>3, <1>4
=============================================================================
