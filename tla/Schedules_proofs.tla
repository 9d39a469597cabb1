-------------------------- MODULE Schedules_proofs --------------------------
(***************************************************************************)
(* Proofs about the schedules the schedulers of the repository produce: no *)
(* device idles while a job waits for it, a preemptive CPU runs the most   *)
(* urgent job, LLF's reevaluations restore the least laxity, and the work  *)
(* LLF and CP-EDF believe is left of a job is never too little.  The ranks *)
(* the schedulers choose by come first, then what their answers make of a  *)
(* queue, then the invariants behind each of the properties.               *)
(***************************************************************************)
EXTENDS EnginePolicies_proofs

-----------------------------------------------------------------------------
(* The ranks the schedulers choose by                                       *)

(* The first two components decide before the others.                       *)
LEMMA PrecedesByPrefix ==
    ASSUME NEW n \in Nat, n >= 1, NEW a \in [1 .. n -> Int], NEW b \in [1 .. n -> Int]
    PROVE  /\ a[1] < b[1] => Precedes(a, b)
           /\ Precedes(a, b) => a[1] <= b[1]
           /\ n >= 2 /\ a[1] = b[1] /\ a[2] < b[2] => Precedes(a, b)
           /\ n >= 2 /\ a[1] = b[1] /\ Precedes(a, b) => a[2] <= b[2]
  <1>1. DOMAIN a = 1 .. n /\ 1 \in 1 .. n /\ (n >= 2 => 2 \in 1 .. n)
    OBVIOUS
  <1>2. a[1] < b[1] => Precedes(a, b)
    BY <1>1 DEF Precedes
  <1>3. Precedes(a, b) => a[1] <= b[1]
    <2> SUFFICES ASSUME Precedes(a, b) PROVE a[1] <= b[1]
      OBVIOUS
    <2>1. PICK i \in 1 .. n : a[i] < b[i] /\ \A k \in 1 .. i - 1 : a[k] = b[k]
      BY <1>1 DEF Precedes
    <2>2. CASE i = 1
      BY <2>1, <2>2
    <2>3. CASE i # 1
      BY <2>1, <2>3
    <2> QED BY <2>2, <2>3
  <1>4. n >= 2 /\ a[1] = b[1] /\ a[2] < b[2] => Precedes(a, b)
    <2> SUFFICES ASSUME n >= 2, a[1] = b[1], a[2] < b[2] PROVE Precedes(a, b)
      OBVIOUS
    <2>1. \A k \in 1 .. 2 - 1 : a[k] = b[k]
      OBVIOUS
    <2> QED BY <1>1, <2>1 DEF Precedes
  <1>5. n >= 2 /\ a[1] = b[1] /\ Precedes(a, b) => a[2] <= b[2]
    <2> SUFFICES ASSUME n >= 2, a[1] = b[1], Precedes(a, b) PROVE a[2] <= b[2]
      OBVIOUS
    <2>1. PICK i \in 1 .. n : a[i] < b[i] /\ \A k \in 1 .. i - 1 : a[k] = b[k]
      BY <1>1 DEF Precedes
    <2>2. i # 1
      BY <2>1
    <2>3. CASE i = 2
      BY <2>1, <2>3
    <2>4. CASE i > 2
      BY <2>1, <2>4
    <2> QED BY <2>2, <2>3, <2>4
  <1> QED BY <1>2, <1>3, <1>4, <1>5

(* What a job is ranked by is numbers.                                      *)
LEMMA JobNumbers ==
    ASSUME IInv, NEW j \in JobIds
    PROVE  /\ j \in Int /\ Deadline(j) \in Int /\ ReleaseTime(j) \in Int
           /\ Priority(j) \in Int /\ CriticalityRank(j) \in Int
           /\ EffectiveDeadline(j) \in Int
  <1>1. jobs[j] \in JobRecord /\ nextJob \in Nat
    BY DEF IInv, TypeOK
  <1>2. /\ jobs[j].deadline \in Int /\ jobs[j].release \in Int /\ jobs[j].task \in TaskIds
        /\ j \in Int
    BY <1>1 DEF JobRecord, JobIds
  <1>3. Task[jobs[j].task] \in TaskRecord
    BY <1>2, PlatformAssumption
  <1>4. Priority(j) \in Int
    BY <1>3 DEF TaskRecord, Priority, TaskOf
  <1>5. CriticalityRank(j) \in Int
    BY DEF CriticalityRank
  <1>6. EffectiveDeadline(j) \in Int
    <2> PICK k \in Int : k = MaxOf(Deadline(j) - ReleaseTime(j), 0)
      BY <1>2 DEF MaxOf, Deadline, ReleaseTime
    <2>1. VirtualNum \in Int /\ VirtualDen \in Nat \ {0}
      BY CpuPoliciesAssumption
    <2>2. (k * VirtualNum) \div VirtualDen \in Int
      BY <2>1
    <2> QED BY <1>2, <2>2 DEF EffectiveDeadline, Deadline, ReleaseTime
  <1> QED BY <1>2, <1>4, <1>5, <1>6 DEF Deadline, ReleaseTime

(* The ranks are tuples of one length each.                                 *)
LEMMA RankTypes ==
    ASSUME IInv, NEW j \in JobIds
    PROVE  /\ EdfRank(j) \in [1 .. 3 -> Int] /\ EdfVdRank(j) \in [1 .. 4 -> Int]
           /\ CriticalRank(j) \in [1 .. 5 -> Int] /\ PriorityRank(j) \in [1 .. 4 -> Int]
           /\ EdfRank(j)[1] = Deadline(j) /\ EdfVdRank(j)[1] = EffectiveDeadline(j)
           /\ CriticalRank(j)[1] = CriticalityRank(j) /\ CriticalRank(j)[2] = Deadline(j)
           /\ PriorityRank(j)[1] = CriticalityRank(j) /\ PriorityRank(j)[2] = Priority(j)
  <1>1. EdfRank(j) \in [1 .. 3 -> Int] /\ EdfRank(j)[1] = Deadline(j)
    BY JobNumbers DEF EdfRank
  <1>2. EdfVdRank(j) \in [1 .. 4 -> Int] /\ EdfVdRank(j)[1] = EffectiveDeadline(j)
    BY JobNumbers DEF EdfVdRank
  <1>3. /\ CriticalRank(j) \in [1 .. 5 -> Int]
        /\ CriticalRank(j)[1] = CriticalityRank(j) /\ CriticalRank(j)[2] = Deadline(j)
    BY JobNumbers DEF CriticalRank
  <1>4. /\ PriorityRank(j) \in [1 .. 4 -> Int]
        /\ PriorityRank(j)[1] = CriticalityRank(j) /\ PriorityRank(j)[2] = Priority(j)
    BY JobNumbers DEF PriorityRank
  <1> QED BY <1>1, <1>2, <1>3, <1>4

(* The schedulers whose order is by deadline, or by criticality first.      *)
ByDeadline == {"Edf", "GlobalEdf", "Federated", "CpEdf"}
ByCriticality == {"Gcaps", "XSched", "GPreempt", "Rtgpu", "Match"}

(* What it means for a job to precede another in the scheduler's order.     *)
LEMMA OrderMeans ==
    ASSUME IInv, NEW j \in JobIds, NEW k \in JobIds
    PROVE  /\ policy \in ByDeadline =>
                (Precedes(Order(j), Order(k)) <=> Deadline(j) < Deadline(k))
           /\ policy = "EdfVd" =>
                (Precedes(Order(j), Order(k)) <=> EffectiveDeadline(j) < EffectiveDeadline(k))
           /\ policy = "Fp" => (Precedes(Order(j), Order(k)) <=> Priority(j) < Priority(k))
           /\ policy = "GpuPp" =>
                (Precedes(Order(j), Order(k)) <=>
                    \/ CriticalityRank(j) < CriticalityRank(k)
                    \/ CriticalityRank(j) = CriticalityRank(k) /\ Priority(j) < Priority(k))
           /\ policy \in ByCriticality =>
                (Precedes(Order(j), Order(k)) <=>
                    \/ CriticalityRank(j) < CriticalityRank(k)
                    \/ CriticalityRank(j) = CriticalityRank(k) /\ Deadline(j) < Deadline(k))
  <1>1. \A x, y \in Int : Precedes(<<x>>, <<y>>) <=> x < y
    <2> SUFFICES ASSUME NEW x \in Int, NEW y \in Int PROVE Precedes(<<x>>, <<y>>) <=> x < y
      OBVIOUS
    <2> PICK a : a = <<x>>
      OBVIOUS
    <2> PICK b : b = <<y>>
      OBVIOUS
    <2>1. DOMAIN a = {1} /\ a[1] = x /\ b[1] = y
      OBVIOUS
    <2>2. \A c \in 1 .. 1 - 1 : a[c] = b[c]
      OBVIOUS
    <2> QED BY <2>1, <2>2 DEF Precedes
  <1>2. \A x, y, u, v \in Int :
            Precedes(<<x, u>>, <<y, v>>) <=> x < y \/ (x = y /\ u < v)
    <2> SUFFICES ASSUME NEW x \in Int, NEW y \in Int, NEW u \in Int, NEW v \in Int
                 PROVE  Precedes(<<x, u>>, <<y, v>>) <=> x < y \/ (x = y /\ u < v)
      OBVIOUS
    <2> PICK a : a = <<x, u>>
      OBVIOUS
    <2> PICK b : b = <<y, v>>
      OBVIOUS
    <2>1. DOMAIN a = {1, 2} /\ a[1] = x /\ b[1] = y /\ a[2] = u /\ b[2] = v
      OBVIOUS
    <2>2. Precedes(a, b) <=> \E i \in {1, 2} : a[i] < b[i] /\ \A c \in 1 .. i - 1 : a[c] = b[c]
      BY <2>1 DEF Precedes
    <2>3. (\A c \in 1 .. 1 - 1 : a[c] = b[c]) /\ ((\A c \in 1 .. 2 - 1 : a[c] = b[c]) <=> x = y)
      BY <2>1
    <2> QED BY <2>1, <2>2, <2>3
  <1>3. policy \in ByDeadline =>
            (Precedes(Order(j), Order(k)) <=> Deadline(j) < Deadline(k))
    BY <1>1, JobNumbers DEF Order, ByDeadline
  <1>4. policy = "EdfVd" =>
            (Precedes(Order(j), Order(k)) <=> EffectiveDeadline(j) < EffectiveDeadline(k))
    BY <1>1, JobNumbers DEF Order
  <1>5. policy = "Fp" => (Precedes(Order(j), Order(k)) <=> Priority(j) < Priority(k))
    BY <1>1, JobNumbers DEF Order
  <1>6. policy = "GpuPp" =>
            (Precedes(Order(j), Order(k)) <=>
                \/ CriticalityRank(j) < CriticalityRank(k)
                \/ CriticalityRank(j) = CriticalityRank(k) /\ Priority(j) < Priority(k))
    BY <1>2, JobNumbers DEF Order
  <1>7. policy \in ByCriticality =>
            (Precedes(Order(j), Order(k)) <=>
                \/ CriticalityRank(j) < CriticalityRank(k)
                \/ CriticalityRank(j) = CriticalityRank(k) /\ Deadline(j) < Deadline(k))
    BY <1>2, JobNumbers DEF Order, ByCriticality
  <1> QED BY <1>3, <1>4, <1>5, <1>6, <1>7

-----------------------------------------------------------------------------
(* What LLF and CP-EDF remember                                             *)

(* The estimate of a job's work is a number.                                *)
LEMMA EstimateNat ==
    ASSUME IInv, NEW j \in JobIds, NEW d
    PROVE  Estimate(jobs[j], d) \in Nat
  <1> PICK r : r = jobs[j]
    OBVIOUS
  <1> PICK models : models = Task[r.task].execTimes
    OBVIOUS
  <1> PICK matching : matching = {i \in DOMAIN models : models[i].type = Device[d].type}
    OBVIOUS
  <1> PICK wcets : wcets = {models[i].model.hi : i \in DOMAIN models}
    OBVIOUS
  <1>1. r \in JobRecord
    BY DEF IInv, TypeOK
  <1>2. r.actual \in Nat \cup {Unset} /\ r.task \in TaskIds
    BY <1>1 DEF JobRecord
  <1>3. Task[r.task] \in TaskRecord
    BY <1>2, PlatformAssumption
  <1>4. models \in Seq([type: DeviceTypes, model: ExecModel])
    BY <1>3 DEF TaskRecord
  <1>5. \A i \in DOMAIN models : models[i].model.hi \in Nat
    <2> TAKE i \in DOMAIN models
    <2>1. models[i] \in [type: DeviceTypes, model: ExecModel]
      BY <1>4, ElementOf
    <2>2. models[i].model \in ExecModel
      BY <2>1
    <2> QED BY <2>2 DEF ExecModel
  <1>6. Estimate(r, d) = IF r.actual # Unset THEN r.actual
                         ELSE IF matching # {} THEN models[The(FirstOf(matching))].model.hi
                         ELSE IF wcets = {} THEN 0
                         ELSE The({w \in wcets : \A x \in wcets : x <= w})
    BY DEF Estimate
  <1>7. ASSUME matching # {} PROVE The(FirstOf(matching)) \in DOMAIN models
    <2>1. matching \in SUBSET Nat
      BY <1>4
    <2>2. FirstOf(matching) # {}
      BY <1>7, <2>1, FirstOfNat
    <2> QED BY <2>2 DEF The, FirstOf
  <1>8. ASSUME wcets # {} PROVE The({w \in wcets : \A x \in wcets : x <= w}) \in Nat
    <2> DEFINE S == DOMAIN models
               R == {p \in S \X S : models[p[1]].model.hi > models[p[2]].model.hi}
    <2>1. \A x, y \in S : <<x, y>> \in R <=> models[x].model.hi > models[y].model.hi
      OBVIOUS
    <2>2. IsFiniteSet(S) /\ S # {}
      <3>1. Len(models) \in Nat /\ S = 1 .. Len(models)
        BY <1>4
      <3> QED BY <1>8, <3>1, FS_Interval
    <2>3. PICK x \in S : \A y \in S : <<y, x>> \notin R
      <3>1. \A a \in S : <<a, a>> \notin R
        BY <1>5, <2>1
      <3>2. \A a, b, c \in S : <<a, b>> \in R /\ <<b, c>> \in R => <<a, c>> \in R
        <4> HIDE DEF R
        <4> QED BY <1>5, <2>1
      <3> HIDE DEF R, S
      <3> QED BY <2>2, <3>1, <3>2, FiniteMinimum
    <2>4. \A y \in S : models[y].model.hi <= models[x].model.hi
      <3>1. \A y \in S : ~(models[y].model.hi > models[x].model.hi)
        <4> HIDE DEF R, S
        <4> QED BY <2>1, <2>3
      <3> QED BY <1>5, <3>1
    <2>5. models[x].model.hi \in {w \in wcets : \A y \in wcets : y <= w}
      BY <2>4
    <2>6. The({w \in wcets : \A y \in wcets : y <= w}) \in wcets
      BY <2>5 DEF The
    <2> QED BY <1>5, <2>6
  <1>9. matching # {} => models[The(FirstOf(matching))].model.hi \in Nat
    BY <1>5, <1>7
  <1>10. r.actual # Unset => r.actual \in Nat
    BY <1>2
  <1>11. CASE r.actual # Unset
    BY <1>6, <1>10, <1>11
  <1>12. CASE r.actual = Unset /\ matching # {}
    <2>1. Estimate(r, d) = models[The(FirstOf(matching))].model.hi
      BY <1>6, <1>12
    <2> QED BY <1>9, <1>12, <2>1
  <1>13. CASE r.actual = Unset /\ matching = {} /\ wcets = {}
    <2>1. Estimate(r, d) = 0
      BY <1>6, <1>13, Zenon
    <2> QED BY <2>1
  <1>14. CASE r.actual = Unset /\ matching = {} /\ wcets # {}
    <2>1. Estimate(r, d) = The({w \in wcets : \A x \in wcets : x <= w})
      BY <1>6, <1>14, Zenon
    <2> QED BY <1>8, <1>14, <2>1, Zenon
  <1> QED BY <1>11, <1>12, <1>13, <1>14

(* What is observed are numbers, ...                                        *)
LEMMA ObservedNumbers ==
    ASSUME IInv, NEW m, NumbersIn(m), NEW cb, cb.time \in Nat,
           \A j \in RunningIn(cb) : j \in JobIds
    PROVE  NumbersIn(Observed(m, cb))
  <1> DEFINE elapsed(j) == cb.time - jobs[j].start
             since(j) == IF j \in DOMAIN m.seen /\ m.seen[j] <= elapsed(j)
                         THEN elapsed(j) - m.seen[j]
                         ELSE elapsed(j)
             left == [j \in DOMAIN m.left \cap VisibleIn(cb) |->
                         IF j \in RunningIn(cb) THEN MaxOf(m.left[j] - since(j), 0) ELSE m.left[j]]
             seen == [j \in RunningIn(cb) |-> elapsed(j)]
  <1>1. \A j \in RunningIn(cb) : elapsed(j) \in Int
    <2> TAKE j \in RunningIn(cb)
    <2>1. jobs[j] \in JobRecord
      BY DEF IInv, TypeOK
    <2>2. jobs[j].start \in Nat \cup {Unset}
      BY <2>1 DEF JobRecord
    <2> QED BY <2>2 DEF Unset
  <1>2. \A j \in RunningIn(cb) : since(j) \in Int
    <2> HIDE DEF elapsed
    <2> QED BY <1>1 DEF NumbersIn
  <1>3. \A j \in DOMAIN left : left[j] \in Nat
    <2> TAKE j \in DOMAIN left
    <2>1. m.left[j] \in Nat
      BY DEF NumbersIn
    <2>2. CASE j \in RunningIn(cb)
      <3>1. since(j) \in Int
        BY <1>2, <2>2
      <3>2. left[j] = MaxOf(m.left[j] - since(j), 0)
        BY <2>2
      <3> HIDE DEF since, left
      <3> QED BY <2>1, <3>1, <3>2 DEF MaxOf
    <2>3. CASE j \notin RunningIn(cb)
      BY <2>1, <2>3
    <2> QED BY <2>2, <2>3
  <1>4. \A j \in DOMAIN seen : seen[j] \in Int
    BY <1>1
  <1>5. Observed(m, cb) = [m EXCEPT !.left = left, !.seen = seen]
    BY DEF Observed
  <1> HIDE DEF left, seen
  <1>6. PICK o : o = Observed(m, cb)
    OBVIOUS
  <1>7. IsMemory(o) /\ o.left = left /\ o.seen = seen /\ o.stage = m.stage
    BY <1>5, <1>6 DEF NumbersIn, IsMemory, MemoryFields
  <1> QED BY <1>3, <1>4, <1>6, <1>7 DEF NumbersIn

(* ... and so are what LLF makes of an arrival ...                          *)
LEMMA LlfNumbers ==
    ASSUME IInv, NEW m, NumbersIn(m), NEW cb, cb.time \in Nat,
           \A j \in RunningIn(cb) : j \in JobIds, cb.on = "arrival" => cb.job \in JobIds
    PROVE  NumbersIn(LlfMemory(m, cb))
  <1> PICK o : o = Observed(m, cb)
    OBVIOUS
  <1> PICK target : target = IF cb.on = "arrival" THEN LeastLoaded(Compatible(cb.job)) ELSE {}
    OBVIOUS
  <1>1. NumbersIn(o)
    BY ObservedNumbers
  <1>2. CASE target = {}
    BY <1>1, <1>2 DEF LlfMemory
  <1>3. CASE target # {}
    <2> PICK w : w = Estimate(jobs[cb.job], The(target))
      OBVIOUS
    <2>1. w \in Nat
      BY <1>3, EstimateNat
    <2> PICK left : left = Insert(o.left, cb.job, w)
      OBVIOUS
    <2>2. \A j \in DOMAIN left : left[j] \in Nat
      BY <1>1, <2>1 DEF Insert, NumbersIn
    <2> PICK s : s = LlfMemory(m, cb)
      OBVIOUS
    <2>3. s = [o EXCEPT !.left = left]
      BY <1>3 DEF LlfMemory
    <2>4. IsMemory(s) /\ s.left = left /\ s.seen = o.seen /\ s.stage = o.stage
      BY <1>1, <2>3 DEF NumbersIn, IsMemory, MemoryFields
    <2> QED BY <1>1, <2>2, <2>4 DEF NumbersIn
  <1> QED BY <1>2, <1>3

(* ... and CP-EDF.                                                          *)
LEMMA CpEdfNumbers ==
    ASSUME IInv, NEW m, NumbersIn(m), NEW cb, cb.time \in Nat,
           \A j \in RunningIn(cb) : j \in JobIds, cb.on = "arrival" => cb.job \in JobIds
    PROVE  NumbersIn(CpEdfMemory(m, cb))
  <1> PICK l : l = LlfMemory(m, cb)
    OBVIOUS
  <1> PICK kept : kept = Retain(l.stage, VisibleIn(cb))
    OBVIOUS
  <1> PICK o : o = [l EXCEPT !.stage = kept]
    OBVIOUS
  <1>1. NumbersIn(l)
    BY LlfNumbers
  <1>2. \A j \in DOMAIN kept : kept[j] \in Nat
    BY <1>1 DEF NumbersIn, Retain
  <1>3. IsMemory(o) /\ o.left = l.left /\ o.seen = l.seen /\ o.stage = kept
    BY <1>1 DEF NumbersIn, IsMemory, MemoryFields
  <1>4. NumbersIn(o)
    BY <1>1, <1>2, <1>3 DEF NumbersIn
  <1>5. CASE ~(cb.on = "arrival" /\ Compatible(cb.job) # {} /\ DagOf(cb.job) # NoDag)
    BY <1>4, <1>5 DEF CpEdfMemory
  <1>6. CASE cb.on = "arrival" /\ Compatible(cb.job) # {} /\ DagOf(cb.job) # NoDag
    <2> PICK s : s = CpEdfMemory(m, cb)
      OBVIOUS
    <2> PICK n : n = NodeOf(cb.job)
      OBVIOUS
    <2> PICK stage : stage = Insert(kept, cb.job, n)
      OBVIOUS
    <2>1. n \in Nat
      <3>1. jobs[cb.job] \in JobRecord
        BY <1>6 DEF IInv, TypeOK
      <3>2. jobs[cb.job].task \in TaskIds
        BY <3>1 DEF JobRecord
      <3>3. Provenance[jobs[cb.job].task] \in [dag: Nat \cup {NoDag}, node: Nat]
        BY <3>2, CpuPoliciesAssumption
      <3> QED BY <3>3 DEF NodeOf
    <2>2. s = [o EXCEPT !.stage = stage]
      BY <1>3, <1>6 DEF CpEdfMemory
    <2>3. \A j \in DOMAIN stage : stage[j] \in Nat
      BY <1>2, <2>1 DEF Insert
    <2>4. IsMemory(s) /\ s.left = o.left /\ s.seen = o.seen /\ s.stage = stage
      BY <1>3, <2>2 DEF IsMemory, MemoryFields
    <2> QED BY <1>4, <2>3, <2>4 DEF NumbersIn
  <1> QED BY <1>5, <1>6

(* The scheduler sees jobs at a time.                                       *)
LEMMA SeenJobs ==
    ASSUME IInv, IInv', NEW cb, Consults(cb) \/ Observes(cb)
    PROVE  cb.time \in Nat /\ \A j \in RunningIn(cb) : j \in JobIds /\ j \in Nat
  <1>1. cb.time = now'
    BY DEF Consults, Observes
  <1>2. cb.time \in Nat
    BY <1>1 DEF IInv, TypeOK
  <1>3. ASSUME NEW d \in DeviceIds, cb.slots[d] # NoJob PROVE cb.slots[d] = running[d]
    <2>1. running \in [DeviceIds -> JobIds \cup {NoJob}]
      BY DEF IInv, TypeOK
    <2>2. CASE Observes(cb)
      BY <2>2 DEF Observes
    <2>3. CASE Consults(cb)
      <3>1. cb.slots = running' /\ cb.on \in {"arrival", "free", "point"}
        BY <2>3 DEF Consults
      <3>2. CASE cb.on \in {"arrival", "point"}
        <4>1. running' = running
          BY <2>3, <3>2 DEF Consults
        <4> QED BY <3>1, <4>1
      <3>3. CASE cb.on = "free"
        <4>1. \/ running' = running
              \/ running' = [running EXCEPT ![cb.dev] = NoJob]
          BY <2>3, <3>3 DEF Consults
        <4> QED BY <1>3, <2>1, <3>1, <4>1
      <3> QED BY <3>1, <3>2, <3>3
    <2> QED BY <2>2, <2>3
  <1>4. ASSUME NEW d \in DeviceIds, cb.slots[d] # NoJob PROVE cb.slots[d] \in JobIds
    BY <1>3, <1>4, RunningJob
  <1>5. ASSUME NEW j \in RunningIn(cb) PROVE j \in JobIds /\ j \in Nat
    <2>1. PICK d \in DeviceIds : j = cb.slots[d] /\ cb.slots[d] # NoJob
      BY DEF RunningIn
    <2> QED BY <1>4, <2>1, JobIdsAreNat DEF IInv
  <1> QED BY <1>2, <1>5

(* EstimatesAreNumbers is inductive.                                        *)
LEMMA NumbersNext ==
    ASSUME IInv, IInv', EstimatesAreNumbers, [PolicyNext]_policyVars
    PROVE  EstimatesAreNumbers'
  <1> SUFFICES ASSUME policy \in {"Llf", "CpEdf"} PROVE NumbersIn(mem')
    BY DEF PolicyNext, policyVars, EstimatesAreNumbers
  <1>1. NumbersIn(mem)
    BY DEF EstimatesAreNumbers
  <1>2. CASE mem' = mem
    BY <1>1, <1>2
  <1>3. ASSUME NEW cb, Consults(cb) \/ Observes(cb) PROVE NumbersIn(mem')
    <2>1. /\ cb.time \in Nat /\ \A j \in RunningIn(cb) : j \in JobIds
          /\ cb.on = "arrival" => cb.job \in JobIds
          /\ mem' = Remember(cb)
      BY <1>3, SeenJobs DEF Consults, Observes
    <2>2. CASE policy = "Llf"
      BY <1>1, <2>1, <2>2, LlfNumbers DEF Remember
    <2>3. CASE policy = "CpEdf"
      BY <1>1, <2>1, <2>3, CpEdfNumbers DEF Remember
    <2> QED BY <2>2, <2>3
  <1>4. \/ \E cb : Consults(cb) \/ Observes(cb)
        \/ mem' = mem
    BY StepsOfAPolicy DEF Unasked, Reevaluates
  <1> QED BY <1>2, <1>3, <1>4

-----------------------------------------------------------------------------
(* The ranks refine the order                                               *)

(* A lower rank never goes with a higher place in the order.                *)
LEMMA RankDecides ==
    ASSUME IInv, NEW j \in JobIds, NEW k \in JobIds
    PROVE  /\ policy \in ByDeadline =>
                /\ Precedes(Order(k), Order(j)) => Precedes(EdfRank(k), EdfRank(j))
                /\ Precedes(EdfRank(j), EdfRank(k)) => ~Precedes(Order(k), Order(j))
           /\ policy = "EdfVd" =>
                /\ Precedes(Order(k), Order(j)) => Precedes(EdfVdRank(k), EdfVdRank(j))
                /\ Precedes(EdfVdRank(j), EdfVdRank(k)) => ~Precedes(Order(k), Order(j))
           /\ policy \in ByCriticality =>
                /\ Precedes(Order(k), Order(j)) => Precedes(CriticalRank(k), CriticalRank(j))
                /\ Precedes(CriticalRank(j), CriticalRank(k)) => ~Precedes(Order(k), Order(j))
           /\ policy = "GpuPp" =>
                /\ Precedes(Order(k), Order(j)) => Precedes(PriorityRank(k), PriorityRank(j))
                /\ Precedes(PriorityRank(j), PriorityRank(k)) => ~Precedes(Order(k), Order(j))
  <1>1. /\ Deadline(j) \in Int /\ Deadline(k) \in Int /\ CriticalityRank(j) \in Int
        /\ CriticalityRank(k) \in Int /\ Priority(j) \in Int /\ Priority(k) \in Int
        /\ EffectiveDeadline(j) \in Int /\ EffectiveDeadline(k) \in Int
    BY JobNumbers
  <1>2. ASSUME policy \in ByDeadline
        PROVE  /\ Precedes(Order(k), Order(j)) => Precedes(EdfRank(k), EdfRank(j))
               /\ Precedes(EdfRank(j), EdfRank(k)) => ~Precedes(Order(k), Order(j))
    <2>1. Precedes(Order(k), Order(j)) <=> Deadline(k) < Deadline(j)
      BY <1>2, OrderMeans
    <2> PICK a, b : a = EdfRank(j) /\ b = EdfRank(k)
      OBVIOUS
    <2> PICK n \in Nat : n = 3
      OBVIOUS
    <2>2. /\ a \in [1 .. n -> Int] /\ b \in [1 .. n -> Int] /\ n >= 1
          /\ a[1] = Deadline(j) /\ b[1] = Deadline(k)
      BY RankTypes
    <2>3. Precedes(a, b) => a[1] <= b[1]
      BY ONLY <2>2, PrecedesByPrefix
    <2>4. b[1] < a[1] => Precedes(b, a)
      BY ONLY <2>2, PrecedesByPrefix
    <2> QED BY <1>1, <2>1, <2>2, <2>3, <2>4
  <1>3. ASSUME policy = "EdfVd"
        PROVE  /\ Precedes(Order(k), Order(j)) => Precedes(EdfVdRank(k), EdfVdRank(j))
               /\ Precedes(EdfVdRank(j), EdfVdRank(k)) => ~Precedes(Order(k), Order(j))
    <2>1. Precedes(Order(k), Order(j)) <=> EffectiveDeadline(k) < EffectiveDeadline(j)
      BY <1>3, OrderMeans
    <2> PICK a, b : a = EdfVdRank(j) /\ b = EdfVdRank(k)
      OBVIOUS
    <2> PICK n \in Nat : n = 4
      OBVIOUS
    <2>2. /\ a \in [1 .. n -> Int] /\ b \in [1 .. n -> Int] /\ n >= 1
          /\ a[1] = EffectiveDeadline(j) /\ b[1] = EffectiveDeadline(k)
      BY RankTypes
    <2>3. Precedes(a, b) => a[1] <= b[1]
      BY ONLY <2>2, PrecedesByPrefix
    <2>4. b[1] < a[1] => Precedes(b, a)
      BY ONLY <2>2, PrecedesByPrefix
    <2> QED BY <1>1, <2>1, <2>2, <2>3, <2>4
  <1>4. ASSUME policy \in ByCriticality
        PROVE  /\ Precedes(Order(k), Order(j)) => Precedes(CriticalRank(k), CriticalRank(j))
               /\ Precedes(CriticalRank(j), CriticalRank(k)) => ~Precedes(Order(k), Order(j))
    <2>1. Precedes(Order(k), Order(j)) <=>
              \/ CriticalityRank(k) < CriticalityRank(j)
              \/ CriticalityRank(k) = CriticalityRank(j) /\ Deadline(k) < Deadline(j)
      BY <1>4, OrderMeans
    <2> PICK a, b : a = CriticalRank(j) /\ b = CriticalRank(k)
      OBVIOUS
    <2> PICK n \in Nat : n = 5
      OBVIOUS
    <2>2. /\ a \in [1 .. n -> Int] /\ b \in [1 .. n -> Int] /\ n >= 2 /\ n >= 1
          /\ a[1] = CriticalityRank(j) /\ b[1] = CriticalityRank(k)
          /\ a[2] = Deadline(j) /\ b[2] = Deadline(k)
      BY RankTypes
    <2>3. /\ Precedes(a, b) => a[1] <= b[1]
          /\ a[1] = b[1] /\ Precedes(a, b) => a[2] <= b[2]
      BY ONLY <2>2, PrecedesByPrefix
    <2>4. /\ b[1] < a[1] => Precedes(b, a)
          /\ b[1] = a[1] /\ b[2] < a[2] => Precedes(b, a)
      BY ONLY <2>2, PrecedesByPrefix
    <2> QED BY <1>1, <2>1, <2>2, <2>3, <2>4
  <1>5. ASSUME policy = "GpuPp"
        PROVE  /\ Precedes(Order(k), Order(j)) => Precedes(PriorityRank(k), PriorityRank(j))
               /\ Precedes(PriorityRank(j), PriorityRank(k)) => ~Precedes(Order(k), Order(j))
    <2>1. Precedes(Order(k), Order(j)) <=>
              \/ CriticalityRank(k) < CriticalityRank(j)
              \/ CriticalityRank(k) = CriticalityRank(j) /\ Priority(k) < Priority(j)
      BY <1>5, OrderMeans
    <2> PICK a, b : a = PriorityRank(j) /\ b = PriorityRank(k)
      OBVIOUS
    <2> PICK n \in Nat : n = 4
      OBVIOUS
    <2>2. /\ a \in [1 .. n -> Int] /\ b \in [1 .. n -> Int] /\ n >= 2 /\ n >= 1
          /\ a[1] = CriticalityRank(j) /\ b[1] = CriticalityRank(k)
          /\ a[2] = Priority(j) /\ b[2] = Priority(k)
      BY RankTypes
    <2>3. /\ Precedes(a, b) => a[1] <= b[1]
          /\ a[1] = b[1] /\ Precedes(a, b) => a[2] <= b[2]
      BY ONLY <2>2, PrecedesByPrefix
    <2>4. /\ b[1] < a[1] => Precedes(b, a)
          /\ b[1] = a[1] /\ b[2] < a[2] => Precedes(b, a)
      BY ONLY <2>2, PrecedesByPrefix
    <2> QED BY <1>1, <2>1, <2>2, <2>3, <2>4
  <1> QED BY <1>2, <1>3, <1>4, <1>5

(* The policies whose decisions go by the order throughout.                 *)
ByOrder == policy \notin {"Gang", "Heft", "Llf"}

(* There is a scheduler for each kind of order.                             *)
LEMMA OrderedPolicies ==
    policy \in Schedulers /\ ByOrder =>
        policy \in ByDeadline \cup ByCriticality \cup {"EdfVd", "Fp", "GpuPp"}
  BY DEF Schedulers, ByOrder, ByDeadline, ByCriticality

(* Not to be preceded is transitive, and preceding goes one way.            *)
LEMMA OrderIsWeak ==
    ASSUME IInv, policy \in Schedulers, ByOrder,
           NEW j \in JobIds, NEW k \in JobIds, NEW l \in JobIds
    PROVE  /\ ~Precedes(Order(j), Order(k)) /\ ~Precedes(Order(k), Order(l)) =>
                  ~Precedes(Order(j), Order(l))
           /\ Precedes(Order(j), Order(k)) => ~Precedes(Order(k), Order(j))
           /\ ~Precedes(Order(j), Order(j))
  <1>1. \A x \in {j, k, l} : /\ Deadline(x) \in Int /\ CriticalityRank(x) \in Int
                             /\ Priority(x) \in Int /\ EffectiveDeadline(x) \in Int
    BY JobNumbers
  <1>2. CASE policy \in ByDeadline
    <2>1. \A x, y \in {j, k, l} : Precedes(Order(x), Order(y)) <=> Deadline(x) < Deadline(y)
      BY <1>2, OrderMeans
    <2> QED BY <1>1, <2>1
  <1>3. CASE policy = "EdfVd"
    <2>1. \A x, y \in {j, k, l} :
              Precedes(Order(x), Order(y)) <=> EffectiveDeadline(x) < EffectiveDeadline(y)
      BY <1>3, OrderMeans
    <2> QED BY <1>1, <2>1
  <1>4. CASE policy = "Fp"
    <2>1. \A x, y \in {j, k, l} : Precedes(Order(x), Order(y)) <=> Priority(x) < Priority(y)
      BY <1>4, OrderMeans
    <2> QED BY <1>1, <2>1
  <1>5. CASE policy \in ByCriticality
    <2>1. \A x, y \in {j, k, l} :
              Precedes(Order(x), Order(y)) <=>
                  \/ CriticalityRank(x) < CriticalityRank(y)
                  \/ CriticalityRank(x) = CriticalityRank(y) /\ Deadline(x) < Deadline(y)
      BY <1>5, OrderMeans
    <2> QED BY <1>1, <2>1
  <1>6. CASE policy = "GpuPp"
    <2>1. \A x, y \in {j, k, l} :
              Precedes(Order(x), Order(y)) <=>
                  \/ CriticalityRank(x) < CriticalityRank(y)
                  \/ CriticalityRank(x) = CriticalityRank(y) /\ Priority(x) < Priority(y)
      BY <1>6, OrderMeans
    <2> QED BY <1>1, <2>1
  <1> QED BY <1>2, <1>3, <1>4, <1>5, <1>6, OrderedPolicies

-----------------------------------------------------------------------------
(* The best of a queue                                                      *)

(* LLF's and CP-EDF's ranks are numbers, too.                               *)
LEMMA LaxityTypes ==
    ASSUME IInv, NEW m, NumbersIn(m), NEW j \in JobIds
    PROVE  /\ Laxity(j, m) \in Int
           /\ LaxityRank(j, m) \in [1 .. 4 -> Int] /\ LaxityRank(j, m)[1] = Laxity(j, m)
           /\ CpEdfRank(j, m) \in [1 .. 5 -> Int] /\ CpEdfRank(j, m)[1] = Deadline(j)
  <1>1. LeftOf(j, m) \in Int
    BY DEF LeftOf, NumbersIn
  <1>2. StageKey(j, m) \in Int
    BY DEF StageKey, NumbersIn
  <1>3. Laxity(j, m) \in Int
    BY <1>1, JobNumbers DEF Laxity
  <1>4. LaxityRank(j, m) \in [1 .. 4 -> Int] /\ LaxityRank(j, m)[1] = Laxity(j, m)
    BY <1>3, JobNumbers DEF LaxityRank
  <1>5. CpEdfRank(j, m) \in [1 .. 5 -> Int] /\ CpEdfRank(j, m)[1] = Deadline(j)
    BY <1>2, <1>3, JobNumbers DEF CpEdfRank
  <1> QED BY <1>3, <1>4, <1>5

(* A queue that is not empty has a best job, by whatever rank.              *)
LEMMA BestOfQueue ==
    ASSUME IInv, NEW d \in DeviceIds, queue[d] # {}, NEW n \in Nat, NEW K,
           \A q \in queue[d] : K[q] \in [1 .. n -> Int]
    PROVE  \E q \in queue[d] : \A p \in queue[d] : ~Precedes(K[p], K[q])
  <1>1. IsFiniteSet(queue[d])
    BY QueuesAreFinite
  <1> QED BY <1>1, LeastExists

(* Jobs of a queue are jobs.                                                *)
LEMMA QueuedJobs ==
    ASSUME IInv, NEW d \in DeviceIds
    PROVE  queue[d] \subseteq JobIds
  BY DEF IInv, TypeOK

(* The first by priority, ...                                               *)
LEMMA ForemostExists ==
    ASSUME IInv, NEW d \in DeviceIds, queue[d] # {}
    PROVE  Foremost(d) # {}
  <1> DEFINE K == [q \in queue[d] |-> <<Priority(q)>>]
  <1>1. \A q \in queue[d] : K[q] \in [1 .. 1 -> Int] /\ K[q][1] = Priority(q)
    BY QueuedJobs, JobNumbers
  <1> HIDE DEF K
  <1> PICK n \in Nat : n = 1
    OBVIOUS
  <1>2. \A q \in queue[d] : K[q] \in [1 .. n -> Int]
    BY <1>1
  <1>3. PICK q \in queue[d] : \A p \in queue[d] : ~Precedes(K[p], K[q])
    BY <1>2, BestOfQueue
  <1>4. ASSUME NEW p \in queue[d] PROVE ~(Priority(p) < Priority(q))
    <2> PICK a, b : a = K[p] /\ b = K[q]
      OBVIOUS
    <2>1. a \in [1 .. n -> Int] /\ b \in [1 .. n -> Int] /\ n >= 1
      BY <1>2
    <2>2. a[1] < b[1] => Precedes(a, b)
      BY ONLY <2>1, PrecedesByPrefix
    <2> QED BY <1>1, <1>3, <2>2
  <1>5. \A p \in queue[d] : Priority(q) <= Priority(p)
    BY <1>4, QueuedJobs, JobNumbers
  <1> QED BY <1>5 DEF Foremost

(* ... by deadline, ...                                                     *)
LEMMA EarliestExists ==
    ASSUME IInv, NEW d \in DeviceIds, queue[d] # {}
    PROVE  EarliestDeadline(d) # {}
  <1> DEFINE K == [q \in queue[d] |-> EdfRank(q)]
  <1>1. \A q \in queue[d] : K[q] \in [1 .. 3 -> Int] /\ K[q] = EdfRank(q)
    BY QueuedJobs, RankTypes
  <1> HIDE DEF K
  <1> PICK n \in Nat : n = 3
    OBVIOUS
  <1>2. \A q \in queue[d] : K[q] \in [1 .. n -> Int]
    BY <1>1
  <1>3. PICK q \in queue[d] : \A p \in queue[d] : ~Precedes(K[p], K[q])
    BY <1>2, BestOfQueue
  <1> QED BY <1>1, <1>3 DEF EarliestDeadline, LeastBy

(* ... by virtual deadline, of all jobs in LO mode, ...                     *)
LEMMA EdfVdNextExists ==
    ASSUME IInv, level = "Lo", NEW d \in DeviceIds, queue[d] # {}
    PROVE  EdfVdNext(d) # {}
  <1> DEFINE K == [q \in queue[d] |-> EdfVdRank(q)]
  <1>1. \A q \in queue[d] : K[q] \in [1 .. 4 -> Int] /\ K[q] = EdfVdRank(q)
    BY QueuedJobs, RankTypes
  <1> HIDE DEF K
  <1> PICK n \in Nat : n = 4
    OBVIOUS
  <1>2. \A q \in queue[d] : K[q] \in [1 .. n -> Int]
    BY <1>1
  <1>3. PICK q \in queue[d] : \A p \in queue[d] : ~Precedes(K[p], K[q])
    BY <1>2, BestOfQueue
  <1>4. {q1 \in queue[d] : ~Unschedulable(q1)} = queue[d]
    BY DEF Unschedulable
  <1> QED BY <1>1, <1>3, <1>4 DEF EdfVdNext, LeastBy

(* ... by criticality and deadline, ...                                     *)
LEMMA MostCriticalExists ==
    ASSUME IInv, NEW d \in DeviceIds, queue[d] # {}
    PROVE  MostCritical(d) # {}
  <1> DEFINE K == [q \in queue[d] |-> CriticalRank(q)]
  <1>1. \A q \in queue[d] : K[q] \in [1 .. 5 -> Int] /\ K[q] = CriticalRank(q)
    BY QueuedJobs, RankTypes
  <1> HIDE DEF K
  <1> PICK n \in Nat : n = 5
    OBVIOUS
  <1>2. \A q \in queue[d] : K[q] \in [1 .. n -> Int]
    BY <1>1
  <1>3. PICK q \in queue[d] : \A p \in queue[d] : ~Precedes(K[p], K[q])
    BY <1>2, BestOfQueue
  <1> QED BY <1>1, <1>3 DEF MostCritical, LeastBy

(* ... by criticality and priority, ...                                     *)
LEMMA MostUrgentExists ==
    ASSUME IInv, NEW d \in DeviceIds, queue[d] # {}
    PROVE  MostUrgent(d) # {}
  <1> DEFINE K == [q \in queue[d] |-> PriorityRank(q)]
  <1>1. \A q \in queue[d] : K[q] \in [1 .. 4 -> Int] /\ K[q] = PriorityRank(q)
    BY QueuedJobs, RankTypes
  <1> HIDE DEF K
  <1> PICK n \in Nat : n = 4
    OBVIOUS
  <1>2. \A q \in queue[d] : K[q] \in [1 .. n -> Int]
    BY <1>1
  <1>3. PICK q \in queue[d] : \A p \in queue[d] : ~Precedes(K[p], K[q])
    BY <1>2, BestOfQueue
  <1> QED BY <1>1, <1>3 DEF MostUrgent, LeastBy

(* ... by laxity ...                                                        *)
LEMMA LeastLaxityExists ==
    ASSUME IInv, NEW m, NumbersIn(m), NEW d \in DeviceIds, queue[d] # {}
    PROVE  LeastLaxity(d, m) # {}
  <1> DEFINE K == [q \in queue[d] |-> LaxityRank(q, m)]
  <1>1. \A q \in queue[d] : K[q] \in [1 .. 4 -> Int] /\ K[q] = LaxityRank(q, m)
    BY QueuedJobs, LaxityTypes
  <1> HIDE DEF K
  <1> PICK n \in Nat : n = 4
    OBVIOUS
  <1>2. \A q \in queue[d] : K[q] \in [1 .. n -> Int]
    BY <1>1
  <1>3. PICK q \in queue[d] : \A p \in queue[d] : ~Precedes(K[p], K[q])
    BY <1>2, BestOfQueue
  <1> QED BY <1>1, <1>3 DEF LeastLaxity, LeastBy

(* ... and by CP-EDF's rank exist in a queue that is not empty.             *)
LEMMA CpEdfNextExists ==
    ASSUME IInv, NEW m, NumbersIn(m), NEW d \in DeviceIds, queue[d] # {}
    PROVE  CpEdfNext(d, m) # {}
  <1> DEFINE K == [q \in queue[d] |-> CpEdfRank(q, m)]
  <1>1. \A q \in queue[d] : K[q] \in [1 .. 5 -> Int] /\ K[q] = CpEdfRank(q, m)
    BY QueuedJobs, LaxityTypes
  <1> HIDE DEF K
  <1> PICK n \in Nat : n = 5
    OBVIOUS
  <1>2. \A q \in queue[d] : K[q] \in [1 .. n -> Int]
    BY <1>1
  <1>3. PICK q \in queue[d] : \A p \in queue[d] : ~Precedes(K[p], K[q])
    BY <1>2, BestOfQueue
  <1> QED BY <1>1, <1>3 DEF CpEdfNext, LeastBy

-----------------------------------------------------------------------------
(* What the schedulers other than Gang answer in LO mode                    *)

(* A device that has become free is given the first of its queue.           *)
FreeIsFair(a, d) ==
    \/ a = NoAction /\ queue[d] = {}
    \/ \E q \in queue[d] : a = Dispatch(q, d, 0) /\ (ByOrder => Ordered(q, d))

(* dispatch of the first of the queue, whichever first it is.               *)
LEMMA NextIsFair ==
    ASSUME NEW d, NEW next \in SUBSET queue[d], queue[d] # {} => next # {},
           \A q \in next : ByOrder => Ordered(q, d), NEW a \in DispatchNext(next, d)
    PROVE  FreeIsFair(a, d)
  BY DEF DispatchNext, NoOpIf, FreeIsFair

(* Every scheduler but Gang gives a free device the first of its queue.     *)
LEMMA FreeAnswersAreFair ==
    ASSUME IInv, policy \in Schedulers \ {"Gang"}, level = "Lo",
           NEW m, policy \in {"Llf", "CpEdf"} => NumbersIn(m),
           NEW cb, cb.on = "free", cb.dev \in DeviceIds, NEW a \in Answers(cb, m)
    PROVE  FreeIsFair(a, cb.dev)
  <1> PICK d \in DeviceIds : d = cb.dev
    OBVIOUS
  <1>1. queue[d] \subseteq JobIds
    BY QueuedJobs
  <1>2. CASE policy \in {"Fp", "Heft"}
    <2>1. a \in DispatchNext(Foremost(d), d)
      BY <1>2 DEF Answers, FpAnswers, HeftAnswers
    <2>2. ASSUME NEW q \in Foremost(d), ByOrder PROVE Ordered(q, d)
      <3>1. policy = "Fp"
        BY <1>2, <2>2 DEF ByOrder
      <3> SUFFICES ASSUME NEW p \in queue[d] PROVE ~Precedes(Order(p), Order(q))
        BY DEF Ordered
      <3>2. q \in queue[d] /\ Priority(q) <= Priority(p)
        BY DEF Foremost
      <3>3. Precedes(Order(p), Order(q)) <=> Priority(p) < Priority(q)
        BY <1>1, <3>1, <3>2, OrderMeans
      <3>4. Priority(p) \in Int /\ Priority(q) \in Int
        BY <1>1, <3>2, JobNumbers
      <3> QED BY <3>2, <3>3, <3>4
    <2>3. Foremost(d) \in SUBSET queue[d]
      BY DEF Foremost
    <2> QED BY <2>1, <2>2, <2>3, ForemostExists, NextIsFair
  <1>3. CASE policy \in {"Edf", "GlobalEdf", "Federated"}
    <2>1. a \in DispatchNext(EarliestDeadline(d), d)
      BY <1>3 DEF Answers, EdfAnswers, GlobalEdfAnswers, FederatedAnswers
    <2>2. \A q \in EarliestDeadline(d) :
              q \in queue[d] /\ \A p \in queue[d] : ~Precedes(EdfRank(p), EdfRank(q))
      BY DEF EarliestDeadline, LeastBy
    <2>3. \A q \in EarliestDeadline(d) : Ordered(q, d)
      BY <1>1, <1>3, <2>2, RankDecides DEF Ordered, ByDeadline
    <2> QED BY <2>1, <2>2, <2>3, EarliestExists, NextIsFair
  <1>4. CASE policy = "EdfVd"
    <2>1. a \in DispatchNext(EdfVdNext(d), d)
      BY <1>4 DEF Answers, EdfVdAnswers
    <2>2. \A q \in EdfVdNext(d) :
              q \in queue[d] /\ \A p \in queue[d] : ~Precedes(EdfVdRank(p), EdfVdRank(q))
      BY DEF EdfVdNext, LeastBy, Unschedulable
    <2>3. \A q \in EdfVdNext(d) : Ordered(q, d)
      BY <1>1, <1>4, <2>2, RankDecides DEF Ordered
    <2> QED BY <2>1, <2>2, <2>3, EdfVdNextExists, NextIsFair
  <1>5. CASE policy = "Llf"
    <2>1. a \in DispatchNext(LeastLaxity(d, m), d)
      BY <1>5 DEF Answers, LlfAnswers
    <2>2. LeastLaxity(d, m) \in SUBSET queue[d]
      BY DEF LeastLaxity, LeastBy
    <2> QED BY <1>5, <2>1, <2>2, LeastLaxityExists, NextIsFair DEF ByOrder
  <1>6. CASE policy = "CpEdf"
    <2>1. a \in DispatchNext(CpEdfNext(d, m), d)
      BY <1>6 DEF Answers, CpEdfAnswers
    <2>2. \A q \in CpEdfNext(d, m) :
              q \in queue[d] /\ \A p \in queue[d] : ~Precedes(CpEdfRank(p, m), CpEdfRank(q, m))
      BY DEF CpEdfNext, LeastBy
    <2>3. ASSUME NEW q \in CpEdfNext(d, m), NEW p \in queue[d] PROVE ~Precedes(Order(p), Order(q))
      <3>1. q \in JobIds /\ p \in JobIds
        BY <1>1, <2>2
      <3> PICK x, y : x = CpEdfRank(p, m) /\ y = CpEdfRank(q, m)
        OBVIOUS
      <3> PICK n \in Nat : n = 5
        OBVIOUS
      <3>2. /\ x \in [1 .. n -> Int] /\ y \in [1 .. n -> Int] /\ n >= 1
            /\ x[1] = Deadline(p) /\ y[1] = Deadline(q)
        BY <1>6, <3>1, LaxityTypes
      <3>3. x[1] < y[1] => Precedes(x, y)
        BY ONLY <3>2, PrecedesByPrefix
      <3>4. Precedes(Order(p), Order(q)) <=> Deadline(p) < Deadline(q)
        BY <1>6, <3>1, OrderMeans DEF ByDeadline
      <3> QED BY <2>2, <3>2, <3>3, <3>4
    <2>4. \A q \in CpEdfNext(d, m) : Ordered(q, d)
      BY <2>3 DEF Ordered
    <2> QED BY <1>6, <2>1, <2>2, <2>4, CpEdfNextExists, NextIsFair
  <1>7. CASE policy \in ByCriticality
    <2>1. a \in DispatchNext(MostCritical(d), d)
      BY <1>7 DEF Answers, ByCriticality, GcapsAnswers, XSchedAnswers, GPreemptAnswers,
                  RtgpuAnswers, MatchAnswers
    <2>2. \A q \in MostCritical(d) :
              q \in queue[d] /\ \A p \in queue[d] : ~Precedes(CriticalRank(p), CriticalRank(q))
      BY DEF MostCritical, LeastBy
    <2>3. \A q \in MostCritical(d) : Ordered(q, d)
      BY <1>1, <1>7, <2>2, RankDecides DEF Ordered
    <2> QED BY <2>1, <2>2, <2>3, MostCriticalExists, NextIsFair
  <1>8. CASE policy = "GpuPp"
    <2>1. a \in DispatchNext(MostUrgent(d), d)
      BY <1>8 DEF Answers, GpuPpAnswers
    <2>2. \A q \in MostUrgent(d) :
              q \in queue[d] /\ \A p \in queue[d] : ~Precedes(PriorityRank(p), PriorityRank(q))
      BY DEF MostUrgent, LeastBy
    <2>3. \A q \in MostUrgent(d) : Ordered(q, d)
      BY <1>1, <1>8, <2>2, RankDecides DEF Ordered
    <2> QED BY <2>1, <2>2, <2>3, MostUrgentExists, NextIsFair
  <1> QED BY <1>2, <1>3, <1>4, <1>5, <1>6, <1>7, <1>8 DEF Schedulers, ByCriticality

(* At a preemption point a job of the queue takes over, or none.            *)
PointIsFair(a, d, j) ==
    a = NoAction \/ \E q \in queue[d] : a = Preempt(j, q, d, TRUE)

(* In LO mode no scheduler drops a job at a preemption point.               *)
LEMMA PointAnswersAreFair ==
    ASSUME IInv, policy \in Schedulers, level = "Lo", NEW m,
           NEW cb, cb.on = "point", NEW a \in Answers(cb, m), a \in PointActions(cb.dev, cb.job)
    PROVE  PointIsFair(a, cb.dev, cb.job)
  <1> PICK d, j : d = cb.dev /\ j = cb.job
    OBVIOUS
  <1>1. ASSUME NEW S, a \in ReplaceBy(S, j, d)
        PROVE  a = NoAction \/ \E q : a = Preempt(j, q, d, TRUE)
    BY <1>1 DEF ReplaceBy, NoOpIf
  <1>2. \/ a = NoAction
        \/ \E S : a \in ReplaceBy(S, j, d)
    <2>1. CASE policy \in {"Fp", "Edf", "GlobalEdf", "EdfVd"}
      BY <2>1 DEF Answers, FpAnswers, EdfAnswers, GlobalEdfAnswers, EdfPoint, EdfVdAnswers,
                  EdfVdPoint, Unschedulable
    <2>2. CASE policy \in {"Llf", "CpEdf", "Federated"}
      BY <2>2 DEF Answers, LlfAnswers, CpEdfAnswers, FederatedAnswers
    <2>3. CASE policy \in {"Gang", "Heft"}
      BY <2>3 DEF Answers, GangAnswers, HeftAnswers
    <2>4. CASE policy \in ByCriticality \cup {"GpuPp"}
      BY <2>4 DEF Answers, ByCriticality, GcapsAnswers, XSchedAnswers, GPreemptAnswers,
                  GpuPpAnswers, RtgpuAnswers, MatchAnswers, CriticalPoint
    <2> QED BY <2>1, <2>2, <2>3, <2>4 DEF Schedulers, ByCriticality
  <1>3. a = NoAction \/ \E q : a = Preempt(j, q, d, TRUE)
    BY <1>1, <1>2
  <1>4. a = NoAction \/ PlacedBy(a) \in queue[d]
    BY PlacedByPoint
  <1> QED BY <1>3, <1>4, PlacedAtPoint DEF PointIsFair

-----------------------------------------------------------------------------
(* Their answers to an arrival                                              *)

(* An arriving job starts on an idle device, waits at a busy one whose job  *)
(* it does not precede, or replaces a job that does not precede it.         *)
ArrivalIsFair(a, j) ==
    \/ a = NoAction
    \/ \E d \in Compatible(j) :
          \/ a = Dispatch(j, d, 0) /\ running[d] = NoJob
          \/ /\ a = Enqueue(j, d) /\ running[d] # NoJob
             /\ ByOrder /\ PreemptiveCpu(d) => ~Precedes(Order(j), Order(running[d]))
          \/ /\ a = Preempt(running[d], j, d, FALSE) /\ running[d] # NoJob
             /\ ByOrder => ~Precedes(Order(running[d]), Order(j))

(* A device is chosen first, and then the job is weighed against the one    *)
(* that runs there; B are the devices of D whose job it beats.              *)
LEMMA PlacedFair ==
    ASSUME NEW j, NEW D \in SUBSET Compatible(j), NEW B \in SUBSET BusyOf(D),
           NEW a,
           \/ \E d \in IdleOf(D) : a = Dispatch(j, d, 0)
           \/ \E d \in B : a = Preempt(running[d], j, d, FALSE)
           \/ \E d \in BusyOf(D) \ B : a = Enqueue(j, d)
           \/ a = NoAction,
           \A d \in B : ByOrder => ~Precedes(Order(running[d]), Order(j)),
           \A d \in BusyOf(D) \ B :
              ByOrder /\ PreemptiveCpu(d) => ~Precedes(Order(j), Order(running[d]))
    PROVE  ArrivalIsFair(a, j)
  BY DEF IdleOf, BusyOf, ArrivalIsFair

(* An idle device is taken if there is one.                                 *)
LEMMA IdleElsePreemptFair ==
    ASSUME NEW j, NEW D \in SUBSET Compatible(j), NEW idle \in SUBSET IdleOf(D),
           IdleOf(D) # {} => idle # {}, NEW victims \in SUBSET BusyOf(D), NEW wait \in SUBSET D,
           \A d \in victims : ByOrder => ~Precedes(Order(running[d]), Order(j)),
           victims = {} => \A d \in BusyOf(D) :
              ByOrder /\ PreemptiveCpu(d) => ~Precedes(Order(j), Order(running[d])),
           NEW a \in IdleElsePreempt(j, idle, victims, wait)
    PROVE  ArrivalIsFair(a, j)
  <1>1. CASE \E d \in idle : a = Dispatch(j, d, 0)
    BY <1>1 DEF IdleOf, ArrivalIsFair
  <1>2. CASE \E d \in victims : a = Preempt(running[d], j, d, FALSE)
    BY <1>2 DEF BusyOf, ArrivalIsFair
  <1>3. CASE idle = {} /\ victims = {} /\ \E d \in wait : a = Enqueue(j, d)
    <2>1. PICK d \in wait : a = Enqueue(j, d)
      BY <1>3
    <2>2. d \in BusyOf(D)
      BY <1>3 DEF IdleOf, BusyOf
    <2> QED BY <1>3, <2>1, <2>2 DEF BusyOf, ArrivalIsFair
  <1>4. CASE a = NoAction
    BY <1>4 DEF ArrivalIsFair
  <1> QED BY <1>1, <1>2, <1>3, <1>4 DEF IdleElsePreempt, NoOpIf

(* Of some devices, one has the shortest queue.                             *)
LEMMA ShortestQueueExists ==
    ASSUME IInv, NEW D \in SUBSET DeviceIds, D # {}
    PROVE  ShortestQueue(D) # {}
  <1> DEFINE K == [d \in D |-> <<QueueLength(d), d>>]
  <1>1. \A d \in D : QueueLength(d) \in Int /\ d \in Int
    BY QueuesAreFinite DEF DeviceIds
  <1>2. \A d \in D : K[d] = <<QueueLength(d), d>>
    OBVIOUS
  <1>3. IsFiniteSet(D)
    BY QueuesAreFinite
  <1>4. \E x \in D : \A y \in D : ~Precedes(K[y], K[x])
    <2>1. \A d \in D : K[d] \in [1 .. 2 -> Int]
      BY <1>1, <1>2
    <2> HIDE DEF K
    <2> PICK n \in Nat : n = 2
      OBVIOUS
    <2>2. \A d \in D : K[d] \in [1 .. n -> Int]
      BY <2>1
    <2> QED BY <1>3, <2>2, LeastExists
  <1> QED BY <1>2, <1>4 DEF ShortestQueue, LeastBy

(* Of some busy devices, one runs the job that comes last.                  *)
LEMMA LastRunning ==
    ASSUME IInv, NEW D \in SUBSET DeviceIds, D # {}, \A d \in D : running[d] # NoJob
    PROVE  /\ GreatestBy(D, LAMBDA d : EdfRank(running[d])) # {}
           /\ GreatestBy(D, LAMBDA d : CriticalRank(running[d])) # {}
           /\ GreatestBy(D, LAMBDA d : PriorityRank(running[d])) # {}
  <1>1. \A d \in D : running[d] \in JobIds
    BY RunningJob
  <1>2. IsFiniteSet(D)
    BY QueuesAreFinite
  <1>3. GreatestBy(D, LAMBDA d : EdfRank(running[d])) # {}
    <2> DEFINE K == [d \in D |-> EdfRank(running[d])]
    <2>1. \A d \in D : K[d] \in [1 .. 3 -> Int] /\ K[d] = EdfRank(running[d])
      BY <1>1, RankTypes
    <2> HIDE DEF K
    <2> PICK n \in Nat : n = 3
      OBVIOUS
    <2>2. \A d \in D : K[d] \in [1 .. n -> Int]
      BY <2>1
    <2>3. \E x \in D : \A y \in D : ~Precedes(K[x], K[y])
      BY <1>2, <2>2, LeastExists
    <2> QED BY <2>1, <2>3 DEF GreatestBy
  <1>4. GreatestBy(D, LAMBDA d : CriticalRank(running[d])) # {}
    <2> DEFINE K == [d \in D |-> CriticalRank(running[d])]
    <2>1. \A d \in D : K[d] \in [1 .. 5 -> Int] /\ K[d] = CriticalRank(running[d])
      BY <1>1, RankTypes
    <2> HIDE DEF K
    <2> PICK n \in Nat : n = 5
      OBVIOUS
    <2>2. \A d \in D : K[d] \in [1 .. n -> Int]
      BY <2>1
    <2>3. \E x \in D : \A y \in D : ~Precedes(K[x], K[y])
      BY <1>2, <2>2, LeastExists
    <2> QED BY <2>1, <2>3 DEF GreatestBy
  <1>5. GreatestBy(D, LAMBDA d : PriorityRank(running[d])) # {}
    <2> DEFINE K == [d \in D |-> PriorityRank(running[d])]
    <2>1. \A d \in D : K[d] \in [1 .. 4 -> Int] /\ K[d] = PriorityRank(running[d])
      BY <1>1, RankTypes
    <2> HIDE DEF K
    <2> PICK n \in Nat : n = 4
      OBVIOUS
    <2>2. \A d \in D : K[d] \in [1 .. n -> Int]
      BY <2>1
    <2>3. \E x \in D : \A y \in D : ~Precedes(K[x], K[y])
      BY <1>2, <2>2, LeastExists
    <2> QED BY <2>1, <2>3 DEF GreatestBy
  <1> QED BY <1>3, <1>4, <1>5

(* The least pressure.                                                      *)
LEMMA LeastPressureExists ==
    ASSUME IInv, NEW j \in JobIds, NEW D \in SUBSET DeviceIds, D # {}
    PROVE  LeastBy(D, LAMBDA d : <<Pressure(j, d), KindRank(d), d>>) # {}
  <1> DEFINE K == [d \in D |-> <<Pressure(j, d), KindRank(d), d>>]
  <1>1. \A d \in D : Pressure(j, d) \in Int /\ KindRank(d) \in Int /\ d \in Int
    <2> TAKE d \in D
    <2>1. QueueLength(d) \in Int /\ BusyRank(d) \in Int /\ d \in Int /\ KindRank(d) \in Int
      BY QueuesAreFinite DEF BusyRank, KindRank, DeviceIds
    <2>2. ServiceTime(j, d) \in Int
      BY ServiceTimeInt
    <2>3. Blocking(d) \in Int
      <3>1. Device[d] \in DeviceRecord
        BY PlatformAssumption
      <3>2. Device[d].interval \in Int /\ BlockingCap \in Int
        BY <3>1, GpuPoliciesAssumption DEF DeviceRecord
      <3> QED BY <3>2 DEF Blocking, MinOf
    <2> QED BY <2>1, <2>2, <2>3 DEF Pressure
  <1>2. \A d \in D : K[d] = <<Pressure(j, d), KindRank(d), d>>
    OBVIOUS
  <1>3. IsFiniteSet(D)
    BY QueuesAreFinite
  <1>4. \E x \in D : \A y \in D : ~Precedes(K[y], K[x])
    <2>1. \A d \in D : K[d] \in [1 .. 3 -> Int]
      BY <1>1, <1>2
    <2> HIDE DEF K
    <2> QED BY <1>3, <2>1, LeastExists
  <1> QED BY <1>2, <1>4 DEF LeastBy

(* Busy devices run jobs.                                                   *)
LEMMA BusyJobs ==
    ASSUME IInv, NEW j, NEW D \in SUBSET Compatible(j)
    PROVE  /\ D \in SUBSET DeviceIds
           /\ \A d \in BusyOf(D) : running[d] \in JobIds /\ running[d] # NoJob
  BY RunningJob DEF BusyOf, Compatible

(* Fixed priorities, ...                                                    *)
LEMMA FpPlacesFairly ==
    ASSUME IInv, policy = "Fp", NEW cb, cb.on = "arrival", cb.job \in JobIds, NEW m,
           NEW a \in Answers(cb, m)
    PROVE  ArrivalIsFair(a, cb.job)
  <1> PICK j \in JobIds : j = cb.job
    OBVIOUS
  <1> PICK D : D = TargetDevice(j)
    OBVIOUS
  <1> PICK B : B = {c \in BusyOf(D) : Priority(j) < Priority(running[c])}
    OBVIOUS
  <1>1. D \in SUBSET Compatible(j)
    BY DEF TargetDevice
  <1>2. \/ \E d \in IdleOf(D) : a = Dispatch(j, d, 0)
        \/ \E d \in B : a = Preempt(running[d], j, d, FALSE)
        \/ \E d \in BusyOf(D) \ B : a = Enqueue(j, d)
        \/ a = NoAction
    BY DEF Answers, FpAnswers, PlaceOn, NoOpIf
  <1>3. \A d \in BusyOf(D) : running[d] \in JobIds
    BY <1>1, BusyJobs
  <1>4. \A d \in BusyOf(D) :
           /\ Precedes(Order(running[d]), Order(j)) <=> Priority(running[d]) < Priority(j)
           /\ Precedes(Order(j), Order(running[d])) <=> Priority(j) < Priority(running[d])
           /\ Priority(j) \in Int /\ Priority(running[d]) \in Int
    BY <1>3, OrderMeans, JobNumbers
  <1>5. \A d \in B : ByOrder => ~Precedes(Order(running[d]), Order(j))
    BY <1>4
  <1>6. \A d \in BusyOf(D) \ B :
           ByOrder /\ PreemptiveCpu(d) => ~Precedes(Order(j), Order(running[d]))
    BY <1>4
  <1> QED BY <1>1, <1>2, <1>5, <1>6, PlacedFair

(* ... deadlines on the least loaded or dedicated device, ...               *)
LEMMA DeadlinePlacesFairly ==
    ASSUME IInv, policy \in {"Edf", "Federated"}, NEW cb, cb.on = "arrival",
           cb.job \in JobIds, NEW m, NEW a \in Answers(cb, m)
    PROVE  ArrivalIsFair(a, cb.job)
  <1> PICK j \in JobIds : j = cb.job
    OBVIOUS
  <1> PICK D : D = IF policy = "Edf" THEN TargetDevice(j) ELSE FederatedTarget(j, m)
    OBVIOUS
  <1> PICK B : B = {c \in BusyOf(D) : /\ Deadline(j) < Deadline(running[c])
                                      /\ policy = "Edf" \/ FullyPreemptive(c)}
    OBVIOUS
  <1>1. D \in SUBSET Compatible(j)
    BY DEF TargetDevice, FederatedTarget, LeastLoaded, LeastBy
  <1>2. \/ \E d \in IdleOf(D) : a = Dispatch(j, d, 0)
        \/ \E d \in B : a = Preempt(running[d], j, d, FALSE)
        \/ \E d \in BusyOf(D) \ B : a = Enqueue(j, d)
        \/ a = NoAction
    <2>1. CASE policy = "Edf"
      BY <2>1 DEF Answers, EdfAnswers, PlaceOn, NoOpIf
    <2>2. CASE policy = "Federated"
      BY <2>2 DEF Answers, FederatedAnswers, PlaceOn, NoOpIf
    <2> QED BY <2>1, <2>2
  <1>3. \A d \in BusyOf(D) : running[d] \in JobIds
    BY <1>1, BusyJobs
  <1>4. \A d \in BusyOf(D) :
           /\ Precedes(Order(running[d]), Order(j)) <=> Deadline(running[d]) < Deadline(j)
           /\ Precedes(Order(j), Order(running[d])) <=> Deadline(j) < Deadline(running[d])
           /\ Deadline(j) \in Int /\ Deadline(running[d]) \in Int
    BY <1>3, OrderMeans, JobNumbers DEF ByDeadline
  <1>5. \A d \in B : ByOrder => ~Precedes(Order(running[d]), Order(j))
    BY <1>4
  <1>6. \A d \in BusyOf(D) \ B :
           ByOrder /\ PreemptiveCpu(d) => ~Precedes(Order(j), Order(running[d]))
    BY <1>4 DEF PreemptiveCpu
  <1> QED BY <1>1, <1>2, <1>5, <1>6, PlacedFair

(* ... virtual deadlines, ...                                               *)
LEMMA EdfVdPlacesFairly ==
    ASSUME IInv, policy = "EdfVd", level = "Lo", NEW cb, cb.on = "arrival",
           cb.job \in JobIds, NEW m, NEW a \in Answers(cb, m)
    PROVE  ArrivalIsFair(a, cb.job)
  <1> PICK j \in JobIds : j = cb.job
    OBVIOUS
  <1> PICK D : D = LeastLoaded(Compatible(j))
    OBVIOUS
  <1> PICK B : B = {c \in BusyOf(D) : Precedes(EdfVdRank(j), EdfVdRank(running[c]))}
    OBVIOUS
  <1>1. D \in SUBSET Compatible(j)
    BY DEF LeastLoaded, LeastBy
  <1>2. \/ \E d \in IdleOf(D) : a = Dispatch(j, d, 0)
        \/ \E d \in B : a = Preempt(running[d], j, d, FALSE)
        \/ \E d \in BusyOf(D) \ B : a = Enqueue(j, d)
        \/ a = NoAction
    <2>1. a \in EdfVdArrival(j) /\ \A k : ~Unschedulable(k)
      BY DEF Answers, EdfVdAnswers, Unschedulable
    <2>2. a \in PlaceOn(j, D, LAMBDA d, r : Precedes(EdfVdRank(j), EdfVdRank(r)))
      BY <2>1 DEF EdfVdArrival
    <2> QED BY <2>2 DEF PlaceOn, NoOpIf
  <1>3. \A d \in BusyOf(D) : running[d] \in JobIds
    BY <1>1, BusyJobs
  <1>5. \A d \in B : ByOrder => ~Precedes(Order(running[d]), Order(j))
    BY <1>3, RankDecides
  <1>6. \A d \in BusyOf(D) \ B :
           ByOrder /\ PreemptiveCpu(d) => ~Precedes(Order(j), Order(running[d]))
    BY <1>3, RankDecides
  <1> QED BY <1>1, <1>2, <1>5, <1>6, PlacedFair

(* ... criticality and deadlines, ...                                       *)
LEMMA CriticalPlacesFairly ==
    ASSUME IInv, policy \in {"Gcaps", "XSched", "Match"}, NEW cb, cb.on = "arrival",
           cb.job \in JobIds, NEW m, NEW a \in Answers(cb, m)
    PROVE  ArrivalIsFair(a, cb.job)
  <1> PICK j \in JobIds : j = cb.job
    OBVIOUS
  <1> PICK D : D = IF policy = "Match" THEN MatchChoice(j, m) ELSE LeastLoaded(Compatible(j))
    OBVIOUS
  <1> PICK B : B = {c \in BusyOf(D) : /\ Precedes(CriticalRank(j), CriticalRank(running[c]))
                                      /\ policy = "Match" => FullyPreemptive(c)}
    OBVIOUS
  <1>1. D \in SUBSET Compatible(j)
    BY DEF MatchChoice, LeastLoaded, LeastBy
  <1>2. \/ \E d \in IdleOf(D) : a = Dispatch(j, d, 0)
        \/ \E d \in B : a = Preempt(running[d], j, d, FALSE)
        \/ \E d \in BusyOf(D) \ B : a = Enqueue(j, d)
        \/ a = NoAction
    <2>1. CASE policy \in {"Gcaps", "XSched"}
      BY <2>1 DEF Answers, GcapsAnswers, XSchedAnswers, PlaceOn, NoOpIf
    <2>2. CASE policy = "Match"
      BY <2>2 DEF Answers, MatchAnswers, PlaceOn, NoOpIf
    <2> QED BY <2>1, <2>2
  <1>3. \A d \in BusyOf(D) : running[d] \in JobIds
    BY <1>1, BusyJobs
  <1>5. \A d \in B : ByOrder => ~Precedes(Order(running[d]), Order(j))
    BY <1>3, RankDecides DEF ByCriticality
  <1>6. \A d \in BusyOf(D) \ B :
           ByOrder /\ PreemptiveCpu(d) => ~Precedes(Order(j), Order(running[d]))
    BY <1>3, RankDecides DEF ByCriticality, PreemptiveCpu
  <1> QED BY <1>1, <1>2, <1>5, <1>6, PlacedFair

(* ... laxity and a plan, ...                                               *)
LEMMA LlfPlacesFairly ==
    ASSUME IInv, policy \in {"Llf", "Heft"}, NEW cb, cb.on = "arrival",
           cb.job \in JobIds, NEW m, NEW a \in Answers(cb, m)
    PROVE  ArrivalIsFair(a, cb.job)
  <1> PICK j \in JobIds : j = cb.job
    OBVIOUS
  <1> PICK D : D = IF policy = "Llf" THEN LeastLoaded(Compatible(j)) ELSE HeftTarget(j)
    OBVIOUS
  <1> PICK B : B = {c \in BusyOf(D) : /\ policy = "Llf"
                                      /\ Laxity(j, m) < Laxity(running[c], m)
                                      /\ FullyPreemptive(c)}
    OBVIOUS
  <1>1. D \in SUBSET Compatible(j)
    <2>1. CASE policy = "Llf"
      BY <2>1 DEF LeastLoaded, LeastBy
    <2>2. CASE policy = "Heft" /\ D = TargetDevice(j)
      BY <2>2 DEF TargetDevice
    <2>3. CASE policy = "Heft" /\ <<DagOf(j), NodeOf(j)>> \in DOMAIN Plan
      <3>1. D = {Plan[<<DagOf(j), NodeOf(j)>>]}
        BY <2>3 DEF HeftTarget
      <3>2. jobs[j].task \in TaskIds
        BY DEF IInv, TypeOK, JobRecord
      <3> QED BY <2>3, <3>1, <3>2, CpuPoliciesAssumption DEF DagOf, NodeOf, Compatible, TaskOf
    <2> QED BY <2>1, <2>2, <2>3 DEF HeftTarget
  <1>2. \/ \E d \in IdleOf(D) : a = Dispatch(j, d, 0)
        \/ \E d \in B : a = Preempt(running[d], j, d, FALSE)
        \/ \E d \in BusyOf(D) \ B : a = Enqueue(j, d)
        \/ a = NoAction
    <2>1. CASE policy = "Llf"
      BY <2>1 DEF Answers, LlfAnswers, PlaceOn, NoOpIf
    <2>2. CASE policy = "Heft"
      BY <2>2 DEF Answers, HeftAnswers, PlaceOn, NoOpIf
    <2> QED BY <2>1, <2>2
  <1> QED BY <1>1, <1>2, PlacedFair DEF ByOrder

(* ... deadlines and stages: the arriving job beats what it preempts.       *)
LEMMA CpEdfPlacesFairly ==
    ASSUME IInv, policy = "CpEdf", NEW cb, cb.on = "arrival",
           cb.job \in JobIds, NEW m, NumbersIn(m), NEW a \in Answers(cb, m)
    PROVE  ArrivalIsFair(a, cb.job)
  <1> PICK j \in JobIds : j = cb.job
    OBVIOUS
  <1> PICK D : D = LeastLoaded(Compatible(j))
    OBVIOUS
  <1> PICK B : B = {c \in BusyOf(D) : /\ Precedes(CpEdfRank(j, m), CpEdfRank(running[c], m))
                                      /\ FullyPreemptive(c)}
    OBVIOUS
  <1>1. D \in SUBSET Compatible(j)
    BY DEF LeastLoaded, LeastBy
  <1>2. \/ \E d \in IdleOf(D) : a = Dispatch(j, d, 0)
        \/ \E d \in B : a = Preempt(running[d], j, d, FALSE)
        \/ \E d \in BusyOf(D) \ B : a = Enqueue(j, d)
        \/ a = NoAction
    BY DEF Answers, CpEdfAnswers, PlaceOn, NoOpIf
  <1>3. \A d \in BusyOf(D) : running[d] \in JobIds
    BY <1>1, BusyJobs
  <1>4. ASSUME NEW d \in BusyOf(D)
        PROVE  /\ Precedes(CpEdfRank(j, m), CpEdfRank(running[d], m)) =>
                     ~Precedes(Order(running[d]), Order(j))
               /\ Precedes(Order(j), Order(running[d])) =>
                     Precedes(CpEdfRank(j, m), CpEdfRank(running[d], m))
    <2> PICK r \in JobIds : r = running[d]
      BY <1>3
    <2> PICK x, y : x = CpEdfRank(j, m) /\ y = CpEdfRank(r, m)
      OBVIOUS
    <2> PICK n \in Nat : n = 5
      OBVIOUS
    <2>1. /\ x \in [1 .. n -> Int] /\ y \in [1 .. n -> Int] /\ n >= 1
          /\ x[1] = Deadline(j) /\ y[1] = Deadline(r)
      BY LaxityTypes
    <2>2. (x[1] < y[1] => Precedes(x, y)) /\ (Precedes(x, y) => x[1] <= y[1])
      BY ONLY <2>1, PrecedesByPrefix
    <2>3. /\ Precedes(Order(r), Order(j)) <=> Deadline(r) < Deadline(j)
          /\ Precedes(Order(j), Order(r)) <=> Deadline(j) < Deadline(r)
          /\ Deadline(j) \in Int /\ Deadline(r) \in Int
      BY OrderMeans, JobNumbers DEF ByDeadline
    <2> QED BY <2>1, <2>2, <2>3
  <1>5. \A d \in B : ByOrder => ~Precedes(Order(running[d]), Order(j))
    BY <1>4
  <1>6. \A d \in BusyOf(D) \ B :
           ByOrder /\ PreemptiveCpu(d) => ~Precedes(Order(j), Order(running[d]))
    BY <1>4 DEF PreemptiveCpu
  <1> QED BY <1>1, <1>2, <1>5, <1>6, PlacedFair

(* An idle device is found where there is one.                              *)
LEMMA IdleFound ==
    ASSUME IInv, NEW D \in SUBSET DeviceIds, IdleOf(D) # {}
    PROVE  ShortestQueue(IdleOf(D)) # {} /\ ShortestQueue(IdleOf(D)) \subseteq IdleOf(D)
  <1>1. IdleOf(D) \in SUBSET DeviceIds
    BY DEF IdleOf
  <1> QED BY <1>1, ShortestQueueExists DEF ShortestQueue, LeastBy

(* Global EDF preempts the latest deadline where no device is idle.         *)
LEMMA GlobalEdfPlacesFairly ==
    ASSUME IInv, policy = "GlobalEdf", NEW cb, cb.on = "arrival", cb.job \in JobIds, NEW m,
           NEW a \in Answers(cb, m)
    PROVE  ArrivalIsFair(a, cb.job)
  <1> PICK j \in JobIds : j = cb.job
    OBVIOUS
  <1> PICK D : D = Compatible(j)
    OBVIOUS
  <1> PICK latest : latest = GreatestBy(BusyOf(D), LAMBDA d : EdfRank(running[d]))
    OBVIOUS
  <1> PICK victims : victims = {d \in latest : Deadline(j) < Deadline(running[d])}
    OBVIOUS
  <1> PICK idle, wait : idle = ShortestQueue(IdleOf(D)) /\ wait = ShortestQueue(D)
    OBVIOUS
  <1>1. D \in SUBSET DeviceIds /\ \A d \in BusyOf(D) : running[d] \in JobIds /\ running[d] # NoJob
    BY BusyJobs
  <1>2. a \in IdleElsePreempt(j, idle, victims, wait)
    BY DEF Answers, GlobalEdfAnswers, GlobalEdfArrival, LatestRunning
  <1>3. /\ latest \subseteq BusyOf(D)
        /\ \A v \in latest : \A d \in BusyOf(D) : ~Precedes(EdfRank(running[v]), EdfRank(running[d]))
    BY DEF GreatestBy
  <1>4. idle \subseteq IdleOf(D) /\ (IdleOf(D) # {} => idle # {}) /\ wait \subseteq D
    BY <1>1, IdleFound DEF ShortestQueue, LeastBy
  <1>5. \A d \in BusyOf(D) :
           /\ Precedes(Order(running[d]), Order(j)) <=> Deadline(running[d]) < Deadline(j)
           /\ Precedes(Order(j), Order(running[d])) <=> Deadline(j) < Deadline(running[d])
           /\ Deadline(j) \in Int /\ Deadline(running[d]) \in Int
    BY <1>1, OrderMeans, JobNumbers DEF ByDeadline
  <1>6. \A d \in victims : ByOrder => ~Precedes(Order(running[d]), Order(j))
    <2> SUFFICES ASSUME NEW d \in victims PROVE ~Precedes(Order(running[d]), Order(j))
      OBVIOUS
    <2>1. d \in BusyOf(D) /\ Deadline(j) < Deadline(running[d])
      BY <1>3
    <2> QED BY <1>5, <2>1
  <1>7. ASSUME victims = {}, NEW d \in BusyOf(D), ByOrder
        PROVE  ~Precedes(Order(j), Order(running[d]))
    <2>1. BusyOf(D) \in SUBSET DeviceIds /\ BusyOf(D) # {}
          /\ \A c \in BusyOf(D) : running[c] # NoJob
      BY <1>1 DEF BusyOf
    <2>2. PICK v \in latest : TRUE
      BY <2>1, LastRunning
    <2>3. v \in BusyOf(D) /\ ~(Deadline(j) < Deadline(running[v]))
      BY <1>3, <1>7
    <2>4. ~Precedes(Order(j), Order(running[v]))
      BY <1>5, <2>3
    <2>5. ~Precedes(Order(running[v]), Order(running[d]))
      BY <1>1, <1>3, <2>3, RankDecides DEF ByDeadline
    <2> QED BY <1>1, <1>7, <2>3, <2>4, <2>5, OrderIsWeak DEF Schedulers
  <1> QED BY <1>2, <1>3, <1>4, <1>6, <1>7, IdleElsePreemptFair

(* GPreempt looks for the least critical job among the devices it may       *)
(* preempt.                                                                 *)
LEMMA GPreemptPlacesFairly ==
    ASSUME IInv, policy = "GPreempt", NEW cb, cb.on = "arrival", cb.job \in JobIds, NEW m,
           NEW a \in Answers(cb, m)
    PROVE  ArrivalIsFair(a, cb.job)
  <1> PICK j \in JobIds : j = cb.job
    OBVIOUS
  <1> PICK D : D = Compatible(j)
    OBVIOUS
  <1> PICK E : E = BusyOf(FullyPreemptiveOf(D))
    OBVIOUS
  <1> PICK last : last = GreatestBy(E, LAMBDA d : CriticalRank(running[d]))
    OBVIOUS
  <1> PICK victims :
        victims = {d \in last : Precedes(CriticalRank(j), CriticalRank(running[d]))}
    OBVIOUS
  <1> PICK idle, wait : idle = ShortestQueue(IdleOf(D)) /\ wait = LeastLoaded(D)
    OBVIOUS
  <1>1. D \in SUBSET DeviceIds /\ \A d \in BusyOf(D) : running[d] \in JobIds /\ running[d] # NoJob
    BY BusyJobs
  <1>2. a \in IdleElsePreempt(j, idle, victims, wait)
    BY DEF Answers, GPreemptAnswers, GPreemptArrival
  <1>3. /\ last \subseteq E /\ E \subseteq BusyOf(D)
        /\ \A v \in last : \A d \in E : ~Precedes(CriticalRank(running[v]), CriticalRank(running[d]))
    BY DEF GreatestBy, BusyOf, FullyPreemptiveOf
  <1>4. idle \subseteq IdleOf(D) /\ (IdleOf(D) # {} => idle # {}) /\ wait \subseteq D
    <2>1. wait \subseteq D
      BY DEF LeastLoaded, LeastBy
    <2>2. idle \subseteq IdleOf(D)
      BY DEF ShortestQueue, LeastBy
    <2> QED BY <1>1, <2>1, <2>2, IdleFound
  <1>6. \A d \in victims : ByOrder => ~Precedes(Order(running[d]), Order(j))
    BY <1>1, <1>3, RankDecides DEF ByCriticality
  <1>7. ASSUME victims = {}, NEW d \in BusyOf(D), ByOrder, PreemptiveCpu(d)
        PROVE  ~Precedes(Order(j), Order(running[d]))
    <2>1. d \in E /\ E \in SUBSET DeviceIds /\ \A c \in E : running[c] # NoJob
      BY <1>1, <1>3, <1>7 DEF BusyOf, FullyPreemptiveOf, PreemptiveCpu
    <2>2. PICK v \in last : TRUE
      BY <2>1, LastRunning
    <2>3. v \in BusyOf(D) /\ ~Precedes(CriticalRank(j), CriticalRank(running[v]))
      BY <1>3, <1>7
    <2>4. ~Precedes(Order(j), Order(running[v]))
      BY <1>1, <2>3, RankDecides DEF ByCriticality
    <2>5. ~Precedes(Order(running[v]), Order(running[d]))
      BY <1>1, <1>3, <2>1, <2>3, RankDecides DEF ByCriticality
    <2> QED BY <1>1, <1>7, <2>3, <2>4, <2>5, OrderIsWeak DEF Schedulers
  <1> QED BY <1>2, <1>3, <1>4, <1>6, <1>7, IdleElsePreemptFair

(* Where no job is beaten there are no victims, and nowhere else.           *)
LEMMA RtgpuPlacesFairly ==
    ASSUME IInv, policy = "Rtgpu", NEW cb, cb.on = "arrival", cb.job \in JobIds, NEW m,
           NEW a \in Answers(cb, m)
    PROVE  ArrivalIsFair(a, cb.job)
  <1> PICK j \in JobIds : j = cb.job
    OBVIOUS
  <1> PICK D : D = Compatible(j)
    OBVIOUS
  <1> PICK E : E = {d \in BusyOf(FullyPreemptiveOf(D)) :
                       Precedes(CriticalRank(j), CriticalRank(running[d]))}
    OBVIOUS
  <1> PICK victims : victims = GreatestBy(E, LAMBDA d : CriticalRank(running[d]))
    OBVIOUS
  <1> PICK idle, wait :
        /\ idle = LeastBy(IdleOf(D), LAMBDA d : <<Pressure(j, d), KindRank(d), d>>)
        /\ wait = LeastBy(D, LAMBDA d : <<Pressure(j, d), BusyRank(d), KindRank(d), d>>)
    OBVIOUS
  <1>1. D \in SUBSET DeviceIds /\ \A d \in BusyOf(D) : running[d] \in JobIds /\ running[d] # NoJob
    BY BusyJobs
  <1>2. a \in IdleElsePreempt(j, idle, victims, wait)
    <2>1. a \in RtgpuArrival(j)
      BY DEF Answers, RtgpuAnswers
    <2>2. victims = Victims(j, D, CriticalRank)
      BY DEF Victims
    <2> QED BY <2>1, <2>2, Zenon DEF RtgpuArrival
  <1>3. victims \subseteq E /\ E \subseteq BusyOf(D)
    BY DEF GreatestBy, BusyOf, FullyPreemptiveOf
  <1>4. idle \subseteq IdleOf(D) /\ (IdleOf(D) # {} => idle # {}) /\ wait \subseteq D
    <2>1. IdleOf(D) \in SUBSET DeviceIds
      BY <1>1 DEF IdleOf
    <2> QED BY <2>1, LeastPressureExists DEF LeastBy
  <1>6. \A d \in victims : ByOrder => ~Precedes(Order(running[d]), Order(j))
    BY <1>1, <1>3, RankDecides DEF ByCriticality
  <1>7. ASSUME victims = {}, NEW d \in BusyOf(D), ByOrder, PreemptiveCpu(d)
        PROVE  ~Precedes(Order(j), Order(running[d]))
    <2>1. E \in SUBSET DeviceIds /\ \A c \in E : running[c] # NoJob
      BY <1>1, <1>3 DEF BusyOf
    <2>2. E = {}
      BY <1>7, <2>1, LastRunning
    <2>3. ~Precedes(CriticalRank(j), CriticalRank(running[d]))
      BY <1>7, <2>2 DEF BusyOf, FullyPreemptiveOf, PreemptiveCpu
    <2> QED BY <1>1, <1>7, <2>3, RankDecides DEF ByCriticality
  <1> QED BY <1>2, <1>3, <1>4, <1>6, <1>7, IdleElsePreemptFair

(* The GPU priority scheduler does the same by priority.                    *)
LEMMA GpuPpPlacesFairly ==
    ASSUME IInv, policy = "GpuPp", NEW cb, cb.on = "arrival", cb.job \in JobIds, NEW m,
           NEW a \in Answers(cb, m)
    PROVE  ArrivalIsFair(a, cb.job)
  <1> PICK j \in JobIds : j = cb.job
    OBVIOUS
  <1> PICK D : D = GpusFirst(j)
    OBVIOUS
  <1> PICK E : E = {d \in BusyOf(FullyPreemptiveOf(D)) :
                       Precedes(PriorityRank(j), PriorityRank(running[d]))}
    OBVIOUS
  <1> PICK victims : victims = GreatestBy(E, LAMBDA d : PriorityRank(running[d]))
    OBVIOUS
  <1> PICK idle, wait : idle = ShortestQueue(IdleOf(D)) /\ wait = LeastLoaded(D)
    OBVIOUS
  <1>0. D \in SUBSET Compatible(j)
    BY DEF GpusFirst
  <1>1. D \in SUBSET DeviceIds /\ \A d \in BusyOf(D) : running[d] \in JobIds /\ running[d] # NoJob
    BY <1>0, BusyJobs
  <1>2. a \in IdleElsePreempt(j, idle, victims, wait)
    BY DEF Answers, GpuPpAnswers, GpuPpArrival, Victims
  <1>3. victims \subseteq E /\ E \subseteq BusyOf(D)
    BY DEF GreatestBy, BusyOf, FullyPreemptiveOf
  <1>4. idle \subseteq IdleOf(D) /\ (IdleOf(D) # {} => idle # {}) /\ wait \subseteq D
    <2>1. wait \subseteq D
      BY DEF LeastLoaded, LeastBy
    <2>2. idle \subseteq IdleOf(D)
      BY DEF ShortestQueue, LeastBy
    <2> QED BY <1>1, <2>1, <2>2, IdleFound
  <1>6. \A d \in victims : ByOrder => ~Precedes(Order(running[d]), Order(j))
    BY <1>1, <1>3, RankDecides
  <1>7. ASSUME victims = {}, NEW d \in BusyOf(D), ByOrder, PreemptiveCpu(d)
        PROVE  ~Precedes(Order(j), Order(running[d]))
    <2>1. E \in SUBSET DeviceIds /\ \A c \in E : running[c] # NoJob
      BY <1>1, <1>3 DEF BusyOf
    <2>2. E = {}
      BY <1>7, <2>1, LastRunning
    <2>3. ~Precedes(PriorityRank(j), PriorityRank(running[d]))
      BY <1>7, <2>2 DEF BusyOf, FullyPreemptiveOf, PreemptiveCpu
    <2> QED BY <1>1, <1>7, <2>3, RankDecides
  <1> QED BY <1>0, <1>2, <1>3, <1>4, <1>6, <1>7, IdleElsePreemptFair

(* Together.                                                                *)
LEMMA ArrivalAnswersAreFair ==
    ASSUME IInv, policy \in Schedulers \ {"Gang"}, level = "Lo",
           NEW m, policy \in {"Llf", "CpEdf"} => NumbersIn(m),
           NEW cb, cb.on = "arrival", cb.job \in JobIds, NEW a \in Answers(cb, m)
    PROVE  ArrivalIsFair(a, cb.job)
  BY FpPlacesFairly, DeadlinePlacesFairly, EdfVdPlacesFairly, CriticalPlacesFairly,
     LlfPlacesFairly, CpEdfPlacesFairly, GlobalEdfPlacesFairly, GPreemptPlacesFairly,
     RtgpuPlacesFairly, GpuPpPlacesFairly
  DEF Schedulers

-----------------------------------------------------------------------------
(* Arrivals                                                                 *)

(* Only a new job gets an arrival.                                          *)
NoNewArrivals ==
    \A e \in events' : e.kind = "TaskArrival" => e \in events \/ e.job \notin JobIds

(* Steps that add none.                                                     *)
LEMMA OtherArrivals ==
    ASSUME \/ events' \subseteq events
           \/ \E S : events' \subseteq events \cup S /\ \A e \in S : e.kind # "TaskArrival"
    PROVE  NoNewArrivals
  BY DEF NoNewArrivals

(* Releases add one for the job they create.                                *)
LEMMA ReleaseArrivals ==
    ASSUME IInv, ScheduleInitialArrival \/ ScheduleReplayJob \/ ReleaseNextJob
    PROVE  NoNewArrivals
  <1>0. UNCHANGED events => NoNewArrivals
    BY DEF NoNewArrivals
  <1>1. ASSUME NEW r, NEW t, AddJob(r, t) PROVE NoNewArrivals
    <2> PICK arrival : arrival = Event(r.release, seq, "TaskArrival", nextJob, 0, NoDevice)
      OBVIOUS
    <2> PICK check : check = Event(t, seq + 1, "DeadlineCheck", nextJob, 0, NoDevice)
      OBVIOUS
    <2>1. events' = events \cup {arrival, check}
      BY <1>1 DEF AddJob
    <2>2. arrival.job = nextJob /\ check.job = nextJob
      BY DEF Event
    <2>3. nextJob \notin JobIds
      BY DEF IInv, TypeOK, JobIds
    <2> QED BY <2>1, <2>2, <2>3 DEF NoNewArrivals
  <1>2. ASSUME NEW t, NEW release, ScheduleJobRelease(t, release) PROVE NoNewArrivals
    BY <1>0, <1>1, <1>2 DEF ScheduleJobRelease, eventVars
  <1>3. CASE ScheduleInitialArrival
    BY <1>0, <1>2, <1>3 DEF ScheduleInitialArrival, eventVars
  <1>4. CASE ScheduleReplayJob
    BY <1>0, <1>1, <1>4 DEF ScheduleReplayJob, eventVars
  <1>5. CASE ReleaseNextJob
    BY <1>0, <1>2, <1>5 DEF ReleaseNextJob, eventVars
  <1> QED BY <1>3, <1>4, <1>5

(* No step adds an arrival of an old job.                                   *)
LEMMA StepArrivals == IInv /\ [Next]_vars => NoNewArrivals
  <1> SUFFICES ASSUME IInv, [Next]_vars PROVE NoNewArrivals
    OBVIOUS
  <1>1. CASE ScheduleInitialArrival \/ ScheduleReplayJob \/ ReleaseNextJob
    BY <1>1, ReleaseArrivals
  <1>2. CASE \/ DispatchTerminal \/ DispatchBusy \/ DispatchWithoutModel \/ PreemptNow
             \/ PreemptDeferred \/ EnqueueJob \/ DropLoJobs \/ DispatchIdleDone \/ Ended
             \/ SchedulerDropsNoMore \/ UNCHANGED vars
             \/ \E j : SchedulerDropsLo(j)
             \/ \E a : DispatchIdle(a) \/ Reevaluate(a)
    <2>1. UNCHANGED events
      BY <1>2 DEF DispatchTerminal, DispatchBusy, DispatchWithoutModel, PreemptNow, PreemptDeferred,
                  EnqueueJob, DropLoJobs, DispatchIdleDone, Ended, SchedulerDropsNoMore, vars,
                  SchedulerDropsLo, DispatchIdle, Reevaluate, eventVars
    <2> QED BY <2>1, OtherArrivals
  <1>3. CASE \/ DiscardStale \/ SimulationEnd
             \/ \E e \in events : \/ DeadlineCheck(e) \/ BudgetOverrun(e)
                                  \/ TriggeredReevaluation(e) \/ PeriodicReevaluation(e)
             \/ \E e, a : TaskArrival(e, a) \/ JobComplete(e, a) \/ PreemptionPoint(e, a)
    <2>1. events' \subseteq events
      BY <1>3 DEF DiscardStale, SimulationEnd, DeadlineCheck, BudgetOverrun, TriggeredReevaluation,
                  PeriodicReevaluation, TaskArrival, JobComplete, PreemptionPoint, Handles, Pops
    <2> QED BY <2>1, OtherArrivals
  <1>4. CASE DispatchRun
    <2>1. PICK r : events' = events \cup StartEvents(act.job, r, act.dev, act.penalty)
      BY <1>4 DEF DispatchRun
    <2>2. \A e \in StartEvents(act.job, r, act.dev, act.penalty) : e.kind # "TaskArrival"
      BY DEF StartEvents, Event
    <2> QED BY <2>1, <2>2, OtherArrivals
  <1>5. CASE DispatchTransfer
    <2>1. PICK source, ver : InitiateTransfer(act.job, source, act.dev, ver)
      BY <1>5 DEF DispatchTransfer
    <2>2. \/ UNCHANGED events
          \/ \E t : events' = events \cup
                       {Event(t, seq, "TransferComplete", act.job, ver, act.dev)}
      BY <2>1 DEF InitiateTransfer
    <2>3. \A t : Event(t, seq, "TransferComplete", act.job, ver, act.dev).kind = "TransferComplete"
      BY DEF Event
    <2> QED BY <2>2, <2>3 DEF NoNewArrivals
  <1>6. CASE ReschedulePoint
    <2>1. \/ UNCHANGED events
          \/ \E t, v : events' = events \cup
                          {Event(t, seq, "PreemptionPoint", phase.job, v, phase.k)}
      BY <1>6 DEF ReschedulePoint, eventVars
    <2>2. \A t, v : Event(t, seq, "PreemptionPoint", phase.job, v, phase.k).kind = "PreemptionPoint"
      BY DEF Event
    <2> QED BY <2>1, <2>2 DEF NoNewArrivals
  <1>7. CASE DropJob \/ \E e, a : TransferComplete(e, a)
    <2>1. CASE DropJob
      BY <2>1, ReleaseBusEvents DEF DropJob, NoNewArrivals
    <2>2. CASE \E e, a : TransferComplete(e, a)
      <3>1. PICK e : ReleaseBus({x \in active : x.job = e.job}, pending, events \ {e}, e.time)
        BY <2>2 DEF TransferComplete
      <3> QED BY <3>1, ReleaseBusEvents DEF NoNewArrivals
    <2> QED BY <1>7, <2>1, <2>2
  <1>8. CASE StartRun \/ ReevaluateDone
    <2>1. ASSUME NEW time, NEW end, SchedulePeriodicReevaluation(time, end),
                 \A e \in end : e.kind = "SimulationEnd"
          PROVE  NoNewArrivals
      <3>1. \/ events' = events \cup end
            \/ events' = events \cup end \cup
                   {Event(time, seq + 1, "Periodic", NoJob, tick.gen + 1, NoDevice)}
        BY <2>1 DEF SchedulePeriodicReevaluation
      <3>2. Event(time, seq + 1, "Periodic", NoJob, tick.gen + 1, NoDevice).kind = "Periodic"
        BY DEF Event
      <3> QED BY <2>1, <3>1, <3>2 DEF NoNewArrivals
    <2> PICK last : last = Event(Duration, seq, "SimulationEnd", NoJob, 0, NoDevice)
      OBVIOUS
    <2>2. last.kind = "SimulationEnd"
      BY DEF Event
    <2>3. CASE StartRun
      <3>1. \/ events' = events \cup {last}
            \/ SchedulePeriodicReevaluation(PeriodicInterval, {last})
        BY <2>3 DEF StartRun
      <3> QED BY <2>1, <2>2, <3>1 DEF NoNewArrivals
    <2>4. CASE ReevaluateDone
      <3>1. UNCHANGED events \/ SchedulePeriodicReevaluation(tick.next + PeriodicInterval, {})
        BY <2>4 DEF ReevaluateDone, eventVars
      <3> QED BY <2>1, <3>1 DEF NoNewArrivals
    <2> QED BY <1>8, <2>3, <2>4
  <1>9. CASE ScheduleTriggeredReevaluation
    <2>1. \/ UNCHANGED events
          \/ \E t, g : events' = events \cup {Event(t, seq, "Triggered", NoJob, g, NoDevice)}
      BY <1>9 DEF ScheduleTriggeredReevaluation, eventVars
    <2>2. \A t, g : Event(t, seq, "Triggered", NoJob, g, NoDevice).kind = "Triggered"
      BY DEF Event
    <2> QED BY <2>1, <2>2 DEF NoNewArrivals
  <1> QED BY <1>1, <1>2, <1>3, <1>4, <1>5, <1>6, <1>7, <1>8, <1>9
          DEF Next, EngineStep, SchedulerStep, EventsOf

-----------------------------------------------------------------------------
(* Regular runs                                                             *)

(* The phases of a mode switch follow each other only.                      *)
SwitchPhases == {"critical", "dropLo", "idle"}

(* The steps that touch no job make no regular run of another one.          *)
LEMMA QuietUndisturbed ==
    ASSUME IInv, Quiet, Undisturbed'
    PROVE  Undisturbed /\ (phase'.op \in SwitchPhases => phase.op \in SwitchPhases)
  <1> USE DEF SwitchPhases
  <1>1. \A op, k : Phase(op, k).op = op
    BY DEF Phase
  <1>2. Poll.op = "poll" /\ Trigger.op = "trigger"
    BY <1>1 DEF Poll, Trigger
  <1>3. CASE \E e \in events : BudgetOverrun(e)
    <2>1. level' = "Hi"
      BY <1>3 DEF BudgetOverrun
    <2> QED BY <2>1 DEF Undisturbed
  <1>4. CASE \E e \in events : TriggeredReevaluation(e) \/ PeriodicReevaluation(e)
    <2>1. /\ UNCHANGED <<level, metrics>>
          /\ phase'.op \notin SwitchPhases \/ UNCHANGED phase
      BY <1>1, <1>4 DEF TriggeredReevaluation, PeriodicReevaluation
    <2> QED BY <2>1 DEF Undisturbed
  <1>5. CASE \/ ScheduleInitialArrival \/ ScheduleReplayJob \/ StartRun \/ SimulationEnd
             \/ ReleaseNextJob \/ ReschedulePoint \/ DispatchIdleDone
             \/ ReevaluateDone \/ ScheduleTriggeredReevaluation
    <2>1. UNCHANGED <<level, metrics>>
      BY <1>5 DEF ScheduleInitialArrival, ScheduleReplayJob, StartRun, SimulationEnd,
         ReleaseNextJob, ReschedulePoint, DispatchIdleDone, ReevaluateDone,
         ScheduleTriggeredReevaluation
    <2>2. phase'.op \notin SwitchPhases
      BY <1>1, <1>2, <1>5 DEF ScheduleInitialArrival, ScheduleReplayJob, StartRun, SimulationEnd,
         ReleaseNextJob, ReschedulePoint, DispatchIdleDone, ReevaluateDone,
         ScheduleTriggeredReevaluation
    <2> QED BY <2>1, <2>2 DEF Undisturbed
  <1>6. CASE SchedulerDropsNoMore
    BY <1>6 DEF SchedulerDropsNoMore, Continues, Undisturbed
  <1>7. CASE DiscardStale \/ Ended
    BY <1>7 DEF DiscardStale, Ended, vars, Undisturbed
  <1> QED BY <1>3, <1>4, <1>5, <1>6, <1>7 DEF Quiet

(* Neither does any other step: a run that is regular has always been.      *)
LEMMA UndisturbedBefore ==
    ASSUME IInv, policy \in Schedulers, [PolicyNext]_policyVars, Undisturbed'
    PROVE  Undisturbed /\ (phase'.op \in SwitchPhases => phase.op \in SwitchPhases)
  <1>1. CASE \E cb : Consults(cb)
    BY <1>1 DEF Consults, Undisturbed, SwitchPhases
  <1>2. CASE \E cb : Observes(cb)
    BY <1>2 DEF Observes, Undisturbed, SwitchPhases
  <1>3. CASE \E a : Reevaluates(a)
    <2>1. phase \in PhaseRecord
      BY DEF IInv, TypeOK
    <2>2. phase'.op = phase.op /\ UNCHANGED <<level, metrics>>
      BY <1>3, <2>1 DEF Reevaluates, Reevaluate, PhaseRecord
    <2> QED BY <2>2 DEF Undisturbed
  <1>4. CASE Unasked
    <2>1. CASE Acting
      BY <2>1, ActingKeepsPlaced DEF Undisturbed
    <2>2. CASE \E e \in events : DeadlineCheck(e)
      BY <2>2, DeadlineCheckEffect DEF Undisturbed
    <2>3. CASE Purging
      BY <2>3 DEF Purging, Undisturbed, SwitchPhases
    <2>4. CASE UNCHANGED policyVars
      BY <2>4 DEF policyVars, vars, Undisturbed
    <2> QED BY <1>4, <2>1, <2>2, <2>3, <2>4, QuietUndisturbed DEF Unasked
  <1> QED BY <1>1, <1>2, <1>3, <1>4, StepsOfAPolicy

(* Where nothing ends early a job arrives as it was created.                *)
LEMMA ArrivalsStayReleased ==
    ASSUME IInv, IInv', policy \in Schedulers, [PolicyNext]_policyVars,
           \A j \in JobIds' : jobs'[j].state \notin {"Dropped", "DeadlineMissed"},
           \A e \in EventsOf("TaskArrival") : jobs[e.job].state = "Released"
    PROVE  \A e \in EventsOf("TaskArrival")' : jobs'[e.job].state = "Released"
  <1> SUFFICES ASSUME NEW e \in events', e.kind = "TaskArrival"
               PROVE  jobs'[e.job].state = "Released"
    BY DEF EventsOf
  <1>1. e.job \in JobIds' /\ jobs'[e.job].state \in {"Released"} \cup TerminalStates
    BY DEF IInv, EventsAreSound, EventsAreWellFormed, ArrivalsAreFresh
  <1>2. jobs'[e.job].state \in {"Released", "Completed"}
    BY <1>1 DEF TerminalStates
  <1>3. CASE e.job \notin JobIds
    BY <1>1, <1>3, FateOfJobs DEF JobsFate
  <1>4. CASE e.job \in JobIds
    <2>1. [Next]_vars
      BY PolicyNextIsNext
    <2>2. e \in events /\ JobAllowed(e.job)
      BY <1>4, <2>1, StepArrivals, NextJobs DEF NoNewArrivals, JobsAllowed
    <2>3. jobs[e.job].state = "Released"
      BY <2>2 DEF EventsOf
    <2> QED BY <1>2, <2>2, <2>3 DEF JobAllowed, LegalSuccessors
  <1> QED BY <1>3, <1>4

-----------------------------------------------------------------------------
(* No device idles while a job waits for it                                 *)

(* What BusyIInv says of a regular run.                                     *)
AllKept == NoneEndsEarly /\ PlacesAreSound /\ \A d \in DeviceIds : KeptBusy(d)

(* What a step that executes an action must see to.                         *)
LEMMA KeptByAct ==
    ASSUME IInv, AllKept, Acting,
           act'.op \in {"none", "dispatch", "enqueue"},
           act'.op = "dispatch" => running'[act'.dev] = NoJob,
           act'.op = "enqueue" => running'[act'.dev] # NoJob,
           \A j \in JobIds : jobs'[j].state \notin {"Dropped", "DeadlineMissed"},
           \A e \in EventsOf("TaskArrival")' : jobs'[e.job].state = "Released",
           nextJob' = nextJob,
           PlacedJob' # NoJob => jobs'[PlacedJob'].state \notin TerminalStates,
           \A d \in DeviceIds : KeptBusy(d)'
    PROVE  AllKept'
  <1>1. phase' = phase
    BY ActingKeepsPlaced
  <1>2. NoneEndsEarly'
    BY <1>1 DEF AllKept, NoneEndsEarly, IsTerminal, JobIds
  <1>3. PlacesAreSound'
    BY DEF PlacesAreSound
  <1> QED BY <1>2, <1>3 DEF AllKept

(* Executing an action keeps the devices busy.                              *)
LEMMA ActingKeeps ==
    ASSUME IInv, TasksHaveModels, AllKept, Acting,
           \A e \in EventsOf("TaskArrival")' : jobs'[e.job].state = "Released"
    PROVE  AllKept'
  <1>0. /\ act.op # "drop" /\ (PlacedJob # NoJob => ~IsTerminal(PlacedJob))
        /\ act.op = "dispatch" => running[act.dev] = NoJob
        /\ act.op \in {"enqueue", "preempt"} => running[act.dev] # NoJob
        /\ act.op = "preempt" => running[act.dev] = act.job
        /\ \A j \in JobIds : jobs[j].state \notin {"Dropped", "DeadlineMissed"}
        /\ \A d \in DeviceIds : KeptBusy(d)
    BY DEF AllKept, NoneEndsEarly, PlacesAreSound
  <1>1. CASE DispatchTerminal
    <2>1. act.op = "dispatch" /\ IsTerminal(act.job) /\ act.job # NoJob
      <3>1. act.op = "dispatch" /\ IsTerminal(act.job)
        BY <1>1 DEF DispatchTerminal, Executing
      <3>2. act.job \in JobIds
        BY <3>1 DEF IInv, ActionIsSound, SoundAction, Placeable
      <3> QED BY <3>1, <3>2, JobIdsAreNat DEF IInv, NoJob
    <2> QED BY <1>0, <2>1 DEF PlacedJob, PlacedBy
  <1>2. CASE DispatchBusy
    BY <1>0, <1>2, DispatchBusyEffect
  <1>3. CASE DispatchWithoutModel
    BY <1>3, DispatchHasModel
  <1>4. CASE DropJob
    BY <1>0, <1>4, DropJobEffect
  <1>5. CASE DispatchTransfer \/ DispatchRun
    <2>1. /\ MayDispatch
          /\ \E s \in {"Transferring", "Running"} : Becomes(act.job, s, act.dev)
          /\ \/ NeedsTransfer(act.job, act.dev) /\ running' = running
             \/ running' = [running EXCEPT ![act.dev] = act.job]
      BY <1>5, DispatchTransferEffect, DispatchRunEffect
    <2>2. /\ act.op = "dispatch" /\ act' = NoAction /\ act.job \in JobIds /\ act.dev \in DeviceIds
          /\ LeavesQueues(act.job)
      BY <2>1, MayDispatchEffect
    <2>3. act.job # NoJob /\ running \in [DeviceIds -> JobIds \cup {NoJob}]
      BY <2>2, JobIdsAreNat DEF IInv, NoJob, TypeOK
    <2>4. ASSUME NEW d \in DeviceIds
          PROVE  KeptBusy(d)'
      <3>1. CASE running'[d] = running[d]
        <4>1. CASE d = act.dev
          <5>1. NeedsTransfer(act.job, act.dev)
            BY <1>0, <2>1, <2>2, <2>3, <3>1, <4>1
          <5> QED BY <1>0, <2>2, <3>1, <4>1, <5>1 DEF KeptBusy, HandedOver, LeavesQueues, YieldsBeforeData
        <4>2. CASE d # act.dev
          BY <1>0, <2>2, <3>1, <4>2 DEF KeptBusy, HandedOver, LeavesQueues, YieldsBeforeData
        <4> QED BY <4>1, <4>2
      <3>2. CASE running'[d] # running[d]
        <4>1. running'[d] # NoJob
          BY <2>1, <2>3, <3>2
        <4> QED BY <4>1 DEF KeptBusy
      <3> QED BY <3>1, <3>2
    <2>5. PlacedJob' = NoJob /\ act'.op = "none"
      BY <2>2 DEF PlacedJob, PlacedBy, NoAction
    <2>6. /\ nextJob' = nextJob
          /\ \A j \in JobIds : jobs'[j].state \notin {"Dropped", "DeadlineMissed"}
      BY <1>0, <2>1 DEF Becomes
    <2> QED BY <2>4, <2>5, <2>6, KeptByAct
  <1>6. CASE PreemptNow
    <2>1. /\ act.op = "preempt" /\ AllowsPreemption(act.dev, act.atPoint)
          /\ act.dev \in DeviceIds /\ act.job \in JobIds /\ act.by \in JobIds /\ act.by # act.job
          /\ Becomes(act.job, "Suspended", act.dev) /\ Joins(act.job, act.dev)
          /\ running' = [running EXCEPT ![act.dev] = NoJob]
          /\ act'.op = "dispatch" /\ act'.job = act.by /\ act'.dev = act.dev
      BY <1>6, PreemptNowEffect
    <2>2. jobs'[act.by] = jobs[act.by] /\ act.by # NoJob /\ PlacedJob = act.by /\ PlacedJob' = act.by
      BY <2>1, JobIdsAreNat DEF Becomes, IInv, NoJob, PlacedJob, PlacedBy
    <2>3. /\ running \in [DeviceIds -> JobIds \cup {NoJob}]
          /\ queue \in [DeviceIds -> SUBSET JobIds]
      BY DEF IInv, TypeOK
    <2>4. YieldsBeforeData(act.dev) \/ ~NeedsTransfer(act.by, act.dev)
      BY <2>1 DEF AllKept, PlacesAreSound
    <2>5. ASSUME NEW d \in DeviceIds
          PROVE  KeptBusy(d)'
      <3>1. CASE d = act.dev
        BY <2>1, <2>2, <2>4, <3>1 DEF KeptBusy, HandedOver, NeedsTransfer, TaskOf, YieldsBeforeData
      <3>2. CASE d # act.dev
        <4>1. running'[d] = running[d] /\ queue'[d] = queue[d]
          BY <2>1, <2>3, <3>2 DEF Joins
        <4> QED BY <1>0, <2>1, <4>1 DEF KeptBusy, HandedOver, YieldsBeforeData
      <3> QED BY <3>1, <3>2
    <2>6. running'[act'.dev] = NoJob
      BY <2>1, <2>3
    <2>7. /\ nextJob' = nextJob
          /\ \A j \in JobIds : jobs'[j].state \notin {"Dropped", "DeadlineMissed"}
          /\ jobs'[PlacedJob'].state \notin TerminalStates
      BY <1>0, <2>1, <2>2 DEF Becomes, IsTerminal
    <2> QED BY <2>1, <2>5, <2>6, <2>7, KeptByAct
  <1>7. CASE PreemptDeferred
    <2>1. /\ JobsStay /\ UNCHANGED <<running, queue>>
          /\ act.op = "preempt" /\ act.by \in JobIds
          /\ act'.op = "enqueue" /\ act'.job = act.by /\ act'.dev = act.dev
      BY <1>7, PreemptDeferredEffect
    <2>2. PlacedJob' = PlacedJob /\ running'[act'.dev] # NoJob
      BY <1>0, <2>1 DEF PlacedJob, PlacedBy
    <2>3. \A d \in DeviceIds : KeptBusy(d)'
      BY <1>0, <2>1 DEF KeptBusy, HandedOver, YieldsBeforeData
    <2>4. /\ nextJob' = nextJob
          /\ \A j \in JobIds : jobs'[j].state \notin {"Dropped", "DeadlineMissed"}
          /\ PlacedJob' # NoJob => jobs'[PlacedJob'].state \notin TerminalStates
      BY <1>0, <2>1, <2>2 DEF JobsStay, IsTerminal
    <2> QED BY <2>1, <2>2, <2>3, <2>4, KeptByAct
  <1>8. CASE EnqueueJob
    <2>1. /\ act.op = "enqueue" /\ act' = NoAction /\ act.job \in JobIds /\ act.dev \in DeviceIds
          /\ running' = running
          /\ \/ JobsStay /\ queue' = queue
             \/ Becomes(act.job, "Ready", act.dev) /\ Joins(act.job, act.dev)
      BY <1>8, EnqueueJobEffect
    <2>2. \A d \in DeviceIds : d # act.dev => queue'[d] = queue[d]
      BY <2>1 DEF Joins, IInv, TypeOK
    <2>3. \A d \in DeviceIds : KeptBusy(d)'
      BY <1>0, <2>1, <2>2 DEF KeptBusy, HandedOver, YieldsBeforeData
    <2>4. /\ nextJob' = nextJob
          /\ \A j \in JobIds : jobs'[j].state \notin {"Dropped", "DeadlineMissed"}
      BY <1>0, <2>1 DEF JobsStay, Becomes
    <2>5. PlacedJob' = NoJob /\ act'.op = "none"
      BY <2>1 DEF PlacedJob, PlacedBy, NoAction
    <2> QED BY <2>3, <2>4, <2>5, KeptByAct
  <1> QED BY <1>1, <1>2, <1>3, <1>4, <1>5, <1>6, <1>7, <1>8 DEF Acting

(* What an answer does with a job and a device.                             *)
Answered(j, d) ==
    \/ act'.op = "none"
    \/ act'.op = "dispatch" /\ act'.job = j /\ act'.dev = d /\ running'[d] = NoJob
    \/ act'.op = "enqueue" /\ act'.job = j /\ act'.dev = d /\ running'[d] # NoJob
    \/ /\ act'.op = "preempt" /\ act'.job = running'[d] /\ act'.by = j /\ act'.dev = d
       /\ running'[d] # NoJob
       /\ AllowsPreemption(d, act'.atPoint) => YieldsBeforeData(d) \/ ~NeedsTransfer(j, d)'

(* What the step that asks for it must see to.                              *)
LEMMA KeptByAnswer ==
    ASSUME AllKept, act.op = "none", queue' = queue, nextJob' = nextJob,
           phase'.op \notin SwitchPhases,
           \A k \in JobIds : jobs'[k].state \notin {"Dropped", "DeadlineMissed"},
           \A e \in EventsOf("TaskArrival")' : jobs'[e.job].state = "Released",
           NEW j, NEW d, Answered(j, d),
           act'.op # "none" => jobs'[j].state \notin TerminalStates,
           \A c \in DeviceIds : running'[c] = NoJob /\ running[c] # NoJob =>
              \/ queue[c] = {}
              \/ c = d /\ act'.op = "dispatch" /\ ~NeedsTransfer(j, d)'
    PROVE  AllKept'
  <1>1. act'.op # "drop" /\ (PlacedJob' # NoJob => PlacedJob' = j /\ act'.op # "none")
    BY DEF Answered, PlacedJob, PlacedBy
  <1>2. NoneEndsEarly'
    BY <1>1 DEF NoneEndsEarly, SwitchPhases, IsTerminal, JobIds
  <1>3. PlacesAreSound'
    <2>1. YieldsBeforeData(d)' = YieldsBeforeData(d)
      BY DEF YieldsBeforeData
    <2>2. CASE act'.op \in {"none", "dispatch", "enqueue"}
      BY <2>2 DEF Answered, PlacesAreSound
    <2>3. CASE act'.op = "preempt"
      <3>1. act'.job = running'[act'.dev] /\ running'[act'.dev] # NoJob
        BY <2>3 DEF Answered
      <3>2. AllowsPreemption(act'.dev, act'.atPoint) =>
                YieldsBeforeData(act'.dev) \/ ~NeedsTransfer(act.by, act.dev)'
        <4>1. act'.by = j /\ act'.dev = d
          BY <2>3 DEF Answered
        <4>2. AllowsPreemption(d, act'.atPoint) => YieldsBeforeData(d) \/ ~NeedsTransfer(j, d)'
          BY <2>3 DEF Answered
        <4> QED BY <4>1, <4>2 DEF NeedsTransfer, TaskOf
      <3> QED BY <2>3, <3>1, <3>2 DEF PlacesAreSound, YieldsBeforeData
    <2> QED BY <2>2, <2>3 DEF Answered
  <1>4. ASSUME NEW c \in DeviceIds
        PROVE  KeptBusy(c)'
    <2>1. KeptBusy(c)
      BY DEF AllKept
    <2>2. CASE running[c] = NoJob
      BY <2>1, <2>2 DEF KeptBusy, HandedOver, YieldsBeforeData
    <2>3. CASE running[c] # NoJob /\ running'[c] = NoJob /\ queue[c] # {}
      <3>1. c = d /\ act'.op = "dispatch" /\ ~NeedsTransfer(j, d)'
        BY <2>3
      <3>2. act'.job = j /\ act'.dev = d
        BY <3>1 DEF Answered
      <3>3. HandedOver(c)'
        BY <3>1, <3>2 DEF HandedOver, NeedsTransfer, TaskOf
      <3> QED BY <3>3 DEF KeptBusy
    <2> QED BY <2>2, <2>3 DEF KeptBusy
  <1> QED BY <1>2, <1>3, <1>4 DEF AllKept

(* A queued job needs no transfer to start on the device of its queue.      *)
LEMMA QueuedHasData ==
    ASSUME IInv, NEW d \in DeviceIds, NEW q \in queue[d], jobs'[q] = jobs[q]
    PROVE  ~NeedsTransfer(q, d)'
  BY QueuedIsPlaceable DEF NeedsTransfer

(* An arriving job is sent to an idle device, or to one that runs a job.    *)
LEMMA ArrivalKeeps ==
    ASSUME IInv, policy \in Schedulers \ {"Gang"}, level = "Lo", EstimatesAreNumbers', AllKept,
           policy' = policy,
           \A e \in EventsOf("TaskArrival")' : jobs'[e.job].state = "Released",
           NEW cb, Consults(cb), cb.on = "arrival"
    PROVE  AllKept'
  <1>1. /\ act.op = "none" /\ cb.job \in JobIds /\ running' = running /\ queue' = queue
        /\ nextJob' = nextJob /\ phase'.op \in {"release", "trigger"} /\ act' \in Answers(cb, mem')
    BY DEF Consults, Polling
  <1>2. /\ jobs'[cb.job].state \notin TerminalStates
        /\ \A k \in JobIds : jobs'[k].state \notin {"Dropped", "DeadlineMissed"}
    <2>1. CASE jobs[cb.job].state = "Transferring"
      <3>1. Becomes(cb.job, "Ready", jobs[cb.job].dev)
        BY <2>1 DEF Consults, TerminalStates
      <3> QED BY <3>1 DEF Becomes, AllKept, NoneEndsEarly, TerminalStates
    <2>2. CASE jobs[cb.job].state # "Transferring"
      <3>1. JobsStay /\ \E e \in EventsOf("TaskArrival") : e.job = cb.job
        BY <2>2 DEF Consults
      <3>2. jobs[cb.job].state = "Released"
        BY <3>1 DEF AllKept, NoneEndsEarly
      <3> QED BY <3>1, <3>2 DEF JobsStay, AllKept, NoneEndsEarly, TerminalStates
    <2> QED BY <2>1, <2>2
  <1>3. ArrivalIsFair(act', cb.job)
    <2>1. policy \in {"Llf", "CpEdf"} => NumbersIn(mem')
      BY DEF EstimatesAreNumbers
    <2> QED BY <1>1, <2>1, ArrivalAnswersAreFair
  <1>4. \E d : Answered(cb.job, d)
    <2>1. CASE act' = NoAction
      BY <2>1 DEF NoAction, Answered
    <2>2. ASSUME NEW d \in Compatible(cb.job), act' = Dispatch(cb.job, d, 0), running[d] = NoJob
          PROVE  \E c : Answered(cb.job, c)
      BY <1>1, <2>2 DEF Dispatch, NoAction, Answered
    <2>3. ASSUME NEW d \in Compatible(cb.job), act' = Enqueue(cb.job, d), running[d] # NoJob
          PROVE  \E c : Answered(cb.job, c)
      BY <1>1, <2>3 DEF Enqueue, NoAction, Answered
    <2>4. ASSUME NEW d \in Compatible(cb.job), running[d] # NoJob,
                 act' = Preempt(running[d], cb.job, d, FALSE)
          PROVE  \E c : Answered(cb.job, c)
      <3>1. /\ act'.op = "preempt" /\ act'.job = running'[d] /\ act'.by = cb.job /\ act'.dev = d
            /\ act'.atPoint = FALSE
        BY <1>1, <2>4 DEF Preempt, NoAction
      <3>2. AllowsPreemption(d, FALSE) => YieldsBeforeData(d) \/ ~NeedsTransfer(cb.job, d)'
        BY DEF AllowsPreemption, YieldsBeforeData, FullyPreemptive, NeedsTransfer
      <3> QED BY <1>1, <2>4, <3>1, <3>2 DEF Answered
    <2> QED BY <1>3, <2>1, <2>2, <2>3, <2>4 DEF ArrivalIsFair
  <1>5. phase'.op \notin SwitchPhases
    BY <1>1 DEF SwitchPhases
  <1>6. \A c \in DeviceIds : ~(running'[c] = NoJob /\ running[c] # NoJob)
    BY <1>1
  <1> QED BY <1>1, <1>2, <1>4, <1>5, <1>6, KeptByAnswer

(* A device that becomes free is given a job of its queue, if there is one. *)
LEMMA FreeKeeps ==
    ASSUME IInv, policy \in Schedulers \ {"Gang"}, level = "Lo", EstimatesAreNumbers', AllKept,
           policy' = policy,
           \A e \in EventsOf("TaskArrival")' : jobs'[e.job].state = "Released",
           NEW cb, Consults(cb), cb.on = "free"
    PROVE  AllKept'
  <1>1. /\ act.op = "none" /\ cb.dev \in DeviceIds /\ cb.job \in JobIds
        /\ running[cb.dev] = cb.job /\ jobs[cb.job].state = "Running"
        /\ Becomes(cb.job, "Completed", cb.dev) /\ running' = [running EXCEPT ![cb.dev] = NoJob]
        /\ queue' = queue /\ nextJob' = nextJob /\ phase'.op \in {"release", "trigger", "point", "poll"}
        /\ act' \in Answers(cb, mem')
    BY DEF Consults, AllKept, NoneEndsEarly
  <1> PICK d \in DeviceIds : d = cb.dev
    BY <1>1
  <1>2. running'[d] = NoJob /\ \A c \in DeviceIds : c # d => running'[c] = running[c]
    BY <1>1 DEF IInv, TypeOK
  <1>3. \A k \in JobIds : jobs'[k].state \notin {"Dropped", "DeadlineMissed"}
    BY <1>1 DEF Becomes, AllKept, NoneEndsEarly
  <1>4. FreeIsFair(act', d)
    <2>1. policy \in {"Llf", "CpEdf"} => NumbersIn(mem')
      BY DEF EstimatesAreNumbers
    <2> QED BY <1>1, <2>1, FreeAnswersAreFair
  <1>5. phase'.op \notin SwitchPhases
    BY <1>1 DEF SwitchPhases
  <1>6. CASE act' = NoAction /\ queue[d] = {}
    <2>1. act'.op = "none" /\ Answered(cb.job, d)
      BY <1>6 DEF NoAction, Answered
    <2> QED BY <1>1, <1>2, <1>3, <1>5, <1>6, <2>1, KeptByAnswer
  <1>7. ASSUME NEW q \in queue[d], act' = Dispatch(q, d, 0)
        PROVE  AllKept'
    <2>1. q \in JobIds /\ jobs[q].state \in {"Ready", "Suspended"}
      BY QueuedIsPlaceable
    <2>2. jobs'[q] = jobs[q]
      BY <1>1, <2>1 DEF Becomes
    <2>3. act'.op = "dispatch" /\ Answered(q, d)
      BY <1>2, <1>7 DEF Dispatch, NoAction, Answered
    <2>4. jobs'[q].state \notin TerminalStates /\ ~NeedsTransfer(q, d)'
      BY <2>1, <2>2, QueuedHasData DEF TerminalStates
    <2> QED BY <1>1, <1>2, <1>3, <1>5, <2>3, <2>4, KeptByAnswer
  <1> QED BY <1>4, <1>6, <1>7 DEF FreeIsFair

(* A job of the queue takes over at a point or at a reevaluation.           *)
LEMMA TakeoverKeeps ==
    ASSUME IInv, AllKept, act.op = "none", JobsStay, UNCHANGED <<running, queue>>,
           phase'.op \notin SwitchPhases,
           \A e \in EventsOf("TaskArrival")' : jobs'[e.job].state = "Released",
           NEW d \in DeviceIds, NEW p,
           \/ act' = NoAction
           \/ running[d] # NoJob /\ \E q \in queue[d] : act' = Preempt(running[d], q, d, p)
    PROVE  AllKept'
  <1>1. \A k \in JobIds : jobs'[k].state \notin {"Dropped", "DeadlineMissed"}
    BY DEF JobsStay, AllKept, NoneEndsEarly
  <1>2. CASE act' = NoAction
    <2>1. act'.op = "none" /\ Answered(0, d)
      BY <1>2 DEF NoAction, Answered
    <2> QED BY <1>1, <2>1, KeptByAnswer DEF JobsStay
  <1>3. ASSUME running[d] # NoJob, NEW q \in queue[d], act' = Preempt(running[d], q, d, p)
        PROVE  AllKept'
    <2>1. q \in JobIds /\ jobs[q].state \in {"Ready", "Suspended"} /\ jobs'[q] = jobs[q]
      BY QueuedIsPlaceable DEF JobsStay
    <2>2. jobs'[q].state \notin TerminalStates /\ ~NeedsTransfer(q, d)'
      BY <2>1, QueuedHasData DEF TerminalStates
    <2>3. Answered(q, d)
      BY <1>3, <2>2 DEF Preempt, NoAction, Answered
    <2> QED BY <1>1, <2>2, <2>3, KeptByAnswer DEF JobsStay
  <1> QED BY <1>2, <1>3

(* BusyIInv is inductive.                                                   *)
LEMMA BusyNext ==
    ASSUME IInv, IInv', policy \in Schedulers, TasksHaveModels, EstimatesAreNumbers',
           BusyIInv, [PolicyNext]_policyVars
    PROVE  BusyIInv'
  <1> SUFFICES ASSUME policy' # "Gang", Undisturbed'
               PROVE  AllKept'
    BY DEF BusyIInv, AllKept
  <1>1. policy' = policy /\ policy \in Schedulers \ {"Gang"}
    BY DEF PolicyNext, policyVars
  <1>2. AllKept /\ level = "Lo" /\ phase.op \notin SwitchPhases /\ phase'.op \notin SwitchPhases
    <2>1. Undisturbed /\ (phase'.op \in SwitchPhases => phase.op \in SwitchPhases)
      BY UndisturbedBefore
    <2>2. AllKept
      BY <1>1, <2>1 DEF BusyIInv, AllKept
    <2> QED BY <2>1, <2>2 DEF Undisturbed, AllKept, NoneEndsEarly, SwitchPhases
  <1>3. \A e \in EventsOf("TaskArrival") : jobs[e.job].state = "Released"
    BY <1>2 DEF AllKept, NoneEndsEarly
  <1>4. (\A k \in JobIds' : jobs'[k].state \notin {"Dropped", "DeadlineMissed"}) =>
            \A e \in EventsOf("TaskArrival")' : jobs'[e.job].state = "Released"
    BY <1>3, ArrivalsStayReleased
  <1>5. \A k \in JobIds : jobs[k].state \notin {"Dropped", "DeadlineMissed"}
    BY <1>2 DEF AllKept, NoneEndsEarly
  <1>6. JobsStay => \A e \in EventsOf("TaskArrival")' : jobs'[e.job].state = "Released"
    BY <1>4, <1>5 DEF JobsStay, JobIds
  <1>7. ASSUME NEW cb, Consults(cb)
        PROVE  AllKept'
    <2>1. \A k \in JobIds' : jobs'[k].state \notin {"Dropped", "DeadlineMissed"}
      <3>1. JobsStay \/ \E s \in {"Ready", "Completed"} : \E c : Becomes(cb.job, s, c)
        BY <1>7 DEF Consults
      <3>2. nextJob' = nextJob
        BY <1>7 DEF Consults
      <3> QED BY <1>5, <3>1, <3>2 DEF JobsStay, Becomes, JobIds
    <2>2. CASE cb.on = "arrival"
      BY <1>1, <1>2, <1>4, <1>7, <2>1, <2>2, ArrivalKeeps
    <2>3. CASE cb.on = "free"
      BY <1>1, <1>2, <1>4, <1>7, <2>1, <2>3, FreeKeeps
    <2>4. CASE cb.on = "point"
      <3>1. /\ act.op = "none" /\ JobsStay /\ UNCHANGED <<running, queue>> /\ cb.dev \in DeviceIds
            /\ running[cb.dev] = cb.job /\ cb.job \in JobIds /\ act' \in Answers(cb, mem')
        BY <1>7, <2>4 DEF Consults
      <3>2. act' \in PointActions(cb.dev, cb.job)
        BY <1>7, <2>4, ConsultedAnswer
      <3>3. PointIsFair(act', cb.dev, cb.job)
        BY <1>1, <1>2, <2>4, <3>1, <3>2, PointAnswersAreFair
      <3>4. running[cb.dev] # NoJob
        BY <3>1, JobIdsAreNat DEF IInv, NoJob
      <3> QED BY <1>2, <1>6, <3>1, <3>3, <3>4, TakeoverKeeps DEF PointIsFair
    <2> QED BY <1>7, <2>2, <2>3, <2>4 DEF Consults
  <1>8. ASSUME NEW cb, Observes(cb)
        PROVE  AllKept'
    <2>1. act.op = "none" /\ act' = act /\ JobsStay /\ UNCHANGED <<running, queue>>
      BY <1>8 DEF Observes
    <2>2. \A d \in DeviceIds : KeptBusy(d)'
      BY <1>2, <2>1 DEF AllKept, KeptBusy, HandedOver, YieldsBeforeData
    <2>3. NoneEndsEarly' /\ PlacesAreSound'
      BY <1>2, <1>5, <1>6, <2>1 DEF NoneEndsEarly, PlacesAreSound, PlacedJob, PlacedBy, JobsStay,
                                    JobIds, SwitchPhases
    <2> QED BY <2>2, <2>3 DEF AllKept
  <1>9. ASSUME NEW a, Reevaluates(a)
        PROVE  AllKept'
    <2>1. /\ act.op = "none" /\ phase.k \in DeviceIds /\ act' = a
          /\ a \in Answers(Reevaluated(phase.k, now), mem)
          /\ JobsStay /\ UNCHANGED <<running, queue>>
      BY <1>9 DEF Reevaluates, Reevaluate, Reevaluating
    <2>2. a \in ReevaluationActions(phase.k)
      BY <2>1, AnswersAllowed DEF Allowed, Reevaluated, Call
    <2>3. \/ a = NoAction
          \/ running[phase.k] # NoJob
             /\ \E q \in queue[phase.k] : a = Preempt(running[phase.k], q, phase.k, FALSE)
      BY <2>2 DEF ReevaluationActions
    <2> QED BY <1>2, <1>6, <2>1, <2>3, TakeoverKeeps
  <1>10. CASE Unasked
    <2>1. CASE Acting
      <3>1. \A k \in JobIds' : jobs'[k].state \notin {"Dropped", "DeadlineMissed"}
        <4>1. act.op # "drop"
          BY <1>2 DEF AllKept, NoneEndsEarly
        <4>2. nextJob' = nextJob
          BY <2>1, DispatchTerminalEffect, DispatchBusyEffect, DispatchWithoutModelEffect,
             DispatchTransferEffect, DispatchRunEffect, PreemptNowEffect, PreemptDeferredEffect,
             EnqueueJobEffect, DropJobEffect DEF Acting, JobsStay, Becomes
        <4>3. \A k \in JobIds : jobs'[k].state \in
                  {jobs[k].state, "Ready", "Running", "Transferring", "Suspended"}
          BY <2>1, <4>1, DispatchTerminalEffect, DispatchBusyEffect, DispatchWithoutModelEffect,
             DispatchTransferEffect, DispatchRunEffect, PreemptNowEffect, PreemptDeferredEffect,
             EnqueueJobEffect, DropJobEffect DEF Acting, JobsStay, Becomes
        <4> QED BY <1>5, <4>2, <4>3 DEF JobIds
      <3> QED BY <1>2, <1>4, <2>1, <3>1, ActingKeeps
    <2>2. CASE Quiet
      <3>1. QuietEffect
        BY <2>2, QuietSteps
      <3>2. \A k \in JobIds' : jobs'[k].state \notin {"Dropped", "DeadlineMissed"}
        BY <1>5, <3>1 DEF QuietEffect
      <3>3. \A d \in DeviceIds : KeptBusy(d)'
        <4> SUFFICES ASSUME NEW d \in DeviceIds PROVE KeptBusy(d)'
          OBVIOUS
        <4>1. HandedOver(d) => HandedOver(d)'
          <5>1. act.op = "dispatch" => act.job \in JobIds
            BY DEF IInv, ActionIsSound, SoundAction, Placeable
          <5> QED BY <3>1, <5>1 DEF QuietEffect, HandedOver, NeedsTransfer, TaskOf
        <4> QED BY <1>2, <3>1, <4>1 DEF AllKept, KeptBusy, QuietEffect, YieldsBeforeData
      <3>4. PlacesAreSound'
        <4>1. act' = act /\ running' = running
          BY <3>1 DEF QuietEffect
        <4>2. act.op = "preempt" => NeedsTransfer(act.by, act.dev)' = NeedsTransfer(act.by, act.dev)
          <5>1. act.op = "preempt" => act.by \in JobIds
            BY DEF IInv, ActionIsSound, SoundAction, Placeable
          <5> QED BY <3>1, <4>1, <5>1 DEF QuietEffect, NeedsTransfer, TaskOf
        <4> QED BY <1>2, <4>1, <4>2 DEF AllKept, PlacesAreSound, YieldsBeforeData
      <3>5. NoneEndsEarly'
        <4>1. PlacedJob' = PlacedJob /\ act' = act
          BY <3>1 DEF QuietEffect, PlacedJob, PlacedBy
        <4>2. PlacedJob # NoJob => PlacedJob \in JobIds
          BY PlacedIsJob
        <4> QED BY <1>2, <1>4, <3>1, <3>2, <4>1, <4>2
                DEF AllKept, NoneEndsEarly, QuietEffect, IsTerminal, SwitchPhases
      <3> QED BY <3>3, <3>4, <3>5 DEF AllKept
    <2>3. CASE (\E e \in events : DeadlineCheck(e)) \/ UNCHANGED policyVars
      <3>1. JobsStay /\ UNCHANGED <<running, queue, act>>
        BY <2>3, DeadlineCheckEffect DEF Undisturbed, policyVars, vars, jobVars, deviceVars, JobsStay
      <3>2. \A d \in DeviceIds : KeptBusy(d)'
        BY <1>2, <3>1 DEF AllKept, KeptBusy, HandedOver, YieldsBeforeData, JobsStay,
                          NeedsTransfer, TaskOf
      <3>3. PlacesAreSound'
        BY <1>2, <3>1 DEF AllKept, PlacesAreSound, YieldsBeforeData, JobsStay, NeedsTransfer, TaskOf
      <3>4. NoneEndsEarly'
        BY <1>2, <1>5, <1>6, <3>1 DEF AllKept, NoneEndsEarly, PlacedJob, PlacedBy, JobsStay,
                                      JobIds, SwitchPhases, IsTerminal
      <3> QED BY <3>2, <3>3, <3>4 DEF AllKept
    <2>4. CASE Purging
      BY <1>2, <2>4 DEF Purging, SwitchPhases
    <2> QED BY <1>10, <2>1, <2>2, <2>3, <2>4 DEF Unasked
  <1> QED BY <1>7, <1>8, <1>9, <1>10, StepsOfAPolicy

-----------------------------------------------------------------------------
(* A preemptive CPU runs the most urgent job                                *)

(* The order of two jobs never changes.                                     *)
LEMMA OrderStays ==
    ASSUME IInv, JobsFate, policy' = policy, level' = level, NEW j \in JobIds
    PROVE  Order(j)' = Order(j)
  <1>1. SameJob(jobs'[j], jobs[j])
    BY DEF JobsFate, Fate
  <1>2. /\ Deadline(j)' = Deadline(j) /\ ReleaseTime(j)' = ReleaseTime(j)
        /\ IsLo(j)' = IsLo(j) /\ Priority(j)' = Priority(j)
    BY <1>1 DEF SameJob, Deadline, ReleaseTime, IsLo, Priority, TaskOf
  <1>3. CriticalityRank(j)' = CriticalityRank(j)
    BY <1>2 DEF CriticalityRank
  <1>4. EffectiveDeadline(j)' = EffectiveDeadline(j)
    BY <1>2 DEF EffectiveDeadline
  <1> QED BY <1>2, <1>3, <1>4 DEF Order

(* What happens to the slot and the queue of a device.                      *)
SlotOrdered(d) == PreemptiveCpu(d) /\ running[d] # NoJob => Ordered(running[d], d)

(* A slot and a queue that do not gain a job stay in order.                 *)
LEMMA SlotStaysOrdered ==
    ASSUME IInv, IInv', JobsFate, policy' = policy, level' = level, NEW d \in DeviceIds,
           SlotOrdered(d), running'[d] \in {running[d], NoJob}, queue'[d] \subseteq queue[d]
    PROVE  SlotOrdered(d)'
  <1> SUFFICES ASSUME PreemptiveCpu(d), running[d] # NoJob, running'[d] = running[d],
                      NEW q \in queue'[d]
               PROVE  ~Precedes(Order(q)', Order(running[d])')
    BY DEF SlotOrdered, Ordered, PreemptiveCpu, FullyPreemptive
  <1> PICK r \in JobIds : r = running[d]
    BY RunningJob
  <1>1. q \in queue[d] /\ q \in JobIds
    BY QueuedJobs
  <1>2. ~Precedes(Order(q), Order(r))
    BY <1>1 DEF SlotOrdered, Ordered
  <1>3. Order(q)' = Order(q)
    BY <1>1, OrderStays
  <1>4. Order(r)' = Order(r)
    BY OrderStays
  <1>5. Order(running[d])' = Order(r)'
    BY DEF Order, Deadline, ReleaseTime, EffectiveDeadline, Priority, CriticalityRank, IsLo, TaskOf
  <1> QED BY <1>2, <1>3, <1>4, <1>5

(* On such a device data is never missing, and no point is waited for.      *)
LEMMA CpuIsReady ==
    ASSUME NEW d, PreemptiveCpu(d)
    PROVE  /\ \A j : ~NeedsTransfer(j, d)
           /\ \A p : AllowsPreemption(d, p)
           /\ ~YieldsBeforeData(d) /\ ~HasPreemptionPoints(d)
  BY DEF PreemptiveCpu, FullyPreemptive, NeedsTransfer, AllowsPreemption, YieldsBeforeData,
         HasPreemptionPoints

(* Executing an action keeps the order.                                     *)
LEMMA ActingOrders ==
    ASSUME IInv, IInv', policy \in Schedulers, ByOrder, policy' = policy, TasksHaveModels,
           AllKept, RunsAreOrdered, PlacesAreOrdered, Acting
    PROVE  RunsAreOrdered' /\ PlacesAreOrdered'
  <1>0. /\ act.op # "drop" /\ (PlacedJob # NoJob => ~IsTerminal(PlacedJob))
        /\ act.op = "dispatch" => running[act.dev] = NoJob
        /\ act.op \in {"enqueue", "preempt"} => running[act.dev] # NoJob
        /\ act.op = "preempt" => running[act.dev] = act.job
        /\ \A d \in DeviceIds : SlotOrdered(d)
    BY DEF AllKept, NoneEndsEarly, PlacesAreSound, RunsAreOrdered, SlotOrdered
  <1>a. JobsFate /\ level' = level
    BY ActingFate, ActingKeepsPlaced
  <1>b. (\A d \in DeviceIds : SlotOrdered(d)') => RunsAreOrdered'
    BY DEF SlotOrdered, RunsAreOrdered
  <1>c. act'.op = "none" => PlacesAreOrdered'
    BY DEF PlacesAreOrdered
  <1>1. CASE DispatchTerminal
    <2>1. UNCHANGED <<running, queue>> /\ act' = NoAction
      BY <1>1, DispatchTerminalEffect
    <2>2. \A d \in DeviceIds : SlotOrdered(d)'
      BY <1>0, <1>a, <2>1, SlotStaysOrdered
    <2> QED BY <1>b, <1>c, <2>1, <2>2 DEF NoAction
  <1>2. CASE DispatchBusy
    BY <1>0, <1>2, DispatchBusyEffect
  <1>3. CASE DispatchWithoutModel
    BY <1>3, DispatchHasModel
  <1>4. CASE DropJob
    BY <1>0, <1>4, DropJobEffect
  <1>5. CASE DispatchTransfer \/ DispatchRun
    <2>1. /\ MayDispatch
          /\ running' \in {running, [running EXCEPT ![act.dev] = act.job]}
      BY <1>5, DispatchTransferEffect, DispatchRunEffect
    <2>2. /\ act.op = "dispatch" /\ act' = NoAction /\ act.job \in JobIds /\ act.dev \in DeviceIds
          /\ LeavesQueues(act.job)
      BY <2>1, MayDispatchEffect
    <2>3. running \in [DeviceIds -> JobIds \cup {NoJob}]
      BY DEF IInv, TypeOK
    <2>4. ASSUME NEW d \in DeviceIds
          PROVE  SlotOrdered(d)'
      <3>1. queue'[d] \subseteq queue[d]
        BY <2>2 DEF LeavesQueues
      <3>2. CASE running'[d] = running[d]
        BY <1>0, <1>a, <3>1, <3>2, SlotStaysOrdered
      <3>3. CASE running'[d] # running[d]
        <4>1. d = act.dev /\ running'[d] = act.job
          BY <2>1, <2>2, <2>3, <3>3
        <4> SUFFICES ASSUME PreemptiveCpu(d), NEW q \in queue'[d]
                     PROVE  ~Precedes(Order(q)', Order(running[d])')
          BY DEF SlotOrdered, Ordered, PreemptiveCpu, FullyPreemptive
        <4> PICK j \in JobIds : j = act.job
          BY <2>2
        <4>2. q \in queue[d] /\ q \in JobIds
          BY <3>1, QueuedJobs
        <4>3. ~Precedes(Order(q), Order(j))
          BY <2>2, <4>1, <4>2 DEF PlacesAreOrdered, Ordered
        <4>4. Order(q)' = Order(q) /\ Order(j)' = Order(j)
          BY <1>a, <4>2, OrderStays
        <4>5. Order(running[d])' = Order(j)'
          BY <4>1 DEF Order, Deadline, ReleaseTime, EffectiveDeadline, Priority, CriticalityRank,
                      IsLo, TaskOf
        <4> QED BY <4>3, <4>4, <4>5
      <3> QED BY <3>2, <3>3
    <2> QED BY <1>b, <1>c, <2>2, <2>4 DEF NoAction
  <1>6. CASE PreemptNow
    <2>1. /\ act.op = "preempt" /\ act.dev \in DeviceIds /\ act.job \in JobIds /\ act.by \in JobIds
          /\ running[act.dev] = act.job /\ act.job # NoJob
          /\ Joins(act.job, act.dev) /\ running' = [running EXCEPT ![act.dev] = NoJob]
          /\ act'.op = "dispatch" /\ act'.job = act.by /\ act'.dev = act.dev
      BY <1>6, PreemptNowEffect
    <2> PICK d \in DeviceIds, v \in JobIds, j \in JobIds : d = act.dev /\ v = act.job /\ j = act.by
      BY <2>1
    <2>2. /\ running \in [DeviceIds -> JobIds \cup {NoJob}]
          /\ queue \in [DeviceIds -> SUBSET JobIds]
      BY DEF IInv, TypeOK
    <2>3. /\ running'[d] = NoJob /\ queue'[d] = queue[d] \cup {v}
          /\ \A c \in DeviceIds : c # d => running'[c] = running[c] /\ queue'[c] = queue[c]
      BY <2>1, <2>2 DEF Joins
    <2>4. ASSUME NEW c \in DeviceIds
          PROVE  SlotOrdered(c)'
      <3>1. CASE c = d
        BY <2>3, <3>1 DEF SlotOrdered
      <3>2. CASE c # d
        BY <1>0, <1>a, <2>3, <3>2, SlotStaysOrdered
      <3> QED BY <3>1, <3>2
    <2>5. PlacesAreOrdered'
      <3> SUFFICES ASSUME PreemptiveCpu(d), NEW q \in queue'[d]
                   PROVE  ~Precedes(Order(q)', Order(act.job)')
        <4>1. act'.op = "dispatch" /\ act'.dev = d
          BY <2>1
        <4>2. PreemptiveCpu(d)' = PreemptiveCpu(d)
          BY DEF PreemptiveCpu, FullyPreemptive
        <4> QED BY <4>1, <4>2 DEF PlacesAreOrdered, Ordered, PreemptiveCpu, FullyPreemptive
      <3>1. ~Precedes(Order(v), Order(j))
        BY <2>1 DEF PlacesAreOrdered
      <3>2. q \in JobIds /\ (q = v \/ q \in queue[d])
        BY <2>2, <2>3
      <3>3. ~Precedes(Order(q), Order(j))
        <4>1. CASE q = v
          BY <3>1, <4>1
        <4>2. CASE q \in queue[d]
          <5>1. ~Precedes(Order(q), Order(v))
            BY <1>0, <2>1, <4>2 DEF SlotOrdered, Ordered
          <5> QED BY <3>1, <3>2, <5>1, OrderIsWeak
        <4> QED BY <3>2, <4>1, <4>2
      <3>4. Order(q)' = Order(q) /\ Order(j)' = Order(j)
        BY <1>a, <3>2, OrderStays
      <3>5. Order(act.job)' = Order(j)'
        BY <2>1 DEF Order, Deadline, ReleaseTime, EffectiveDeadline, Priority, CriticalityRank,
                    IsLo, TaskOf
      <3> QED BY <3>3, <3>4, <3>5
    <2> QED BY <1>b, <2>4, <2>5
  <1>7. CASE PreemptDeferred
    <2>1. /\ UNCHANGED <<running, queue>> /\ act.op = "preempt" /\ act'.op = "enqueue"
          /\ act'.dev = act.dev /\ ~(AllowsPreemption(act.dev, act.atPoint) /\ running[act.dev] = act.job)
      BY <1>7, PreemptDeferredEffect
    <2>2. \A d \in DeviceIds : SlotOrdered(d)'
      BY <1>0, <1>a, <2>1, SlotStaysOrdered
    <2>3. ~PreemptiveCpu(act.dev)
      BY <1>0, <2>1, CpuIsReady
    <2>4. PlacesAreOrdered'
      BY <2>1, <2>3 DEF PlacesAreOrdered, PreemptiveCpu, FullyPreemptive
    <2> QED BY <1>b, <2>2, <2>4
  <1>8. CASE EnqueueJob
    <2>1. /\ act.op = "enqueue" /\ act' = NoAction /\ act.job \in JobIds /\ act.dev \in DeviceIds
          /\ running' = running /\ (queue' = queue \/ Joins(act.job, act.dev))
      BY <1>8, EnqueueJobEffect
    <2>2. /\ running[act.dev] # NoJob /\ queue \in [DeviceIds -> SUBSET JobIds]
      BY <1>0, <2>1 DEF IInv, TypeOK
    <2>3. ASSUME NEW d \in DeviceIds
          PROVE  SlotOrdered(d)'
      <3>1. CASE queue'[d] = queue[d]
        BY <1>0, <1>a, <2>1, <3>1, SlotStaysOrdered
      <3>2. CASE queue'[d] # queue[d]
        <4>1. d = act.dev /\ queue'[d] = queue[d] \cup {act.job}
          BY <2>1, <2>2, <3>2 DEF Joins
        <4> SUFFICES ASSUME PreemptiveCpu(d), NEW q \in queue'[d]
                     PROVE  ~Precedes(Order(q)', Order(running[d])')
          BY DEF SlotOrdered, Ordered, PreemptiveCpu, FullyPreemptive
        <4> PICK r \in JobIds : r = running[d]
          BY <2>2, <4>1, RunningJob
        <4>2. q \in JobIds /\ (q = act.job \/ q \in queue[d])
          BY <2>1, <4>1, QueuedJobs
        <4>3. ~Precedes(Order(q), Order(r))
          BY <1>0, <2>1, <2>2, <4>1, <4>2 DEF PlacesAreOrdered, SlotOrdered, Ordered
        <4>4. Order(q)' = Order(q) /\ Order(r)' = Order(r)
          BY <1>a, <4>2, OrderStays
        <4>5. Order(running[d])' = Order(r)'
          BY <2>1 DEF Order, Deadline, ReleaseTime, EffectiveDeadline, Priority, CriticalityRank,
                      IsLo, TaskOf
        <4> QED BY <4>3, <4>4, <4>5
      <3> QED BY <3>1, <3>2
    <2> QED BY <1>b, <1>c, <2>1, <2>3 DEF NoAction
  <1> QED BY <1>1, <1>2, <1>3, <1>4, <1>5, <1>6, <1>7, <1>8 DEF Acting

(* The job an answer of one of these schedulers places is in order.         *)
LEMMA AnswerOrders ==
    ASSUME IInv, IInv', policy \in Schedulers, ByOrder, policy' = policy, level = "Lo",
           EstimatesAreNumbers', AllKept, NEW cb, Consults(cb), level' = level, JobsFate
    PROVE  PlacesAreOrdered'
  <1>1. /\ act.op = "none" /\ queue' = queue /\ act' \in Answers(cb, mem')
        /\ policy \in Schedulers \ {"Gang"}
    BY DEF Consults, ByOrder
  <1>2. policy \in {"Llf", "CpEdf"} => NumbersIn(mem')
    BY DEF EstimatesAreNumbers
  <1>3. ASSUME NEW d \in DeviceIds, NEW j \in JobIds, act' = Dispatch(j, d, 0),
               PreemptiveCpu(d) => Ordered(j, d)
        PROVE  PlacesAreOrdered'
    <2>1. act'.op = "dispatch" /\ act'.dev = d /\ act'.job = j
      BY <1>3 DEF Dispatch, NoAction
    <2> SUFFICES ASSUME PreemptiveCpu(d), NEW q \in queue'[d]
                 PROVE  ~Precedes(Order(q)', Order(act.job)')
      BY <2>1 DEF PlacesAreOrdered, Ordered, PreemptiveCpu, FullyPreemptive
    <2>2. q \in JobIds /\ ~Precedes(Order(q), Order(j))
      BY <1>1, <1>3, QueuedJobs DEF Ordered
    <2>3. Order(q)' = Order(q) /\ Order(j)' = Order(j)
      BY <2>2, OrderStays
    <2>4. Order(act.job)' = Order(j)'
      BY <2>1 DEF Order, Deadline, ReleaseTime, EffectiveDeadline, Priority, CriticalityRank,
                  IsLo, TaskOf
    <2> QED BY <2>2, <2>3, <2>4
  <1>4. CASE act' = NoAction
    BY <1>4 DEF PlacesAreOrdered, NoAction
  <1>5. CASE cb.on = "arrival"
    <2>1. cb.job \in JobIds /\ running' = running
      BY <1>5 DEF Consults
    <2> PICK j \in JobIds : j = cb.job
      BY <2>1
    <2>2. ArrivalIsFair(act', j)
      BY <1>1, <1>2, <1>5, <2>1, ArrivalAnswersAreFair
    <2>3. Compatible(j) \subseteq DeviceIds
      BY DEF Compatible
    <2>4. ASSUME NEW d \in Compatible(j), act' = Dispatch(j, d, 0), running[d] = NoJob
          PROVE  PlacesAreOrdered'
      <3>1. PreemptiveCpu(d) => queue[d] = {}
        BY <1>1, <2>3, <2>4, CpuIsReady DEF AllKept, KeptBusy, HandedOver
      <3> QED BY <1>3, <2>3, <2>4, <3>1 DEF Ordered
    <2>5. ASSUME NEW d \in Compatible(j), running[d] # NoJob,
                 \/ /\ act' = Enqueue(j, d)
                    /\ PreemptiveCpu(d) => ~Precedes(Order(j), Order(running[d]))
                 \/ /\ act' = Preempt(running[d], j, d, FALSE)
                    /\ ~Precedes(Order(running[d]), Order(j))
          PROVE  PlacesAreOrdered'
      <3> PICK r \in JobIds : r = running[d]
        BY <2>3, <2>5, RunningJob
      <3>1. Order(j)' = Order(j) /\ Order(r)' = Order(r)
        BY OrderStays
      <3>2. CASE act' = Enqueue(j, d) /\ (PreemptiveCpu(d) => ~Precedes(Order(j), Order(r)))
        <4>1. act'.op = "enqueue" /\ act'.dev = d /\ act'.job = j
          BY <3>2 DEF Enqueue, NoAction
        <4>2. Order(act.job)' = Order(j)'
          BY <4>1 DEF Order, Deadline, ReleaseTime, EffectiveDeadline, Priority, CriticalityRank,
                      IsLo, TaskOf
        <4>3. Order(running[act.dev])' = Order(r)'
          <5>1. running'[act'.dev] = r
            BY <2>1, <4>1
          <5> QED BY <5>1 DEF Order, Deadline, ReleaseTime, EffectiveDeadline, Priority,
                              CriticalityRank, IsLo, TaskOf
        <4> QED BY <3>1, <3>2, <4>1, <4>2, <4>3 DEF PlacesAreOrdered, PreemptiveCpu, FullyPreemptive
      <3>3. CASE act' = Preempt(r, j, d, FALSE) /\ ~Precedes(Order(r), Order(j))
        <4>1. act'.op = "preempt" /\ act'.dev = d /\ act'.job = r /\ act'.by = j
          BY <3>3 DEF Preempt, NoAction
        <4>2. Order(act.job)' = Order(r)'
          BY <4>1 DEF Order, Deadline, ReleaseTime, EffectiveDeadline, Priority, CriticalityRank,
                      IsLo, TaskOf
        <4>3. Order(act.by)' = Order(j)'
          BY <4>1 DEF Order, Deadline, ReleaseTime, EffectiveDeadline, Priority, CriticalityRank,
                      IsLo, TaskOf
        <4> QED BY <3>1, <3>3, <4>1, <4>2, <4>3 DEF PlacesAreOrdered
      <3> QED BY <2>5, <3>2, <3>3
    <2> QED BY <1>4, <2>2, <2>4, <2>5 DEF ArrivalIsFair
  <1>6. CASE cb.on = "free"
    <2>1. cb.dev \in DeviceIds
      BY <1>6 DEF Consults
    <2>2. FreeIsFair(act', cb.dev)
      BY <1>1, <1>2, <1>6, <2>1, FreeAnswersAreFair
    <2>3. queue[cb.dev] \subseteq JobIds
      BY <2>1, QueuedJobs
    <2> QED BY <1>3, <1>4, <2>1, <2>2, <2>3 DEF FreeIsFair
  <1>7. CASE cb.on = "point"
    <2>1. HasPreemptionPoints(cb.dev) /\ cb.dev \in DeviceIds
      BY <1>7 DEF Consults
    <2>2. act' \in PointActions(cb.dev, cb.job)
      BY <1>7, ConsultedAnswer
    <2>3. act' = NoAction \/ act'.dev = cb.dev
      BY <2>2 DEF PointActions, Preempt, DropThenDispatch, NoAction
    <2>4. ~PreemptiveCpu(cb.dev)
      BY <2>1, CpuIsReady
    <2> QED BY <1>4, <2>3, <2>4 DEF PlacesAreOrdered, PreemptiveCpu, FullyPreemptive
  <1> QED BY <1>5, <1>6, <1>7 DEF Consults

(* None of these schedulers uses a reevaluation.                            *)
LEMMA NoReevaluation ==
    ASSUME policy \in Schedulers, ByOrder, NEW cb, cb.on = "reevaluation", NEW m,
           NEW a \in Answers(cb, m)
    PROVE  a = NoAction
  <1>1. policy \in ByDeadline \cup ByCriticality \cup {"EdfVd", "Fp", "GpuPp"}
    BY OrderedPolicies
  <1> QED BY <1>1 DEF ByDeadline, ByCriticality, Answers, FpAnswers, EdfAnswers, GlobalEdfAnswers,
                      EdfVdAnswers, CpEdfAnswers, FederatedAnswers, GcapsAnswers, XSchedAnswers,
                      GPreemptAnswers, GpuPpAnswers, RtgpuAnswers, MatchAnswers

(* UrgencyIInv is inductive.                                                *)
LEMMA UrgencyNext ==
    ASSUME IInv, IInv', policy \in Schedulers, TasksHaveModels, EstimatesAreNumbers',
           BusyIInv, UrgencyIInv, [PolicyNext]_policyVars
    PROVE  UrgencyIInv'
  <1> SUFFICES ASSUME policy' \notin {"Gang", "Heft", "Llf"}, Undisturbed'
               PROVE  RunsAreOrdered' /\ PlacesAreOrdered'
    BY DEF UrgencyIInv
  <1>1. policy' = policy /\ ByOrder
    BY DEF PolicyNext, policyVars, ByOrder
  <1>2. /\ Undisturbed /\ AllKept /\ RunsAreOrdered /\ PlacesAreOrdered
        /\ level = "Lo" /\ level' = level
    <2>1. Undisturbed
      BY UndisturbedBefore
    <2> QED BY <1>1, <2>1 DEF UrgencyIInv, BusyIInv, AllKept, ByOrder, Undisturbed
  <1>3. JobsFate
    BY FateOfJobs
  <1>4. \A d \in DeviceIds : SlotOrdered(d)
    BY <1>2 DEF RunsAreOrdered, SlotOrdered
  <1>5. (\A d \in DeviceIds : SlotOrdered(d)') => RunsAreOrdered'
    BY DEF SlotOrdered, RunsAreOrdered
  <1>6. ASSUME queue' = queue, \A d \in DeviceIds : running'[d] \in {running[d], NoJob}
        PROVE  RunsAreOrdered'
    <2>1. \A d \in DeviceIds : SlotOrdered(d)'
      BY <1>1, <1>2, <1>3, <1>4, <1>6, SlotStaysOrdered
    <2> QED BY <1>5, <2>1
  <1>7. act'.op = "none" => PlacesAreOrdered'
    BY DEF PlacesAreOrdered
  <1>8. ASSUME NEW cb, Consults(cb)
        PROVE  RunsAreOrdered' /\ PlacesAreOrdered'
    <2>1. queue' = queue /\ \A d \in DeviceIds : running'[d] \in {running[d], NoJob}
      <3>1. queue' = queue /\ running \in [DeviceIds -> JobIds \cup {NoJob}]
        BY <1>8 DEF Consults, IInv, TypeOK
      <3> QED BY <1>8, <3>1 DEF Consults
    <2> QED BY <1>1, <1>2, <1>3, <1>6, <1>8, <2>1, AnswerOrders
  <1>9. ASSUME NEW cb, Observes(cb)
        PROVE  RunsAreOrdered' /\ PlacesAreOrdered'
    <2>1. UNCHANGED <<running, queue>> /\ act'.op = "none"
      BY <1>9 DEF Observes
    <2> QED BY <1>6, <1>7, <2>1
  <1>10. ASSUME NEW a, Reevaluates(a)
         PROVE  RunsAreOrdered' /\ PlacesAreOrdered'
    <2>1. UNCHANGED <<running, queue>> /\ act' = a /\ a \in Answers(Reevaluated(phase.k, now), mem)
      BY <1>10 DEF Reevaluates, Reevaluate
    <2>2. a = NoAction
      BY <1>1, <2>1, NoReevaluation DEF Reevaluated, Call
    <2> QED BY <1>6, <1>7, <2>1, <2>2 DEF NoAction
  <1>11. CASE Unasked
    <2>1. CASE Acting
      BY <1>1, <1>2, <2>1, ActingOrders
    <2>2. CASE Quiet \/ (\E e \in events : DeadlineCheck(e)) \/ UNCHANGED policyVars
      <3>1. UNCHANGED <<running, queue, act>>
        BY <2>2, QuietSteps, DeadlineCheckEffect
           DEF QuietEffect, Undisturbed, policyVars, vars, deviceVars
      <3>2. RunsAreOrdered'
        BY <1>6, <3>1
      <3>3. ASSUME act.op \in {"dispatch", "enqueue", "preempt"}, PreemptiveCpu(act.dev)
            PROVE  PlacesAreOrdered'
        <4>1. /\ act.dev \in DeviceIds
              /\ act.op \in {"dispatch", "enqueue"} => act.job \in JobIds
              /\ act.op = "preempt" => act.job \in JobIds /\ act.by \in JobIds
              /\ act.op = "enqueue" => running[act.dev] \in JobIds
          <5>1. act.op = "enqueue" => running[act.dev] # NoJob
            BY <1>2 DEF AllKept, PlacesAreSound
          <5> QED BY <3>3, <5>1, RunningJob DEF IInv, ActionIsSound, SoundAction, Placeable
        <4>2. \A j \in JobIds : Order(j)' = Order(j)
          BY <1>1, <1>2, <1>3, OrderStays
        <4>3. CASE act.op = "dispatch"
          <5> SUFFICES ASSUME NEW q \in queue[act.dev]
                       PROVE  ~Precedes(Order(q)', Order(act.job)')
            BY <3>1, <4>3 DEF PlacesAreOrdered, Ordered
          <5> PICK j \in JobIds : j = act.job
            BY <4>1, <4>3
          <5>1. q \in JobIds /\ ~Precedes(Order(q), Order(j))
            <6>1. act.dev \in DeviceIds
              BY <4>3 DEF IInv, ActionIsSound, SoundAction, Placeable
            <6> QED BY <1>2, <3>3, <4>3, <6>1, QueuedJobs DEF PlacesAreOrdered, Ordered
          <5>2. Order(act.job)' = Order(j)'
            BY <3>1 DEF Order, Deadline, ReleaseTime, EffectiveDeadline, Priority,
                        CriticalityRank, IsLo, TaskOf
          <5> QED BY <4>2, <5>1, <5>2
        <4>4. CASE act.op = "enqueue"
          <5> PICK j \in JobIds, r \in JobIds : j = act.job /\ r = running[act.dev]
            BY <3>3, <4>1, <4>4 DEF IInv, ActionIsSound, SoundAction, Placeable
          <5>1. ~Precedes(Order(j), Order(r))
            BY <1>2, <3>3, <4>4 DEF PlacesAreOrdered
          <5>2. Order(act.job)' = Order(j)' /\ Order(running[act.dev])' = Order(r)'
            BY <3>1 DEF Order, Deadline, ReleaseTime, EffectiveDeadline, Priority,
                        CriticalityRank, IsLo, TaskOf
          <5> QED BY <3>1, <4>2, <4>4, <5>1, <5>2 DEF PlacesAreOrdered
        <4>5. CASE act.op = "preempt"
          <5> PICK j \in JobIds, k \in JobIds : j = act.job /\ k = act.by
            BY <4>1, <4>5
          <5>1. ~Precedes(Order(j), Order(k))
            BY <1>2, <3>3, <4>5 DEF PlacesAreOrdered
          <5>2. Order(act.job)' = Order(j)' /\ Order(act.by)' = Order(k)'
            BY <3>1 DEF Order, Deadline, ReleaseTime, EffectiveDeadline, Priority,
                        CriticalityRank, IsLo, TaskOf
          <5> QED BY <3>1, <4>2, <4>5, <5>1, <5>2 DEF PlacesAreOrdered
        <4> QED BY <3>3, <4>3, <4>4, <4>5
      <3>4. CASE ~(act.op \in {"dispatch", "enqueue", "preempt"} /\ PreemptiveCpu(act.dev))
        <4>1. act'.op = act.op /\ PreemptiveCpu(act.dev)' = PreemptiveCpu(act.dev)
          BY <3>1 DEF PreemptiveCpu, FullyPreemptive
        <4>2. CASE act.op \notin {"dispatch", "enqueue", "preempt"}
          BY <3>2, <4>1, <4>2 DEF PlacesAreOrdered
        <4>3. CASE ~PreemptiveCpu(act.dev)
          BY <3>2, <4>1, <4>3 DEF PlacesAreOrdered
        <4> QED BY <3>4, <4>2, <4>3
      <3> QED BY <3>2, <3>3, <3>4
    <2>3. CASE Purging
      BY <1>2, <2>3 DEF Purging, AllKept, NoneEndsEarly
    <2> QED BY <1>11, <2>1, <2>2, <2>3 DEF Unasked
  <1> QED BY <1>8, <1>9, <1>10, <1>11, StepsOfAPolicy

(* The invariants of the devices that are kept busy, in order.              *)
ScheduleInv == BaseInv /\ EstimatesAreNumbers /\ BusyIInv /\ UrgencyIInv

(* They hold before the first step ...                                      *)
LEMMA ScheduleInit == PolicyInit => ScheduleInv
  <1> SUFFICES ASSUME PolicyInit PROVE ScheduleInv
    OBVIOUS
  <1>1. BaseInv
    BY BaseInit
  <1>2. /\ act = NoAction /\ events = {} /\ JobIds = {} /\ phase.op = "setup" /\ mem = NoMemory
        /\ \A d \in DeviceIds : running[d] = NoJob /\ queue[d] = {}
    BY DEF PolicyInit, Init, JobIds, Phase
  <1>3. EstimatesAreNumbers
    BY <1>2 DEF EstimatesAreNumbers, NumbersIn, IsMemory, MemoryFields, NoMemory, Nothing
  <1>4. PlacedJob = NoJob /\ act.op = "none"
    BY <1>2 DEF NoAction, PlacedJob, PlacedBy
  <1>5. BusyIInv
    BY <1>2, <1>4 DEF BusyIInv, NoneEndsEarly, PlacesAreSound, KeptBusy, EventsOf
  <1>6. UrgencyIInv
    BY <1>2, <1>4 DEF UrgencyIInv, RunsAreOrdered, PlacesAreOrdered
  <1> QED BY <1>1, <1>3, <1>5, <1>6 DEF ScheduleInv

(* ... and after every other.                                               *)
LEMMA ScheduleNext == TasksHaveModels /\ ScheduleInv /\ [PolicyNext]_policyVars => ScheduleInv'
  <1> SUFFICES ASSUME TasksHaveModels, ScheduleInv, [PolicyNext]_policyVars PROVE ScheduleInv'
    OBVIOUS
  <1>1. BaseInv' /\ policy \in Schedulers
    BY BaseNext DEF ScheduleInv
  <1>2. IInv /\ IInv'
    BY <1>1 DEF ScheduleInv, BaseInv
  <1>3. EstimatesAreNumbers'
    BY <1>2, NumbersNext DEF ScheduleInv
  <1>4. BusyIInv' /\ UrgencyIInv'
    BY <1>1, <1>2, <1>3, BusyNext, UrgencyNext DEF ScheduleInv
  <1> QED BY <1>1, <1>3, <1>4 DEF ScheduleInv

(* Under every scheduler but Gang, when every task has models, no device    *)
(* idles while a job waits in its queue, in LO mode and until a deadline is *)
(* missed, unless it is a preemptive accelerator that waits for the data of *)
(* the job it was yielded to: completions, transfers, preemptions and their *)
(* refusals each hand the device over.                                      *)
THEOREM DevicesAreKeptBusy ==
    ASSUME TasksHaveModels
    PROVE  PolicySpec => []DevicesKeptBusy
  <1>1. ScheduleInv => DevicesKeptBusy
    BY DEF ScheduleInv, BusyIInv, DevicesKeptBusy, Regular, Undisturbed, Polling, KeptBusy,
           HandedOver
  <1>2. PolicyInit => ScheduleInv
    BY ScheduleInit
  <1>3. ScheduleInv /\ [PolicyNext]_policyVars => ScheduleInv'
    BY ScheduleNext
  <1> QED BY <1>1, <1>2, <1>3, PTL DEF PolicySpec

(* Under every scheduler that decides by one order, when every task has     *)
(* models, a fully preemptive CPU runs a job that no job of its queue       *)
(* precedes, in LO mode and until a deadline is missed: an arriving job is  *)
(* weighed against the running one only, and that is enough, because the    *)
(* running one is the first of all and a job it yields to comes before it.  *)
THEOREM TheMostUrgentRuns ==
    ASSUME TasksHaveModels
    PROVE  PolicySpec => []RunsTheMostUrgent
  <1>1. ScheduleInv => RunsTheMostUrgent
    BY DEF ScheduleInv, UrgencyIInv, RunsTheMostUrgent, Regular, Undisturbed, RunsAreOrdered,
           PreemptiveCpu, Ordered
  <1>2. PolicyInit => ScheduleInv
    BY ScheduleInit
  <1>3. ScheduleInv /\ [PolicyNext]_policyVars => ScheduleInv'
    BY ScheduleNext
  <1> QED BY <1>1, <1>2, <1>3, PTL DEF PolicySpec

-----------------------------------------------------------------------------
(* Reevaluations                                                            *)

(* A phase is called what it is called.                                     *)
LEMMA PhaseOp == \A op, k : Phase(op, k).op = op
  BY DEF Phase

(* What most steps leave alone.                                             *)
NoneIsAsked ==
    /\ trig' = trig /\ tick' = tick
    /\ phase'.op \in {"reevaluate", "reevaluateTick"} => phase'.op = phase.op

(* Only the debounce and the tick ask for one, and only their events start  *)
(* it.                                                                      *)
LEMMA StepsThatAskNot ==
    ASSUME IInv, [Next]_vars
    PROVE  \/ StartRun \/ ReevaluateDone \/ ScheduleTriggeredReevaluation
           \/ (\E e : TriggeredReevaluation(e) \/ PeriodicReevaluation(e))
           \/ NoneIsAsked
  <1>0. \A op, k : Phase(op, k).op = op
    BY ONLY PhaseOp
  <1>1. Trigger.op = "trigger" /\ (\A d, j : PointPhase(d, j).op = "point") /\ phase \in PhaseRecord
    BY <1>0 DEF Trigger, PointPhase, IInv, TypeOK
  <1>2. CASE \/ ScheduleInitialArrival \/ ScheduleReplayJob \/ ReleaseNextJob \/ ReschedulePoint
             \/ DropLoJobs \/ DispatchIdleDone \/ SimulationEnd
             \/ \E e \in events : BudgetOverrun(e)
    BY <1>0, <1>1, <1>2 DEF ScheduleInitialArrival, ScheduleReplayJob, ReleaseNextJob,
       ReschedulePoint, DropLoJobs, DispatchIdleDone, SimulationEnd, BudgetOverrun, reevalVars,
       NoneIsAsked
  <1>3. CASE \/ DispatchTerminal \/ DispatchBusy \/ DispatchWithoutModel \/ DispatchTransfer
             \/ DispatchRun \/ PreemptNow \/ PreemptDeferred \/ EnqueueJob \/ DropJob
             \/ DiscardStale \/ (\E e \in events : DeadlineCheck(e))
    BY <1>3 DEF DispatchTerminal, DispatchBusy, DispatchWithoutModel, DispatchTransfer,
       DispatchRun, PreemptNow, PreemptDeferred, EnqueueJob, DropJob, DiscardStale, DeadlineCheck,
       reevalVars, NoneIsAsked
  <1>4. CASE Ended \/ UNCHANGED vars
    BY <1>4 DEF Ended, vars, reevalVars, NoneIsAsked
  <1>5. CASE \E e, a : TaskArrival(e, a) \/ JobComplete(e, a) \/ PreemptionPoint(e, a)
                          \/ TransferComplete(e, a)
    BY <1>0, <1>1, <1>5 DEF TaskArrival, JobComplete, PreemptionPoint, TransferComplete, reevalVars,
                            NoneIsAsked
  <1>6. CASE \/ (\E j : SchedulerDropsLo(j)) \/ SchedulerDropsNoMore
             \/ \E a : DispatchIdle(a) \/ Reevaluate(a)
    BY <1>0, <1>1, <1>6 DEF SchedulerDropsLo, SchedulerDropsNoMore, DispatchIdle, Reevaluate,
                            reevalVars, NoneIsAsked, PhaseRecord
  <1> QED BY <1>2, <1>3, <1>4, <1>5, <1>6 DEF Next, EngineStep, SchedulerStep

(* ReevaluationsAreAsked is inductive.                                      *)
LEMMA AskedNext ==
    ASSUME IInv, IInv', ReevaluationsAreAsked, [Next]_vars
    PROVE  ReevaluationsAreAsked'
  <1>0. \A op, k : Phase(op, k).op = op
    BY PhaseOp
  <1>1. PeriodicInterval \in Nat /\ TriggeredInterval \in Nat /\ Unset \notin Nat
    BY EngineAssumption DEF Unset
  <1>2. CASE NoneIsAsked
    BY <1>2 DEF NoneIsAsked, ReevaluationsAreAsked
  <1>3. ASSUME NEW e \in events, TriggeredReevaluation(e)
        PROVE  ReevaluationsAreAsked'
    <2>1. e.time \in Nat /\ phase.op = "poll" /\ tick' = tick
      BY <1>3 DEF IInv, TypeOK, EventRecord, TriggeredReevaluation, Handles, Pops, Polling
    <2>2. CASE trig = [gen |-> e.ver, at |-> e.time]
      <3>1. trig.at # Unset /\ trig'.at = Unset /\ phase'.op = "reevaluate"
        BY <1>0, <1>1, <1>3, <2>1, <2>2 DEF TriggeredReevaluation
      <3> QED BY <2>1, <3>1 DEF ReevaluationsAreAsked
    <2>3. CASE trig # [gen |-> e.ver, at |-> e.time]
      <3>1. UNCHANGED <<trig, phase>>
        BY <1>3, <2>3 DEF TriggeredReevaluation
      <3> QED BY <2>1, <3>1 DEF ReevaluationsAreAsked
    <2> QED BY <2>2, <2>3
  <1>4. ASSUME NEW e \in events, PeriodicReevaluation(e)
        PROVE  ReevaluationsAreAsked'
    <2>1. /\ e.time \in Nat /\ phase.op = "poll" /\ trig' = trig
          /\ tick.gen \in Nat /\ tick = [gen |-> tick.gen, at |-> tick.at, next |-> tick.next]
      BY <1>4 DEF IInv, TypeOK, EventRecord, PeriodicReevaluation, Handles, Pops, Polling
    <2>2. CASE tick.gen = e.ver /\ tick.at = e.time
      <3>1. tick.at # Unset /\ tick'.at = Unset /\ phase'.op = "reevaluateTick"
        BY <1>0, <1>1, <1>4, <2>1, <2>2 DEF PeriodicReevaluation
      <3> QED BY <2>1, <3>1 DEF ReevaluationsAreAsked
    <2>3. CASE ~(tick.gen = e.ver /\ tick.at = e.time)
      <3>1. UNCHANGED <<tick, phase>>
        BY <1>4, <2>3 DEF PeriodicReevaluation
      <3> QED BY <2>1, <3>1 DEF ReevaluationsAreAsked
    <2> QED BY <2>2, <2>3
  <1>5. CASE StartRun \/ ReevaluateDone
    <2>1. trig' = trig /\ phase'.op = "poll"
      BY <1>0, <1>5 DEF StartRun, ReevaluateDone, Poll
    <2>2. tick' = tick \/ PeriodicInterval > 0
      <3>1. CASE StartRun
        BY <1>1, <3>1 DEF StartRun
      <3>2. CASE ReevaluateDone
        BY <1>1, <3>2 DEF ReevaluateDone, ReevaluationsAreAsked
      <3> QED BY <1>5, <3>1, <3>2
    <2> QED BY <2>1, <2>2 DEF ReevaluationsAreAsked
  <1>6. CASE ScheduleTriggeredReevaluation
    <2>1. tick' = tick /\ phase'.op = "poll" /\ (trig' = trig \/ TriggeredInterval > 0)
      BY <1>0, <1>1, <1>6 DEF ScheduleTriggeredReevaluation, Poll
    <2> QED BY <2>1 DEF ReevaluationsAreAsked
  <1>7. (\E e : TriggeredReevaluation(e) \/ PeriodicReevaluation(e)) =>
            \E e \in events : TriggeredReevaluation(e) \/ PeriodicReevaluation(e)
    BY DEF TriggeredReevaluation, PeriodicReevaluation, Handles, Pops
  <1>8. \/ StartRun \/ ReevaluateDone \/ ScheduleTriggeredReevaluation
        \/ (\E e : TriggeredReevaluation(e) \/ PeriodicReevaluation(e))
        \/ NoneIsAsked
    BY StepsThatAskNot
  <1> QED BY <1>2, <1>3, <1>4, <1>5, <1>6, <1>7, <1>8

-----------------------------------------------------------------------------
(* A reevaluation restores the least laxity                                 *)

(* While nothing is observed no laxity changes.                             *)
LEMMA LaxityStays ==
    ASSUME JobsFate, mem' = mem, NEW j \in JobIds
    PROVE  Laxity(j, mem)' = Laxity(j, mem)
  <1>1. SameJob(jobs'[j], jobs[j])
    BY DEF JobsFate, Fate
  <1> QED BY <1>1 DEF SameJob, Laxity, LeftOf, Deadline

(* The first of a queue is the least lax.                                   *)
LEMMA LeastIsLeast ==
    ASSUME IInv, NEW m, NumbersIn(m), NEW d \in DeviceIds, NEW q \in LeastLaxity(d, m),
           NEW p \in queue[d]
    PROVE  q \in queue[d] /\ Laxity(q, m) <= Laxity(p, m)
  <1>1. q \in queue[d] /\ ~Precedes(LaxityRank(p, m), LaxityRank(q, m))
    BY DEF LeastLaxity, LeastBy
  <1>2. q \in JobIds /\ p \in JobIds
    BY <1>1, QueuedJobs
  <1> PICK a, b : a = LaxityRank(p, m) /\ b = LaxityRank(q, m)
    OBVIOUS
  <1> PICK n \in Nat : n = 4
    OBVIOUS
  <1>3. /\ a \in [1 .. n -> Int] /\ b \in [1 .. n -> Int] /\ n >= 1
        /\ a[1] = Laxity(p, m) /\ b[1] = Laxity(q, m)
        /\ Laxity(p, m) \in Int /\ Laxity(q, m) \in Int
    BY <1>2, LaxityTypes
  <1>4. a[1] < b[1] => Precedes(a, b)
    BY ONLY <1>3, PrecedesByPrefix
  <1> QED BY <1>1, <1>3, <1>4

(* A slot and a queue that gain no job stay as they are.                    *)
LEMMA RestoredStays ==
    ASSUME IInv, JobsFate, mem' = mem, NEW d \in DeviceIds, Restored(d),
           running'[d] \in {running[d], NoJob}, queue'[d] \subseteq queue[d]
    PROVE  Restored(d)'
  <1> SUFFICES ASSUME FullyPreemptive(d), running[d] # NoJob, running'[d] = running[d],
                      NEW q \in queue'[d]
               PROVE  Laxity(running[d], mem)' <= Laxity(q, mem)'
    BY DEF Restored, NoneLaxer, FullyPreemptive
  <1> PICK r \in JobIds : r = running[d]
    BY RunningJob
  <1>1. q \in queue[d] /\ q \in JobIds
    BY QueuedJobs
  <1>2. Laxity(r, mem) <= Laxity(q, mem)
    BY <1>1 DEF Restored, NoneLaxer
  <1>3. Laxity(r, mem)' = Laxity(r, mem) /\ Laxity(q, mem)' = Laxity(q, mem)
    BY <1>1, LaxityStays
  <1>4. Laxity(running[d], mem)' = Laxity(r, mem)'
    BY DEF Laxity, LeftOf, Deadline
  <1> QED BY <1>2, <1>3, <1>4

(* Where a reevaluation is.                                                 *)
Restoring ==
    /\ RestoringAct
    /\ \A d \in DeviceIds : d < phase.k /\ (act.op # "none" => d # act.dev) => Restored(d)
    /\ act.op # "none" => act.dev < phase.k

(* Only an event starts a reevaluation, before the first device.            *)
LEMMA QuietReevaluates ==
    ASSUME IInv, Quiet, ReevaluationGoesOn'
    PROVE  phase'.k = 0 /\ act.op = "none" /\ phase.op = "poll"
  <1>0. \A op, k : Phase(op, k).op = op /\ Phase(op, k).k = k
    BY DEF Phase
  <1>1. CASE ScheduleInitialArrival \/ ScheduleReplayJob \/ StartRun
    BY <1>0, <1>1 DEF ScheduleInitialArrival, ScheduleReplayJob, StartRun, ReevaluationGoesOn, Poll
  <1>2. CASE DiscardStale \/ SimulationEnd
    BY <1>0, <1>2 DEF DiscardStale, SimulationEnd, Handles, Pops, Polling, ReevaluationGoesOn
  <1>3. CASE \E e \in events : BudgetOverrun(e)
    BY <1>0, <1>3 DEF BudgetOverrun, Handles, Pops, Polling, ReevaluationGoesOn, Trigger
  <1>4. CASE \E e \in events : TriggeredReevaluation(e) \/ PeriodicReevaluation(e)
    BY <1>0, <1>4 DEF TriggeredReevaluation, PeriodicReevaluation, Handles, Pops, Polling,
                      ReevaluationGoesOn
  <1>5. CASE ReleaseNextJob \/ ReschedulePoint \/ SchedulerDropsNoMore \/ DispatchIdleDone
             \/ ReevaluateDone \/ ScheduleTriggeredReevaluation \/ Ended
    BY <1>0, <1>5 DEF ReleaseNextJob, ReschedulePoint, SchedulerDropsNoMore, DispatchIdleDone,
                ReevaluateDone, ScheduleTriggeredReevaluation, Ended, Continues, Reevaluating,
                ReevaluationGoesOn, Trigger, Poll, vars
  <1> QED BY <1>1, <1>2, <1>3, <1>4, <1>5 DEF Quiet

(* Executing the preemption of a device restores it.                        *)
LEMMA ActingRestores ==
    ASSUME IInv, IInv', mem' = mem, Restoring, Acting
    PROVE  Restoring'
  <1>0. /\ act.op \in {"preempt", "dispatch"} /\ phase' = phase /\ act.dev < phase.k
        /\ JobsFate
        /\ act.op = "dispatch" =>
              /\ running[act.dev] = NoJob
              /\ act.job \in queue[act.dev] /\ NoneLaxer(act.job, act.dev)
    BY ActingKeepsPlaced, ActingFate DEF Restoring, RestoringAct
  <1>1. CASE DispatchTerminal
    <2>1. act.op = "dispatch" /\ IsTerminal(act.job) /\ act.dev \in DeviceIds
      BY <1>1 DEF DispatchTerminal, Executing, IInv, ActionIsSound, SoundAction, Placeable
    <2> QED BY <1>0, <2>1, QueuedIsPlaceable DEF IsTerminal, TerminalStates
  <1>2. CASE DispatchBusy
    BY <1>0, <1>2, DispatchBusyEffect
  <1>3. CASE DispatchWithoutModel \/ DispatchTransfer \/ DispatchRun
    <2>1. /\ MayDispatch
          /\ running' \in {running, [running EXCEPT ![act.dev] = act.job]}
      BY <1>3, DispatchWithoutModelEffect, DispatchTransferEffect, DispatchRunEffect
    <2>2. /\ act.op = "dispatch" /\ act' = NoAction /\ act.job \in JobIds /\ act.dev \in DeviceIds
          /\ LeavesQueues(act.job) /\ running[act.dev] = NoJob
      BY <2>1, MayDispatchEffect
    <2>3. running \in [DeviceIds -> JobIds \cup {NoJob}]
      BY DEF IInv, TypeOK
    <2>4. ASSUME NEW d \in DeviceIds, d < phase.k
          PROVE  Restored(d)'
      <3>1. queue'[d] \subseteq queue[d]
        BY <2>2 DEF LeavesQueues
      <3>2. CASE running'[d] = running[d]
        <4>1. Restored(d)
          <5>1. CASE d = act.dev
            BY <2>2, <5>1 DEF Restored
          <5>2. CASE d # act.dev
            BY <2>4, <5>2 DEF Restoring
          <5> QED BY <5>1, <5>2
        <4> QED BY <1>0, <3>1, <3>2, <4>1, RestoredStays
      <3>3. CASE running'[d] # running[d]
        <4>1. d = act.dev /\ running'[d] = act.job
          BY <2>1, <2>2, <2>3, <3>3
        <4> SUFFICES ASSUME NEW q \in queue'[d]
                     PROVE  Laxity(running[d], mem)' <= Laxity(q, mem)'
          BY DEF Restored, NoneLaxer
        <4> PICK j \in JobIds : j = act.job
          BY <2>2
        <4>2. q \in queue[d] /\ q \in JobIds
          BY <3>1, QueuedJobs
        <4>3. Laxity(j, mem) <= Laxity(q, mem)
          BY <1>0, <2>2, <4>1, <4>2 DEF NoneLaxer
        <4>4. Laxity(q, mem)' = Laxity(q, mem) /\ Laxity(j, mem)' = Laxity(j, mem)
          BY <1>0, <4>2, LaxityStays
        <4>5. Laxity(running[d], mem)' = Laxity(j, mem)'
          BY <4>1 DEF Laxity, LeftOf, Deadline
        <4> QED BY <4>3, <4>4, <4>5
      <3> QED BY <3>2, <3>3
    <2>5. act'.op = "none"
      BY <2>2 DEF NoAction
    <2> QED BY <1>0, <2>4, <2>5 DEF Restoring, RestoringAct
  <1>4. CASE PreemptNow
    <2>1. /\ act.op = "preempt" /\ act.dev \in DeviceIds /\ act.job \in JobIds /\ act.by \in JobIds
          /\ running[act.dev] = act.job /\ act.job # NoJob
          /\ Joins(act.job, act.dev) /\ running' = [running EXCEPT ![act.dev] = NoJob]
          /\ act'.op = "dispatch" /\ act'.job = act.by /\ act'.dev = act.dev
      BY <1>4, PreemptNowEffect
    <2> PICK d \in DeviceIds, v \in JobIds, j \in JobIds : d = act.dev /\ v = act.job /\ j = act.by
      BY <2>1
    <2>2. /\ running \in [DeviceIds -> JobIds \cup {NoJob}]
          /\ queue \in [DeviceIds -> SUBSET JobIds]
      BY DEF IInv, TypeOK
    <2>3. /\ running'[d] = NoJob /\ queue'[d] = queue[d] \cup {v}
          /\ \A c \in DeviceIds : c # d => running'[c] = running[c] /\ queue'[c] = queue[c]
      BY <2>1, <2>2 DEF Joins
    <2>4. j \in queue[d] /\ NoneLaxer(j, d) /\ Laxity(j, mem) <= Laxity(v, mem)
      BY <2>1 DEF Restoring, RestoringAct
    <2>5. ASSUME NEW c \in DeviceIds, c < phase.k, c # d
          PROVE  Restored(c)'
      <3>1. Restored(c)
        BY <2>5 DEF Restoring
      <3> QED BY <1>0, <2>3, <2>5, <3>1, RestoredStays
    <2>6. ASSUME NEW q \in queue'[d]
          PROVE  Laxity(act.job, mem)' <= Laxity(q, mem)'
      <3>1. q \in JobIds /\ Laxity(j, mem) <= Laxity(q, mem)
        BY <2>2, <2>3, <2>4 DEF NoneLaxer
      <3>2. Laxity(q, mem)' = Laxity(q, mem) /\ Laxity(j, mem)' = Laxity(j, mem)
        BY <1>0, <3>1, LaxityStays
      <3>3. Laxity(act.job, mem)' = Laxity(j, mem)'
        BY <2>1 DEF Laxity, LeftOf, Deadline
      <3> QED BY <3>1, <3>2, <3>3
    <2>7. RestoringAct'
      <3>1. running'[act'.dev] = NoJob /\ act'.job \in queue'[act'.dev]
        BY <2>1, <2>3, <2>4
      <3>2. NoneLaxer(act.job, act.dev)'
        BY <2>1, <2>6 DEF NoneLaxer
      <3> QED BY <2>1, <3>1, <3>2 DEF RestoringAct
    <2> QED BY <1>0, <2>1, <2>5, <2>7 DEF Restoring
  <1>5. CASE PreemptDeferred
    <2>1. /\ act.op = "preempt"
          /\ ~(AllowsPreemption(act.dev, act.atPoint) /\ running[act.dev] = act.job)
      BY <1>5, PreemptDeferredEffect
    <2> QED BY <2>1 DEF Restoring, RestoringAct, FullyPreemptive, AllowsPreemption
  <1>6. CASE EnqueueJob \/ DropJob
    BY <1>0, <1>6, EnqueueJobEffect, DropJobEffect
  <1> QED BY <1>1, <1>2, <1>3, <1>4, <1>5, <1>6 DEF Acting

(* The answer for one device preempts its job for the least lax of its      *)
(* queue, unless it is the least lax itself.                                *)
LEMMA AnswerRestores ==
    ASSUME IInv, policy = "Llf", policy' = policy, NumbersIn(mem), Restoring,
           NEW a, Reevaluates(a)
    PROVE  Restoring'
  <1>1. /\ act.op = "none" /\ phase.k \in DeviceIds /\ act' = a /\ phase'.k = phase.k + 1
        /\ a \in LlfReevaluation(phase.k, mem) /\ mem' = mem
        /\ JobsStay /\ UNCHANGED <<running, queue>>
    <2>1. Reevaluate(a) /\ a \in Answers(Reevaluated(phase.k, now), mem)
      BY DEF Reevaluates
    <2>2. phase'.k = phase.k + 1
      BY <2>1 DEF Reevaluate, IInv, TypeOK, PhaseRecord
    <2>3. a \in LlfReevaluation(phase.k, mem)
      BY <2>1 DEF Answers, LlfAnswers, Reevaluated, Call
    <2> QED BY <2>1, <2>2, <2>3 DEF Reevaluates, Reevaluate, Reevaluating
  <1> PICK k \in DeviceIds : k = phase.k
    BY <1>1
  <1>2. JobsFate /\ k \in Nat /\ \A d \in DeviceIds : d \in Nat
    BY <1>1, StayFate DEF DeviceIds
  <1>3. ASSUME NEW d \in DeviceIds, d < k
        PROVE  Restored(d)'
    <2>1. Restored(d)
      BY <1>1, <1>3 DEF Restoring
    <2> QED BY <1>1, <1>2, <2>1, RestoredStays
  <1>4. CASE a = NoAction
    <2>1. running[k] # NoJob /\ FullyPreemptive(k) => LessLax(k, mem) = {}
      BY <1>1, <1>4 DEF LlfReevaluation, NoOpIf, Preempt, NoAction
    <2>2. Restored(k)
      <3> SUFFICES ASSUME FullyPreemptive(k), running[k] # NoJob, NEW q \in queue[k]
                   PROVE  Laxity(running[k], mem) <= Laxity(q, mem)
        BY DEF Restored, NoneLaxer
      <3>1. PICK l : l \in LeastLaxity(k, mem)
        BY LeastLaxityExists
      <3>2. l \in queue[k] /\ Laxity(l, mem) <= Laxity(q, mem)
        BY <3>1, LeastIsLeast
      <3>3. ~(Laxity(l, mem) < Laxity(running[k], mem))
        BY <2>1, <3>1 DEF LessLax
      <3>4. Laxity(l, mem) \in Int /\ Laxity(q, mem) \in Int /\ Laxity(running[k], mem) \in Int
        BY <3>2, QueuedJobs, RunningJob, LaxityTypes
      <3> QED BY <3>2, <3>3, <3>4
    <2>3. Restored(k)'
      BY <1>1, <1>2, <2>2, RestoredStays
    <2> QED BY <1>1, <1>2, <1>3, <1>4, <2>3 DEF Restoring, RestoringAct, NoAction
  <1>5. ASSUME running[k] # NoJob, FullyPreemptive(k), NEW q \in LessLax(k, mem),
               a = Preempt(running[k], q, k, FALSE)
        PROVE  Restoring'
    <2>1. a.op = "preempt" /\ a.job = running[k] /\ a.by = q /\ a.dev = k
      BY <1>5 DEF Preempt, NoAction
    <2>2. q \in LeastLaxity(k, mem) /\ Laxity(q, mem) < Laxity(running[k], mem)
      BY <1>5 DEF LessLax
    <2>3. q \in queue[k] /\ \A p \in queue[k] : Laxity(q, mem) <= Laxity(p, mem)
      <3>1. q \in queue[k]
        BY <2>2 DEF LeastLaxity, LeastBy
      <3> QED BY <2>2, <3>1, LeastIsLeast
    <2> PICK r \in JobIds : r = running[k]
      BY <1>5, RunningJob
    <2>4. \A j \in JobIds : Laxity(j, mem)' = Laxity(j, mem) /\ Laxity(j, mem) \in Int
      BY <1>1, <1>2, LaxityStays, LaxityTypes
    <2>5. queue[k] \subseteq JobIds
      BY QueuedJobs
    <2>6. Laxity(act.by, mem)' = Laxity(q, mem)' /\ Laxity(act.job, mem)' = Laxity(r, mem)'
      BY <1>1, <2>1 DEF Laxity, LeftOf, Deadline
    <2>7. NoneLaxer(act.by, act.dev)'
      BY <1>1, <2>1, <2>3, <2>4, <2>5, <2>6 DEF NoneLaxer
    <2>8. Laxity(act.by, mem)' <= Laxity(act.job, mem)'
      <3>1. q \in JobIds /\ Laxity(q, mem) < Laxity(r, mem)
        BY <2>2, <2>3, <2>5
      <3> QED BY <2>4, <2>6, <3>1
    <2>9. RestoringAct'
      BY <1>1, <1>5, <2>1, <2>3, <2>7, <2>8 DEF RestoringAct, FullyPreemptive
    <2> QED BY <1>1, <1>2, <1>3, <2>1, <2>9 DEF Restoring
  <1> QED BY <1>1, <1>4, <1>5 DEF LlfReevaluation, NoOpIf

(* LaxityIInv is inductive.                                                 *)
LEMMA LaxityNext ==
    ASSUME IInv, IInv', policy \in Schedulers, EstimatesAreNumbers, LaxityIInv,
           [PolicyNext]_policyVars
    PROVE  LaxityIInv'
  <1> SUFFICES ASSUME policy' = "Llf", ReevaluationGoesOn'
               PROVE  Restoring'
    BY DEF LaxityIInv, Restoring
  <1>1. policy' = policy /\ policy = "Llf" /\ NumbersIn(mem)
    BY DEF PolicyNext, policyVars, EstimatesAreNumbers
  <1>2. ReevaluationGoesOn => Restoring
    BY <1>1 DEF LaxityIInv, Restoring
  <1>3. JobsFate /\ \A d \in DeviceIds : d \in Nat
    BY FateOfJobs DEF DeviceIds
  <1>4. phase'.k = 0 /\ act'.op = "none" => Restoring'
    BY <1>3 DEF Restoring, RestoringAct
  <1>5. ASSUME NEW cb, Consults(cb)
        PROVE  Restoring'
    BY <1>5 DEF Consults, ReevaluationGoesOn
  <1>6. ASSUME NEW cb, Observes(cb)
        PROVE  Restoring'
    BY <1>4, <1>6 DEF Observes
  <1>7. ASSUME NEW a, Reevaluates(a)
        PROVE  Restoring'
    BY <1>1, <1>2, <1>7, AnswerRestores DEF Reevaluates, Reevaluating, ReevaluationGoesOn
  <1>8. CASE Unasked
    <2>1. CASE Acting
      <3>1. phase' = phase
        BY <2>1, ActingKeepsPlaced
      <3> QED BY <1>2, <1>8, <2>1, <3>1, ActingRestores DEF Unasked, ReevaluationGoesOn
    <2>2. CASE Quiet
      BY <1>4, <2>2, QuietReevaluates, QuietSteps DEF QuietEffect
    <2>3. CASE \E e \in events : DeadlineCheck(e)
      <3>1. phase.op = "poll" /\ phase' = phase
        BY <2>3, DeadlineCheckEffect
      <3> QED BY <3>1 DEF ReevaluationGoesOn
    <2>4. CASE Purging
      BY <2>4 DEF Purging, ReevaluationGoesOn
    <2>5. CASE UNCHANGED policyVars
      BY <1>2, <2>5 DEF policyVars, vars, jobVars, deviceVars, ReevaluationGoesOn, Restoring,
            RestoringAct, Restored, NoneLaxer, Laxity, LeftOf, Deadline, FullyPreemptive
    <2> QED BY <1>8, <2>1, <2>2, <2>3, <2>4, <2>5 DEF Unasked
  <1> QED BY <1>5, <1>6, <1>7, <1>8, StepsOfAPolicy

(* The invariants of LLF's reevaluations.                                   *)
LaxityInv == BaseInv /\ EstimatesAreNumbers /\ ReevaluationsAreAsked /\ LaxityIInv

(* They hold at the start ...                                               *)
LEMMA LaxityStarts == PolicyInit => LaxityInv
  <1> SUFFICES ASSUME PolicyInit PROVE LaxityInv
    OBVIOUS
  <1>1. BaseInv /\ EstimatesAreNumbers
    BY ScheduleInit DEF ScheduleInv
  <1>2. phase.op = "setup" /\ trig.at = Unset /\ tick.at = Unset
    BY DEF PolicyInit, Init, Phase
  <1> QED BY <1>1, <1>2 DEF LaxityInv, ReevaluationsAreAsked, LaxityIInv, ReevaluationGoesOn

(* ... and after every step.                                                *)
LEMMA LaxityGoesOn == LaxityInv /\ [PolicyNext]_policyVars => LaxityInv'
  <1> SUFFICES ASSUME LaxityInv, [PolicyNext]_policyVars PROVE LaxityInv'
    OBVIOUS
  <1>1. BaseInv' /\ policy \in Schedulers
    BY BaseNext DEF LaxityInv
  <1>2. IInv /\ IInv'
    BY <1>1 DEF LaxityInv, BaseInv
  <1>3. EstimatesAreNumbers'
    BY <1>2, NumbersNext DEF LaxityInv
  <1>4. [Next]_vars
    BY <1>1, <1>2, PolicyNextIsNext
  <1>5. ReevaluationsAreAsked' /\ LaxityIInv'
    BY <1>1, <1>2, <1>4, AskedNext, LaxityNext DEF LaxityInv
  <1> QED BY <1>1, <1>3, <1>5 DEF LaxityInv

(* At the end of every reevaluation, under whatever bounds on their         *)
(* frequency, each fully preemptive device runs a job none of its queue is  *)
(* less lax than: the answer of one device is executed before the next is   *)
(* asked for, and no preemption changes a laxity or another device.         *)
THEOREM ReevaluationsRestoreLaxity == PolicySpec => []LaxityRestored
  <1>1. LaxityInv => LaxityRestored
    <2> SUFFICES ASSUME LaxityInv, Reevaluating, phase.k \notin DeviceIds, NEW d \in DeviceIds
                 PROVE  Restored(d)
      BY DEF LaxityRestored, Restored, NoneLaxer
    <2>1. PeriodicInterval \in Nat /\ TriggeredInterval \in Nat
      BY EngineAssumption
    <2>2. policy = "Llf"
      BY <2>1, PoliciesAssumption
         DEF LaxityInv, BaseInv, ReevaluationsAreAsked, Reevaluating
    <2>3. phase.k \in Nat /\ d \in Nat /\ d < phase.k
      BY PlatformAssumption DEF LaxityInv, BaseInv, IInv, TypeOK, PhaseRecord, DeviceIds
    <2> QED BY <2>2, <2>3 DEF LaxityInv, LaxityIInv, Reevaluating, ReevaluationGoesOn
  <1>2. PolicyInit => LaxityInv
    BY LaxityStarts
  <1>3. LaxityInv /\ [PolicyNext]_policyVars => LaxityInv'
    BY LaxityGoesOn
  <1> QED BY <1>1, <1>2, <1>3, PTL DEF PolicySpec

-----------------------------------------------------------------------------
(* The work of a job                                                        *)

(* On a fast device the work done grows by a nanosecond in every nanosecond *)
(* at least.                                                                *)
LEMMA WallToWorkGrows ==
    ASSUME NEW d \in DeviceIds, NEW a \in Nat, NEW b \in Nat, a <= b, Fast(d)
    PROVE  /\ WallToWork(a, d) \in Nat /\ WallToWork(b, d) \in Nat
           /\ WallToWork(a, d) + (b - a) <= WallToWork(b, d)
  <1> PICK n, m : n = Device[d].num /\ m = Device[d].den
    OBVIOUS
  <1>1. n \in Nat /\ m \in Nat \ {0} /\ m <= n
    BY PlatformAssumption DEF DeviceRecord, Fast
  <1>2. WallToWork(a, d) = (a * n) \div m /\ WallToWork(b, d) = (b * n) \div m
    BY <1>1 DEF WallToWork
  <1> PICK p : p = a * n
    OBVIOUS
  <1> PICK q : q = b * n
    OBVIOUS
  <1> PICK u : u = (b - a) * n
    OBVIOUS
  <1> PICK v : v = (b - a) * m
    OBVIOUS
  <1>3. p \in Nat /\ q \in Nat /\ u \in Nat /\ v \in Nat /\ q = p + u
    BY ONLY <1>1, a \in Nat, b \in Nat, a <= b, p = a * n, q = b * n, u = (b - a) * n,
            v = (b - a) * m
  <1>4. v <= u
    BY ONLY <1>1, a \in Nat, b \in Nat, a <= b, u = (b - a) * n, v = (b - a) * m
  <1>5. (p + v) \div m = p \div m + (b - a)
    BY ONLY <1>1, <1>3, a \in Nat, b \in Nat, v = (b - a) * m
  <1>6. (p + v) \div m <= q \div m
    BY ONLY <1>1, <1>3, <1>4
  <1>7. p \div m \in Nat /\ q \div m \in Nat
    BY ONLY <1>1, <1>3
  <1> QED BY <1>2, <1>5, <1>6, <1>7

(* What a step does to the work of a job: nothing, or the job ends or is    *)
(* sent for its data, is preempted, or starts.                              *)
WorkFate(k) ==
    \/ /\ jobs'[k].actual = jobs[k].actual /\ jobs'[k].exec = jobs[k].exec
       /\ jobs'[k].state = "Running" <=> jobs[k].state = "Running"
       /\ jobs'[k].state = "Running" => jobs'[k].start = jobs[k].start
    \/ jobs'[k].state \in TerminalStates \cup {"Transferring"}
    \/ /\ jobs[k].state = "Running" /\ jobs'[k].state = "Suspended" /\ now' = now
       /\ jobs'[k].actual = jobs[k].actual
       /\ jobs'[k].exec = jobs[k].exec +
             MinOf(WallToWork(now - jobs[k].start, jobs[k].dev), Remaining(jobs[k]))
    \/ /\ act.op = "dispatch" /\ k = act.job
       /\ jobs'[k].state = "Running" /\ jobs'[k].dev = act.dev
       /\ jobs'[k].exec = jobs[k].exec
       /\ IF jobs[k].actual = Unset THEN jobs'[k].actual \in ExecTimes
          ELSE jobs'[k].actual = jobs[k].actual

(* An assignment and a change of state leave the work of a record alone, ...*)
LEMMA SettledRecord ==
    ASSUME NEW r \in JobRecord, NEW d, NEW t, NEW s
    PROVE  /\ Settle(Assigned(r, d, t), s).actual = r.actual
           /\ Settle(Assigned(r, d, t), s).exec = r.exec
           /\ Settle(Assigned(r, d, t), s).state = s
  BY DEF JobRecord, Settle, Assigned, Transition

(* ... a start resolves its demand, ...                                     *)
LEMMA StartedRecord ==
    ASSUME NEW r \in JobRecord, NEW x, NEW d, NEW t, NEW s
    PROVE  /\ Transition(Assigned(Resolved(r, x), d, t), s).state = s
           /\ Transition(Assigned(Resolved(r, x), d, t), s).dev = d
           /\ Transition(Assigned(Resolved(r, x), d, t), s).exec = r.exec
           /\ Transition(Assigned(Resolved(r, x), d, t), s).actual =
                 IF r.actual = Unset THEN x ELSE r.actual
  BY DEF JobRecord, Assigned, Resolved, Transition

(* ... and the end of a stretch adds to the work.                           *)
LEMMA StoppedRecord ==
    ASSUME NEW r \in JobRecord, NEW d, NEW t, NEW s
    PROVE  /\ Transition(Progressed(r, d, t), s).state = s
           /\ Transition(Progressed(r, d, t), s).actual = r.actual
           /\ Transition(Progressed(r, d, t), s).exec =
                 r.exec + MinOf(WallToWork(t - r.start, d), Remaining(r))
  BY DEF JobRecord, Transition, Progressed

(* What executing an action does to the work of the jobs.                   *)
LEMMA ActingWork ==
    ASSUME IInv, Acting, NEW k \in JobIds
    PROVE  WorkFate(k)
  <1>1. \A j \in JobIds : jobs[j] \in JobRecord
    BY DEF IInv, TypeOK
  <1>2. CASE DispatchTerminal \/ DispatchBusy \/ DispatchWithoutModel \/ PreemptDeferred
    <2>1. JobsStay
      BY <1>2, DispatchTerminalEffect, DispatchBusyEffect, DispatchWithoutModelEffect,
         PreemptDeferredEffect
    <2> QED BY <2>1 DEF JobsStay, WorkFate
  <1>3. CASE DispatchTransfer
    <2>1. Becomes(act.job, "Transferring", act.dev)
      BY <1>3, DispatchTransferEffect
    <2> QED BY <2>1 DEF Becomes, WorkFate
  <1>4. CASE DispatchRun
    <2>1. act.job \in JobIds /\ act.op = "dispatch"
      BY <1>4, DispatchRunEffect, MayDispatchEffect
    <2>2. PICK x \in ExecTimes :
             jobs' = [jobs EXCEPT ![act.job] =
                        Transition(Assigned(Resolved(jobs[act.job], x), act.dev, now), "Running")]
      BY <1>4 DEF DispatchRun
    <2>3. CASE k = act.job
      <3>1. jobs'[k] = Transition(Assigned(Resolved(jobs[k], x), act.dev, now), "Running")
        BY <2>1, <2>2, <2>3 DEF IInv, TypeOK
      <3>2. /\ jobs'[k].state = "Running" /\ jobs'[k].dev = act.dev
            /\ jobs'[k].exec = jobs[k].exec
            /\ jobs'[k].actual = IF jobs[k].actual = Unset THEN x ELSE jobs[k].actual
        <4>1. jobs[k] \in JobRecord
          BY <1>1
        <4> QED BY <3>1, <4>1, StartedRecord
      <3> QED BY <2>1, <2>3, <3>2 DEF WorkFate
    <2>4. CASE k # act.job
      <3>1. jobs'[k] = jobs[k]
        BY <2>2, <2>4 DEF IInv, TypeOK
      <3> QED BY <3>1 DEF WorkFate
    <2> QED BY <2>3, <2>4
  <1>5. CASE PreemptNow
    <2>1. act.job \in JobIds /\ running[act.dev] = act.job /\ act.dev \in DeviceIds
          /\ act.job # NoJob
      BY <1>5, PreemptNowEffect
    <2>2. jobs[act.job].state = "Running" /\ jobs[act.job].dev = act.dev
      BY <2>1 DEF IInv, Placement, SlotsHoldRunningJobs
    <2>3. /\ jobs' = [jobs EXCEPT ![act.job] = Transition(Progressed(@, act.dev, now), "Suspended")]
          /\ now' = now
      BY <1>5 DEF PreemptNow
    <2>4. CASE k = act.job
      <3>1. jobs'[k] = Transition(Progressed(jobs[k], act.dev, now), "Suspended")
        BY <2>1, <2>3, <2>4 DEF IInv, TypeOK
      <3>2. /\ jobs'[k].state = "Suspended" /\ jobs'[k].actual = jobs[k].actual
            /\ jobs'[k].exec = jobs[k].exec +
                  MinOf(WallToWork(now - jobs[k].start, act.dev), Remaining(jobs[k]))
        <4>1. jobs[k] \in JobRecord
          BY <1>1
        <4> QED BY <3>1, <4>1, StoppedRecord
      <3> QED BY <2>2, <2>3, <2>4, <3>2 DEF WorkFate
    <2>5. CASE k # act.job
      <3>1. jobs'[k] = jobs[k]
        BY <2>3, <2>5 DEF IInv, TypeOK
      <3> QED BY <3>1 DEF WorkFate
    <2> QED BY <2>4, <2>5
  <1>6. CASE EnqueueJob
    <2>1. CASE IsTerminal(act.job)
      <3>1. JobsStay
        BY <1>6, <2>1, EnqueueJobEffect
      <3> QED BY <3>1 DEF JobsStay, WorkFate
    <2>2. CASE ~IsTerminal(act.job)
      <3>1. act.job \in JobIds /\ act.op = "enqueue"
        BY <1>6, EnqueueJobEffect
      <3>2. jobs' = [jobs EXCEPT ![act.job] = Settle(Assigned(@, act.dev, Unset), "Ready")]
        BY <1>6, <2>2 DEF EnqueueJob
      <3>3. CASE k = act.job
        <4>1. jobs'[k] = Settle(Assigned(jobs[k], act.dev, Unset), "Ready")
          BY <3>1, <3>2, <3>3 DEF IInv, TypeOK
        <4>2. jobs[k].state # "Running"
          BY <2>2, <3>1, <3>3 DEF IInv, ActionIsSound, SoundAction, Placeable
        <4>3. /\ jobs'[k].actual = jobs[k].actual /\ jobs'[k].exec = jobs[k].exec
              /\ jobs'[k].state = "Ready"
          <5>1. jobs[k] \in JobRecord
            BY <1>1
          <5> QED BY <4>1, <5>1, SettledRecord
        <4> QED BY <4>2, <4>3 DEF WorkFate
      <3>4. CASE k # act.job
        <4>1. jobs'[k] = jobs[k]
          BY <3>2, <3>4 DEF IInv, TypeOK
        <4> QED BY <4>1 DEF WorkFate
      <3> QED BY <3>3, <3>4
    <2> QED BY <2>1, <2>2
  <1>7. CASE DropJob
    <2>1. IF IsTerminal(act.job) THEN JobsStay
          ELSE Becomes(act.job, "Dropped", jobs[act.job].dev)
      BY <1>7, DropJobEffect
    <2> QED BY <2>1 DEF JobsStay, Becomes, WorkFate, TerminalStates
  <1> QED BY <1>2, <1>3, <1>4, <1>5, <1>6, <1>7 DEF Acting

(* A step that leaves the jobs alone or ends one.                           *)
LEMMA EndingWork ==
    ASSUME NEW k \in JobIds,
           JobsStay \/ \E j, d : \E s \in TerminalStates : Becomes(j, s, d)
    PROVE  WorkFate(k)
  BY DEF JobsStay, Becomes, WorkFate

(* What a step does to the work of the jobs when no action is executed.     *)
LEMMA CallWork ==
    ASSUME IInv, NEW k \in JobIds,
           \/ Quiet \/ DropLoJobs
           \/ \E e \in events : DeadlineCheck(e)
           \/ \E j : SchedulerDropsLo(j)
           \/ \E a : DispatchIdle(a) \/ Reevaluate(a)
           \/ \E e \in EventsOf("TaskArrival") : \E a : TaskArrival(e, a)
           \/ \E e \in EventsOf("JobComplete") : \E a : JobComplete(e, a)
           \/ \E e \in EventsOf("PreemptionPoint") : \E a : PreemptionPoint(e, a)
    PROVE  WorkFate(k)
  <1>1. CASE Quiet
    <2>1. jobs'[k] = jobs[k]
      BY <1>1, QuietSteps DEF QuietEffect
    <2> QED BY <2>1 DEF WorkFate
  <1>2. CASE \/ \E j : SchedulerDropsLo(j)
             \/ DropLoJobs
             \/ \E a : DispatchIdle(a) \/ Reevaluate(a)
    BY <1>2, LoopStepsEffect, EndingWork
  <1>3. CASE \E e \in events : DeadlineCheck(e)
    BY <1>3, EndingWork, DeadlineCheckEffect DEF TerminalStates
  <1>4. CASE \/ \E e \in EventsOf("TaskArrival") : \E a : TaskArrival(e, a)
             \/ \E e \in EventsOf("JobComplete") : \E a : JobComplete(e, a)
             \/ \E e \in EventsOf("PreemptionPoint") : \E a : PreemptionPoint(e, a)
    BY <1>4, EndingWork, TaskArrivalEffect, JobCompleteEffect, PreemptionPointEffect
    DEF TerminalStates
  <1> QED BY <1>1, <1>2, <1>3, <1>4

(* A job that gets its data has not worked meanwhile.                       *)
LEMMA TransferWork ==
    ASSUME IInv, NEW k \in JobIds, NEW e \in EventsOf("TransferComplete"), NEW a,
           TransferComplete(e, a)
    PROVE  WorkFate(k)
  <1>1. /\ ~IsTerminal(e.job) /\ e.job \in JobIds
        /\ jobs[e.job].state = "Transferring" /\ jobs[e.job] \in JobRecord
    BY TransferCompleteEffect DEF IInv, TypeOK
  <1>2. jobs' = [jobs EXCEPT ![e.job] = Settle(Assigned(@, e.dev, Unset), "Ready")]
    BY <1>1 DEF TransferComplete
  <1>3. CASE k = e.job
    <2>1. jobs'[k] = Settle(Assigned(jobs[k], e.dev, Unset), "Ready")
      BY <1>1, <1>2, <1>3 DEF IInv, TypeOK
    <2>2. /\ jobs'[k].actual = jobs[k].actual /\ jobs'[k].exec = jobs[k].exec
          /\ jobs'[k].state = "Ready"
      <3>1. jobs[k] \in JobRecord
        BY <1>1, <1>3
      <3> QED BY <2>1, <3>1, SettledRecord
    <2> QED BY <1>1, <1>3, <2>2 DEF WorkFate
  <1>4. CASE k # e.job
    <2>1. jobs'[k] = jobs[k]
      BY <1>2, <1>4 DEF IInv, TypeOK
    <2> QED BY <2>1 DEF WorkFate
  <1> QED BY <1>3, <1>4

(* Every step treats the work of every job like this.                       *)
LEMMA WorkOfJobs ==
    ASSUME IInv, policy \in Schedulers, [PolicyNext]_policyVars, NEW k \in JobIds
    PROVE  WorkFate(k)
  <1>1. [Next]_vars
    BY PolicyNextIsNext
  <1>2. CASE EngineStep
    BY <1>2, EngineSteps, ActingWork, CallWork
  <1>3. CASE SchedulerStep
    <2>1. CASE SchedulerDropsNoMore
      BY <2>1, CallWork DEF Quiet
    <2>2. CASE \/ \E j : SchedulerDropsLo(j)
               \/ \E a : DispatchIdle(a) \/ Reevaluate(a)
      BY <2>2, CallWork
    <2>3. CASE \E e \in EventsOf("TransferComplete") : \E a : TransferComplete(e, a)
      BY <2>3, TransferWork
    <2>4. CASE \/ \E e \in EventsOf("TaskArrival") : \E a : TaskArrival(e, a)
               \/ \E e \in EventsOf("JobComplete") : \E a : JobComplete(e, a)
               \/ \E e \in EventsOf("PreemptionPoint") : \E a : PreemptionPoint(e, a)
      BY <2>4, CallWork
    <2> QED BY <1>3, <2>1, <2>2, <2>3, <2>4 DEF SchedulerStep
  <1>4. CASE UNCHANGED vars
    BY <1>4 DEF vars, jobVars, WorkFate
  <1> QED BY <1>1, <1>2, <1>3, <1>4 DEF Next

-----------------------------------------------------------------------------
(* Estimates                                                                *)

(* The device an arriving job is sent to is one.                            *)
LEMMA LeastLoadedIsOne ==
    ASSUME IInv, NEW D \in SUBSET DeviceIds, NEW c \in LeastLoaded(D), NEW d \in LeastLoaded(D)
    PROVE  c = d
  <1>1. /\ c \in D /\ d \in D
        /\ ~Precedes(<<BusyRank(c), QueueLength(c), c>>, <<BusyRank(d), QueueLength(d), d>>)
        /\ ~Precedes(<<BusyRank(d), QueueLength(d), d>>, <<BusyRank(c), QueueLength(c), c>>)
    BY DEF LeastLoaded, LeastBy
  <1> PICK a, b : a = <<BusyRank(c), QueueLength(c), c>> /\ b = <<BusyRank(d), QueueLength(d), d>>
    OBVIOUS
  <1>2. /\ DOMAIN a = 1 .. 3 /\ DOMAIN b = 1 .. 3
        /\ a[1] \in Int /\ a[2] \in Int /\ a[3] \in Int
        /\ b[1] \in Int /\ b[2] \in Int /\ b[3] \in Int
        /\ a[3] = c /\ b[3] = d
    BY <1>1, QueuesAreFinite DEF BusyRank, DeviceIds
  <1>3. ~Precedes(a, b) /\ ~Precedes(b, a)
    BY <1>1
  <1>4. \A i \in 1 .. 3 : a[i] >= b[i] \/ \E k \in 1 .. i - 1 : a[k] # b[k]
    BY <1>2, <1>3 DEF Precedes
  <1>5. \A i \in 1 .. 3 : b[i] >= a[i] \/ \E k \in 1 .. i - 1 : b[k] # a[k]
    BY <1>2, <1>3 DEF Precedes
  <1>6. a[1] = b[1]
    BY <1>2, <1>4, <1>5
  <1>7. a[2] = b[2]
    BY <1>2, <1>4, <1>5, <1>6
  <1> QED BY <1>2, <1>4, <1>5, <1>6, <1>7

(* Of finitely many numbers some is the greatest.                           *)
LEMMA GreatestNumber ==
    ASSUME NEW S, IsFiniteSet(S), S # {}, NEW f \in [S -> Nat]
    PROVE  \E w \in S : \A x \in S : f[x] <= f[w]
  <1> DEFINE R == {p \in S \X S : f[p[1]] > f[p[2]]}
  <1>1. \A x \in S : <<x, x>> \notin R
    OBVIOUS
  <1>2. \A x, y, z \in S : <<x, y>> \in R /\ <<y, z>> \in R => <<x, z>> \in R
    OBVIOUS
  <1>3. \E w \in S : \A x \in S : <<x, w>> \notin R
    <2> HIDE DEF R
    <2> QED BY <1>1, <1>2, FiniteMinimum
  <1>4. PICK w \in S : \A x \in S : <<x, w>> \notin R
    BY <1>3
  <1>5. \A x \in S : ~(f[x] > f[w])
    BY <1>4
  <1> QED BY <1>5

(* Where the worst cases of the models are, no demand exceeds them.         *)
LEMMA WorstCase ==
    ASSUME WorstCasesAreWorst, NEW t \in TaskIds, NEW i \in DOMAIN Task[t].execTimes,
           NEW l, NEW x \in Outcomes(Task[t].execTimes[i].model, l)
    PROVE  x <= Task[t].execTimes[i].model.hi /\ Task[t].execTimes[i].model.hi \in Nat
  <1> PICK m : m = Task[t].execTimes[i].model
    OBVIOUS
  <1>1. m \in ExecModel
    <2>1. Task[t].execTimes \in Seq([type: DeviceTypes, model: ExecModel])
      BY PlatformAssumption DEF TaskRecord
    <2>2. Task[t].execTimes[i] \in [type: DeviceTypes, model: ExecModel]
      BY <2>1, ElementOf
    <2> QED BY <2>2
  <1>2. m.kind # "Deterministic" => m.lo <= m.hi
    BY DEF WorstCasesAreWorst
  <1> QED BY <1>1, <1>2 DEF Outcomes, ExecModel

(* The estimate for a device covers whatever is drawn for it there.         *)
LEMMA EstimateCovers ==
    ASSUME IInv, WorstCasesAreWorst, NEW j \in JobIds, NEW d \in DeviceIds
    PROVE  IF jobs[j].actual # Unset THEN Estimate(jobs[j], d) = jobs[j].actual
           ELSE \A l \in Levels : \A x \in SampleExecTime(jobs[j].task, d, l) :
                   x <= Estimate(jobs[j], d)
  <1>1. CASE jobs[j].actual # Unset
    BY <1>1 DEF Estimate
  <1>2. ASSUME jobs[j].actual = Unset, NEW l \in Levels,
               NEW x \in SampleExecTime(jobs[j].task, d, l)
        PROVE  x <= Estimate(jobs[j], d)
    <2> PICK t : t = jobs[j].task
      OBVIOUS
    <2> DEFINE models == Task[t].execTimes
               matching == {i \in DOMAIN models : models[i].type = Device[d].type}
               wcets == {models[i].model.hi : i \in DOMAIN models}
    <2>1. t \in TaskIds
      BY DEF IInv, TypeOK, JobRecord
    <2>2. models \in Seq([type: DeviceTypes, model: ExecModel])
      BY <2>1, PlatformAssumption DEF TaskRecord
    <2>3. PICK i \in IF matching # {} THEN FirstOf(matching) ELSE FirstOf(DOMAIN models) :
             x \in Outcomes(models[i].model, l)
      BY <1>2 DEF SampleExecTime, ModelFor
    <2>4. i \in DOMAIN models /\ (matching # {} => i \in FirstOf(matching))
      BY <2>3 DEF FirstOf
    <2>5. x <= models[i].model.hi /\ models[i].model.hi \in Nat
      BY <2>1, <2>3, <2>4, WorstCase
    <2>6. CASE matching # {}
      <3>1. Estimate(jobs[j], d) = models[The(FirstOf(matching))].model.hi
        BY <1>2, <2>6 DEF Estimate
      <3>2. \A k \in FirstOf(matching) : k = i
        <4>1. DOMAIN models \subseteq Int
          BY <2>2
        <4> QED BY <2>4, <2>6, <4>1 DEF FirstOf
      <3>3. The(FirstOf(matching)) = i
        BY <2>4, <2>6, <3>2 DEF The
      <3> QED BY <2>5, <3>1, <3>3
    <2>7. CASE matching = {}
      <3>1. models[i].model.hi \in wcets
        BY <2>4
      <3>2. Estimate(jobs[j], d) = The({w \in wcets : \A y \in wcets : y <= w})
        BY <1>2, <2>7, <3>1 DEF Estimate
      <3>3. PICK his : his = [k \in DOMAIN models |-> models[k].model.hi]
        OBVIOUS
      <3>4. his \in [DOMAIN models -> Nat]
        <4>1. \A k \in DOMAIN models : models[k] \in [type: DeviceTypes, model: ExecModel]
          BY <2>2, ElementOf
        <4> QED BY <3>3, <4>1 DEF ExecModel
      <3>5. \E w \in wcets : \A y \in wcets : y <= w
        <4>1. IsFiniteSet(DOMAIN models)
          <5> PICK n \in Nat : DOMAIN models = 1 .. n
            BY <2>2
          <5> QED BY FS_Interval
        <4>2. \E w \in DOMAIN models : \A y \in DOMAIN models : his[y] <= his[w]
          <5> HIDE DEF models
          <5> QED BY <2>4, <3>4, <4>1, GreatestNumber
        <4>3. PICK w \in DOMAIN models : \A y \in DOMAIN models : his[y] <= his[w]
          BY <4>2
        <4>4. \A k \in DOMAIN models : his[k] = models[k].model.hi
          BY <3>3
        <4>5. models[w].model.hi \in wcets
          OBVIOUS
        <4>6. \A y \in wcets : y <= models[w].model.hi
          BY <4>3, <4>4
        <4> QED BY <4>5, <4>6
      <3>6. \A y \in wcets : y <= Estimate(jobs[j], d)
        <4> HIDE DEF wcets
        <4> QED BY <3>2, <3>5 DEF The
      <3>7. Estimate(jobs[j], d) \in Nat
        BY EstimateNat
      <3>8. models[i].model.hi <= Estimate(jobs[j], d)
        BY <3>1, <3>6
      <3> QED BY <2>1, <2>5, <3>7, <3>8, <1>2, SampleExecTimeNat
    <2> QED BY <2>6, <2>7
  <1> QED BY <1>1, <1>2

-----------------------------------------------------------------------------
(* What is remembered of a call                                             *)

(* The device of an arriving job, how long a running job has run, and how   *)
(* long it had when it was last seen in this stretch.                       *)
SentTo(cb) == IF cb.on = "arrival" THEN LeastLoaded(Compatible(cb.job)) ELSE {}
Elapsed(cb, j) == cb.time - jobs[j].start
SeenBefore(m, cb, j) ==
    IF j \in DOMAIN m.seen /\ m.seen[j] <= Elapsed(cb, j) THEN m.seen[j] ELSE 0

(* What an observation makes of the estimates.                              *)
LEMMA ObservedLeft ==
    ASSUME NEW m, NumbersIn(m), NEW cb, \A j \in RunningIn(cb) : Elapsed(cb, j) \in Int,
           NEW o, o = Observed(m, cb)
    PROVE  /\ IsMemory(o)
           /\ DOMAIN o.left = DOMAIN m.left \cap VisibleIn(cb)
           /\ DOMAIN o.seen = RunningIn(cb)
           /\ \A j \in RunningIn(cb) : o.seen[j] = Elapsed(cb, j)
           /\ \A j \in DOMAIN o.left :
                 o.left[j] = IF j \in RunningIn(cb)
                             THEN MaxOf(m.left[j] - (Elapsed(cb, j) - SeenBefore(m, cb, j)), 0)
                             ELSE m.left[j]
  <1> DEFINE since(j) == IF j \in DOMAIN m.seen /\ m.seen[j] <= Elapsed(cb, j)
                         THEN Elapsed(cb, j) - m.seen[j]
                         ELSE Elapsed(cb, j)
             left == [j \in DOMAIN m.left \cap VisibleIn(cb) |->
                         IF j \in RunningIn(cb) THEN MaxOf(m.left[j] - since(j), 0) ELSE m.left[j]]
             seen == [j \in RunningIn(cb) |-> Elapsed(cb, j)]
  <1>1. o = [m EXCEPT !.left = left, !.seen = seen]
    BY DEF Observed, Elapsed
  <1>2. \A j \in RunningIn(cb) : since(j) = Elapsed(cb, j) - SeenBefore(m, cb, j)
    BY DEF SeenBefore
  <1>3. DOMAIN left = DOMAIN m.left \cap VisibleIn(cb) /\ DOMAIN seen = RunningIn(cb)
    OBVIOUS
  <1>4. \A j \in DOMAIN left :
           left[j] = IF j \in RunningIn(cb)
                     THEN MaxOf(m.left[j] - (Elapsed(cb, j) - SeenBefore(m, cb, j)), 0)
                     ELSE m.left[j]
    BY <1>2
  <1>5. \A j \in RunningIn(cb) : seen[j] = Elapsed(cb, j)
    OBVIOUS
  <1> HIDE DEF left, seen
  <1>6. o.left = left /\ o.seen = seen /\ IsMemory(o)
    BY <1>1 DEF NumbersIn, IsMemory, MemoryFields
  <1> QED BY <1>3, <1>4, <1>5, <1>6

(* What LLF makes of a call: the arriving job is given its estimate.        *)
LEMMA LlfRemembers ==
    ASSUME NEW m, NumbersIn(m), NEW cb, \A j \in RunningIn(cb) : Elapsed(cb, j) \in Int,
           NEW s, s = LlfMemory(m, cb)
    PROVE  /\ IsMemory(s)
           /\ DOMAIN s.left = (DOMAIN m.left \cap VisibleIn(cb)) \cup
                                 {j \in {cb.job} : SentTo(cb) # {}}
           /\ DOMAIN s.seen = RunningIn(cb)
           /\ \A j \in RunningIn(cb) : s.seen[j] = Elapsed(cb, j)
           /\ \A j \in DOMAIN s.left :
                 s.left[j] = IF SentTo(cb) # {} /\ j = cb.job
                             THEN Estimate(jobs[cb.job], The(SentTo(cb)))
                             ELSE IF j \in RunningIn(cb)
                             THEN MaxOf(m.left[j] - (Elapsed(cb, j) - SeenBefore(m, cb, j)), 0)
                             ELSE m.left[j]
  <1> PICK o : o = Observed(m, cb)
    OBVIOUS
  <1>1. /\ IsMemory(o)
        /\ DOMAIN o.left = DOMAIN m.left \cap VisibleIn(cb)
        /\ DOMAIN o.seen = RunningIn(cb)
        /\ \A j \in RunningIn(cb) : o.seen[j] = Elapsed(cb, j)
        /\ \A j \in DOMAIN o.left :
              o.left[j] = IF j \in RunningIn(cb)
                          THEN MaxOf(m.left[j] - (Elapsed(cb, j) - SeenBefore(m, cb, j)), 0)
                          ELSE m.left[j]
    BY ObservedLeft
  <1>2. CASE SentTo(cb) = {}
    <2>1. s = o
      BY <1>2 DEF LlfMemory, SentTo
    <2> QED BY <1>1, <1>2, <2>1
  <1>3. CASE SentTo(cb) # {}
    <2> PICK e : e = Estimate(jobs[cb.job], The(SentTo(cb)))
      OBVIOUS
    <2> PICK left : left = Insert(o.left, cb.job, e)
      OBVIOUS
    <2>1. s = [o EXCEPT !.left = left]
      BY <1>3 DEF LlfMemory, SentTo
    <2>2. s.left = left /\ s.seen = o.seen /\ IsMemory(s)
      BY <1>1, <2>1 DEF IsMemory, MemoryFields
    <2>3. /\ DOMAIN left = DOMAIN o.left \cup {cb.job}
          /\ \A j \in DOMAIN left : left[j] = IF j = cb.job THEN e ELSE o.left[j]
      BY DEF Insert
    <2>4. DOMAIN s.left = DOMAIN o.left \cup {cb.job} /\ DOMAIN s.seen = DOMAIN o.seen
      BY <2>2, <2>3
    <2>5. \A j \in DOMAIN s.left : s.left[j] = IF j = cb.job THEN e ELSE o.left[j]
      BY <2>2, <2>3
    <2>6. \A j \in RunningIn(cb) : s.seen[j] = Elapsed(cb, j)
      BY <1>1, <2>2
    <2> QED BY <1>1, <1>3, <2>2, <2>4, <2>5, <2>6
  <1> QED BY <1>2, <1>3

(* CP-EDF's estimates are LLF's.                                            *)
LEMMA CpEdfRemembers ==
    ASSUME NEW m, NumbersIn(m), NEW cb, \A j \in RunningIn(cb) : Elapsed(cb, j) \in Int
    PROVE  /\ CpEdfMemory(m, cb).left = LlfMemory(m, cb).left
           /\ CpEdfMemory(m, cb).seen = LlfMemory(m, cb).seen
  <1> PICK s : s = LlfMemory(m, cb)
    OBVIOUS
  <1>1. IsMemory(s)
    BY LlfRemembers
  <1> PICK stage : stage = Retain(s.stage, VisibleIn(cb))
    OBVIOUS
  <1> PICK o : o = [s EXCEPT !.stage = stage]
    OBVIOUS
  <1>2. IsMemory(o) /\ o.left = s.left /\ o.seen = s.seen
    BY <1>1 DEF IsMemory, MemoryFields
  <1> PICK later : later = Insert(o.stage, cb.job, NodeOf(cb.job))
    OBVIOUS
  <1>3. CpEdfMemory(m, cb) = o \/ CpEdfMemory(m, cb) = [o EXCEPT !.stage = later]
    BY DEF CpEdfMemory
  <1>4. \A x : x = o \/ x = [o EXCEPT !.stage = later] => x.left = s.left /\ x.seen = s.seen
    BY <1>2 DEF IsMemory, MemoryFields
  <1> QED BY <1>3, <1>4

(* An arriving job goes to the device its estimate is for.                  *)
LEMMA SentThere ==
    ASSUME IInv, policy \in {"Llf", "CpEdf"}, NEW cb, cb.on = "arrival", cb.job \in JobIds,
           NEW m, NEW a \in Answers(cb, m)
    PROVE  IF SentTo(cb) = {} THEN PlacedBy(a) = NoJob
           ELSE PlacedBy(a) = cb.job /\ a.dev = The(SentTo(cb)) /\ a.dev \in DeviceIds
  <1> PICK D : D = LeastLoaded(Compatible(cb.job))
    OBVIOUS
  <1>1. \/ D = {} /\ a = NoAction
        \/ \E d \in D : \/ a = Dispatch(cb.job, d, 0) \/ a = Enqueue(cb.job, d)
                       \/ a = Preempt(running[d], cb.job, d, FALSE)
    <2>1. CASE policy = "Llf"
      <3>1. a \in LlfAnswers(cb, m)
        BY <2>1 DEF Answers
      <3> QED BY <3>1 DEF LlfAnswers, PlaceOn, NoOpIf, IdleOf, BusyOf
    <2>2. CASE policy = "CpEdf"
      <3>1. a \in CpEdfAnswers(cb, m)
        BY <2>2 DEF Answers
      <3> QED BY <3>1 DEF CpEdfAnswers, PlaceOn, NoOpIf, IdleOf, BusyOf
    <2> QED BY <2>1, <2>2
  <1>2. SentTo(cb) = D /\ D \subseteq DeviceIds
    BY DeviceChoices DEF SentTo, Compatible
  <1>3. \A c, d \in D : c = d
    <2>1. Compatible(cb.job) \in SUBSET DeviceIds
      BY DEF Compatible
    <2> QED BY <2>1, LeastLoadedIsOne
  <1>4. \A d \in D : d = The(D)
    BY <1>3 DEF The
  <1>5. CASE D = {}
    BY <1>1, <1>2, <1>5, PlacedByAction
  <1>6. CASE D # {}
    <2>1. PICK d \in D : \/ a = Dispatch(cb.job, d, 0) \/ a = Enqueue(cb.job, d)
                        \/ a = Preempt(running[d], cb.job, d, FALSE)
      BY <1>1, <1>6
    <2>2. PlacedBy(a) = cb.job /\ a.dev = d
      <3>1. CASE a = Dispatch(cb.job, d, 0)
        BY <3>1, PlacedByAction
      <3>2. CASE a = Enqueue(cb.job, d)
        BY <3>2, PlacedByAction
      <3>3. CASE a = Preempt(running[d], cb.job, d, FALSE)
        <4>1. /\ PlacedBy(Preempt(running[d], cb.job, d, FALSE)) = cb.job
              /\ Preempt(running[d], cb.job, d, FALSE).dev = d
          BY PlacedByPreemption, Zenon
        <4> QED BY <3>3, <4>1, Zenon
      <3> QED BY <2>1, <3>1, <3>2, <3>3
    <2> QED BY <1>2, <1>4, <1>6, <2>2
  <1> QED BY <1>5, <1>6

-----------------------------------------------------------------------------
(* The clock                                                                *)

(* No step turns the clock back.                                            *)
LEMMA TimeGoesOn ==
    ASSUME IInv, [Next]_vars
    PROVE  now \in Nat /\ now' \in Int /\ now' >= now
  <1>1. now \in Nat
    BY DEF IInv, TypeOK
  <1>2. ASSUME NEW e, Pops(e)
        PROVE  now \in Nat /\ now' \in Int /\ now' >= now
    <2>1. e \in events
      BY <1>2 DEF Pops
    <2> QED BY <1>1, <1>2, <2>1, PopBasics
  <1>3. CASE now' = now
    BY <1>1, <1>3
  <1>4. CASE Quiet
    <2>1. CASE DiscardStale \/ SimulationEnd \/ \E e \in events :
                  BudgetOverrun(e) \/ TriggeredReevaluation(e) \/ PeriodicReevaluation(e)
      <3>1. PICK e : Pops(e)
        BY <2>1 DEF DiscardStale, SimulationEnd, BudgetOverrun, TriggeredReevaluation,
                    PeriodicReevaluation, Handles
      <3> QED BY <1>2, <3>1
    <2>2. CASE ScheduleInitialArrival \/ ScheduleReplayJob \/ StartRun \/ ReleaseNextJob
      BY <1>3, <2>2 DEF ScheduleInitialArrival, ScheduleReplayJob, StartRun, ReleaseNextJob
    <2>3. CASE \/ ReschedulePoint \/ SchedulerDropsNoMore \/ DispatchIdleDone \/ ReevaluateDone
               \/ ScheduleTriggeredReevaluation \/ Ended
      BY <1>3, <2>3 DEF ReschedulePoint, SchedulerDropsNoMore, DispatchIdleDone, ReevaluateDone,
                        ScheduleTriggeredReevaluation, Ended, vars
    <2> QED BY <1>4, <2>1, <2>2, <2>3 DEF Quiet
  <1>5. CASE Acting
    BY <1>3, <1>5 DEF Acting, DispatchTerminal, DispatchBusy, DispatchWithoutModel,
           DispatchTransfer, DispatchRun, PreemptNow, PreemptDeferred, EnqueueJob, DropJob
  <1>6. CASE \E e \in events : DeadlineCheck(e)
    <2>1. PICK e : Pops(e)
      BY <1>6 DEF DeadlineCheck, Handles
    <2> QED BY <1>2, <2>1
  <1>7. CASE DropLoJobs
    BY <1>3, <1>7 DEF DropLoJobs
  <1>8. CASE SchedulerStep
    <2>1. CASE \/ \E e, a : \/ TaskArrival(e, a) \/ JobComplete(e, a)
                            \/ PreemptionPoint(e, a) \/ TransferComplete(e, a)
      <3>1. PICK e : Pops(e)
        BY <2>1 DEF TaskArrival, JobComplete, PreemptionPoint, TransferComplete, Handles
      <3> QED BY <1>2, <3>1
    <2>2. CASE SchedulerDropsNoMore \/ \E j : SchedulerDropsLo(j)
      BY <1>3, <2>2 DEF SchedulerDropsNoMore, SchedulerDropsLo
    <2>3. CASE \E a : DispatchIdle(a) \/ Reevaluate(a)
      BY <1>3, <2>3 DEF DispatchIdle, Reevaluate
    <2> QED BY <1>8, <2>1, <2>2, <2>3 DEF SchedulerStep
  <1>9. CASE UNCHANGED vars
    BY <1>3, <1>9 DEF vars
  <1> QED BY <1>4, <1>5, <1>6, <1>7, <1>8, <1>9, EngineSteps DEF Next

-----------------------------------------------------------------------------
(* What the scheduler sees                                                  *)

(* What is seen at a call is there after it, as it was before.              *)
LEMMA CallSees ==
    ASSUME IInv, IInv', NEW cb, Consults(cb) \/ Observes(cb)
    PROVE  /\ act.op = "none" /\ PlacedJob = NoJob /\ JobIds' = JobIds
           /\ queue' = queue /\ cb.slots = running' /\ cb.time = now' /\ mem' = Remember(cb)
           /\ cb.on = "arrival" => cb.job \in JobIds
  <1>1. PlacedBy(act) = NoJob \/ act.op # "none"
    BY DEF PlacedBy
  <1>2. CASE Consults(cb)
    BY <1>1, <1>2 DEF Consults, PlacedJob, JobIds
  <1>3. CASE Observes(cb)
    BY <1>1, <1>3 DEF Observes, PlacedJob, JobIds, JobsStay
  <1> QED BY <1>2, <1>3

(* The running jobs, and the waiting ones.                                  *)
LEMMA CallSeesRunning ==
    ASSUME IInv, IInv', NEW cb, Consults(cb) \/ Observes(cb)
    PROVE  /\ \A k \in RunningIn(cb) :
                 /\ k \in JobIds /\ jobs'[k].state = "Running" /\ jobs'[k].dev \in DeviceIds
                 /\ jobs'[k].start \in 0 .. now' /\ cb.time - jobs'[k].start \in Nat
           /\ \A k \in JobIds : jobs'[k].state = "Running" => k \in RunningIn(cb)
           /\ \A d \in DeviceIds : \A k \in queue[d] :
                 /\ k \in JobIds /\ k \notin RunningIn(cb) /\ k \in VisibleIn(cb)
                 /\ jobs'[k].state \in {"Ready", "Suspended"}
                 /\ jobs[k].state \in {"Ready", "Suspended"} /\ jobs[k].dev = d
  <1>1. /\ JobIds' = JobIds /\ queue' = queue /\ cb.slots = running' /\ cb.time = now'
    BY CallSees
  <1>2. /\ now' \in Nat /\ JobIds \subseteq Nat
    BY DEF IInv, TypeOK, JobIds
  <1>3. ASSUME NEW k \in RunningIn(cb)
        PROVE  /\ k \in JobIds /\ jobs'[k].state = "Running" /\ jobs'[k].dev \in DeviceIds
               /\ jobs'[k].start \in 0 .. now'
    <2>1. PICK d \in DeviceIds : k = running'[d] /\ k # NoJob
      BY <1>1, <1>3 DEF RunningIn
    <2>2. k \in JobIds' /\ jobs'[k].state = "Running" /\ jobs'[k].dev = d
      BY <2>1 DEF IInv, Placement, SlotsHoldRunningJobs
    <2>3. jobs'[k].start \in 0 .. now'
      BY <2>2 DEF IInv, Placement, RunningJobsHaveSlots
    <2> QED BY <1>1, <2>2, <2>3
  <1>4. ASSUME NEW k \in JobIds, jobs'[k].state = "Running"
        PROVE  k \in RunningIn(cb)
    <2>1. jobs'[k].dev \in DeviceIds /\ running'[jobs'[k].dev] = k
      BY <1>1, <1>4 DEF IInv, Placement, RunningJobsHaveSlots
    <2>2. k # NoJob
      BY <1>2 DEF NoJob
    <2> QED BY <1>1, <2>1, <2>2 DEF RunningIn
  <1>5. ASSUME NEW d \in DeviceIds, NEW k \in queue[d]
        PROVE  /\ k \in JobIds /\ k \notin RunningIn(cb) /\ k \in VisibleIn(cb)
               /\ jobs'[k].state \in {"Ready", "Suspended"}
               /\ jobs[k].state \in {"Ready", "Suspended"} /\ jobs[k].dev = d
    <2>1. k \in queue'[d]
      BY <1>1, <1>5
    <2>2. jobs'[k].state \in {"Ready", "Suspended"}
      BY <2>1 DEF IInv, Placement, QueuesHoldWaitingJobs
    <2>3. k \in JobIds /\ jobs[k].state \in {"Ready", "Suspended"} /\ jobs[k].dev = d
      BY <1>5 DEF IInv, Placement, QueuesHoldWaitingJobs
    <2>4. k \notin RunningIn(cb)
      BY <1>3, <2>2
    <2>5. k \in VisibleIn(cb)
      BY <1>5 DEF VisibleIn
    <2> QED BY <2>2, <2>3, <2>4, <2>5
  <1>6. \A k \in RunningIn(cb) : cb.time - jobs'[k].start \in Nat
    BY <1>1, <1>2, <1>3
  <1> QED BY <1>3, <1>4, <1>5, <1>6

(* None of them is touched, and the arriving job is not among them.         *)
LEMMA CallTouchesNone ==
    ASSUME IInv, IInv', NEW cb, Consults(cb) \/ Observes(cb)
    PROVE  /\ \A k \in VisibleIn(cb) : k \in JobIds /\ jobs'[k] = jobs[k]
           /\ cb.on = "arrival" => cb.job \notin VisibleIn(cb)
           /\ \A k \in JobIds : k \notin VisibleIn(cb) /\ jobs'[k] # jobs[k] =>
                 k = cb.job /\ (cb.on = "free" => jobs'[k].state = "Completed")
  <1>1. \A k \in VisibleIn(cb) :
           /\ k \in JobIds
           /\ \/ k \in RunningIn(cb) /\ jobs'[k].state = "Running"
              \/ /\ jobs'[k].state \in {"Ready", "Suspended"}
                 /\ jobs[k].state \in {"Ready", "Suspended"}
    BY CallSeesRunning DEF VisibleIn
  <1>2. CASE Observes(cb) \/ (Consults(cb) /\ cb.on = "point")
    BY <1>1, <1>2 DEF Observes, Consults, JobsStay
  <1>3. CASE Consults(cb) /\ cb.on = "free"
    <2>1. JobsStay \/ (cb.job \in JobIds /\ Becomes(cb.job, "Completed", cb.dev))
      BY <1>3 DEF Consults
    <2> QED BY <1>1, <1>3, <2>1 DEF JobsStay, Becomes
  <1>4. CASE Consults(cb) /\ cb.on = "arrival"
    <2>1. \/ JobsStay /\ jobs[cb.job].state \in {"Released"} \cup TerminalStates
          \/ /\ jobs[cb.job].state = "Transferring" /\ Becomes(cb.job, "Ready", jobs[cb.job].dev)
      BY <1>4 DEF Consults
    <2>2. cb.job \notin VisibleIn(cb)
      BY <1>1, <2>1 DEF JobsStay, Becomes, TerminalStates
    <2> QED BY <1>1, <1>4, <2>1, <2>2 DEF JobsStay, Becomes
  <1>5. Consults(cb) => cb.on \in {"arrival", "free", "point"}
    BY DEF Consults
  <1> QED BY <1>2, <1>3, <1>4, <1>5

-----------------------------------------------------------------------------
(* A call keeps the estimates safe                                          *)

(* What a running job is charged for is never more than it has done.        *)
LEMMA ChargedCovered ==
    ASSUME NEW d \in DeviceIds, Fast(d), NEW left \in Nat, NEW before \in Nat, NEW after \in Nat,
           before <= after, NEW exec \in Nat, NEW actual \in Int,
           actual <= left + exec + WallToWork(before, d)
    PROVE  actual <= MaxOf(left - (after - before), 0) + exec + WallToWork(after, d)
  <1>1. /\ WallToWork(before, d) \in Nat /\ WallToWork(after, d) \in Nat
        /\ WallToWork(before, d) + (after - before) <= WallToWork(after, d)
    BY WallToWorkGrows
  <1> QED BY <1>1 DEF MaxOf

(* The memory after a call of LLF or CP-EDF.                                *)
LEMMA CallRemembers ==
    ASSUME IInv, IInv', policy \in {"Llf", "CpEdf"}, EstimatesAreNumbers,
           NEW cb, Consults(cb) \/ Observes(cb)
    PROVE  /\ DOMAIN mem'.left = (DOMAIN mem.left \cap VisibleIn(cb)) \cup
                                    {j \in {cb.job} : SentTo(cb) # {}}
           /\ DOMAIN mem'.seen = RunningIn(cb)
           /\ \A j \in RunningIn(cb) : mem'.seen[j] = Elapsed(cb, j)
           /\ \A j \in DOMAIN mem'.left :
                 mem'.left[j] = IF SentTo(cb) # {} /\ j = cb.job
                                THEN Estimate(jobs[cb.job], The(SentTo(cb)))
                                ELSE IF j \in RunningIn(cb)
                                THEN MaxOf(mem.left[j] - (Elapsed(cb, j) - SeenBefore(mem, cb, j)), 0)
                                ELSE mem.left[j]
  <1>1. NumbersIn(mem) /\ mem' = Remember(cb)
    BY CallSees DEF EstimatesAreNumbers
  <1>2. \A j \in RunningIn(cb) : Elapsed(cb, j) \in Int
    <2>1. \A j \in RunningIn(cb) : cb.time - jobs'[j].start \in Nat
      BY CallSeesRunning
    <2>2. \A j \in RunningIn(cb) : jobs'[j] = jobs[j]
      BY CallTouchesNone DEF VisibleIn
    <2> QED BY <2>1, <2>2 DEF Elapsed
  <1> PICK s : s = LlfMemory(mem, cb)
    OBVIOUS
  <1>3. mem'.left = s.left /\ mem'.seen = s.seen
    <2>1. CASE policy = "Llf"
      BY <1>1, <2>1 DEF Remember
    <2>2. CASE policy = "CpEdf"
      BY <1>1, <1>2, <2>2, CpEdfRemembers DEF Remember
    <2> QED BY <2>1, <2>2
  <1>4. /\ DOMAIN s.left = (DOMAIN mem.left \cap VisibleIn(cb)) \cup
                              {j \in {cb.job} : SentTo(cb) # {}}
        /\ DOMAIN s.seen = RunningIn(cb)
        /\ \A j \in RunningIn(cb) : s.seen[j] = Elapsed(cb, j)
        /\ \A j \in DOMAIN s.left :
              s.left[j] = IF SentTo(cb) # {} /\ j = cb.job
                          THEN Estimate(jobs[cb.job], The(SentTo(cb)))
                          ELSE IF j \in RunningIn(cb)
                          THEN MaxOf(mem.left[j] - (Elapsed(cb, j) - SeenBefore(mem, cb, j)), 0)
                          ELSE mem.left[j]
    BY <1>1, <1>2, LlfRemembers
  <1> QED BY <1>3, <1>4

(* The job that an answer is about to place does not run.                   *)
LEMMA PlacedRunsNot ==
    ASSUME IInv', PlacedJob' # NoJob
    PROVE  PlacedJob' \in JobIds' /\ jobs'[PlacedJob'].state # "Running"
  BY DEF IInv, ActionIsSound, SoundAction, Placeable, PlacedJob, PlacedBy, IsTerminal,
         TerminalStates

(* A job that runs at the call stays covered, ...                           *)
LEMMA RunningStaysCovered ==
    ASSUME IInv, IInv', WorkIInv, policy \in {"Llf", "CpEdf"}, EstimatesAreNumbers,
           EstimatesCover, policy \in Schedulers, [PolicyNext]_policyVars,
           NEW cb, Consults(cb) \/ Observes(cb), NEW k \in RunningIn(cb), k \in DOMAIN mem'.left, Fast(jobs'[k].dev)
    PROVE  Covered(k, jobs[k].dev)'
  <1> PICK d : d = jobs'[k].dev
    OBVIOUS
  <1> PICK el : el = Elapsed(cb, k)
    OBVIOUS
  <1> PICK sb : sb = SeenBefore(mem, cb, k)
    OBVIOUS
  <1>1. /\ k \in JobIds /\ jobs'[k].state = "Running" /\ d \in DeviceIds
        /\ jobs'[k] = jobs[k] /\ jobs[k] \in JobRecord /\ k \in VisibleIn(cb)
        /\ cb.time - jobs'[k].start \in Nat
    BY CallSeesRunning, CallTouchesNone DEF VisibleIn, IInv, TypeOK
  <1>2. el \in Nat /\ el = cb.time - jobs[k].start
    BY <1>1 DEF Elapsed
  <1>3. PlacedJob = NoJob /\ cb.time = now' /\ k # NoJob
    BY <1>1, CallSees, JobIdsAreNat DEF IInv, NoJob
  <1>4. ~(SentTo(cb) # {} /\ k = cb.job)
    BY <1>1, CallTouchesNone DEF SentTo
  <1>5. /\ k \in DOMAIN mem.left
        /\ mem'.left[k] = MaxOf(mem.left[k] - (el - sb), 0)
        /\ k \in DOMAIN mem'.seen /\ mem'.seen[k] = el
    BY <1>1, <1>4, CallRemembers
  <1>6. mem.left[k] \in Nat /\ jobs[k].exec \in Nat /\ jobs[k].actual \in Nat
    <2>1. mem.left[k] \in Nat
      BY <1>5 DEF EstimatesAreNumbers, NumbersIn
    <2>2. jobs[k].actual # Unset
      BY <1>1 DEF WorkIInv, WorkSound
    <2> QED BY <1>1, <2>1, <2>2 DEF JobRecord
  <1>7. Covered(k, d)
    <2>1. Settled(k) /\ Fast(jobs[k].dev) /\ jobs[k].dev = d
      BY <1>1, <1>3 DEF Settled
    <2> QED BY <1>5, <2>1 DEF EstimatesCover
  <1>8. sb \in Nat /\ sb <= el /\ jobs[k].actual <= mem.left[k] + jobs[k].exec + WallToWork(sb, d)
    <2>1. jobs[k].actual <= mem.left[k] + jobs[k].exec + SeenWork(k)
      BY <1>6, <1>7 DEF Covered, Unset
    <2>2. CASE k \in DOMAIN mem.seen
      <3>1. mem.seen[k] \in 0 .. now - jobs[k].start
        BY <1>1, <2>2 DEF EstimatesCover, SeenInThisStretch
      <3>2. now' >= now /\ now \in Nat /\ now' \in Int /\ jobs[k].start \in Int
        <4>1. jobs[k].start \in Int
          BY <1>1 DEF JobRecord, Unset
        <4>2. now' >= now /\ now \in Nat /\ now' \in Int
          BY <1>1, TimeGoesOn, PolicyNextIsNext
        <4> QED BY <4>1, <4>2
      <3>3. sb = mem.seen[k] /\ sb \in Nat /\ sb <= el
        BY <1>2, <1>3, <2>2, <3>1, <3>2 DEF SeenBefore
      <3>4. SeenWork(k) = WallToWork(sb, d)
        BY <1>1, <2>2, <3>3 DEF SeenWork
      <3> QED BY <2>1, <3>3, <3>4
    <2>3. CASE k \notin DOMAIN mem.seen
      <3>1. sb = 0 /\ SeenWork(k) = 0
        BY <2>3 DEF SeenBefore, SeenWork
      <3>2. WallToWork(0, d) \in Nat
        BY <1>1, WallToWorkGrows
      <3> QED BY <1>2, <1>6, <2>1, <3>1, <3>2
    <2> QED BY <2>2, <2>3
  <1>9. jobs[k].actual <= mem'.left[k] + jobs[k].exec + WallToWork(el, d)
    <2> PICK l, x, a : l = mem.left[k] /\ x = jobs[k].exec /\ a = jobs[k].actual
      OBVIOUS
    <2>1. l \in Nat /\ x \in Nat /\ a \in Int /\ a <= l + x + WallToWork(sb, d)
      BY <1>6, <1>8
    <2>2. d \in DeviceIds /\ Fast(d)
      BY <1>1
    <2>3. a <= MaxOf(l - (el - sb), 0) + x + WallToWork(el, d)
      BY ONLY <1>2, <1>8, <2>1, <2>2, ChargedCovered
    <2> QED BY <1>5, <2>3
  <1>10. SeenWork(k)' = WallToWork(el, d)
    BY <1>1, <1>5 DEF SeenWork
  <1>11. jobs'[k].actual <= mem'.left[k] + jobs'[k].exec + SeenWork(k)'
    BY <1>1, <1>9, <1>10
  <1>12. jobs'[k].actual # Unset
    BY <1>1, <1>6 DEF Unset
  <1> QED BY <1>11, <1>12 DEF Covered

(* ... as does one that waits, ...                                          *)
LEMMA WaitingStaysCovered ==
    ASSUME IInv, IInv', policy \in {"Llf", "CpEdf"}, EstimatesAreNumbers,
           NEW cb, Consults(cb) \/ Observes(cb),
           NEW k \in VisibleIn(cb), k \notin RunningIn(cb), k \in DOMAIN mem'.left,
           NEW d, Covered(k, d)
    PROVE  Covered(k, d)'
  <1>1. jobs'[k] = jobs[k] /\ k \in JobIds
    BY CallTouchesNone
  <1>2. jobs'[k].state # "Running"
    BY <1>1, CallSeesRunning
  <1>3. SeenWork(k) = 0 /\ SeenWork(k)' = 0
    BY <1>1, <1>2 DEF SeenWork
  <1>4. ~(SentTo(cb) # {} /\ k = cb.job)
    BY CallTouchesNone DEF SentTo
  <1>5. mem'.left[k] = mem.left[k]
    BY <1>4, CallRemembers
  <1> QED BY <1>1, <1>3, <1>5 DEF Covered

(* ... and the arriving job is covered where it is sent.                    *)
LEMMA ArrivingIsCovered ==
    ASSUME IInv, IInv', WorstCasesAreWorst, policy \in {"Llf", "CpEdf"}, policy \in Schedulers,
           EstimatesAreNumbers, [PolicyNext]_policyVars,
           NEW cb, Consults(cb), cb.on = "arrival", PlacedJob' = cb.job, PlacedJob' # NoJob
    PROVE  cb.job \in DOMAIN mem'.left => Covered(cb.job, act.dev)'
  <1> PICK j : j = cb.job
    OBVIOUS
  <1> PICK d : d = act'.dev
    OBVIOUS
  <1>1. j \in JobIds /\ act.op = "none" /\ j \notin VisibleIn(cb)
    BY CallSees, CallTouchesNone
  <1>2. SentTo(cb) # {} /\ d = The(SentTo(cb)) /\ d \in DeviceIds
    <2>1. act' \in Answers(cb, mem')
      BY DEF Consults
    <2>2. PlacedBy(act') # NoJob
      BY DEF PlacedJob
    <2> QED BY <1>1, <2>1, <2>2, SentThere
  <1>3. mem'.left[j] = Estimate(jobs[j], d)
    BY <1>2, CallRemembers
  <1>4. jobs'[j].state # "Running" /\ jobs[j].state # "Running"
    <2>1. jobs'[j].state # "Running"
      BY PlacedRunsNot
    <2>2. jobs[j].state \in {"Released", "Transferring"} \cup TerminalStates
      BY DEF Consults
    <2> QED BY <2>1, <2>2 DEF TerminalStates
  <1>5. jobs'[j].actual = jobs[j].actual /\ jobs'[j].exec = jobs[j].exec /\ jobs'[j].task = jobs[j].task
    <2>1. CASE JobsStay
      BY <2>1 DEF JobsStay
    <2>2. CASE ~JobsStay
      <3>1. Becomes(j, "Ready", jobs[j].dev)
        BY <2>2 DEF Consults
      <3>2. WorkFate(j)
        BY <1>1, WorkOfJobs
      <3> QED BY <1>1, <1>4, <3>1, <3>2 DEF WorkFate, Becomes, SameJob, TerminalStates
    <2> QED BY <2>1, <2>2
  <1>6. jobs[j].exec \in Nat /\ jobs[j].actual \in Int /\ Estimate(jobs[j], d) \in Nat
    <2>1. jobs[j] \in JobRecord
      BY <1>1 DEF IInv, TypeOK
    <2> QED BY <1>1, <2>1, EstimateNat DEF JobRecord, Unset
  <1>7. SeenWork(j)' = 0
    BY <1>4 DEF SeenWork
  <1>8. IF jobs[j].actual # Unset THEN Estimate(jobs[j], d) = jobs[j].actual
        ELSE \A l \in Levels : \A x \in SampleExecTime(jobs[j].task, d, l) : x <= Estimate(jobs[j], d)
    BY <1>1, <1>2, EstimateCovers
  <1>9. CASE jobs[j].actual # Unset
    <2>1. jobs[j].actual <= mem'.left[j] + jobs[j].exec + 0
      BY <1>3, <1>6, <1>8, <1>9
    <2> QED BY <1>5, <1>7, <1>9, <2>1 DEF Covered
  <1>10. CASE jobs[j].actual = Unset
    BY <1>3, <1>5, <1>8, <1>10 DEF Covered
  <1> QED BY <1>9, <1>10

(* A call of LLF or CP-EDF keeps the estimates safe.                        *)
LEMMA CallCovers ==
    ASSUME IInv, IInv', WorkIInv, WorstCasesAreWorst, policy \in {"Llf", "CpEdf"},
           policy \in Schedulers, EstimatesAreNumbers, EstimatesCover, [PolicyNext]_policyVars,
           NEW cb, Consults(cb) \/ Observes(cb)
    PROVE  EstimatesCover'
  <1>1. /\ act.op = "none" /\ PlacedJob = NoJob /\ JobIds' = JobIds /\ queue' = queue
        /\ cb.time = now'
        /\ cb.on = "arrival" => cb.job \in JobIds
    BY CallSees
  <1>2. JobIds \subseteq Nat
    BY JobIdsAreNat DEF IInv
  <1>3. DOMAIN mem'.left \cup DOMAIN mem'.seen \subseteq JobIds'
    <2>1. DOMAIN mem.left \subseteq JobIds
      BY DEF EstimatesCover
    <2>2. RunningIn(cb) \subseteq JobIds
      BY CallSeesRunning
    <2>3. SentTo(cb) # {} => cb.job \in JobIds
      BY <1>1 DEF SentTo
    <2> QED BY <1>1, <2>1, <2>2, <2>3, CallRemembers
  <1>4. PlacedJob' # NoJob => PlacedJob' \notin RunningIn(cb)
    BY PlacedRunsNot, CallSeesRunning
  <1>5. ASSUME NEW k \in DOMAIN mem'.left, Settled(k)', Fast(jobs[k].dev)'
        PROVE  Covered(k, jobs[k].dev)'
    <2>1. k \in (DOMAIN mem.left \cap VisibleIn(cb)) \cup {j \in {cb.job} : SentTo(cb) # {}}
      BY CallRemembers
    <2>2. CASE SentTo(cb) # {} /\ k = cb.job
      <3>1. Consults(cb) /\ cb.on = "arrival" /\ act' \in Answers(cb, mem')
        BY <2>2 DEF SentTo, Consults, Observes
      <3>2. PlacedBy(act') = cb.job
        BY <1>1, <2>2, <3>1, SentThere
      <3> QED BY <1>5, <2>2, <3>2 DEF Settled, PlacedJob
    <2>3. CASE ~(SentTo(cb) # {} /\ k = cb.job)
      <3>1. k \in DOMAIN mem.left /\ k \in VisibleIn(cb)
        BY <2>1, <2>3
      <3>2. jobs'[k] = jobs[k] /\ k \in JobIds /\ k # NoJob
        BY <1>2, <3>1, CallTouchesNone DEF NoJob
      <3>3. CASE k \in RunningIn(cb)
        BY <1>5, <3>3, RunningStaysCovered
      <3>4. CASE k \notin RunningIn(cb)
        <4> PICK d : d = jobs[k].dev
          OBVIOUS
        <4>1. Settled(k) /\ Fast(jobs[k].dev)
          BY <1>1, <1>5, <3>2 DEF Settled
        <4>2. Covered(k, d)
          BY <3>1, <4>1 DEF EstimatesCover
        <4>3. Covered(k, d)'
          BY <1>5, <3>1, <3>4, <4>2, WaitingStaysCovered
        <4> QED BY <3>2, <4>3
      <3> QED BY <3>3, <3>4
    <2> QED BY <2>2, <2>3
  <1>6. ASSUME PlacedJob' \in DOMAIN mem'.left, Queued(PlacedJob)' => Fast(act.dev)'
        PROVE  Covered(PlacedJob, act.dev)'
    <2> PICK q : q = PlacedJob'
      OBVIOUS
    <2>1. q \in JobIds /\ q # NoJob
      BY <1>1, <1>2, <1>3, <1>6 DEF NoJob
    <2>2. Consults(cb)
      <3>1. Observes(cb) => act' = act
        BY DEF Observes
      <3> QED BY <1>1, <2>1, <3>1 DEF PlacedJob
    <2>3. CASE cb.on = "arrival" /\ q = cb.job
      BY <1>6, <2>1, <2>2, <2>3, ArrivingIsCovered
    <2>4. CASE cb.on # "arrival" /\ q \in VisibleIn(cb) /\ Settled(q) /\ jobs[q].dev = act'.dev
      <3> PICK d : d = act'.dev
        OBVIOUS
      <3>1. q \notin RunningIn(cb)
        BY <1>4, <2>1
      <3>2. Queued(q)'
        BY <1>1, <2>4, <3>1 DEF VisibleIn, Queued
      <3>3. Fast(d)
        BY <1>6, <3>2 DEF Fast
      <3>4. q \in DOMAIN mem.left
        BY <1>6, <2>4, CallRemembers DEF SentTo
      <3>5. Covered(q, d)
        BY <2>4, <3>3, <3>4 DEF EstimatesCover
      <3>6. Covered(q, d)'
        BY <1>6, <2>4, <3>1, <3>5, WaitingStaysCovered
      <3> QED BY <3>6
    <2> QED BY <2>1, <2>2, <2>3, <2>4, PlacedWasThere
  <1>7. SeenInThisStretch'
    <2>1. DOMAIN mem'.seen = RunningIn(cb)
      BY CallRemembers
    <2>2. ASSUME NEW j \in RunningIn(cb)
          PROVE  mem'.seen[j] \in 0 .. now' - jobs'[j].start
      <3>1. mem'.seen[j] = now' - jobs[j].start
        BY <1>1, CallRemembers DEF Elapsed
      <3>2. jobs'[j] = jobs[j] /\ cb.time - jobs'[j].start \in Nat
        BY CallTouchesNone, CallSeesRunning DEF VisibleIn
      <3> QED BY <1>1, <3>1, <3>2
    <2>3. \A d \in DeviceIds : queue'[d] \cap RunningIn(cb) = {}
      BY <1>1, CallSeesRunning
    <2> QED BY <1>4, <2>1, <2>2, <2>3 DEF SeenInThisStretch
  <1> QED BY <1>3, <1>5, <1>6, <1>7 DEF EstimatesCover

-----------------------------------------------------------------------------
(* The steps between two calls keep the estimates safe                      *)

(* LLF alone is reevaluated.                                                *)
LEMMA ReevaluatedIsLlf ==
    ASSUME BaseInv, ReevaluationsAreAsked, ReevaluationGoesOn
    PROVE  policy = "Llf"
  <1>1. PeriodicInterval \in Nat /\ TriggeredInterval \in Nat
    BY EngineAssumption
  <1> QED BY <1>1, PoliciesAssumption DEF BaseInv, ReevaluationsAreAsked, ReevaluationGoesOn

(* A job that no step starts, stops or moves stays covered, a job that is   *)
(* preempted is credited at least what it was charged, and the demand of    *)
(* one that starts is one its estimate covers.                              *)
LEMMA StaysCovered ==
    ASSUME IInv, WorkIInv, policy \in {"Llf", "CpEdf"}, EstimatesAreNumbers, EstimatesCover,
           mem' = mem, NEW k \in JobIds, k \in DOMAIN mem.left, WorkFate(k), Fate(k),
           jobs'[k].state \in {"Ready", "Running", "Suspended"},
           NEW d, d = jobs'[k].dev, Fast(d), Covered(k, d)
    PROVE  Covered(k, d)'
  <1>1. /\ mem.left[k] \in Nat /\ jobs[k] \in JobRecord /\ jobs'[k].task = jobs[k].task
        /\ jobs[k].exec \in Nat /\ jobs[k].actual \in Int /\ k # NoJob
    <2>1. mem.left[k] \in Nat
      BY DEF EstimatesAreNumbers, NumbersIn
    <2>2. jobs[k] \in JobRecord /\ k # NoJob
      BY JobIdsAreNat DEF IInv, TypeOK, NoJob
    <2> QED BY <2>1, <2>2 DEF JobRecord, Unset, Fate, SameJob
  <1>2. CASE /\ jobs'[k].actual = jobs[k].actual /\ jobs'[k].exec = jobs[k].exec
             /\ jobs'[k].state = "Running" <=> jobs[k].state = "Running"
    <2>1. SeenWork(k)' = SeenWork(k)
      <3>1. CASE jobs[k].state = "Running"
        <4>1. jobs'[k].dev = jobs[k].dev
          <5>1. ~(act.op \in {"dispatch", "enqueue"} /\ k = act.job)
            BY <1>1, <3>1 DEF IInv, ActionIsSound, SoundAction, Placeable, IsTerminal,
                              TerminalStates
          <5> QED BY <5>1 DEF Fate
        <4> QED BY <1>2, <3>1, <4>1 DEF SeenWork
      <3>2. CASE jobs[k].state # "Running"
        BY <1>2, <3>2 DEF SeenWork
      <3> QED BY <3>1, <3>2
    <2> QED BY <1>1, <1>2, <2>1 DEF Covered
  <1>3. CASE /\ jobs[k].state = "Running" /\ jobs'[k].state = "Suspended" /\ now' = now
             /\ jobs'[k].actual = jobs[k].actual
             /\ jobs'[k].exec = jobs[k].exec +
                   MinOf(WallToWork(now - jobs[k].start, jobs[k].dev), Remaining(jobs[k]))
    <2>1. jobs[k].dev = d /\ d \in DeviceIds /\ jobs[k].start \in 0 .. now
      <3>1. jobs[k].dev \in DeviceIds /\ jobs[k].start \in 0 .. now
        BY <1>3 DEF IInv, Placement, RunningJobsHaveSlots
      <3>2. jobs'[k].dev = jobs[k].dev
        BY <1>3 DEF Fate
      <3> QED BY <3>1, <3>2
    <2>2. jobs[k].actual # Unset /\ jobs[k].exec <= jobs[k].actual
      BY <1>3 DEF WorkIInv, WorkSound
    <2>3. jobs[k].actual <= mem.left[k] + jobs[k].exec + SeenWork(k)
      BY <2>2 DEF Covered
    <2> PICK el : el = now - jobs[k].start
      OBVIOUS
    <2>4. el \in Nat
      BY <2>1 DEF IInv, TypeOK
    <2>5. SeenWork(k) \in Nat /\ WallToWork(el, d) \in Nat /\ SeenWork(k) <= WallToWork(el, d)
      <3>1. CASE k \in DOMAIN mem.seen
        <4>1. mem.seen[k] \in 0 .. el
          BY <1>3, <3>1 DEF EstimatesCover, SeenInThisStretch
        <4> PICK sb : sb = mem.seen[k]
          OBVIOUS
        <4>2. sb \in Nat /\ sb <= el
          BY <2>4, <4>1
        <4>3. /\ WallToWork(sb, d) \in Nat /\ WallToWork(el, d) \in Nat
              /\ WallToWork(sb, d) + (el - sb) <= WallToWork(el, d)
          BY <2>1, <2>4, <4>2, WallToWorkGrows
        <4>4. SeenWork(k) = WallToWork(sb, d)
          BY <1>3, <2>1, <3>1 DEF SeenWork
        <4> QED BY <2>4, <4>2, <4>3, <4>4
      <3>2. CASE k \notin DOMAIN mem.seen
        <4>1. SeenWork(k) = 0
          BY <3>2 DEF SeenWork
        <4>2. WallToWork(el, d) \in Nat
          BY <2>1, <2>4, WallToWorkGrows
        <4> QED BY <4>1, <4>2
      <3> QED BY <3>1, <3>2
    <2>6. jobs'[k].exec = jobs[k].exec + MinOf(WallToWork(el, d), Remaining(jobs[k]))
      BY <1>3, <2>1
    <2>7. jobs[k].actual <= mem.left[k] + jobs'[k].exec
      BY <1>1, <2>2, <2>3, <2>5, <2>6 DEF MinOf, Remaining
    <2>8. SeenWork(k)' = 0
      BY <1>3 DEF SeenWork
    <2>9. jobs'[k].exec \in Int
      BY <1>1, <2>5, <2>6 DEF MinOf, Remaining
    <2> QED BY <1>1, <1>3, <2>2, <2>7, <2>8, <2>9 DEF Covered
  <1>4. CASE /\ act.op = "dispatch" /\ k = act.job
             /\ jobs'[k].state = "Running" /\ jobs'[k].dev = act.dev
             /\ jobs'[k].exec = jobs[k].exec
             /\ IF jobs[k].actual = Unset THEN jobs'[k].actual \in ExecTimes
                ELSE jobs'[k].actual = jobs[k].actual
    <2>1. k \notin DOMAIN mem.seen
      BY <1>1, <1>4 DEF EstimatesCover, SeenInThisStretch, PlacedJob, PlacedBy
    <2>2. SeenWork(k) = 0 /\ SeenWork(k)' = 0
      BY <2>1 DEF SeenWork
    <2>3. CASE jobs[k].actual # Unset
      BY <1>1, <1>4, <2>2, <2>3 DEF Covered
    <2>4. CASE jobs[k].actual = Unset
      <3> PICK x : x = jobs'[k].actual
        OBVIOUS
      <3>1. x \in SampleExecTime(jobs[k].task, d, level) /\ level \in Levels
        BY <1>4, <2>4 DEF ExecTimes, IInv, TypeOK
      <3>2. x <= mem.left[k]
        BY <2>4, <3>1 DEF Covered
      <3>3. x \in Nat
        <4>1. jobs[k].task \in TaskIds /\ d \in DeviceIds
          BY <1>1, <1>4 DEF JobRecord, IInv, ActionIsSound, SoundAction, Placeable
        <4> QED BY <3>1, <4>1, SampleExecTimeNat
      <3>4. x <= mem.left[k] + jobs[k].exec + 0
        BY <1>1, <3>2, <3>3
      <3>5. x # Unset
        BY <3>3 DEF Unset
      <3> QED BY <1>4, <2>2, <3>4, <3>5 DEF Covered
    <2> QED BY <2>3, <2>4
  <1> QED BY <1>2, <1>3, <1>4 DEF WorkFate, TerminalStates

(* An action adds jobs to the queue of its device only.                     *)
LEMMA ActingQueues ==
    ASSUME IInv, Acting, NEW d \in DeviceIds
    PROVE  d # act.dev => queue'[d] \subseteq queue[d]
  <1>1. CASE DispatchTerminal \/ DispatchBusy \/ PreemptDeferred
    <2>1. UNCHANGED queue
      BY <1>1, DispatchTerminalEffect, DispatchBusyEffect, PreemptDeferredEffect
    <2> QED BY <2>1
  <1>2. CASE DispatchWithoutModel \/ DispatchTransfer \/ DispatchRun
    BY <1>2, DispatchWithoutModelEffect, DispatchTransferEffect, DispatchRunEffect,
       MayDispatchEffect DEF LeavesQueues
  <1>3. CASE PreemptNow
    BY <1>3, PreemptNowEffect DEF Joins, IInv, TypeOK
  <1>4. CASE EnqueueJob
    BY <1>4, EnqueueJobEffect DEF Joins, IInv, TypeOK
  <1>5. CASE DropJob
    BY <1>5, DropJobEffect DEF LeavesQueues
  <1> QED BY <1>1, <1>2, <1>3, <1>4, <1>5 DEF Acting

(* The job about to be placed is left alone until it is.                    *)
LEMMA PlacedIsLeftAlone ==
    ASSUME IInv, Unasked, PlacedJob' # NoJob, NEW q, q = PlacedJob
    PROVE  /\ PlacedJob' = q /\ act'.dev = act.dev /\ q \in JobIds
           /\ jobs'[q] = jobs[q] /\ (Queued(q) => Queued(q)')
  <1>1. PlacedJob' = q /\ act'.dev = act.dev
    BY UnaskedPlaced
  <1>2. q \in JobIds /\ q # NoJob
    BY <1>1, PlacedIsJob
  <1>3. CASE Quiet \/ Purging \/ UNCHANGED policyVars
    BY <1>1, <1>2, <1>3, QuietSteps
    DEF QuietEffect, Purging, policyVars, vars, jobVars, deviceVars, JobsStay, Queued
  <1>4. CASE \E e \in events : DeadlineCheck(e)
    <2>1. act.op = "none"
      BY <1>4, DeadlineCheckEffect
    <2> QED BY <1>2, <2>1 DEF PlacedJob, PlacedBy
  <1>5. CASE DispatchTerminal \/ DispatchBusy \/ PreemptDeferred
    <2>1. JobsStay /\ UNCHANGED queue
      BY <1>5, DispatchTerminalEffect, DispatchBusyEffect, PreemptDeferredEffect
    <2> QED BY <1>1, <1>2, <2>1 DEF JobsStay, Queued
  <1>6. CASE DispatchWithoutModel \/ DispatchTransfer \/ DispatchRun \/ EnqueueJob
    <2>1. act' = NoAction
      BY <1>6, DispatchWithoutModelEffect, DispatchTransferEffect, DispatchRunEffect,
         MayDispatchEffect, EnqueueJobEffect
    <2>2. PlacedJob' = NoJob
      BY <2>1, PlacedByAction DEF PlacedJob
    <2> QED BY <2>2
  <1>7. CASE PreemptNow
    <2>1. /\ act.op = "preempt" /\ act.by # act.job /\ act.dev \in DeviceIds
          /\ Becomes(act.job, "Suspended", act.dev) /\ Joins(act.job, act.dev)
      BY <1>7, PreemptNowEffect
    <2>2. q = act.by
      BY <2>1 DEF PlacedJob, PlacedBy
    <2>3. jobs'[q] = jobs[q]
      BY <1>2, <2>1, <2>2 DEF Becomes
    <2>4. queue \in [DeviceIds -> SUBSET JobIds]
      BY DEF IInv, TypeOK
    <2>5. \A d \in DeviceIds : queue[d] \subseteq queue'[d]
      BY <2>1, <2>4 DEF Joins
    <2> QED BY <1>1, <1>2, <2>3, <2>5 DEF Queued
  <1>8. CASE DropJob
    <2>1. /\ act.op = "drop" /\ act.job \in JobIds
          /\ IF IsTerminal(act.job) THEN JobsStay
             ELSE Becomes(act.job, "Dropped", jobs[act.job].dev)
          /\ LeavesQueues(act.job)
      BY <1>8, DropJobEffect
    <2>2. q = act.by
      BY <2>1 DEF PlacedJob, PlacedBy
    <2>3. q # act.job
      <3>1. running[act.dev] = act.job /\ Placeable(q, act.dev)
        BY <1>2, <2>1, <2>2 DEF IInv, ActionIsSound, SoundAction
      <3>2. jobs[act.job].state = "Running"
        BY <2>1, <3>1, JobIdsAreNat
        DEF IInv, Placement, SlotsHoldRunningJobs, Placeable, NoJob
      <3> QED BY <3>1, <3>2 DEF Placeable, IsTerminal, TerminalStates
    <2> QED BY <1>1, <1>2, <2>1, <2>3 DEF Becomes, JobsStay, LeavesQueues, Queued
  <1> QED BY <1>3, <1>4, <1>5, <1>6, <1>7, <1>8 DEF Unasked, Acting

(* A task without a model for one device has none for any.                  *)
LEMMA NoModelAnywhere ==
    ASSUME NEW t \in TaskIds, NEW d \in DeviceIds, NEW l \in Levels,
           SampleExecTime(t, d, l) = {}
    PROVE  \A c, m : SampleExecTime(t, c, m) = {}
  <1> PICK models : models = Task[t].execTimes
    OBVIOUS
  <1> PICK matching : matching = {i \in DOMAIN models : models[i].type = Device[d].type}
    OBVIOUS
  <1>1. DOMAIN models \in SUBSET Nat
    <2>1. models \in Seq([type: DeviceTypes, model: ExecModel])
      BY PlatformAssumption DEF TaskRecord
    <2> QED BY <2>1
  <1>2. ModelFor(t, Device[d].type) = {}
    BY SampleExecTimeExists
  <1>3. FirstOf(IF matching # {} THEN matching ELSE DOMAIN models) = {}
    BY <1>2 DEF ModelFor
  <1>4. DOMAIN models = {}
    BY <1>1, <1>3, FirstOfNat
  <1>5. \A type : ModelFor(t, type) = {}
    <2> TAKE type
    <2>1. FirstOf({}) = {}
      BY DEF FirstOf
    <2> QED BY <1>4, <2>1 DEF ModelFor
  <1> QED BY <1>5 DEF SampleExecTime

(* Between two calls a job is settled because it was, or was placed.        *)
LEMMA UnaskedFate ==
    ASSUME IInv, Unasked, NEW k \in JobIds,
           jobs'[k].state \in {"Ready", "Running", "Suspended"}, Fate(k)
    PROVE  \/ jobs'[k].dev = jobs[k].dev /\ jobs[k].state \in {"Ready", "Running", "Suspended"}
           \/ act.op \in {"dispatch", "enqueue"} /\ k = act.job /\ jobs'[k].dev = act.dev
  <1>1. CASE Acting
    <2>1. ~Polling
      BY <1>1, ActingKeepsPlaced DEF Polling
    <2> QED BY <2>1 DEF Fate, TerminalStates
  <1>2. CASE Quiet \/ Purging \/ UNCHANGED policyVars
    <2>1. jobs'[k] = jobs[k]
      BY <1>2, QuietSteps DEF QuietEffect, Purging, policyVars, vars, jobVars, JobsStay
    <2> QED BY <2>1
  <1>3. CASE \E e \in events : DeadlineCheck(e)
    <2> PICK e \in events : DeadlineCheck(e)
      BY <1>3
    <2>1. jobs'[k] = jobs[k] \/ jobs'[k].state = "DeadlineMissed"
      BY DeadlineCheckEffect DEF JobsStay, Becomes
    <2> QED BY <2>1
  <1> QED BY <1>1, <1>2, <1>3 DEF Unasked

(* A job that was about to be placed and is not any more has been placed,   *)
(* or its task has no model for the device.                                 *)
LEMMA PlacedOrLost ==
    ASSUME IInv, Acting, NEW k \in JobIds, k = PlacedJob, k # PlacedJob',
           jobs'[k].state \in {"Ready", "Running", "Suspended"}
    PROVE  /\ act.op \in {"dispatch", "enqueue"} /\ k = act.job
           /\ jobs'[k].dev = act.dev \/ DispatchWithoutModel
  <1>1. k # NoJob /\ Placeable(k, act.dev)
    BY PlacedIsJob, JobIdsAreNat DEF NoJob, IInv
  <1>2. CASE DispatchTerminal
    BY <1>2, DispatchTerminalEffect
    DEF DispatchTerminal, Executing, IsTerminal, TerminalStates, JobsStay, PlacedJob, PlacedBy
  <1>3. CASE DispatchBusy
    <2>1. /\ act.op = "dispatch" /\ act.dev \in DeviceIds
          /\ act' = IF running[act.dev] = act.job THEN NoAction ELSE Enqueue(act.job, act.dev)
          /\ ~IsTerminal(act.job)
      BY <1>3, DispatchBusyEffect DEF DispatchBusy
    <2>2. k = act.job
      BY <2>1 DEF PlacedJob, PlacedBy
    <2>3. running[act.dev] # act.job
      BY <1>1, <2>1, <2>2 DEF IInv, Placement, SlotsHoldRunningJobs, Placeable
    <2> QED BY <2>1, <2>2, <2>3, PlacedByAction DEF PlacedJob
  <1>4. CASE DispatchWithoutModel
    BY <1>4, DispatchWithoutModelEffect, MayDispatchEffect DEF PlacedJob, PlacedBy
  <1>5. CASE DispatchTransfer \/ DispatchRun
    <2>1. /\ act.op = "dispatch" /\ jobs'[act.job].dev = act.dev
      BY <1>5, DispatchTransferEffect, DispatchRunEffect, MayDispatchEffect DEF Becomes
    <2> QED BY <2>1 DEF PlacedJob, PlacedBy
  <1>6. CASE EnqueueJob
    <2>1. /\ act.op = "enqueue" /\ k = act.job
      BY <1>6, EnqueueJobEffect DEF PlacedJob, PlacedBy
    <2>2. ~IsTerminal(act.job)
      BY <1>6, <2>1, EnqueueJobEffect DEF JobsStay, IsTerminal, TerminalStates
    <2> QED BY <1>6, <2>1, <2>2, EnqueueJobEffect DEF Becomes
  <1>7. CASE PreemptNow \/ PreemptDeferred
    <2>1. act.op = "preempt" /\ act'.op \in {"dispatch", "enqueue"} /\ act'.job = act.by
      BY <1>7, PreemptNowEffect, PreemptDeferredEffect
    <2> QED BY <2>1 DEF PlacedJob, PlacedBy
  <1>8. CASE DropJob
    <2>1. /\ act.op = "drop"
          /\ act' = IF act.by = NoJob THEN NoAction ELSE Dispatch(act.by, act.dev, 0)
      BY <1>8, DropJobEffect
    <2>2. k = act.by
      BY <2>1 DEF PlacedJob, PlacedBy
    <2> QED BY <1>1, <2>1, <2>2, PlacedByAction DEF PlacedJob
  <1> QED BY <1>2, <1>3, <1>4, <1>5, <1>6, <1>7, <1>8 DEF Acting

(* A job that is settled after such a step was covered where it is.         *)
LEMMA CoveredBefore ==
    ASSUME IInv, Unasked, EstimatesCover, NEW k \in DOMAIN mem.left, Fate(k),
           Settled(k)', NEW d, d = jobs'[k].dev, Fast(d)
    PROVE  Covered(k, d)
  <1>1. k \in JobIds
    BY DEF EstimatesCover
  <1>2. CASE act.op \in {"dispatch", "enqueue"} /\ k = act.job /\ d = act.dev
    BY <1>2 DEF EstimatesCover, PlacedJob, PlacedBy
  <1>3. CASE k # PlacedJob
    <2>1. d = jobs[k].dev /\ jobs[k].state \in {"Ready", "Running", "Suspended"}
      BY <1>1, <1>3, UnaskedFate DEF Settled, PlacedJob, PlacedBy
    <2> QED BY <1>3, <2>1 DEF EstimatesCover, Settled
  <1>4. CASE k = PlacedJob /\ ~(act.op \in {"dispatch", "enqueue"} /\ k = act.job /\ d = act.dev)
    <2>1. Acting
      <3>1. act.op # "none"
        BY <1>1, <1>4, JobIdsAreNat DEF PlacedJob, PlacedBy, NoJob, IInv
      <3>2. act' # act
        BY <1>4 DEF Settled, PlacedJob
      <3> QED BY <3>1, <3>2, QuietSteps, DeadlineCheckEffect
          DEF Unasked, QuietEffect, Purging, policyVars, vars
    <2>2. DispatchWithoutModel
      BY <1>1, <1>4, <2>1, PlacedOrLost DEF Settled
    <2>3. MayDispatch /\ JobsStay /\ ExecTimes = {} /\ act.op = "dispatch"
      BY <2>2, DispatchWithoutModelEffect, MayDispatchEffect
    <2>4. k = act.job
      BY <1>4, <2>3 DEF PlacedJob, PlacedBy
    <2>5. d = jobs[k].dev /\ d # act.dev
      BY <1>4, <2>3, <2>4 DEF JobsStay
    <2>6. ~Queued(k)
      <3>1. k # NoJob /\ Placeable(k, act.dev) /\ ~IsTerminal(k)
        BY <1>1, <1>4, <2>3, <2>4, PlacedIsJob, JobIdsAreNat, MayDispatchEffect DEF NoJob, IInv
      <3>2. Queued(k) => k \in queue[act.dev] /\ act.dev \in DeviceIds
        BY <3>1 DEF Placeable, Queued
      <3> QED BY <2>5, <3>2 DEF IInv, Placement, QueuesHoldWaitingJobs
    <2>7. Covered(k, act.dev)
      BY <1>4, <2>6 DEF EstimatesCover
    <2>8. \A c, l : SampleExecTime(jobs[k].task, c, l) = {}
      <3>1. jobs[k].task \in TaskIds /\ act.dev \in DeviceIds /\ level \in Levels
        BY <2>3, <2>4, MayDispatchEffect DEF IInv, TypeOK
      <3> QED BY <2>3, <2>4, <3>1, NoModelAnywhere DEF ExecTimes
    <2> QED BY <2>7, <2>8 DEF Covered
  <1> QED BY <1>2, <1>3, <1>4

(* Between two calls a reevaluation goes on where it was, and what it adds  *)
(* to a queue is behind it.                                                 *)
LEMMA UnaskedQueues ==
    ASSUME BaseInv, policy \in Schedulers, ReevaluationsAreAsked, LaxityIInv, SeenInThisStretch,
           Unasked, ReevaluationGoesOn', NEW d \in DeviceIds, d >= phase'.k
    PROVE  queue'[d] \cap DOMAIN mem.seen = {}
  <1>0. IInv
    BY DEF BaseInv
  <1>1. CASE Acting
    <2>1. act.op # "none" /\ phase' = phase
      BY <1>0, <1>1, ActingKeepsPlaced
    <2>2. ReevaluationGoesOn /\ policy = "Llf"
      BY <2>1, ReevaluatedIsLlf DEF ReevaluationGoesOn
    <2>3. act.dev < phase.k /\ act.dev \in DeviceIds /\ act.dev \in Nat /\ phase.k \in Int /\ d \in Nat
      <3>1. act.op \in {"preempt", "dispatch"} /\ act.dev < phase.k
        BY <2>1, <2>2 DEF LaxityIInv, RestoringAct
      <3>2. act.dev \in DeviceIds
        BY <1>0, <3>1 DEF IInv, ActionIsSound, SoundAction, Placeable
      <3>3. phase.k \in Int
        BY <1>0, <2>2 DEF IInv, TypeOK, PhaseRecord, ReevaluationGoesOn
      <3> QED BY <3>1, <3>2, <3>3 DEF DeviceIds
    <2>4. d # act.dev /\ d >= phase.k
      BY <2>1, <2>3
    <2>5. queue'[d] \subseteq queue[d]
      BY <1>0, <1>1, <2>4, ActingQueues
    <2> QED BY <2>2, <2>4, <2>5 DEF SeenInThisStretch
  <1>2. CASE Quiet
    BY <1>0, <1>2, QuietReevaluates DEF Unasked, ReevaluationGoesOn
  <1>3. CASE \E e \in events : DeadlineCheck(e)
    BY <1>0, <1>3, DeadlineCheckEffect DEF ReevaluationGoesOn
  <1>4. CASE Purging
    BY <1>4 DEF Purging, ReevaluationGoesOn
  <1>5. CASE UNCHANGED policyVars
    BY <1>5 DEF policyVars, vars, deviceVars, ReevaluationGoesOn, SeenInThisStretch
  <1> QED BY <1>1, <1>2, <1>3, <1>4, <1>5 DEF Unasked

(* The steps between two calls keep the estimates safe.                     *)
LEMMA UnaskedCovers ==
    ASSUME BaseInv, IInv', WorkIInv, policy \in {"Llf", "CpEdf"}, policy \in Schedulers,
           EstimatesAreNumbers, ReevaluationsAreAsked, LaxityIInv, EstimatesCover,
           [PolicyNext]_policyVars, Unasked
    PROVE  EstimatesCover'
  <1>1. IInv /\ mem' = mem /\ JobsFate /\ now \in Nat /\ now' \in Int /\ now' >= now
    <2>1. IInv /\ mem' = mem
      BY DEF BaseInv, Unasked
    <2> QED BY <2>1, FateOfJobs, PolicyNextIsNext, TimeGoesOn
  <1>2. DOMAIN mem.left \cup DOMAIN mem.seen \subseteq JobIds
    BY DEF EstimatesCover
  <1>3. DOMAIN mem'.left \cup DOMAIN mem'.seen \subseteq JobIds'
    BY <1>1, <1>2 DEF JobsFate
  <1>4. ASSUME NEW k \in DOMAIN mem'.left, Settled(k)', Fast(jobs[k].dev)'
        PROVE  Covered(k, jobs[k].dev)'
    <2> PICK d : d = jobs'[k].dev
      OBVIOUS
    <2>1. k \in DOMAIN mem.left /\ k \in JobIds /\ Fast(d)
      BY <1>1, <1>2, <1>4 DEF Fast
    <2>2. Fate(k) /\ WorkFate(k)
      BY <1>1, <2>1, WorkOfJobs DEF JobsFate
    <2>3. Covered(k, d)
      BY <1>1, <1>4, <2>1, <2>2, CoveredBefore
    <2>4. Covered(k, d)'
      BY <1>1, <1>4, <2>1, <2>2, <2>3, StaysCovered DEF Settled
    <2> QED BY <2>4
  <1>5. ASSUME PlacedJob' \in DOMAIN mem'.left, Queued(PlacedJob)' => Fast(act.dev)'
        PROVE  Covered(PlacedJob, act.dev)'
    <2> PICK q : q = PlacedJob
      OBVIOUS
    <2> PICK d : d = act.dev
      OBVIOUS
    <2>1. PlacedJob' # NoJob
      BY <1>1, <1>2, <1>5, JobIdsAreNat DEF NoJob, IInv
    <2>2. /\ PlacedJob' = q /\ act'.dev = d /\ q \in JobIds
          /\ jobs'[q] = jobs[q] /\ (Queued(q) => Queued(q)')
      BY <1>1, <2>1, PlacedIsLeftAlone
    <2>3. Queued(PlacedJob)' <=> Queued(q)'
      BY <2>2 DEF Queued
    <2>4. Fast(act.dev)' <=> Fast(d)
      BY <2>2 DEF Fast
    <2>5. Covered(q, d)
      BY <1>1, <1>5, <2>2, <2>3, <2>4 DEF EstimatesCover
    <2>6. SeenWork(q) = 0 /\ SeenWork(q)' = 0
      <3>1. q # NoJob
        BY <1>1, <2>2, JobIdsAreNat DEF NoJob, IInv
      <3> QED BY <1>1, <3>1 DEF EstimatesCover, SeenInThisStretch, SeenWork
    <2>7. Covered(q, d)'
      BY <1>1, <2>2, <2>5, <2>6 DEF Covered
    <2> QED BY <2>2, <2>7
  <1>6. ASSUME PlacedJob' # NoJob
        PROVE  PlacedJob' \notin DOMAIN mem'.seen
    BY <1>1, <1>6, UnaskedPlaced DEF EstimatesCover, SeenInThisStretch
  <1>7. ASSUME NEW j \in DOMAIN mem.seen, jobs'[j].state = "Running"
        PROVE  mem.seen[j] \in 0 .. now' - jobs'[j].start
    <2>1. j \in JobIds /\ j # NoJob /\ WorkFate(j)
      BY <1>1, <1>2, WorkOfJobs, JobIdsAreNat DEF NoJob, IInv
    <2>2. j # PlacedJob
      BY <1>7, <2>1 DEF EstimatesCover, SeenInThisStretch
    <2>3. jobs[j].state = "Running" /\ jobs'[j].start = jobs[j].start
      BY <1>7, <2>1, <2>2 DEF WorkFate, PlacedJob, PlacedBy, TerminalStates
    <2>4. mem.seen[j] \in 0 .. now - jobs[j].start
      BY <1>7, <2>3 DEF EstimatesCover, SeenInThisStretch
    <2>5. jobs[j].start \in Int
      BY <1>1, <2>1 DEF IInv, TypeOK, JobRecord, Unset
    <2> QED BY <1>1, <2>3, <2>4, <2>5
  <1>8. SeenInThisStretch'
    <2>1. ReevaluationGoesOn' =>
            \A d \in DeviceIds : d >= phase'.k => queue'[d] \cap DOMAIN mem'.seen = {}
      BY <1>1, UnaskedQueues DEF EstimatesCover
    <2> QED BY <1>1, <1>6, <1>7, <2>1 DEF SeenInThisStretch
  <1> QED BY <1>3, <1>4, <1>5, <1>8 DEF EstimatesCover

(* Nor does the answer for one device of a reevaluation.                    *)
LEMMA ReevaluatesCovers ==
    ASSUME IInv, policy \in Schedulers, EstimatesCover, [PolicyNext]_policyVars,
           NEW a, Reevaluates(a)
    PROVE  EstimatesCover'
  <1>1. /\ act.op = "none" /\ phase.k \in DeviceIds /\ act' = a /\ phase'.k = phase.k + 1
        /\ ReevaluationGoesOn /\ mem' = mem /\ jobs' = jobs /\ queue' = queue
        /\ JobIds' = JobIds
    <2>1. Reevaluate(a)
      BY DEF Reevaluates
    <2>2. phase'.k = phase.k + 1
      BY <2>1 DEF Reevaluate, IInv, TypeOK, PhaseRecord
    <2> QED BY <2>1, <2>2
        DEF Reevaluates, Reevaluate, Reevaluating, ReevaluationGoesOn, JobsStay, JobIds
  <1>2. PlacedJob = NoJob /\ JobIds \subseteq Nat
    BY <1>1, JobIdsAreNat DEF PlacedJob, PlacedBy, IInv
  <1> PICK c \in DeviceIds : c = phase.k
    BY <1>1
  <1>3. \/ PlacedJob' = NoJob
        \/ PlacedJob' \in queue[c] /\ act'.dev = c
    <2> PICK cb : cb = Reevaluated(c, now)
      OBVIOUS
    <2>1. cb.on = "reevaluation" /\ cb.dev = c
      BY DEF Reevaluated, Call
    <2>2. a \in Answers(cb, mem)
      BY DEF Reevaluates
    <2>3. a \in ReevaluationActions(c)
      BY <2>1, <2>2, AnswersAllowed DEF Allowed
    <2> QED BY <1>1, <2>3, PlacedByReevaluation, PlacedByAction DEF PlacedJob
  <1>4. \A k, d : Covered(k, d)' <=> Covered(k, d)
    BY <1>1 DEF Covered, SeenWork
  <1>5. ASSUME NEW k \in DOMAIN mem.left, jobs[k].state \in {"Ready", "Running", "Suspended"},
               Fast(jobs[k].dev)
        PROVE  Covered(k, jobs[k].dev)
    <2>1. k # PlacedJob
      BY <1>2 DEF EstimatesCover, NoJob
    <2> QED BY <1>5, <2>1 DEF EstimatesCover, Settled
  <1>6. ASSUME NEW k \in DOMAIN mem'.left, Settled(k)', Fast(jobs[k].dev)'
        PROVE  Covered(k, jobs[k].dev)'
    <2> PICK d : d = jobs[k].dev
      OBVIOUS
    <2>1. Covered(k, d)
      BY <1>1, <1>5, <1>6 DEF Settled, Fast
    <2> QED BY <1>1, <1>4, <2>1
  <1>7. ASSUME PlacedJob' \in DOMAIN mem'.left, Queued(PlacedJob)' => Fast(act.dev)'
        PROVE  Covered(PlacedJob, act.dev)'
    <2>1. PlacedJob' # NoJob
      BY <1>1, <1>2, <1>7 DEF EstimatesCover, NoJob
    <2> PICK q : q = PlacedJob'
      OBVIOUS
    <2>2. q \in queue[c] /\ act'.dev = c
      BY <1>3, <2>1
    <2>3. jobs[q].dev = c /\ jobs[q].state \in {"Ready", "Suspended"}
      BY <2>2 DEF IInv, Placement, QueuesHoldWaitingJobs
    <2>4. Queued(PlacedJob)'
      BY <1>1, <2>2 DEF Queued
    <2>5. Fast(c)
      BY <1>7, <2>2, <2>4 DEF Fast
    <2>6. Covered(q, c)
      BY <1>1, <1>5, <1>7, <2>3, <2>5
    <2>7. Covered(q, c)'
      BY <1>4, <2>6
    <2> QED BY <2>2, <2>7
  <1>8. SeenInThisStretch'
    <2>1. \A d \in DeviceIds : d >= c => queue[d] \cap DOMAIN mem.seen = {}
      BY <1>1 DEF EstimatesCover, SeenInThisStretch
    <2>2. c \in Nat /\ \A d \in DeviceIds : d \in Nat
      BY DEF DeviceIds
    <2>3. PlacedJob' # NoJob => PlacedJob' \notin DOMAIN mem.seen
      BY <1>3, <2>1, <2>2
    <2>4. \A d \in DeviceIds : d >= phase'.k => queue[d] \cap DOMAIN mem.seen = {}
      BY <1>1, <2>1, <2>2
    <2>5. ASSUME NEW j \in DOMAIN mem.seen, jobs[j].state = "Running"
          PROVE  mem.seen[j] \in 0 .. now' - jobs[j].start
      <3>1. mem.seen[j] \in 0 .. now - jobs[j].start
        BY <2>5 DEF EstimatesCover, SeenInThisStretch
      <3>2. j \in JobIds
        BY DEF EstimatesCover
      <3>3. jobs[j].start \in Int
        BY <3>2 DEF IInv, TypeOK, JobRecord, Unset
      <3>4. now \in Nat /\ now' \in Int /\ now' >= now
        BY PolicyNextIsNext, TimeGoesOn
      <3> QED BY <3>1, <3>3, <3>4
    <2> QED BY <1>1, <2>3, <2>4, <2>5 DEF SeenInThisStretch
  <1> QED BY <1>1, <1>6, <1>7, <1>8 DEF EstimatesCover

(* A scheduler that estimates nothing never does.                           *)
LEMMA NothingEstimated ==
    ASSUME IInv, policy \in Schedulers \ {"Llf", "CpEdf"}, [PolicyNext]_policyVars,
           DOMAIN mem = MemoryFields, mem.left = Nothing
    PROVE  DOMAIN mem' = MemoryFields /\ mem'.left = Nothing
  <1>1. ASSUME NEW cb
        PROVE  DOMAIN Remember(cb) = MemoryFields /\ Remember(cb).left = Nothing
    <2>1. CASE policy = "Federated"
      <3> PICK r : r = Reclaimed(mem, cb)
        OBVIOUS
      <3>1. DOMAIN r = MemoryFields /\ r.left = Nothing
        BY DEF Reclaimed, MemoryFields
      <3>2. DOMAIN FederatedMemory(mem, cb) = MemoryFields /\ FederatedMemory(mem, cb).left = Nothing
        BY <3>1 DEF FederatedMemory, MemoryFields
      <3> QED BY <2>1, <3>2 DEF Remember
    <2>2. CASE policy = "Gang"
      BY <2>2 DEF Remember, GangMemory, MemoryFields
    <2>3. CASE policy = "Match"
      <3> PICK o : o = MatchObserved(mem, cb)
        OBVIOUS
      <3>1. DOMAIN o = MemoryFields /\ o.left = Nothing
        BY DEF MatchObserved, MemoryFields
      <3>2. DOMAIN MatchMemory(mem, cb) = MemoryFields /\ MatchMemory(mem, cb).left = Nothing
        BY <3>1 DEF MatchMemory, MemoryFields
      <3> QED BY <2>3, <3>2 DEF Remember
    <2>4. CASE policy \notin {"Llf", "CpEdf", "Federated", "Gang", "Match"}
      <3>1. Remember(cb) = mem
        BY <2>4 DEF Remember
      <3> QED BY <3>1
    <2> QED BY <2>1, <2>2, <2>3, <2>4
  <1>2. mem' = mem \/ \E cb : mem' = Remember(cb)
    BY StepsOfAPolicy DEF Consults, Observes, Reevaluates, Unasked
  <1> QED BY <1>1, <1>2

(* EstimatesIInv is inductive.                                              *)
LEMMA EstimatesNext ==
    ASSUME LaxityInv, IInv', WorkIInv, EstimatesIInv, WorstCasesAreWorst, policy \in Schedulers,
           [PolicyNext]_policyVars
    PROVE  EstimatesIInv'
  <1>1. policy' = policy /\ IInv
    BY DEF PolicyNext, policyVars, LaxityInv, BaseInv
  <1>2. CASE policy \in {"Llf", "CpEdf"}
    <2>1. EstimatesCover
      BY <1>2 DEF EstimatesIInv
    <2>2. BaseInv /\ EstimatesAreNumbers /\ ReevaluationsAreAsked /\ LaxityIInv
      BY DEF LaxityInv
    <2>3. ASSUME NEW cb, Consults(cb) \/ Observes(cb)
          PROVE  EstimatesCover'
      BY <1>1, <1>2, <2>1, <2>2, <2>3, CallCovers
    <2>4. ASSUME NEW a, Reevaluates(a)
          PROVE  EstimatesCover'
      BY <1>1, <2>1, <2>4, ReevaluatesCovers
    <2>5. ASSUME Unasked
          PROVE  EstimatesCover'
      BY <1>2, <2>1, <2>2, <2>5, UnaskedCovers
    <2>6. EstimatesCover'
      BY <1>1, <2>3, <2>4, <2>5, StepsOfAPolicy
    <2> QED BY <1>1, <1>2, <2>6 DEF EstimatesIInv
  <1>3. CASE policy \notin {"Llf", "CpEdf"}
    BY <1>1, <1>3, NothingEstimated DEF EstimatesIInv
  <1> QED BY <1>2, <1>3

(* The invariants of LLF's and CP-EDF's estimates.                          *)
EstimatesInv == LaxityInv /\ WorkIInv /\ EstimatesIInv

(* Under LLF and CP-EDF, whatever the load and however often jobs are       *)
(* preempted, what is believed to be left of a job between two events is at *)
(* least what is left of its demand, on a device that does the work of a    *)
(* nanosecond in one or less: an estimate for one device covers every       *)
(* demand drawn there, and a job is charged for no more time than it has    *)
(* worked.  The best case of every model is taken to be none above its      *)
(* worst.                                                                   *)
THEOREM EstimatesAreAlwaysSafe ==
    ASSUME WorstCasesAreWorst
    PROVE  PolicySpec => []EstimatesAreSafe
  <1>1. EstimatesInv => EstimatesAreSafe
    <2> SUFFICES ASSUME EstimatesInv, Polling, NEW j \in DOMAIN mem.left,
                        jobs[j].state \in {"Ready", "Running", "Suspended"}, Fast(jobs[j].dev)
                 PROVE  mem.left[j] + jobs[j].exec + SeenWork(j) >= jobs[j].actual
      BY DEF EstimatesAreSafe, Fast
    <2>1. IInv /\ WorkIInv /\ EstimatesIInv /\ EstimatesAreNumbers
      BY DEF EstimatesInv, LaxityInv, BaseInv
    <2>2. policy \in {"Llf", "CpEdf"}
      BY <2>1 DEF EstimatesIInv, Nothing
    <2>3. EstimatesCover /\ j \in JobIds
      BY <2>1, <2>2 DEF EstimatesIInv, EstimatesCover
    <2>4. j # NoJob /\ jobs[j] \in JobRecord /\ mem.left[j] \in Nat
      BY <2>1, <2>2, <2>3, JobIdsAreNat DEF IInv, TypeOK, NoJob, EstimatesAreNumbers, NumbersIn
    <2>5. Settled(j)
      BY <2>4 DEF Settled, Polling, PlacedJob, PlacedBy
    <2>6. Covered(j, jobs[j].dev)
      BY <2>3, <2>5 DEF EstimatesCover
    <2>7. CASE jobs[j].actual # Unset
      BY <2>6, <2>7 DEF Covered
    <2>8. CASE jobs[j].actual = Unset
      <3>1. jobs[j].state # "Running"
        BY <2>1, <2>3, <2>8 DEF WorkIInv, WorkSound
      <3>2. SeenWork(j) = 0 /\ jobs[j].exec \in Nat
        BY <2>4, <3>1 DEF SeenWork, JobRecord
      <3> QED BY <2>4, <2>8, <3>2 DEF Unset
    <2> QED BY <2>7, <2>8
  <1>2. PolicyInit => EstimatesInv
    <2> SUFFICES ASSUME PolicyInit PROVE EstimatesInv
      OBVIOUS
    <2>1. LaxityInv
      BY LaxityStarts
    <2>2. WorkIInv
      BY InitWork DEF PolicyInit
    <2>3. /\ mem = NoMemory /\ nextJob = 0 /\ act = NoAction /\ phase.op = "setup"
          /\ DOMAIN mem = MemoryFields /\ mem.left = Nothing /\ mem.seen = Nothing
      BY DEF PolicyInit, Init, NoMemory, MemoryFields, Phase
    <2>4. PlacedJob = NoJob /\ NoJob \notin DOMAIN Nothing
      BY <2>3, PlacedByAction DEF PlacedJob, Nothing
    <2>5. EstimatesCover
      BY <2>3, <2>4 DEF EstimatesCover, SeenInThisStretch, ReevaluationGoesOn, Nothing
    <2> QED BY <2>1, <2>2, <2>3, <2>5 DEF EstimatesInv, EstimatesIInv
  <1>3. EstimatesInv /\ [PolicyNext]_policyVars => EstimatesInv'
    <2> SUFFICES ASSUME EstimatesInv, [PolicyNext]_policyVars PROVE EstimatesInv'
      OBVIOUS
    <2>1. LaxityInv /\ WorkIInv /\ EstimatesIInv
      BY DEF EstimatesInv
    <2>2. LaxityInv' /\ policy \in Schedulers
      BY <2>1, LaxityGoesOn, BaseNext DEF LaxityInv
    <2>3. IInv /\ IInv'
      BY <2>1, <2>2 DEF LaxityInv, BaseInv
    <2>4. WorkIInv'
      BY <2>1, <2>2, <2>3, PolicyNextIsNext, NextWork
    <2>5. EstimatesIInv'
      BY <2>1, <2>2, <2>3, EstimatesNext
    <2> QED BY <2>2, <2>4, <2>5 DEF EstimatesInv
  <1> QED BY <1>1, <1>2, <1>3, PTL DEF PolicySpec
=============================================================================
