------------------------ MODULE DeviceManager_proofs ------------------------
(***************************************************************************)
(* The view of the ready queues is current whenever its flag is clear, and *)
(* the buckets, flags and view implement the plain queues of ReadyQueues,  *)
(* for all devices, jobs and priorities.  The invariant is inductive with  *)
(* the types of the variables: a call either leaves a queue alone or sets  *)
(* its flag, and no call leaves an empty bucket.                           *)
(*                                                                         *)
(* The listing of a map is a fold, and so a recursive function of sets of  *)
(* keys.  Everything about it follows from one fact, ListingsAround: maps  *)
(* that differ in one bucket have listings that differ in one place.       *)
(***************************************************************************)
EXTENDS DeviceManager, TLAPS, SequenceTheorems, FiniteSetTheorems, WellFoundedInduction

(* Finitely many buckets, none empty, of jobs of the bucket's priority.     *)
IsBuckets(map) ==
    /\ DOMAIN map \subseteq Nat /\ IsFiniteSet(DOMAIN map)
    /\ map = [p \in DOMAIN map |-> map[p]]
    /\ \A p \in DOMAIN map :
          /\ map[p] \in Seq(JobIds) /\ map[p] # <<>>
          /\ \A k \in 1 .. Len(map[p]) : Priority[map[p][k]] = p

(* Types.                                                                   *)
DmTypeOK ==
    /\ readyQueues = [d \in Devices |-> readyQueues[d]]
    /\ \A d \in Devices : IsBuckets(readyQueues[d])
    /\ queueDirty \in [Devices -> BOOLEAN]

(* The inductive invariant.                                                 *)
DmIInv == DmTypeOK /\ ViewIsCurrent

(* What the helpers make of a map of non-empty buckets.                     *)
LEMMA PushBackKeepsBuckets ==
    ASSUME NEW map, IsBuckets(map), NEW j \in JobIds
    PROVE  IsBuckets(PushBack(map, Priority[j], j))
<1> DEFINE p == Priority[j]
           pushed == PushBack(map, p, j)
<1>0. p \in Nat
  BY DeviceManagerAssumption
<1>1. ASSUME NEW key \in DOMAIN map \cup {p}
      PROVE  /\ pushed[key] \in Seq(JobIds) /\ pushed[key] # <<>>
             /\ \A k \in 1 .. Len(pushed[key]) : Priority[pushed[key][k]] = key
  <2>1. CASE key # p
    <3>1. key \in DOMAIN map /\ pushed[key] = map[key]
      BY <2>1 DEF PushBack
    <3> QED BY <3>1 DEF IsBuckets
  <2>2. CASE key = p
    <3> DEFINE before == IF p \in DOMAIN map THEN map[p] ELSE <<>>
    <3>1. /\ before \in Seq(JobIds)
          /\ \A k \in 1 .. Len(before) : Priority[before[k]] = p
      BY DEF IsBuckets
    <3>2. pushed[key] = Append(before, j)
      BY <2>2 DEF PushBack
    <3> HIDE DEF before, pushed
    <3>3. ASSUME NEW k \in 1 .. Len(Append(before, j))
          PROVE  Priority[Append(before, j)[k]] = p
      BY <3>1
    <3> QED BY <2>2, <3>1, <3>2, <3>3
  <2> QED BY <2>1, <2>2
<1>2. /\ DOMAIN pushed = DOMAIN map \cup {p}
      /\ pushed = [key \in DOMAIN pushed |-> pushed[key]]
  BY DEF PushBack
<1>3. IsFiniteSet(DOMAIN map \cup {p}) /\ DOMAIN map \cup {p} \subseteq Nat
  BY <1>0, FS_AddElement DEF IsBuckets
<1> HIDE DEF pushed
<1> QED BY <1>1, <1>2, <1>3 DEF IsBuckets, pushed

(* A bucket that loses its last job goes with it.                           *)
LEMMA FromFirstKeepsBuckets ==
    ASSUME NEW map, IsBuckets(map)
    PROVE  IsBuckets(FromFirst(map))
<1> DEFINE first == Min(Filled(map))
           left == {p \in DOMAIN map : p > first \/ (p = first /\ Len(map[p]) > 1)}
           rest == FromFirst(map)
<1>1. rest = [p \in left |-> IF p = first THEN Tail(map[p]) ELSE map[p]]
  BY DEF FromFirst
<1>2. ASSUME NEW p \in left
      PROVE  /\ rest[p] \in Seq(JobIds) /\ rest[p] # <<>>
             /\ \A k \in 1 .. Len(rest[p]) : Priority[rest[p][k]] = p
  <2>1. /\ map[p] \in Seq(JobIds) /\ map[p] # <<>>
        /\ \A k \in 1 .. Len(map[p]) : Priority[map[p][k]] = p
    BY DEF IsBuckets
  <2>2. CASE p = first
    <3>1. CASE Len(map[p]) > 1
      <4>1. /\ Tail(map[p]) \in Seq(JobIds) /\ Len(Tail(map[p])) = Len(map[p]) - 1
            /\ \A k \in 1 .. Len(Tail(map[p])) : Tail(map[p])[k] = map[p][k + 1]
        BY <2>1, HeadTailProperties
      <4>2. Tail(map[p]) # <<>>
        <5>1. Len(Tail(map[p])) # 0
          BY <2>1, <3>1, <4>1
        <5>2. Len(<<>>) = 0
          BY EmptySeq
        <5> QED BY <5>1, <5>2
      <4>3. rest[p] = Tail(map[p])
        BY <1>1, <2>2
      <4>4. \A k \in 1 .. Len(Tail(map[p])) : k + 1 \in 1 .. Len(map[p])
        BY <2>1, <4>1
      <4> HIDE DEF rest
      <4> QED BY <2>1, <4>1, <4>2, <4>3, <4>4
    <3>2. ~(p > first)
      BY <2>2 DEF IsBuckets
    <3> QED BY <3>1, <3>2
  <2>3. CASE p # first
    <3>1. rest[p] = map[p]
      BY <1>1, <2>3
    <3> QED BY <2>1, <3>1
  <2> QED BY <2>2, <2>3
<1>3. IsFiniteSet(left) /\ left \subseteq Nat
  BY FS_Subset DEF IsBuckets
<1>4. DOMAIN rest = left /\ rest = [p \in left |-> rest[p]]
  BY <1>1
<1> HIDE DEF left, rest
<1> QED BY <1>2, <1>3, <1>4 DEF IsBuckets, rest

(* What is left of a bucket is of the bucket.                               *)
LEMMA WithoutFirstIsSequence ==
    ASSUME NEW s \in Seq(JobIds), s # <<>>, NEW j
    PROVE  /\ WithoutFirst(s, j) \in Seq(JobIds)
           /\ Len(WithoutFirst(s, j)) = Len(s) - 1
           /\ \A i \in 1 .. Len(s) - 1 : \E k \in 1 .. Len(s) : WithoutFirst(s, j)[i] = s[k]
<1>1. Len(s) - 1 \in Nat
  OBVIOUS
<1>2. \A i \in 1 .. Len(s) - 1 : WithoutFirst(s, j)[i] \in {s[i], s[i + 1]}
  BY DEF WithoutFirst
<1>3. \A i \in 1 .. Len(s) - 1 :
         i \in 1 .. Len(s) /\ i + 1 \in 1 .. Len(s) /\ s[i] \in JobIds /\ s[i + 1] \in JobIds
  OBVIOUS
<1>4. WithoutFirst(s, j) \in [1 .. Len(s) - 1 -> JobIds]
  BY <1>2, <1>3 DEF WithoutFirst
<1> QED BY <1>1, <1>2, <1>3, <1>4

(* A withdrawal leaves no empty bucket.                                     *)
LEMMA WithoutJobKeepsBuckets ==
    ASSUME NEW map, IsBuckets(map), NEW j
    PROVE  IsBuckets(WithoutJob(map, j))
<1> DEFINE rest == [p \in DOMAIN map |->
                       IF p \in Holding(map, j) /\ p = Min(Holding(map, j))
                       THEN WithoutFirst(map[p], j) ELSE map[p]]
<1>1. ASSUME NEW p \in DOMAIN map
      PROVE  /\ rest[p] \in Seq(JobIds)
             /\ \A k \in 1 .. Len(rest[p]) : Priority[rest[p][k]] = p
  <2>1. /\ map[p] \in Seq(JobIds) /\ map[p] # <<>>
        /\ \A k \in 1 .. Len(map[p]) : Priority[map[p][k]] = p
    BY DEF IsBuckets
  <2>2. rest[p] \in {map[p], WithoutFirst(map[p], j)}
    OBVIOUS
  <2>3. /\ WithoutFirst(map[p], j) \in Seq(JobIds)
        /\ \A k \in 1 .. Len(WithoutFirst(map[p], j)) :
               Priority[WithoutFirst(map[p], j)[k]] = p
    BY <2>1, WithoutFirstIsSequence
  <2> HIDE DEF rest
  <2> QED BY <2>1, <2>2, <2>3
<1>2. WithoutJob(map, j) = RetainFilled(rest)
  BY DEF WithoutJob
<1>3. Filled(rest) \subseteq DOMAIN map /\ \A p \in Filled(rest) : rest[p] # <<>>
  BY DEF Filled
<1>4. IsFiniteSet(Filled(rest)) /\ Filled(rest) \subseteq Nat
  BY <1>3, FS_Subset DEF IsBuckets
<1> HIDE DEF rest
<1> QED BY <1>1, <1>2, <1>3, <1>4 DEF RetainFilled, IsBuckets

(* It leaves a queue without the job alone.                                 *)
LEMMA WithoutAbsentJob ==
    ASSUME NEW map, IsBuckets(map), NEW j, Holding(map, j) = {}
    PROVE  WithoutJob(map, j) = map
<1>1. WithoutJob(map, j) = RetainFilled([p \in DOMAIN map |-> map[p]])
  BY DEF WithoutJob
<1>2. [p \in DOMAIN map |-> map[p]] = map
  BY DEF IsBuckets
<1>3. Filled(map) = DOMAIN map
  BY DEF Filled, IsBuckets
<1> QED BY <1>1, <1>2, <1>3 DEF RetainFilled
-----------------------------------------------------------------------------
(* The invariant of one device, and what a call that sets the device's flag *)
(* or leaves the device alone does to it.                                   *)
OneDevice(d) ==
    /\ IsBuckets(readyQueues[d])
    /\ ~queueDirty[d] => viewQueues[d] = Listing(readyQueues[d])

(* The invariant, device by device.                                         *)
LEMMA InvariantByDevice ==
    DmIInv <=> /\ readyQueues = [d \in Devices |-> readyQueues[d]]
               /\ queueDirty \in [Devices -> BOOLEAN]
               /\ \A d \in Devices : OneDevice(d)
<1>1. \A d \in Devices : OneDevice(d) =>
          \A p \in DOMAIN readyQueues[d] : readyQueues[d][p] # <<>>
  BY DEF OneDevice, IsBuckets
<1> QED BY <1>1 DEF DmIInv, DmTypeOK, ViewIsCurrent, OneDevice

(* It holds at first.                                                       *)
LEMMA InitEstablishes == DmInit => DmIInv
<1> SUFFICES ASSUME DmInit PROVE DmIInv
  OBVIOUS
<1>1. IsBuckets(NoBuckets)
  BY FS_EmptySet DEF IsBuckets, NoBuckets
<1>2. \A d \in Devices : OneDevice(d)
  BY <1>1 DEF DmInit, OneDevice
<1> QED BY <1>2, InvariantByDevice DEF DmInit

(* The same of the next state.                                              *)
LEMMA InvariantByDeviceNext ==
    ASSUME readyQueues' = [d \in Devices |-> readyQueues'[d]],
           queueDirty' \in [Devices -> BOOLEAN],
           \A d \in Devices : OneDevice(d)'
    PROVE  DmIInv'
<1>1. \A d \in Devices : OneDevice(d)' =>
          \A p \in DOMAIN readyQueues'[d] : readyQueues'[d][p] # <<>>
  BY DEF OneDevice, IsBuckets
<1> QED BY <1>1 DEF DmIInv, DmTypeOK, ViewIsCurrent, OneDevice

(* A step that changes one queue and sets its flag.                         *)
LEMMA MarkedChangeKeeps ==
    ASSUME DmIInv, NEW d \in Devices, NEW map, IsBuckets(map),
           readyQueues' = [readyQueues EXCEPT ![d] = map],
           queueDirty' = [queueDirty EXCEPT ![d] = TRUE],
           viewQueues' = viewQueues
    PROVE  DmIInv'
<1>1. \A e \in Devices : OneDevice(e)
  BY InvariantByDevice
<1>2. readyQueues' = [e \in Devices |-> readyQueues'[e]]
  BY InvariantByDevice
<1>3. queueDirty' \in [Devices -> BOOLEAN]
  BY InvariantByDevice
<1>4. ASSUME NEW e \in Devices PROVE OneDevice(e)'
  <2>1. CASE e = d
    <3>1. readyQueues'[e] = map /\ queueDirty'[e]
      BY <2>1, InvariantByDevice
    <3> QED BY <3>1 DEF OneDevice, IsBuckets
  <2>2. CASE e # d
    <3>1. readyQueues'[e] = readyQueues[e] /\ queueDirty'[e] = queueDirty[e]
      BY <2>2, InvariantByDevice
    <3> QED BY <1>1, <3>1 DEF OneDevice, IsBuckets
  <2> QED BY <2>1, <2>2
<1> QED BY <1>2, <1>3, <1>4, InvariantByDeviceNext

(* Every call keeps the invariant.                                          *)
LEMMA StepPreserves == DmIInv /\ [DmNext]_dmVars => DmIInv'
<1> SUFFICES ASSUME DmIInv, [DmNext]_dmVars PROVE DmIInv'
  OBVIOUS
<1>0. /\ readyQueues = [d \in Devices |-> readyQueues[d]]
      /\ queueDirty \in [Devices -> BOOLEAN]
      /\ \A d \in Devices : OneDevice(d)
  BY InvariantByDevice
<1>1. ASSUME NEW d \in Devices, NEW j \in JobIds, enqueue(d, j) PROVE DmIInv'
  <2>1. IsBuckets(PushBack(readyQueues[d], Priority[j], j))
    BY <1>0, PushBackKeepsBuckets DEF OneDevice
  <2>2. readyQueues' = [readyQueues EXCEPT ![d] = PushBack(readyQueues[d], Priority[j], j)]
    BY <1>1 DEF enqueue
  <2> QED BY <1>1, <2>1, <2>2, MarkedChangeKeeps DEF enqueue
<1>2. ASSUME NEW d \in Devices, dequeue(d) PROVE DmIInv'
  <2>1. CASE Filled(readyQueues[d]) = {}
    <3>1. DOMAIN readyQueues[d] = {}
      BY <1>0, <2>1 DEF Filled, OneDevice, IsBuckets
    <3>2. readyQueues[d] = NoBuckets
      BY <1>0, <3>1 DEF OneDevice, IsBuckets, NoBuckets
    <3>3. UNCHANGED <<readyQueues, queueDirty, viewQueues>>
      BY <1>0, <1>2, <2>1, <3>2 DEF dequeue
    <3> QED BY <1>0, <3>3, InvariantByDeviceNext DEF OneDevice, IsBuckets
  <2>2. CASE Filled(readyQueues[d]) # {}
    <3>1. IsBuckets(FromFirst(readyQueues[d]))
      BY <1>0, FromFirstKeepsBuckets DEF OneDevice
    <3>2. readyQueues' = [readyQueues EXCEPT ![d] = FromFirst(readyQueues[d])]
      BY <1>2, <2>2 DEF dequeue
    <3> QED BY <1>2, <2>2, <3>1, <3>2, MarkedChangeKeeps DEF dequeue
  <2> QED BY <2>1, <2>2
<1>3. ASSUME NEW d \in Devices, NEW j \in JobIds, remove_from_queue(d, j) PROVE DmIInv'
  <2>1. IsBuckets(WithoutJob(readyQueues[d], j))
    BY <1>0, WithoutJobKeepsBuckets DEF OneDevice
  <2>2. readyQueues' = [readyQueues EXCEPT ![d] = WithoutJob(readyQueues[d], j)]
    BY <1>3 DEF remove_from_queue
  <2> QED BY <1>3, <2>1, <2>2, MarkedChangeKeeps DEF remove_from_queue
<1>4. ASSUME NEW j \in JobIds, remove_job_from_all_queues(j) PROVE DmIInv'
  <2>1. \A d \in Devices : readyQueues'[d] = WithoutJob(readyQueues[d], j)
    BY <1>4 DEF remove_job_from_all_queues
  <2>2. \A d \in Devices :
            queueDirty'[d] = (queueDirty[d] \/ Holding(readyQueues[d], j) # {})
    BY <1>4 DEF remove_job_from_all_queues, MarkHolders
  <2>3. viewQueues' = viewQueues
    BY <1>4 DEF remove_job_from_all_queues
  <2>4. ASSUME NEW d \in Devices PROVE OneDevice(d)'
    <3>1. IsBuckets(readyQueues[d])
      BY <1>0 DEF OneDevice
    <3>2. IsBuckets(readyQueues'[d])
      BY <2>1, <3>1, WithoutJobKeepsBuckets
    <3>3. ~queueDirty'[d] => readyQueues'[d] = readyQueues[d] /\ ~queueDirty[d]
      BY <2>1, <2>2, <3>1, WithoutAbsentJob
    <3> QED BY <1>0, <2>3, <3>2, <3>3 DEF OneDevice, IsBuckets
  <2>5. /\ readyQueues' = [d \in Devices |-> readyQueues'[d]]
        /\ queueDirty' \in [Devices -> BOOLEAN]
    BY <1>4 DEF remove_job_from_all_queues, MarkHolders
  <2> QED BY <2>4, <2>5, InvariantByDeviceNext
<1>5. ASSUME rebuild_view_data PROVE DmIInv'
  <2>1. \A d \in Devices :
            viewQueues'[d] = IF queueDirty[d] THEN Listing(readyQueues[d]) ELSE viewQueues[d]
    BY <1>5 DEF rebuild_view_data
  <2>2. readyQueues' = readyQueues /\ queueDirty' = [d \in Devices |-> FALSE]
    BY <1>5 DEF rebuild_view_data
  <2>3. ASSUME NEW d \in Devices PROVE OneDevice(d)'
    <3>1. viewQueues'[d] = Listing(readyQueues'[d])
      BY <1>0, <2>1, <2>2 DEF OneDevice
    <3> QED BY <1>0, <2>2, <3>1 DEF OneDevice, IsBuckets
  <2> QED BY <1>0, <2>2, <2>3, InvariantByDeviceNext
<1>6. CASE UNCHANGED dmVars
  BY <1>0, <1>6, InvariantByDeviceNext DEF dmVars, OneDevice, IsBuckets
<1> QED BY <1>1, <1>2, <1>3, <1>4, <1>5, <1>6 DEF DmNext

(* Types, non-empty buckets and current views hold in every reachable       *)
(* state of the queues of DeviceManager.                                    *)
THEOREM DeviceManagerInvariance == DmSpec => []DmIInv
<1> QED BY InitEstablishes, StepPreserves, PTL DEF DmSpec

(* A clean queue is shown as it is, after any sequence of calls: the dirty  *)
(* flags of device_manager.rs never let a scheduler see an old queue.       *)
THEOREM ViewIsAlwaysCurrent == DmSpec => []ViewIsCurrent
<1>1. DmIInv => ViewIsCurrent
  BY DEF DmIInv
<1> QED BY <1>1, DeviceManagerInvariance, PTL

-----------------------------------------------------------------------------
(* Least elements                                                           *)

(* The order of the naturals, as a relation.                                *)
Smaller == {ss \in Nat \X Nat : ss[1] < ss[2]}

(* The least of a set of naturals.                                          *)
LEMMA LeastKey ==
    ASSUME NEW S \in SUBSET Nat, S # {}
    PROVE  Min(S) \in S /\ \A k \in S : Min(S) <= k
<1>1. IsWellFoundedOn(Smaller, Nat)
  BY NatLessThanWellFounded DEF OpToRel, Smaller
<1>2. PICK i \in S : \A k \in S : ~ (<<k, i>> \in Smaller)
  BY <1>1, WFMin
<1>3. \A k, n \in Nat : k < n => <<k, n>> \in Smaller
  BY DEF Smaller
<1>4. \A k \in S : ~ (k < i)
  BY <1>2, <1>3, Zenon
<1>5. \A k \in S : i <= k
  BY <1>4
<1> QED BY <1>5 DEF Min

(* Of a family of finite sets some set is smallest: none in the family has  *)
(* one element less.                                                        *)
LEMMA SmallestFamily ==
    ASSUME NEW F, F # {}, \A T \in F : IsFiniteSet(T)
    PROVE  \E T \in F : \A x \in T : T \ {x} \notin F
<1> DEFINE sizes == {Cardinality(T) : T \in F}
<1>1. sizes \in SUBSET Nat /\ sizes # {}
  BY FS_CardinalityType
<1>2. Min(sizes) \in sizes /\ \A k \in sizes : Min(sizes) <= k
  <2> HIDE DEF sizes
  <2> QED BY <1>1, LeastKey
<1>3. PICK T \in F : Cardinality(T) = Min(sizes)
  BY <1>2
<1>4. ASSUME NEW x \in T, T \ {x} \in F PROVE FALSE
  <2>1. Cardinality(T \ {x}) = Cardinality(T) - 1
    BY FS_RemoveElement
  <2>2. Cardinality(T \ {x}) \in sizes
    BY <1>4
  <2>3. Min(sizes) <= Cardinality(T \ {x}) /\ Min(sizes) \in Nat
    BY <1>1, <1>2, <2>2
  <2> HIDE DEF sizes
  <2> QED BY <1>3, <2>1, <2>3
<1> QED BY <1>4

-----------------------------------------------------------------------------
(* The listing of a map                                                     *)

(* The equation of Listing: g lists the buckets of every set of keys.       *)
Lists(g, map) ==
    g = [S \in SUBSET DOMAIN map |->
            IF S = {} THEN <<>> ELSE map[Min(S)] \o g[S \ {Min(S)}]]
IsListing(g, map) == g \in [SUBSET DOMAIN map -> Seq(JobIds)] /\ Lists(g, map)

(* It has one value, which depends on nothing but the buckets listed.       *)
LEMMA ListsAgree ==
    ASSUME NEW a, IsBuckets(a), NEW b, NEW g, Lists(g, a), NEW h, Lists(h, b),
           NEW S \in SUBSET (DOMAIN a \cap DOMAIN b), \A p \in S : a[p] = b[p]
    PROVE  g[S] = h[S]
<1> SUFFICES ASSUME g[S] # h[S] PROVE FALSE
  OBVIOUS
<1> DEFINE F == {T \in SUBSET S : g[T] # h[T]}
<1>1. F # {} /\ \A T \in F : IsFiniteSet(T)
  BY FS_Subset DEF IsBuckets
<1>2. PICK T \in F : \A x \in T : T \ {x} \notin F
  <2> HIDE DEF F
  <2> QED BY <1>1, SmallestFamily
<1>3. /\ g[T] = IF T = {} THEN <<>> ELSE a[Min(T)] \o g[T \ {Min(T)}]
      /\ h[T] = IF T = {} THEN <<>> ELSE b[Min(T)] \o h[T \ {Min(T)}]
  BY DEF Lists
<1>4. T # {} /\ T \in SUBSET Nat
  BY <1>3 DEF IsBuckets
<1>5. PICK x \in T : x = Min(T)
  BY <1>4, LeastKey
<1>6. g[T \ {x}] = h[T \ {x}] /\ a[x] = b[x]
  BY <1>2
<1> QED BY <1>3, <1>4, <1>5, <1>6

(* It is solved for ever larger sets of keys.                               *)
LEMMA ListsExist ==
    ASSUME NEW map, IsBuckets(map)
    PROVE  \E g : IsListing(g, map)
<1> DEFINE D == DOMAIN map
           G == [SUBSET D -> Seq(JobIds)]
           Next(g) == [S \in SUBSET D |->
                          IF S = {} THEN <<>> ELSE map[Min(S)] \o g[S \ {Min(S)}]]
           upTo(T, g) == \A S \in SUBSET T : g[S] = Next(g)[S]
           F == {T \in SUBSET D : ~ \E g \in G : upTo(T, g)}
<1>1. \A S \in SUBSET D : S # {} => Min(S) \in S
  BY LeastKey DEF IsBuckets
<1>2. ASSUME NEW g \in G PROVE Next(g) \in G
  <2>1. ASSUME NEW S \in SUBSET D, S # {}
        PROVE  map[Min(S)] \o g[S \ {Min(S)}] \in Seq(JobIds)
    <3>1. map[Min(S)] \in Seq(JobIds)
      BY <1>1, <2>1 DEF IsBuckets
    <3>2. g[S \ {Min(S)}] \in Seq(JobIds)
      OBVIOUS
    <3> QED BY <3>1, <3>2, ConcatProperties
  <2>2. <<>> \in Seq(JobIds)
    OBVIOUS
  <2>3. ASSUME NEW S \in SUBSET D
        PROVE  (IF S = {} THEN <<>> ELSE map[Min(S)] \o g[S \ {Min(S)}]) \in Seq(JobIds)
    BY <2>1, <2>2
  <2> HIDE DEF D
  <2> QED BY <2>3
<1>3. ASSUME F # {} PROVE FALSE
  <2>1. \A T \in F : IsFiniteSet(T)
    BY FS_Subset DEF IsBuckets
  <2>2. PICK T \in F : \A x \in T : T \ {x} \notin F
    <3> HIDE DEF F
    <3> QED BY <1>3, <2>1, SmallestFamily
  <2>3. CASE T = {}
    <3>1. PICK g \in G : g = [S \in SUBSET D |-> <<>>]
      <4>1. [S \in SUBSET D |-> <<>>] \in G
        OBVIOUS
      <4> QED BY <4>1
    <3>2. upTo(T, g)
      BY <2>3, <3>1
    <3> QED BY <3>2
  <2>4. CASE T # {}
    <3> DEFINE x == Min(T)
    <3>1. x \in T /\ T \in SUBSET Nat /\ T \in SUBSET D
      BY <1>1, <2>4 DEF IsBuckets
    <3>2. PICK g \in G : upTo(T \ {x}, g)
      BY <2>2, <3>1
    <3>3. PICK h \in G : h = Next(g)
      BY <1>2
    <3>4. ASSUME NEW S \in SUBSET T, S # {}
          PROVE  S \ {Min(S)} \in SUBSET (T \ {x})
      <4>1. CASE x \in S
        <5>1. Min(S) \in S /\ Min(S) <= x /\ x <= Min(S)
          BY <2>4, <3>1, <3>4, <4>1, LeastKey
        <5>2. PICK y \in S : y = Min(S)
          BY <5>1
        <5>3. x \in Nat /\ y \in Nat /\ y <= x /\ x <= y
          BY <3>1, <5>1, <5>2
        <5> HIDE DEF x
        <5>4. Min(S) = x
          BY <5>2, <5>3
        <5> QED BY <5>4
      <4>2. CASE x \notin S
        BY <4>2
      <4> QED BY <4>1, <4>2
    <3>5. ASSUME NEW S \in SUBSET T PROVE h[S] = Next(h)[S]
      <4>1. h[S] = Next(g)[S] /\ S \in SUBSET D
        BY <3>1, <3>3
      <4>2. CASE S = {}
        BY <4>1, <4>2
      <4>3. CASE S # {}
        <5>1. PICK U \in SUBSET (T \ {x}) : U = S \ {Min(S)}
          BY <3>4, <4>3
        <5>2. g[U] = Next(g)[U]
          BY <3>2
        <5>3. h[U] = g[U]
          BY <3>3, <5>2
        <5>4. /\ Next(g)[S] = map[Min(S)] \o g[U]
              /\ Next(h)[S] = map[Min(S)] \o h[U]
          BY <4>1, <4>3, <5>1
        <5> HIDE DEF Next
        <5> QED BY <4>1, <5>3, <5>4
      <4> QED BY <4>2, <4>3
    <3>6. upTo(T, h)
      BY <3>5
    <3> QED BY <3>6
  <2> QED BY <2>3, <2>4
<1>4. PICK g \in G : upTo(D, g)
  BY <1>3
<1>5. g = [S \in SUBSET D |-> g[S]]
  OBVIOUS
<1>6. g = Next(g)
  BY <1>4, <1>5
<1> QED BY <1>6 DEF Lists, IsListing

(* The fold of Listing is that solution at all the keys.                    *)
LEMMA ListingIs ==
    ASSUME NEW map, IsBuckets(map), NEW g, Lists(g, map)
    PROVE  Listing(map) = g[DOMAIN map]
<1>1. \A h : Lists(h, map) => h[DOMAIN map] = g[DOMAIN map]
  BY ListsAgree
<1> DEFINE it == CHOOSE h : Lists(h, map)
<1>2. Listing(map) = it[DOMAIN map]
  BY DEF Lists, Listing, MapThenFoldSet
<1>3. Lists(it, map)
  OBVIOUS
<1> HIDE DEF it
<1> QED BY <1>1, <1>2, <1>3

(* The keys on either side of a priority.                                   *)
Below(S, b) == {q \in S : q < b}
From(S, b) == {q \in S : ~ (q < b)}

(* A listing goes on from any priority on as if it started there.           *)
LEMMA ListsSplit ==
    ASSUME NEW map, IsBuckets(map), NEW g, IsListing(g, map), NEW b \in Nat, NEW S \in SUBSET DOMAIN map
    PROVE  g[S] = g[Below(S, b)] \o g[From(S, b)]
<1>0. Lists(g, map) /\ \A U \in SUBSET DOMAIN map : g[U] \in Seq(JobIds)
  BY DEF IsListing
<1> DEFINE low(T) == {p \in T : p < b}
           high(T) == {p \in T : ~ (p < b)}
           F == {T \in SUBSET S : g[T] # g[low(T)] \o g[high(T)]}
<1> SUFFICES ASSUME F # {} PROVE FALSE
  BY DEF Below, From
<1>1. PICK T \in F : \A x \in T : T \ {x} \notin F
  <2>1. \A T \in F : IsFiniteSet(T)
    BY FS_Subset DEF IsBuckets
  <2> HIDE DEF F
  <2> QED BY <2>1, SmallestFamily
<1>2. /\ T \in SUBSET DOMAIN map /\ low(T) \in SUBSET DOMAIN map
      /\ high(T) \in SUBSET DOMAIN map /\ T \in SUBSET Nat
  BY DEF IsBuckets
<1>3. CASE low(T) = {}
  <2>1. high(T) = T
    BY <1>3
  <2>2. g[low(T)] = <<>>
    BY <1>0, <1>2, <1>3 DEF Lists
  <2>3. g[T] \in Seq(JobIds)
    BY <1>0, <1>2
  <2>4. g[low(T)] \o g[high(T)] = g[T]
    BY <2>1, <2>2, <2>3, ConcatEmptySeq
  <2> QED BY <2>4
<1>4. CASE low(T) # {}
  <2>1. PICK x \in T : x = Min(T) /\ \A k \in T : x <= k
    BY <1>2, <1>4, LeastKey
  <2>2. x \in low(T)
    <3>1. PICK y \in T : y < b
      BY <1>4
    <3>2. x <= y /\ x \in Nat /\ y \in Nat
      BY <1>2, <2>1, <3>1
    <3> QED BY <3>1, <3>2
  <2>3. Min(low(T)) = x
    <3>1. \A k \in low(T) : x <= k
      BY <2>1
    <3>2. Min(low(T)) \in low(T) /\ Min(low(T)) <= x
      BY <1>2, <1>4, <2>2, LeastKey
    <3>3. PICK y \in low(T) : y = Min(low(T)) /\ y <= x
      BY <3>2
    <3>4. x <= y /\ y <= x /\ x \in Nat /\ y \in Nat
      BY <1>2, <3>1, <3>3
    <3>5. x = y
      BY <3>4
    <3> QED BY <3>3, <3>5
  <2>4. low(T \ {x}) = low(T) \ {x} /\ high(T \ {x}) = high(T)
    BY <2>2
  <2>5. g[T \ {x}] = g[low(T) \ {x}] \o g[high(T)]
    <3>1. T \ {x} \in SUBSET S /\ T \ {x} \notin F
      BY <1>1
    <3>2. g[T \ {x}] = g[low(T \ {x})] \o g[high(T \ {x})]
      BY <3>1
    <3> QED BY <2>4, <3>2
  <2>6. g[T] = map[x] \o g[T \ {x}]
    BY <1>0, <1>2, <2>1 DEF Lists
  <2>7. g[low(T)] = map[x] \o g[low(T) \ {x}]
    BY <1>0, <1>2, <1>4, <2>3 DEF Lists
  <2>8. /\ map[x] \in Seq(JobIds) /\ g[low(T) \ {x}] \in Seq(JobIds)
        /\ g[high(T)] \in Seq(JobIds)
    BY <1>0, <1>2 DEF IsBuckets
  <2>9. g[low(T)] \o g[high(T)] = map[x] \o (g[low(T) \ {x}] \o g[high(T)])
    <3> DEFINE s == map[x]
               u == g[low(T) \ {x}]
               v == g[high(T)]
    <3>1. (s \o u) \o v = s \o (u \o v)
      <4> HIDE DEF s, u, v
      <4>1. s \in Seq(JobIds) /\ u \in Seq(JobIds) /\ v \in Seq(JobIds)
        BY <2>8 DEF s, u, v
      <4> QED BY <4>1, ConcatAssociative
    <3> QED BY <2>7, <3>1
  <2>10. g[T] = g[low(T)] \o g[high(T)]
    BY <2>5, <2>6, <2>9
  <2> QED BY <2>10
<1> QED BY <1>3, <1>4

(* What is listed is in a bucket.                                           *)
LEMMA ListsBuckets ==
    ASSUME NEW map, IsBuckets(map), NEW g, IsListing(g, map),
           NEW S \in SUBSET DOMAIN map, NEW i \in 1 .. Len(g[S])
    PROVE  \E p \in S : \E k \in 1 .. Len(map[p]) : g[S][i] = map[p][k]
<1>0. Lists(g, map) /\ \A U \in SUBSET DOMAIN map : g[U] \in Seq(JobIds)
  BY DEF IsListing
<1> DEFINE Found(T, n) == \E p \in T : \E k \in 1 .. Len(map[p]) : g[T][n] = map[p][k]
           F == {T \in SUBSET S : \E n \in 1 .. Len(g[T]) : ~ Found(T, n)}
<1> SUFFICES ASSUME F # {} PROVE FALSE
  OBVIOUS
<1>1. PICK T \in F : \A x \in T : T \ {x} \notin F
  <2>1. \A T \in F : IsFiniteSet(T)
    BY FS_Subset DEF IsBuckets
  <2> HIDE DEF F
  <2> QED BY <2>1, SmallestFamily
<1>2. T \in SUBSET DOMAIN map /\ T \in SUBSET Nat
  BY DEF IsBuckets
<1>3. PICK n \in 1 .. Len(g[T]) : ~ Found(T, n)
  OBVIOUS
<1>4. T # {}
  <2> SUFFICES ASSUME T = {} PROVE FALSE
    OBVIOUS
  <2>1. g[T] = <<>>
    BY <1>0, <1>2 DEF Lists
  <2>2. Len(g[T]) = 0
    BY <2>1, EmptySeq
  <2> QED BY <1>3, <2>2
<1>5. PICK x \in T : x = Min(T)
  BY <1>2, <1>4, LeastKey
<1> DEFINE later == g[T \ {x}]
<1>6. g[T] = map[x] \o later
  BY <1>0, <1>2, <1>4, <1>5 DEF Lists
<1>7. map[x] \in Seq(JobIds) /\ later \in Seq(JobIds)
  BY <1>0, <1>2 DEF IsBuckets
<1>8. \A m \in 1 .. Len(later) : Found(T \ {x}, m)
  BY <1>1
<1>9. CASE n <= Len(map[x])
  <2>1. n \in 1 .. Len(map[x]) /\ g[T][n] = map[x][n]
    BY <1>3, <1>6, <1>7, <1>9, ConcatProperties
  <2> QED BY <1>3, <2>1
<1>10. CASE ~ (n <= Len(map[x]))
  <2>1. n - Len(map[x]) \in 1 .. Len(later) /\ g[T][n] = later[n - Len(map[x])]
    <3>1. Len(map[x]) \in Nat /\ Len(later) \in Nat
      BY <1>7
    <3>2. n \in 1 .. Len(map[x]) + Len(later)
      <4> HIDE DEF later
      <4> QED BY <1>3, <1>6, <1>7, ConcatProperties
    <3>3. g[T][n] = later[n - Len(map[x])]
      BY <1>6, <1>7, <1>10, <3>2, ConcatProperties
    <3> HIDE DEF later
    <3> QED BY <1>10, <3>1, <3>2, <3>3
  <2>2. Found(T \ {x}, n - Len(map[x]))
    BY <1>8, <2>1
  <2> QED BY <1>3, <2>1, <2>2
<1> QED BY <1>9, <1>10

-----------------------------------------------------------------------------
(* A change of one bucket                                                   *)

(* The bucket of a priority.                                                *)
Bucket(map, p) == IF p \in DOMAIN map THEN map[p] ELSE <<>>

(* A bucket that is not there counts as an empty one.                       *)
LEMMA BucketIsSequence ==
    ASSUME NEW map, IsBuckets(map), NEW p
    PROVE  /\ Bucket(map, p) \in Seq(JobIds)
           /\ \A k \in 1 .. Len(Bucket(map, p)) : Priority[Bucket(map, p)[k]] = p
<1>1. CASE p \in DOMAIN map
  BY <1>1 DEF Bucket, IsBuckets
<1>2. CASE p \notin DOMAIN map
  <2>1. Bucket(map, p) = <<>>
    BY <1>2 DEF Bucket
  <2>2. <<>> \in Seq(JobIds) /\ Len(<<>>) = 0
    BY EmptySeq
  <2> QED BY <2>1, <2>2
<1> QED BY <1>1, <1>2

(* The listings of two maps that differ at priority p at most: what is more *)
(* urgent comes before the bucket, what is less urgent behind it.           *)
Around(a, b, p, before, behind) ==
    /\ before \in Seq(JobIds) /\ behind \in Seq(JobIds)
    /\ Listing(a) = before \o (Bucket(a, p) \o behind)
    /\ Listing(b) = before \o (Bucket(b, p) \o behind)
    /\ (\A q \in DOMAIN a : p <= q) => before = <<>>
    /\ \A i \in 1 .. Len(before) : \E q \in DOMAIN a : \E k \in 1 .. Len(a[q]) :
           q < p /\ before[i] = a[q][k]
    /\ \A i \in 1 .. Len(behind) : \E q \in DOMAIN a : \E k \in 1 .. Len(a[q]) :
           q > p /\ behind[i] = a[q][k]
HaveAround(a, b, p) == \E before, behind : Around(a, b, p, before, behind)

(* One listing, taken apart.                                                *)
LEMMA ListingAround ==
    ASSUME NEW map, IsBuckets(map), NEW g, IsListing(g, map), NEW p \in Nat
    PROVE  Listing(map) = g[{q \in DOMAIN map : q < p}] \o
                              (Bucket(map, p) \o g[{q \in DOMAIN map : q > p}])
<1>0. Lists(g, map) /\ \A U \in SUBSET DOMAIN map : g[U] \in Seq(JobIds)
  BY DEF IsListing
<1> DEFINE low == {q \in DOMAIN map : q < p}
           rest == {q \in DOMAIN map : ~ (q < p)}
           high == {q \in DOMAIN map : q > p}
<1>1. Listing(map) = g[low] \o g[rest]
  <2>1. Listing(map) = g[DOMAIN map]
    BY <1>0, ListingIs
  <2>2. g[DOMAIN map] = g[Below(DOMAIN map, p)] \o g[From(DOMAIN map, p)]
    <3>1. PICK S \in SUBSET DOMAIN map : S = DOMAIN map
      OBVIOUS
    <3>2. g[S] = g[Below(S, p)] \o g[From(S, p)]
      BY ListsSplit, Zenon
    <3> QED BY <3>1, <3>2
  <2> QED BY <2>1, <2>2 DEF Below, From
<1>2. g[rest] = Bucket(map, p) \o g[high]
  <2>0. DOMAIN map \subseteq Nat
    BY DEF IsBuckets
  <2>1. CASE p \in DOMAIN map
    <3>1. p \in rest /\ \A k \in rest : p <= k
      BY <2>0, <2>1
    <3>2. Min(rest) = p
      <4>1. rest \in SUBSET Nat /\ rest # {}
        BY <2>0, <3>1
      <4>2. Min(rest) \in rest /\ Min(rest) <= p
        BY <3>1, <4>1, LeastKey
      <4>3. PICK y \in rest : y = Min(rest) /\ y <= p
        BY <4>2
      <4>4. p <= y /\ y <= p /\ y \in Nat
        BY <3>1, <4>1, <4>3
      <4>5. y = p
        BY <4>4
      <4> QED BY <4>3, <4>5
    <3>3. high = rest \ {p}
      BY <2>0
    <3>4. rest \in SUBSET DOMAIN map /\ rest # {}
      BY <3>1
    <3> HIDE DEF rest, high
    <3> QED BY <2>1, <3>2, <3>3, <3>4, <1>0 DEF Lists, Bucket
  <2>2. CASE p \notin DOMAIN map
    <3>1. high = rest
      BY <2>0, <2>2
    <3>2. g[high] \in Seq(JobIds)
      BY <1>0
    <3>3. <<>> \o g[high] = g[high]
      BY <3>2, ConcatEmptySeq
    <3> QED BY <2>2, <3>1, <3>3 DEF Bucket
  <2> QED BY <2>1, <2>2
<1> QED BY <1>1, <1>2

(* Two listings, taken apart at the same place.                             *)
LEMMA ListingsAround ==
    ASSUME NEW a, IsBuckets(a), NEW b, IsBuckets(b), NEW p \in Nat,
           \A q \in Nat \ {p} : q \in DOMAIN a <=> q \in DOMAIN b,
           \A q \in DOMAIN a \ {p} : a[q] = b[q]
    PROVE  HaveAround(a, b, p)
<1>1. PICK g : IsListing(g, a)
  BY ListsExist
<1>2. PICK h : IsListing(h, b)
  BY ListsExist
<1> DEFINE low == {q \in DOMAIN a : q < p}
           high == {q \in DOMAIN a : q > p}
<1>3. DOMAIN a \subseteq Nat /\ DOMAIN b \subseteq Nat
  BY DEF IsBuckets
<1>4. low = {q \in DOMAIN b : q < p} /\ high = {q \in DOMAIN b : q > p}
  BY <1>3
<1>5. /\ low \in SUBSET (DOMAIN a \cap DOMAIN b) /\ high \in SUBSET (DOMAIN a \cap DOMAIN b)
      /\ \A q \in low : a[q] = b[q]
      /\ \A q \in high : a[q] = b[q]
  BY <1>3, <1>4
<1>6. Listing(a) = g[low] \o (Bucket(a, p) \o g[high])
  BY <1>1, ListingAround
<1>7. Listing(b) = h[low] \o (Bucket(b, p) \o h[high])
  <2> HIDE DEF low, high
  <2> QED BY <1>2, <1>4, ListingAround
<1>8. g[low] = h[low] /\ g[high] = h[high]
  <2> HIDE DEF low, high
  <2> QED BY <1>1, <1>2, <1>5, ListsAgree DEF IsListing
<1>9. (\A q \in DOMAIN a : p <= q) => g[low] = <<>>
  <2> SUFFICES ASSUME \A q \in DOMAIN a : p <= q PROVE g[low] = <<>>
    OBVIOUS
  <2>1. low = {}
    BY <1>3
  <2> HIDE DEF low
  <2> QED BY <1>1, <2>1 DEF Lists, IsListing
<1>10. g[low] \in Seq(JobIds) /\ g[high] \in Seq(JobIds)
  BY <1>1, <1>5 DEF IsListing
<1>11. \A i \in 1 .. Len(g[low]) : \E q \in low : \E k \in 1 .. Len(a[q]) : g[low][i] = a[q][k]
  <2> HIDE DEF low, high
  <2>1. low \in SUBSET DOMAIN a /\ high \in SUBSET DOMAIN a
    BY <1>5
  <2> QED BY <1>1, <2>1, ListsBuckets
<1>12. \A i \in 1 .. Len(g[high]) : \E q \in high : \E k \in 1 .. Len(a[q]) : g[high][i] = a[q][k]
  <2> HIDE DEF low, high
  <2>1. low \in SUBSET DOMAIN a /\ high \in SUBSET DOMAIN a
    BY <1>5
  <2> QED BY <1>1, <2>1, ListsBuckets
<1>13. \A q \in low : q \in DOMAIN a /\ q < p
  OBVIOUS
<1>14. \A q \in high : q \in DOMAIN a /\ q > p
  OBVIOUS
<1> HIDE DEF low, high
<1>15. Around(a, b, p, g[low], g[high])
  BY <1>6, <1>7, <1>8, <1>9, <1>10, <1>11, <1>12, <1>13, <1>14 DEF Around
<1> QED BY <1>15 DEF HaveAround

-----------------------------------------------------------------------------
(* The calls, on the listings                                               *)

(* Three parts of a sequence.                                               *)
LEMMA ThreeParts ==
    ASSUME NEW A \in Seq(JobIds), NEW B \in Seq(JobIds), NEW C \in Seq(JobIds)
    PROVE  /\ A \o (B \o C) \in Seq(JobIds) /\ A \o (B \o C) = (A \o B) \o C
           /\ Len(A) \in Nat /\ Len(B) \in Nat /\ Len(C) \in Nat
           /\ Len(A \o (B \o C)) = Len(A) + Len(B) + Len(C)
           /\ \A i \in 1 .. Len(A) : (A \o (B \o C))[i] = A[i]
           /\ \A i \in 1 .. Len(B) : (A \o (B \o C))[Len(A) + i] = B[i]
           /\ \A i \in 1 .. Len(C) : (A \o (B \o C))[Len(A) + Len(B) + i] = C[i]
<1>1. /\ Len(A) \in Nat /\ Len(B) \in Nat /\ Len(C) \in Nat
      /\ A \o (B \o C) = (A \o B) \o C
  BY ConcatAssociative
<1>2. PICK D \in Seq(JobIds) : D = B \o C
  BY ConcatProperties
<1>3. /\ Len(D) = Len(B) + Len(C)
      /\ \A i \in 1 .. Len(B) : D[i] = B[i]
      /\ \A i \in 1 .. Len(C) : D[Len(B) + i] = C[i]
  BY <1>2, ConcatProperties
<1>4. /\ A \o D \in Seq(JobIds)
      /\ Len(A \o D) = Len(A) + Len(D)
      /\ \A i \in 1 .. Len(A) : (A \o D)[i] = A[i]
      /\ \A i \in 1 .. Len(D) : (A \o D)[Len(A) + i] = D[i]
  BY ConcatProperties
<1>5. \A i \in 1 .. Len(B) : i \in 1 .. Len(D)
  BY <1>1, <1>3
<1>6. \A i \in 1 .. Len(C) : Len(B) + i \in 1 .. Len(D) /\ Len(A) + (Len(B) + i) = Len(A) + Len(B) + i
  BY <1>1, <1>3
<1> QED BY <1>1, <1>2, <1>3, <1>4, <1>5, <1>6

(* A concatenation, taken apart where it was put together.                  *)
LEMMA PartsOfConcat ==
    ASSUME NEW A \in Seq(JobIds), NEW C \in Seq(JobIds)
    PROVE  /\ SubSeq(A \o C, 1, Len(A)) = A
           /\ SubSeq(A \o C, Len(A) + 1, Len(A) + Len(C)) = C
<1>1. /\ Len(A) \in Nat /\ Len(C) \in Nat /\ A \o C \in Seq(JobIds)
      /\ Len(A \o C) = Len(A) + Len(C)
      /\ \A i \in 1 .. Len(A) : (A \o C)[i] = A[i]
      /\ \A i \in 1 .. Len(C) : (A \o C)[Len(A) + i] = C[i]
  BY ConcatProperties
<1>2. SubSeq(A \o C, 1, Len(A)) = A
  <2>1. PICK D \in Seq(JobIds) : D = A \o C
    BY <1>1
  <2> QED BY <1>1, <2>1
<1>3. SubSeq(A \o C, Len(A) + 1, Len(A) + Len(C)) = C
  <2>1. PICK D \in Seq(JobIds) : D = A \o C
    BY <1>1
  <2>2. PICK m \in Nat, k \in Nat : m = Len(A) /\ k = Len(C)
    BY <1>1
  <2>3. \A i \in (m + 1) .. (m + k) : D[i] \in JobIds
    BY <1>1, <2>1, <2>2
  <2>4. /\ SubSeq(D, m + 1, m + k) \in Seq(JobIds)
        /\ Len(SubSeq(D, m + 1, m + k)) = k
        /\ \A i \in 1 .. k : SubSeq(D, m + 1, m + k)[i] = D[m + i]
    BY <2>3
  <2> QED BY <1>1, <2>1, <2>2, <2>4, SeqEqual
<1> QED BY <1>2, <1>3

(* A new job is listed behind all that are not less urgent.                 *)
LEMMA PushedIsInserted ==
    ASSUME NEW map, IsBuckets(map), NEW j \in JobIds
    PROVE  \E k \in Promised!Places(Listing(map), j) :
              Listing(PushBack(map, Priority[j], j)) = Promised!InsertAt(Listing(map), k, j)
<1> DEFINE p == Priority[j]
           pushed == PushBack(map, p, j)
<1>0. p \in Nat /\ IsBuckets(pushed)
  BY PushBackKeepsBuckets, DeviceManagerAssumption
<1>1. HaveAround(map, pushed, p)
  <2>1. /\ \A q \in Nat \ {p} : q \in DOMAIN map <=> q \in DOMAIN pushed
        /\ \A q \in DOMAIN map \ {p} : map[q] = pushed[q]
    BY DEF PushBack
  <2> HIDE DEF p, pushed
  <2> QED BY <1>0, <2>1, ListingsAround
<1>2. PICK A, C : Around(map, pushed, p, A, C)
  BY <1>1 DEF HaveAround
<1>3. PICK B \in Seq(JobIds) : B = Bucket(map, p) /\ \A k \in 1 .. Len(B) : Priority[B[k]] = p
  BY BucketIsSequence
<1>4. Bucket(pushed, p) = Append(B, j)
  BY <1>3 DEF Bucket, PushBack
<1>5. A \in Seq(JobIds) /\ C \in Seq(JobIds)
  BY <1>2 DEF Around
<1>6. PICK L \in Seq(JobIds) : L = A \o (B \o C)
  BY <1>3, <1>5, ThreeParts
<1>7. Listing(map) = L /\ Listing(pushed) = A \o (Append(B, j) \o C)
  BY <1>2, <1>3, <1>4, <1>6 DEF Around
<1> HIDE DEF pushed
<1>8. \A i \in 1 .. Len(A) : Priority[A[i]] <= p
  <2>1. ASSUME NEW i \in 1 .. Len(A) PROVE Priority[A[i]] <= p
    <3>1. PICK q \in DOMAIN map : \E k \in 1 .. Len(map[q]) : q < p /\ A[i] = map[q][k]
      BY <1>2 DEF Around
    <3>2. Priority[A[i]] = q /\ q \in Nat
      BY <3>1 DEF IsBuckets
    <3> HIDE DEF p
    <3> QED BY <1>0, <3>1, <3>2
  <2> HIDE DEF p
  <2> QED BY <2>1
<1>9. \A i \in 1 .. Len(C) : ~ (Priority[C[i]] <= p)
  <2>1. ASSUME NEW i \in 1 .. Len(C) PROVE ~ (Priority[C[i]] <= p)
    <3>1. PICK q \in DOMAIN map : \E k \in 1 .. Len(map[q]) : q > p /\ C[i] = map[q][k]
      BY <1>2 DEF Around
    <3>2. Priority[C[i]] = q /\ q \in Nat
      BY <3>1 DEF IsBuckets
    <3> HIDE DEF p
    <3> QED BY <1>0, <3>1, <3>2
  <2> HIDE DEF p
  <2> QED BY <2>1
<1>10. PICK n \in Nat : n = Len(A) + Len(B)
  BY <1>3, <1>5
<1>11. /\ Len(A) \in Nat /\ Len(B) \in Nat /\ Len(C) \in Nat
       /\ Len(L) = n + Len(C)
       /\ \A i \in 1 .. Len(A) : L[i] = A[i]
       /\ \A i \in 1 .. Len(B) : L[Len(A) + i] = B[i]
       /\ \A i \in 1 .. Len(C) : L[n + i] = C[i]
  BY <1>5, <1>6, <1>10, ThreeParts
<1>12. n + 1 \in Promised!Places(L, j)
  <2>1. ASSUME NEW i \in 1 .. Len(L) PROVE i < n + 1 <=> Priority[L[i]] <= p
    <3>1. CASE i <= Len(A)
      <4>1. i \in 1 .. Len(A) /\ i < n + 1
        BY <1>10, <1>11, <3>1
      <4> QED BY <1>8, <1>11, <4>1
    <3>2. CASE Len(A) < i /\ i <= n
      <4>1. PICK k \in 1 .. Len(B) : i = Len(A) + k
        <5>1. i - Len(A) \in 1 .. Len(B) /\ i = Len(A) + (i - Len(A))
          BY <1>10, <1>11, <3>2
        <5> QED BY <5>1
      <4>2. Priority[L[i]] = p
        BY <1>3, <1>11, <4>1
      <4>3. i < n + 1
        BY <3>2
      <4> HIDE DEF p
      <4> QED BY <1>0, <4>2, <4>3
    <3>3. CASE n < i
      <4>1. PICK k \in 1 .. Len(C) : i = n + k
        <5>1. i - n \in 1 .. Len(C) /\ i = n + (i - n)
          BY <1>11, <3>3
        <5> QED BY <5>1
      <4>2. L[i] = C[k] /\ ~ (i < n + 1)
        BY <1>11, <3>3, <4>1
      <4> QED BY <1>9, <4>2
    <3> QED BY <1>11, <3>1, <3>2, <3>3
  <2>2. n + 1 \in 1 .. Len(L) + 1
    BY <1>11
  <2> QED BY <2>1, <2>2 DEF Promised!Places
<1>13. Listing(pushed) = Promised!InsertAt(L, n + 1, j)
  <2>1. PICK AB \in Seq(JobIds) : AB = A \o B /\ Len(AB) = n
    BY <1>3, <1>5, <1>10, ConcatProperties
  <2>2. L = AB \o C
    BY <1>3, <1>5, <1>6, <2>1, ThreeParts
  <2>3. Promised!InsertAt(L, n + 1, j) =
            SubSeq(AB \o C, 1, n) \o <<j>> \o SubSeq(AB \o C, n + 1, n + Len(C))
    <3>1. PICK m \in Nat : m = n + 1 /\ m - 1 = n /\ Len(L) = n + Len(C)
      BY <1>11
    <3>2. Promised!InsertAt(L, m, j) =
              SubSeq(L, 1, m - 1) \o <<j>> \o SubSeq(L, m, Len(L))
      BY DEF Promised!InsertAt
    <3> QED BY <2>2, <3>1, <3>2
  <2>4. SubSeq(AB \o C, 1, n) = AB /\ SubSeq(AB \o C, n + 1, n + Len(C)) = C
    <3>1. /\ SubSeq(AB \o C, 1, Len(AB)) = AB
          /\ SubSeq(AB \o C, Len(AB) + 1, Len(AB) + Len(C)) = C
      BY <1>5, PartsOfConcat
    <3> QED BY <2>1, <3>1
  <2>5. A \o (Append(B, j) \o C) = (AB \o <<j>>) \o C
    <3>1. Append(B, j) = B \o <<j>> /\ <<j>> \in Seq(JobIds) /\ Append(B, j) \in Seq(JobIds)
      BY <1>3, AppendIsConcat
    <3>2. A \o (Append(B, j) \o C) = (A \o Append(B, j)) \o C
      BY <1>5, <3>1, ThreeParts
    <3>3. A \o (B \o <<j>>) = (A \o B) \o <<j>>
      BY <1>3, <1>5, <3>1, ConcatAssociative
    <3> QED BY <2>1, <3>1, <3>2, <3>3
  <2> QED BY <1>7, <2>3, <2>4, <2>5
<1> QED BY <1>7, <1>12, <1>13 DEF pushed

(* What is not empty is listed from the first bucket on, and FromFirst      *)
(* takes the first job.                                                     *)
LEMMA FirstIsTaken ==
    ASSUME NEW map, IsBuckets(map), Filled(map) # {}
    PROVE  /\ Listing(map) # <<>>
           /\ Head(Listing(map)) = Head(map[Min(Filled(map))])
           /\ Listing(FromFirst(map)) = Tail(Listing(map))
<1>0. Filled(map) = DOMAIN map /\ DOMAIN map \in SUBSET Nat
  BY DEF Filled, IsBuckets
<1>1. PICK p \in DOMAIN map : p = Min(Filled(map)) /\ \A q \in DOMAIN map : p <= q
  BY <1>0, LeastKey
<1>2. p \in Nat /\ IsBuckets(FromFirst(map))
  BY <1>0, FromFirstKeepsBuckets
<1>3. PICK B \in Seq(JobIds) : B = map[p] /\ B # <<>>
  BY DEF IsBuckets
<1> DEFINE rest == FromFirst(map)
           left == {q \in DOMAIN map : q > p \/ (q = p /\ Len(map[q]) > 1)}
<1>4. rest = [q \in left |-> IF q = p THEN Tail(map[q]) ELSE map[q]]
  BY <1>1 DEF FromFirst
<1>5. \A q \in Nat \ {p} : q \in DOMAIN map <=> q \in DOMAIN rest
  <2>1. \A q \in DOMAIN map \ {p} : q > p
    BY <1>0, <1>1, <1>2
  <2>2. DOMAIN rest = left
    BY <1>4
  <2> HIDE DEF rest
  <2> QED BY <2>1, <2>2
<1>6. \A q \in DOMAIN map \ {p} : map[q] = rest[q]
  <2>1. \A q \in DOMAIN map \ {p} : q > p
    BY <1>0, <1>1, <1>2
  <2>2. \A q \in DOMAIN map \ {p} : q \in left
    BY <2>1
  <2> HIDE DEF left
  <2> QED BY <1>4, <2>2
<1>7. /\ Len(B) \in Nat \ {0} /\ Head(B) = B[1]
      /\ Tail(B) \in Seq(JobIds) /\ Len(Tail(B)) = Len(B) - 1
      /\ \A i \in 1 .. Len(Tail(B)) : Tail(B)[i] = B[i + 1]
  BY <1>3, EmptySeq, HeadTailProperties
<1>8. Bucket(rest, p) = Tail(B)
  <2>1. CASE Len(B) > 1
    <3>1. p \in left
      BY <1>3, <2>1
    <3> HIDE DEF left
    <3> QED BY <1>3, <1>4, <3>1 DEF Bucket
  <2>2. CASE ~ (Len(B) > 1)
    <3>1. p \notin left
      BY <1>2, <1>3, <2>2
    <3>2. Bucket(rest, p) = <<>>
      <4> HIDE DEF left
      <4> QED BY <1>4, <3>1 DEF Bucket
    <3>3. Len(Tail(B)) = 0
      BY <1>7, <2>2
    <3>4. Tail(B) = <<>>
      BY <1>7, <3>3, EmptySeq
    <3> QED BY <3>2, <3>4
  <2> QED BY <2>1, <2>2
<1> HIDE DEF rest, left
<1>9. PICK A, C : Around(map, rest, p, A, C)
  <2>1. HaveAround(map, rest, p)
    BY <1>2, <1>5, <1>6, ListingsAround DEF rest
  <2> QED BY <2>1 DEF HaveAround
<1>10. A = <<>> /\ C \in Seq(JobIds)
  BY <1>1, <1>9 DEF Around
<1>11. Listing(map) = B \o C /\ Listing(rest) = Tail(B) \o C
  <2>1. Bucket(map, p) = B
    BY <1>3 DEF Bucket
  <2>2. Listing(map) = <<>> \o (B \o C) /\ Listing(rest) = <<>> \o (Tail(B) \o C)
    BY <1>8, <1>9, <1>10, <2>1 DEF Around
  <2>3. B \o C \in Seq(JobIds) /\ Tail(B) \o C \in Seq(JobIds)
    BY <1>7, <1>10, ConcatProperties
  <2> QED BY <2>2, <2>3, ConcatEmptySeq
<1>12. /\ B \o C # <<>> /\ Head(B \o C) = Head(B)
       /\ Tail(B \o C) = Tail(B) \o C
  <2>1. PICK L \in Seq(JobIds) : L = B \o C
    BY <1>10, ConcatProperties
  <2>2. /\ Len(C) \in Nat /\ Len(L) = Len(B) + Len(C)
        /\ \A i \in 1 .. Len(B) : L[i] = B[i]
        /\ \A i \in 1 .. Len(C) : L[Len(B) + i] = C[i]
    BY <1>10, <2>1, ConcatProperties
  <2>3. Len(L) # 0 /\ L # <<>> /\ Head(L) = L[1]
    BY <1>7, <2>2, EmptySeq
  <2>4. /\ Tail(L) \in Seq(JobIds) /\ Len(Tail(L)) = Len(L) - 1
        /\ \A i \in 1 .. Len(Tail(L)) : Tail(L)[i] = L[i + 1]
    BY <2>3, HeadTailProperties
  <2>5. PICK R \in Seq(JobIds) : R = Tail(B) \o C
    BY <1>7, <1>10, ConcatProperties
  <2>6. PICK T \in Seq(JobIds) : T = Tail(B)
    BY <1>7
  <2>7. /\ Len(R) = Len(T) + Len(C)
        /\ \A i \in 1 .. Len(T) : R[i] = T[i]
        /\ \A i \in 1 .. Len(C) : R[Len(T) + i] = C[i]
    BY <1>10, <2>5, <2>6, ConcatProperties
  <2>8. Len(T) = Len(B) - 1 /\ \A i \in 1 .. Len(T) : T[i] = B[i + 1]
    BY <1>7, <2>6
  <2>9. ASSUME NEW i \in 1 .. Len(R) PROVE R[i] = L[i + 1]
    <3>1. CASE i <= Len(T)
      <4>1. i \in 1 .. Len(T) /\ i + 1 \in 1 .. Len(B)
        BY <1>7, <2>7, <2>8, <3>1
      <4> QED BY <2>2, <2>7, <2>8, <4>1
    <3>2. CASE ~ (i <= Len(T))
      <4>1. PICK k \in 1 .. Len(C) : i = Len(T) + k
        <5>1. i - Len(T) \in 1 .. Len(C) /\ i = Len(T) + (i - Len(T))
          BY <1>7, <2>2, <2>7, <2>8, <3>2
        <5> QED BY <5>1
      <4>2. i + 1 = Len(B) + k
        BY <1>7, <2>8, <4>1
      <4> QED BY <2>2, <2>7, <4>1, <4>2
    <3> QED BY <3>1, <3>2
  <2>10. Tail(L) = R
    <3>1. Len(Tail(L)) = Len(R)
      BY <1>7, <2>2, <2>4, <2>7, <2>8
    <3> QED BY <2>4, <2>9, <3>1, SeqEqual
  <2>11. Head(L) = Head(B)
    BY <1>7, <2>2, <2>3
  <2> QED BY <2>1, <2>3, <2>5, <2>10, <2>11
<1> QED BY <1>1, <1>3, <1>11, <1>12 DEF rest

(* The first place of a job, and a sequence without one of its places.      *)
FirstAt(s, j, i) == i \in 1 .. Len(s) /\ s[i] = j /\ \A k \in 1 .. i - 1 : s[k] # j
Drop(s, i) == [n \in 1 .. Len(s) - 1 |-> IF n < i THEN s[n] ELSE s[n + 1]]

(* A job that is there has a first place.                                   *)
LEMMA FirstPlace ==
    ASSUME NEW s \in Seq(JobIds), NEW j, NEW k \in 1 .. Len(s), s[k] = j
    PROVE  \E i \in 1 .. Len(s) : FirstAt(s, j, i)
<1> DEFINE I == {i \in 1 .. Len(s) : s[i] = j}
<1>1. I \in SUBSET Nat /\ I # {}
  OBVIOUS
<1>2. PICK i \in I : i = Min(I) /\ \A n \in I : i <= n
  <2> HIDE DEF I
  <2> QED BY <1>1, LeastKey
<1>3. \A n \in 1 .. i - 1 : s[n] # j
  BY <1>2
<1> QED BY <1>3 DEF FirstAt

(* One element goes, the later ones move up.                                *)
LEMMA DropIsSequence ==
    ASSUME NEW s \in Seq(JobIds), NEW i \in 1 .. Len(s)
    PROVE  /\ Drop(s, i) \in Seq(JobIds)
           /\ Len(Drop(s, i)) = Len(s) - 1
           /\ \A n \in 1 .. Len(s) - 1 : Drop(s, i)[n] = IF n < i THEN s[n] ELSE s[n + 1]
<1>1. Len(s) - 1 \in Nat
  OBVIOUS
<1>2. \A n \in 1 .. Len(s) - 1 : s[n] \in JobIds /\ s[n + 1] \in JobIds
  OBVIOUS
<1>3. Drop(s, i) \in [1 .. Len(s) - 1 -> JobIds]
  BY <1>2 DEF Drop
<1> QED BY <1>1, <1>3 DEF Drop

(* The loop of the code drops the first place.                              *)
LEMMA WithoutFirstDrops ==
    ASSUME NEW s \in Seq(JobIds), NEW j, NEW i \in 1 .. Len(s), FirstAt(s, j, i)
    PROVE  WithoutFirst(s, j) = Drop(s, i)
<1>1. ASSUME NEW n \in 1 .. Len(s) - 1
      PROVE  (\E k \in 1 .. n : s[k] = j) <=> ~ (n < i)
  <2>1. CASE n < i
    <3>1. \A k \in 1 .. n : k \in 1 .. i - 1
      BY <2>1
    <3> QED BY <2>1, <3>1 DEF FirstAt
  <2>2. CASE ~ (n < i)
    <3>1. i \in 1 .. n
      BY <2>2
    <3> QED BY <2>2, <3>1 DEF FirstAt
  <2> QED BY <2>1, <2>2
<1> QED BY <1>1 DEF WithoutFirst, Drop

(* RemoveFirst drops the first place.                                       *)
LEMMA RemoveFirstDrops ==
    ASSUME NEW s \in Seq(JobIds), NEW j, NEW i \in 1 .. Len(s), FirstAt(s, j, i)
    PROVE  Promised!RemoveFirst(s, j) = Drop(s, i)
<1> DEFINE I == {n \in 1 .. Len(s) : s[n] = j}
<1>1. i \in I /\ \A n \in I : i <= n
  <2>1. i \in I
    BY DEF FirstAt
  <2>2. ASSUME NEW n \in I, n < i PROVE FALSE
    <3>1. n \in 1 .. i - 1
      BY <2>2
    <3> QED BY <3>1 DEF FirstAt
  <2> QED BY <2>1, <2>2
<1>2. Promised!Min(I) = i
  <2>1. Promised!Min(I) \in I /\ \A n \in I : Promised!Min(I) <= n
    <3> HIDE DEF I
    <3> QED BY <1>1 DEF Promised!Min
  <2>2. PICK m \in I : m = Promised!Min(I) /\ m <= i /\ i <= m
    BY <1>1, <2>1
  <2>3. m = i
    BY <2>2
  <2> QED BY <2>2, <2>3
<1>3. Promised!SelectInSeq(s, LAMBDA v : v = j) = i
  BY <1>1, <1>2 DEF Promised!SelectInSeq
<1>4. Promised!RemoveFirst(s, j) = Promised!RemoveAt(s, i)
  BY <1>1, <1>3 DEF Promised!RemoveFirst
<1>5. Promised!RemoveAt(s, i) = SubSeq(s, 1, i - 1) \o SubSeq(s, i + 1, Len(s))
  BY DEF Promised!RemoveAt
<1>6. PICK u \in Seq(JobIds) :
        /\ u = SubSeq(s, 1, i - 1) /\ Len(u) = i - 1
        /\ \A n \in 1 .. i - 1 : u[n] = s[n]
  <2>1. PICK m \in Nat : m = i - 1
    OBVIOUS
  <2>2. \A n \in 1 .. m : s[n] \in JobIds
    BY <2>1
  <2>3. /\ SubSeq(s, 1, m) \in Seq(JobIds) /\ Len(SubSeq(s, 1, m)) = m
        /\ \A n \in 1 .. m : SubSeq(s, 1, m)[n] = s[n]
    BY <2>2
  <2> QED BY <2>1, <2>3
<1>7. PICK v \in Seq(JobIds) :
        /\ v = SubSeq(s, i + 1, Len(s)) /\ Len(v) = Len(s) - i
        /\ \A n \in 1 .. Len(s) - i : v[n] = s[i + n]
  <2>1. PICK m \in Nat, k \in Nat : m = i + 1 /\ k = Len(s) /\ m <= k + 1
    OBVIOUS
  <2>2. \A n \in m .. k : s[n] \in JobIds
    BY <2>1
  <2>3. /\ SubSeq(s, m, k) \in Seq(JobIds) /\ Len(SubSeq(s, m, k)) = k - m + 1
        /\ \A n \in 1 .. k - m + 1 : SubSeq(s, m, k)[n] = s[m + n - 1]
    BY <2>1, <2>2
  <2>4. PICK v \in Seq(JobIds) : v = SubSeq(s, m, k)
    BY <2>3
  <2>5. Len(v) = Len(s) - i
    BY <2>1, <2>3, <2>4
  <2>6. ASSUME NEW n \in 1 .. Len(s) - i PROVE v[n] = s[i + n]
    <3>1. n \in 1 .. k - m + 1 /\ m + n - 1 = i + n
      BY <2>1
    <3> QED BY <2>3, <2>4, <3>1
  <2> QED BY <2>1, <2>4, <2>5, <2>6
<1>8. PICK w \in Seq(JobIds) : w = u \o v
  BY ConcatProperties
<1>9. /\ Len(w) = Len(s) - 1
      /\ \A n \in 1 .. i - 1 : w[n] = s[n]
      /\ \A n \in 1 .. Len(s) - i : w[i - 1 + n] = s[i + n]
  <2>1. PICK m \in Nat, k \in Nat : m = Len(u) /\ k = Len(v)
    OBVIOUS
  <2>2. m = i - 1 /\ k = Len(s) - i /\ m + k = Len(s) - 1
    BY <1>6, <1>7, <2>1
  <2>3. /\ Len(w) = m + k
        /\ \A n \in 1 .. m : w[n] = u[n]
        /\ \A n \in 1 .. k : w[m + n] = v[n]
    BY <1>8, <2>1, ConcatProperties
  <2> QED BY <1>6, <1>7, <2>2, <2>3
<1>10. ASSUME NEW n \in 1 .. Len(w) PROVE w[n] = Drop(s, i)[n]
  <2>1. CASE n < i
    BY <1>9, <2>1, DropIsSequence
  <2>2. CASE ~ (n < i)
    <3>1. PICK k \in 1 .. Len(s) - i : n = i - 1 + k /\ n + 1 = i + k
      <4>1. n - i + 1 \in 1 .. Len(s) - i /\ n = i - 1 + (n - i + 1) /\ n + 1 = i + (n - i + 1)
        BY <1>9, <2>2
      <4> QED BY <4>1
    <3>2. Drop(s, i)[n] = s[n + 1]
      BY <1>9, <2>2, DropIsSequence
    <3> QED BY <1>9, <3>1, <3>2
  <2> QED BY <2>1, <2>2
<1>11. w = Drop(s, i)
  BY <1>9, <1>10, DropIsSequence, SeqEqual
<1> QED BY <1>4, <1>5, <1>6, <1>7, <1>8, <1>11

(* A place is dropped where it is.                                          *)
LEMMA DropInside ==
    ASSUME NEW A \in Seq(JobIds), NEW B \in Seq(JobIds), NEW C \in Seq(JobIds),
           NEW i \in 1 .. Len(B)
    PROVE  Drop(A \o (B \o C), Len(A) + i) = A \o (Drop(B, i) \o C)
<1>1. PICK L \in Seq(JobIds) : L = A \o (B \o C)
  BY ThreeParts
<1>2. PICK D \in Seq(JobIds) : D = Drop(B, i)
  BY DropIsSequence
<1>3. PICK R \in Seq(JobIds) : R = A \o (D \o C)
  BY ThreeParts
<1>4. PICK a \in Nat, b \in Nat, c \in Nat : a = Len(A) /\ b = Len(B) /\ c = Len(C)
  OBVIOUS
<1>5. /\ Len(L) = a + b + c
      /\ \A n \in 1 .. a : L[n] = A[n]
      /\ \A n \in 1 .. b : L[a + n] = B[n]
      /\ \A n \in 1 .. c : L[a + b + n] = C[n]
  BY <1>1, <1>4, ThreeParts
<1>6. Len(D) = b - 1 /\ \A n \in 1 .. b - 1 : D[n] = IF n < i THEN B[n] ELSE B[n + 1]
  BY <1>2, <1>4, DropIsSequence
<1>7. /\ Len(R) = a + (b - 1) + c
      /\ \A n \in 1 .. a : R[n] = A[n]
      /\ \A n \in 1 .. b - 1 : R[a + n] = D[n]
      /\ \A n \in 1 .. c : R[a + (b - 1) + n] = C[n]
  <2>1. PICK d \in Nat : d = b - 1 /\ d = Len(D)
    BY <1>6
  <2>2. /\ Len(R) = a + d + c
        /\ \A n \in 1 .. a : R[n] = A[n]
        /\ \A n \in 1 .. d : R[a + n] = D[n]
        /\ \A n \in 1 .. c : R[a + d + n] = C[n]
    <3>1. /\ Len(R) = Len(A) + Len(D) + Len(C)
          /\ \A n \in 1 .. Len(A) : R[n] = A[n]
          /\ \A n \in 1 .. Len(D) : R[Len(A) + n] = D[n]
          /\ \A n \in 1 .. Len(C) : R[Len(A) + Len(D) + n] = C[n]
      BY <1>3, ThreeParts
    <3>2. Len(A) = a /\ Len(D) = d /\ Len(C) = c
      BY <1>4, <2>1
    <3> QED BY <3>1, <3>2
  <2> QED BY <2>1, <2>2
<1>8. PICK at \in 1 .. Len(L) : at = a + i
  BY <1>4, <1>5
<1>9. PICK E \in Seq(JobIds) :
        /\ E = Drop(L, at) /\ Len(E) = Len(L) - 1
        /\ \A n \in 1 .. Len(L) - 1 : E[n] = IF n < at THEN L[n] ELSE L[n + 1]
  BY DropIsSequence
<1>10. Len(E) = Len(R)
  BY <1>5, <1>7, <1>9
<1>11. ASSUME NEW n \in 1 .. Len(R) PROVE E[n] = R[n]
  <2>0. n \in 1 .. Len(L) - 1 /\ i \in 1 .. b
    BY <1>4, <1>5, <1>7
  <2>1. CASE n <= a
    <3>1. n \in 1 .. a /\ n < at
      BY <1>8, <2>0, <2>1
    <3> QED BY <1>5, <1>7, <1>9, <2>0, <3>1
  <2>2. CASE a < n /\ n < a + b
    <3>1. PICK k \in 1 .. b - 1 : n = a + k /\ n + 1 = a + (k + 1) /\ k \in 1 .. b /\ k + 1 \in 1 .. b
      <4>1. n - a \in 1 .. b - 1 /\ n = a + (n - a) /\ n + 1 = a + (n - a + 1)
            /\ n - a \in 1 .. b /\ n - a + 1 \in 1 .. b
        BY <2>0, <2>2
      <4> QED BY <4>1
    <3>2. n < at <=> k < i
      BY <1>8, <2>0, <3>1
    <3>3. R[n] = IF k < i THEN B[k] ELSE B[k + 1]
      BY <1>6, <1>7, <3>1
    <3>4. L[n] = B[k] /\ L[n + 1] = B[k + 1]
      BY <1>5, <3>1
    <3> QED BY <1>9, <2>0, <3>2, <3>3, <3>4
  <2>3. CASE a + b <= n
    <3>1. PICK k \in 1 .. c : n = a + (b - 1) + k /\ n + 1 = a + b + k
      <4>1. n - (a + (b - 1)) \in 1 .. c /\ n = a + (b - 1) + (n - (a + (b - 1)))
            /\ n + 1 = a + b + (n - (a + (b - 1)))
        BY <1>7, <2>0, <2>3
      <4> QED BY <4>1
    <3>2. ~ (n < at)
      BY <1>8, <2>0, <2>3
    <3> QED BY <1>5, <1>7, <1>9, <2>0, <3>1, <3>2
  <2> QED BY <2>0, <2>1, <2>2, <2>3
<1>12. E = R
  BY <1>10, <1>11, SeqEqual
<1> QED BY <1>1, <1>2, <1>3, <1>4, <1>8, <1>9, <1>12

(* A withdrawal takes the first place of the job in the listing: none, if   *)
(* the job is nowhere.                                                      *)
LEMMA AbsentJobStays ==
    ASSUME NEW map, IsBuckets(map), NEW j, Holding(map, j) = {}
    PROVE  Listing(WithoutJob(map, j)) = Promised!RemoveFirst(Listing(map), j)
<1>1. PICK g : IsListing(g, map)
  BY ListsExist
<1>2. Listing(map) = g[DOMAIN map]
  BY <1>1, ListingIs DEF IsListing
<1>3. ASSUME NEW i \in 1 .. Len(Listing(map)) PROVE Listing(map)[i] # j
  <2>1. \E p \in DOMAIN map : \E k \in 1 .. Len(map[p]) : g[DOMAIN map][i] = map[p][k]
    <3>1. PICK S \in SUBSET DOMAIN map : S = DOMAIN map
      OBVIOUS
    <3>2. i \in 1 .. Len(g[S])
      BY <1>2, <1>3, <3>1
    <3>3. \E p \in S : \E k \in 1 .. Len(map[p]) : g[S][i] = map[p][k]
      BY <1>1, <3>2, ListsBuckets
    <3> QED BY <3>1, <3>3
  <2>2. PICK p \in DOMAIN map : \E k \in 1 .. Len(map[p]) : Listing(map)[i] = map[p][k]
    BY <1>2, <2>1
  <2>3. DOMAIN map[p] = 1 .. Len(map[p])
    BY DEF IsBuckets
  <2>4. p \notin Holding(map, j)
    OBVIOUS
  <2> QED BY <2>2, <2>3, <2>4 DEF Holding
<1>4. Promised!RemoveFirst(Listing(map), j) = Listing(map)
  BY <1>3 DEF Promised!RemoveFirst
<1> QED BY <1>4, WithoutAbsentJob

(* The first bucket that holds the job has its first place in the listing.  *)
LEMMA PresentJobGoes ==
    ASSUME NEW map, IsBuckets(map), NEW j, Holding(map, j) # {}
    PROVE  Listing(WithoutJob(map, j)) = Promised!RemoveFirst(Listing(map), j)
<1>0. Holding(map, j) \in SUBSET Nat
  BY DEF Holding, IsBuckets
<1>1. PICK p \in Holding(map, j) : p = Min(Holding(map, j)) /\ \A q \in Holding(map, j) : p <= q
  BY <1>0, LeastKey
<1>2. p \in DOMAIN map /\ p \in Nat
  BY <1>0 DEF Holding
<1>3. PICK B \in Seq(JobIds) : B = map[p] /\ B # <<>>
  BY <1>2 DEF IsBuckets
<1>4. PICK i \in 1 .. Len(B) : FirstAt(B, j, i)
  <2>1. DOMAIN B = 1 .. Len(B)
    OBVIOUS
  <2>2. \E k \in 1 .. Len(B) : B[k] = j
    BY <1>1, <1>3, <2>1 DEF Holding
  <2> QED BY <2>2, FirstPlace
<1> DEFINE less == [q \in DOMAIN map |->
                       IF q \in Holding(map, j) /\ q = Min(Holding(map, j))
                       THEN WithoutFirst(map[q], j) ELSE map[q]]
           rest == WithoutJob(map, j)
<1>5. /\ less[p] = Drop(B, i)
      /\ \A q \in DOMAIN map \ {p} : less[q] = map[q] /\ map[q] # <<>>
  <2>1. less[p] = WithoutFirst(B, j)
    BY <1>1, <1>2, <1>3
  <2>2. \A q \in DOMAIN map \ {p} : less[q] = map[q]
    BY <1>1
  <2> HIDE DEF less
  <2> QED BY <1>4, <2>1, <2>2, WithoutFirstDrops DEF IsBuckets
<1>6. DOMAIN less = DOMAIN map /\ rest = [q \in Filled(less) |-> less[q]]
  BY DEF WithoutJob, RetainFilled
<1>7. IsBuckets(rest)
  BY WithoutJobKeepsBuckets
<1> HIDE DEF less, rest
<1>8. \A q \in Nat \ {p} : q \in DOMAIN map <=> q \in DOMAIN rest
  BY <1>5, <1>6 DEF Filled
<1>9. \A q \in DOMAIN map \ {p} : map[q] = rest[q]
  BY <1>5, <1>6 DEF Filled
<1>10. Bucket(map, p) = B /\ Bucket(rest, p) = Drop(B, i)
  <2>1. Bucket(map, p) = B
    BY <1>2, <1>3 DEF Bucket
  <2>2. CASE Drop(B, i) = <<>>
    <3>1. p \notin DOMAIN rest
      BY <1>5, <1>6, <2>2 DEF Filled
    <3> QED BY <2>1, <2>2, <3>1 DEF Bucket
  <2>3. CASE Drop(B, i) # <<>>
    <3>1. p \in DOMAIN rest /\ rest[p] = Drop(B, i)
      BY <1>2, <1>5, <1>6, <2>3 DEF Filled
    <3> QED BY <2>1, <3>1 DEF Bucket
  <2> QED BY <2>2, <2>3
<1>11. PICK A, C : Around(map, rest, p, A, C)
  <2>1. HaveAround(map, rest, p)
    BY <1>2, <1>7, <1>8, <1>9, ListingsAround
  <2> QED BY <2>1 DEF HaveAround
<1>12. A \in Seq(JobIds) /\ C \in Seq(JobIds)
  BY <1>11 DEF Around
<1>13. PICK L \in Seq(JobIds) : L = A \o (B \o C)
  BY <1>12, ThreeParts
<1>14. Listing(map) = L /\ Listing(rest) = A \o (Drop(B, i) \o C)
  BY <1>10, <1>11, <1>13 DEF Around
<1>15. ASSUME NEW n \in 1 .. Len(A) PROVE A[n] # j
  <2>1. PICK q \in DOMAIN map : \E k \in 1 .. Len(map[q]) : q < p /\ A[n] = map[q][k]
    BY <1>11 DEF Around
  <2>2. DOMAIN map[q] = 1 .. Len(map[q]) /\ q \in Nat
    BY DEF IsBuckets
  <2>3. q \notin Holding(map, j)
    BY <1>1, <1>2, <2>1, <2>2
  <2> QED BY <2>1, <2>2, <2>3 DEF Holding
<1>16. /\ Len(A) \in Nat /\ Len(B) \in Nat /\ Len(C) \in Nat
       /\ Len(L) = Len(A) + Len(B) + Len(C)
       /\ \A n \in 1 .. Len(A) : L[n] = A[n]
       /\ \A n \in 1 .. Len(B) : L[Len(A) + n] = B[n]
  BY <1>12, <1>13, ThreeParts
<1>17. PICK at \in 1 .. Len(L) : at = Len(A) + i
  BY <1>16
<1>18. FirstAt(L, j, at)
  <2>1. L[at] = j
    BY <1>4, <1>16, <1>17 DEF FirstAt
  <2>2. ASSUME NEW k \in 1 .. at - 1 PROVE L[k] # j
    <3>1. CASE k <= Len(A)
      <4>1. k \in 1 .. Len(A)
        BY <1>16, <3>1
      <4> QED BY <1>15, <1>16, <4>1
    <3>2. CASE ~ (k <= Len(A))
      <4>1. PICK n \in 1 .. i - 1 : k = Len(A) + n /\ n \in 1 .. Len(B)
        <5>1. k - Len(A) \in 1 .. i - 1 /\ k = Len(A) + (k - Len(A)) /\ k - Len(A) \in 1 .. Len(B)
          BY <1>16, <1>17, <3>2
        <5> QED BY <5>1
      <4>2. B[n] # j
        BY <1>4, <4>1 DEF FirstAt
      <4> QED BY <1>16, <4>1, <4>2
    <3> QED BY <3>1, <3>2
  <2> QED BY <2>1, <2>2 DEF FirstAt
<1>19. Promised!RemoveFirst(L, j) = Drop(L, at)
  BY <1>18, RemoveFirstDrops
<1>20. Drop(L, at) = A \o (Drop(B, i) \o C)
  BY <1>12, <1>13, <1>17, DropInside
<1> QED BY <1>14, <1>19, <1>20 DEF rest

(* The two cases together.                                                  *)
LEMMA WithdrawnJobGoes ==
    ASSUME NEW map, IsBuckets(map), NEW j
    PROVE  Listing(WithoutJob(map, j)) = Promised!RemoveFirst(Listing(map), j)
BY AbsentJobStays, PresentJobGoes

-----------------------------------------------------------------------------
(* The refinement                                                           *)

(* What the refinement mapping makes of the buckets.                        *)
Listings == [d \in Devices |-> Listing(readyQueues[d])]

(* Every device starts with nothing listed.                                 *)
LEMMA InitIsPromised == DmInit => Promised!QueuesInit
<1> SUFFICES ASSUME DmInit PROVE Promised!QueuesInit
  OBVIOUS
<1>1. IsBuckets(NoBuckets)
  BY FS_EmptySet DEF IsBuckets, NoBuckets
<1>2. Listing(NoBuckets) = <<>>
  <2>1. PICK g : IsListing(g, NoBuckets)
    BY <1>1, ListsExist
  <2>2. DOMAIN NoBuckets = {}
    BY DEF NoBuckets
  <2>3. Listing(NoBuckets) = g[{}]
    BY <1>1, <2>1, <2>2, ListingIs DEF IsListing
  <2> QED BY <2>1, <2>2, <2>3 DEF IsListing, Lists
<1>3. [d \in Devices |-> Listing(readyQueues[d])] = [d \in Devices |-> <<>>]
  BY <1>2 DEF DmInit
<1> QED BY <1>3 DEF DmInit, Promised!QueuesInit

(* Every call is a step of the queues or leaves them alone.                 *)
LEMMA StepIsPromised ==
    DmIInv /\ [DmNext]_dmVars => [Promised!QueuesNext]_<<Listings, viewQueues, dequeued>>
<1> SUFFICES ASSUME DmIInv, [DmNext]_dmVars
             PROVE  Promised!QueuesNext \/ UNCHANGED <<Listings, viewQueues, dequeued>>
  OBVIOUS
<1>0. /\ readyQueues = [d \in Devices |-> readyQueues[d]]
      /\ queueDirty \in [Devices -> BOOLEAN]
      /\ \A d \in Devices : IsBuckets(readyQueues[d])
  BY InvariantByDevice DEF OneDevice
<1>1. ASSUME NEW d \in Devices, NEW j \in JobIds, enqueue(d, j) PROVE Promised!QueuesNext
  <2>1. readyQueues' = [readyQueues EXCEPT ![d] = PushBack(readyQueues[d], Priority[j], j)]
    BY <1>1 DEF enqueue
  <2>2. PICK k \in Promised!Places(Listing(readyQueues[d]), j) :
          Listing(PushBack(readyQueues[d], Priority[j], j))
              = Promised!InsertAt(Listing(readyQueues[d]), k, j)
    BY <1>0, PushedIsInserted
  <2>3. Listings' = [Listings EXCEPT ![d] = Promised!InsertAt(Listing(readyQueues[d]), k, j)]
    BY <1>0, <2>1, <2>2 DEF Listings
  <2>4. Promised!Add
    BY <1>1, <2>2, <2>3 DEF Promised!Add, Listings, enqueue
  <2> QED BY <2>4 DEF Promised!QueuesNext
<1>2. ASSUME NEW d \in Devices, dequeue(d) PROVE Promised!QueuesNext
  <2>1. CASE Filled(readyQueues[d]) = {}
    <3>1. DOMAIN readyQueues[d] = {}
      BY <1>0, <2>1 DEF Filled, IsBuckets
    <3>2. readyQueues[d] = NoBuckets
      BY <1>0, <3>1 DEF IsBuckets, NoBuckets
    <3>3. readyQueues' = readyQueues /\ dequeued' = NoJob /\ viewQueues' = viewQueues
      BY <1>0, <1>2, <2>1, <3>2 DEF dequeue
    <3>4. Listing(readyQueues[d]) = <<>>
      <4>1. PICK g : IsListing(g, readyQueues[d])
        BY <1>0, ListsExist
      <4>2. Listing(readyQueues[d]) = g[{}]
        BY <1>0, <3>1, <4>1, ListingIs DEF IsListing
      <4> QED BY <3>1, <4>1, <4>2 DEF IsListing, Lists
    <3>5. Promised!TakeNothing
      BY <3>3, <3>4 DEF Promised!TakeNothing
    <3> QED BY <3>5 DEF Promised!QueuesNext
  <2>2. CASE Filled(readyQueues[d]) # {}
    <3>1. /\ readyQueues' = [readyQueues EXCEPT ![d] = FromFirst(readyQueues[d])]
          /\ dequeued' = Head(readyQueues[d][Min(Filled(readyQueues[d]))])
          /\ viewQueues' = viewQueues
      BY <1>2, <2>2 DEF dequeue
    <3>2. /\ Listing(readyQueues[d]) # <<>>
          /\ Head(Listing(readyQueues[d])) = Head(readyQueues[d][Min(Filled(readyQueues[d]))])
          /\ Listing(FromFirst(readyQueues[d])) = Tail(Listing(readyQueues[d]))
      BY <1>0, <2>2, FirstIsTaken
    <3>3. Listings' = [Listings EXCEPT ![d] = Tail(Listing(readyQueues[d]))]
      BY <1>0, <3>1, <3>2 DEF Listings
    <3>4. Promised!Take
      BY <3>1, <3>2, <3>3 DEF Promised!Take, Listings
    <3> QED BY <3>4 DEF Promised!QueuesNext
  <2> QED BY <2>1, <2>2
<1>3. ASSUME NEW d \in Devices, NEW j \in JobIds, remove_from_queue(d, j)
      PROVE  Promised!QueuesNext
  <2>1. readyQueues' = [readyQueues EXCEPT ![d] = WithoutJob(readyQueues[d], j)]
    BY <1>3 DEF remove_from_queue
  <2>2. Listing(WithoutJob(readyQueues[d], j))
            = Promised!RemoveFirst(Listing(readyQueues[d]), j)
    BY <1>0, WithdrawnJobGoes
  <2>3. Listings' = [e \in Devices |-> IF e \in {d}
                                       THEN Promised!RemoveFirst(Listings[e], j)
                                       ELSE Listings[e]]
    BY <1>0, <2>1, <2>2 DEF Listings
  <2>4. Promised!Withdraw
    BY <1>3, <2>3 DEF Promised!Withdraw, Listings, remove_from_queue
  <2> QED BY <2>4 DEF Promised!QueuesNext
<1>4. ASSUME NEW j \in JobIds, remove_job_from_all_queues(j) PROVE Promised!QueuesNext
  <2>1. readyQueues' = [d \in Devices |-> WithoutJob(readyQueues[d], j)]
    BY <1>4 DEF remove_job_from_all_queues
  <2>2. \A d \in Devices : Listing(WithoutJob(readyQueues[d], j))
            = Promised!RemoveFirst(Listing(readyQueues[d]), j)
    BY <1>0, WithdrawnJobGoes
  <2>3. Listings' = [e \in Devices |-> IF e \in Devices
                                       THEN Promised!RemoveFirst(Listings[e], j)
                                       ELSE Listings[e]]
    BY <2>1, <2>2 DEF Listings
  <2>4. Promised!Withdraw
    BY <1>4, <2>3 DEF Promised!Withdraw, Listings, remove_job_from_all_queues
  <2> QED BY <2>4 DEF Promised!QueuesNext
<1>5. ASSUME rebuild_view_data PROVE Promised!QueuesNext
  <2>1. viewQueues' = [d \in Devices |-> IF queueDirty[d] THEN Listing(readyQueues[d])
                                         ELSE viewQueues[d]]
    BY <1>5 DEF rebuild_view_data
  <2>2. viewQueues' = Listings
    BY <1>0, <2>1 DEF Listings, DmIInv, ViewIsCurrent
  <2>3. Promised!Show
    BY <1>5, <2>2 DEF Promised!Show, Listings, rebuild_view_data
  <2> QED BY <2>3 DEF Promised!QueuesNext
<1>6. CASE UNCHANGED dmVars
  BY <1>6 DEF dmVars, Listings
<1> QED BY <1>1, <1>2, <1>3, <1>4, <1>5, <1>6 DEF DmNext

(* After any sequence of calls the buckets, the flags and the cached view   *)
(* of device_manager.rs behave as one queue per device in the order of      *)
(* priority, first come first served among equals, that is shown as it is.  *)
THEOREM QueuesAreImplemented == DmSpec => ImplementsReadyQueues
<1>1. DmInit => Promised!QueuesInit
  BY InitIsPromised
<1>2. DmIInv /\ [DmNext]_dmVars => [Promised!QueuesNext]_<<Listings, viewQueues, dequeued>>
  BY StepIsPromised
<1>3. DmSpec => []DmIInv
  BY DeviceManagerInvariance
<1> QED BY <1>1, <1>2, <1>3, PTL DEF DmSpec, ImplementsReadyQueues, Promised!QueuesSpec, Listings
=============================================================================
