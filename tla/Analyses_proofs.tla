-------------------------- MODULE Analyses_proofs --------------------------
(***************************************************************************)
(* Proofs about the offline analyses, for graphs and task sets of any      *)
(* size.                                                                   *)
(*                                                                         *)
(* The list schedulers keep to the graph, whatever its devices and         *)
(* execution times: the planner plans every predecessor before its         *)
(* successors although it never looks, because ranks fall along the edges, *)
(* and the reference delays no node for nothing although it never fills a  *)
(* gap.  The conditional DAG analysis reports, for every assignment of the *)
(* conditions, a longest active path and its length.  The schedulability   *)
(* tests agree with each other, and Audsley's search is optimal.           *)
(*                                                                         *)
(* Ranks, average costs, candidates, critical paths, the paths they are    *)
(* compared with, response times, sums, hyperperiods and the search are    *)
(* recursive.  A lemma (RecursionHasASolution) says that such an equation  *)
(* over a finite domain has a solution, and what the solution is follows   *)
(* where it is used from a smallest counterexample.                        *)
(***************************************************************************)
EXTENDS Analyses, TLAPS, FiniteSetTheorems, WellFoundedInduction

-----------------------------------------------------------------------------
(* Least and greatest elements                                              *)

(* The order of the naturals, as a relation.                                *)
BelowPairs == {ss \in Nat \X Nat : ss[1] < ss[2]}

(* A set of naturals that is not empty has a least element.                 *)
LEMMA LeastNatural ==
    ASSUME NEW S \in SUBSET Nat, S # {}
    PROVE  \E i \in S : \A k \in S : i <= k
  <1>1. IsWellFoundedOn(BelowPairs, Nat)
    BY NatLessThanWellFounded DEF OpToRel, BelowPairs
  <1>2. PICK i \in S : \A k \in S : ~ (<<k, i>> \in BelowPairs)
    BY <1>1, WFMin
  <1>3. \A k, n \in Nat : k < n => <<k, n>> \in BelowPairs
    BY DEF BelowPairs
  <1>4. \A k \in S : ~ (k < i)
    BY <1>2, <1>3, Zenon
  <1> QED BY <1>4

(* Of a family of finite sets some set is smallest.                         *)
LEMMA SmallestSet ==
    ASSUME NEW F, F # {}, \A T \in F : IsFiniteSet(T)
    PROVE  \E T \in F : \A U \in F : Cardinality(T) <= Cardinality(U)
  <1> DEFINE sizes == {Cardinality(T) : T \in F}
  <1>1. sizes \in SUBSET Nat /\ sizes # {}
    BY FS_CardinalityType
  <1> HIDE DEF sizes
  <1>2. PICK c \in sizes : \A b \in sizes : c <= b
    BY <1>1, LeastNatural
  <1> QED BY <1>2 DEF sizes

(* A finite set is larger than what is left of it without one element.      *)
LEMMA OneLess ==
    ASSUME NEW S, IsFiniteSet(S), NEW x \in S
    PROVE  /\ IsFiniteSet(S \ {x})
           /\ Cardinality(S) \in Nat /\ Cardinality(S \ {x}) \in Nat
           /\ Cardinality(S \ {x}) < Cardinality(S)
  <1>1. IsFiniteSet(S \ {x}) /\ Cardinality(S \ {x}) = Cardinality(S) - 1
    BY FS_RemoveElement, Zenon
  <1>2. Cardinality(S) \in Nat /\ Cardinality(S \ {x}) \in Nat
    BY <1>1, FS_CardinalityType
  <1> QED BY <1>1, <1>2

(* No subset of a smaller set is as large.                                  *)
LEMMA NotAsLarge ==
    ASSUME NEW S, IsFiniteSet(S), NEW x \in S, NEW T \in SUBSET (S \ {x})
    PROVE  Cardinality(T) < Cardinality(S)
  <1>1. IsFiniteSet(S \ {x}) /\ Cardinality(S) \in Nat /\ Cardinality(S \ {x}) \in Nat
        /\ Cardinality(S \ {x}) < Cardinality(S)
    BY OneLess, Zenon
  <1>2. IsFiniteSet(T) /\ Cardinality(T) <= Cardinality(S \ {x})
    BY <1>1, FS_Subset
  <1>3. Cardinality(T) \in Nat
    BY <1>2, FS_CardinalityType
  <1> QED BY <1>1, <1>2, <1>3

(* A finite set of integers that is not empty has a greatest element: one   *)
(* with the fewest above it.                                                *)
LEMMA Greatest ==
    ASSUME NEW S \in SUBSET Int, IsFiniteSet(S), S # {}
    PROVE  Max(S) \in S /\ \A k \in S : Max(S) >= k
  <1> DEFINE above(i) == {k \in S : k > i}
             F == {above(i) : i \in S}
  <1>1. F # {} /\ \A T \in F : T \in SUBSET S
    OBVIOUS
  <1>2. \A T \in F : IsFiniteSet(T)
    BY <1>1, FS_Subset
  <1> HIDE DEF F
  <1>3. PICK T \in F : \A U \in F : Cardinality(T) <= Cardinality(U)
    BY <1>1, <1>2, SmallestSet
  <1>4. PICK i \in S : T = above(i)
    BY DEF F
  <1>5. ASSUME NEW k \in S, k > i PROVE FALSE
    <2>1. k \in T /\ above(k) \in SUBSET (T \ {k})
      <3>1. \A m \in S : m > k => m > i /\ m # k
        BY <1>5
      <3> QED BY <1>4, <1>5, <3>1
    <2>2. above(k) \in F
      BY <1>5 DEF F
    <2>3. Cardinality(above(k)) < Cardinality(T)
      BY <1>2, <2>1, NotAsLarge
    <2>4. Cardinality(T) <= Cardinality(above(k))
      BY <1>3, <2>2
    <2>5. Cardinality(T) \in Nat /\ Cardinality(above(k)) \in Nat
      BY <1>2, <2>2, FS_CardinalityType
    <2> QED BY <2>3, <2>4, <2>5
  <1>6. \A k \in S : i >= k
    BY <1>5
  <1> QED BY <1>6 DEF Max

(* The least of a set of naturals.                                          *)
LEMMA LeastOfNaturals ==
    ASSUME NEW S \in SUBSET Nat, S # {}
    PROVE  Min(S) \in S /\ \A k \in S : Min(S) <= k
  <1>1. \E i \in S : \A k \in S : i <= k
    BY LeastNatural
  <1> QED BY <1>1 DEF Min

(* The greatest of a number and of the values of a function.                *)
Peak(b, S, f) == Max({b} \cup {f[x] : x \in S})

(* It is the number or a value, and not below any.                          *)
LEMMA PeakIsGreatest ==
    ASSUME NEW b \in Nat, NEW S, IsFiniteSet(S), NEW f \in [S -> Nat]
    PROVE  /\ Peak(b, S, f) \in Nat /\ Peak(b, S, f) >= b
           /\ \A x \in S : Peak(b, S, f) >= f[x]
           /\ Peak(b, S, f) = b \/ \E x \in S : Peak(b, S, f) = f[x]
  <1> DEFINE T == {f[x] : x \in S}
  <1>1. IsFiniteSet(T)
    <2>1. f \in Surjection(S, T)
      BY DEF Surjection
    <2> QED BY <2>1, FS_Surjection
  <1>2. {b} \cup T \in SUBSET Int /\ b \in {b} \cup T
    OBVIOUS
  <1>3. IsFiniteSet({b} \cup T)
    <2>1. {b} \cup T = T \cup {b}
      OBVIOUS
    <2> QED BY <1>1, <2>1, FS_AddElement
  <1>4. Max({b} \cup T) \in {b} \cup T /\ \A k \in {b} \cup T : Max({b} \cup T) >= k
    BY <1>2, <1>3, Greatest
  <1>5. \A x \in S : f[x] \in {b} \cup T
    OBVIOUS
  <1>6. Peak(b, S, f) = Max({b} \cup T)
    BY DEF Peak
  <1> QED BY <1>4, <1>5, <1>6

(* The greater of two numbers.                                              *)
LEMMA GreaterOfTwo ==
    ASSUME NEW a \in Nat, NEW b \in Nat
    PROVE  Max({a, b}) \in {a, b} /\ Max({a, b}) >= a /\ Max({a, b}) >= b
  <1>1. Peak(a, {b}, [x \in {b} |-> x]) = Max({a, b})
    <2>1. {a} \cup {[x \in {b} |-> x][y] : y \in {b}} = {a, b}
      OBVIOUS
    <2> QED BY <2>1 DEF Peak
  <1>2. IsFiniteSet({b}) /\ [x \in {b} |-> x] \in [{b} -> Nat]
    BY FS_Singleton
  <1>3. Peak(a, {b}, [x \in {b} |-> x]) \in Nat /\ Peak(a, {b}, [x \in {b} |-> x]) >= a
        /\ [x \in {b} |-> x][b] <= Peak(a, {b}, [x \in {b} |-> x])
        /\ Peak(a, {b}, [x \in {b} |-> x]) \in {a, b}
    BY <1>2, PeakIsGreatest
  <1> QED BY <1>1, <1>3

-----------------------------------------------------------------------------
(* Recursion                                                                *)

(* There is no way along R from D back or on for ever.                      *)
EndsIn(D, R) == \A S \in SUBSET D : S # {} => \E x \in S : \A y \in S : <<x, y>> \notin R

(* What F makes of g at x depends on the values of g at those x leads to.   *)
DependsAlong(F, D, V, R) ==
    /\ F \in [[D -> V] -> [D -> V]]
    /\ \A g, h \in [D -> V], x \in D :
          (\A y \in D : <<x, y>> \in R => g[y] = h[y]) => F[g][x] = F[h][x]

(* F is solved by g on T, which nothing leads out of.                       *)
SolvedOn(T, g, F, D, V, R) ==
    /\ T \in SUBSET D /\ g \in [D -> V]
    /\ \A x \in T : g[x] = F[g][x]
    /\ \A x \in T, y \in D : <<x, y>> \in R => y \in T

(* A function is what F makes of it.                                        *)
HasSolution(F, D, V) == \E g \in [D -> V] : g = F[g]

(* A recursive equation over a finite set without cycles has a solution:    *)
(* where it is not solved yet there is a place that leads to solved ones    *)
(* only, and it can be solved there too.                                    *)
LEMMA RecursionHasASolution ==
    ASSUME NEW D, IsFiniteSet(D), NEW V, V # {}, NEW R, EndsIn(D, R),
           NEW F, DependsAlong(F, D, V, R)
    PROVE  HasSolution(F, D, V)
  <1> DEFINE unsolved == {U \in SUBSET D : \E g \in [D -> V] : SolvedOn(D \ U, g, F, D, V, R)}
  <1>1. unsolved # {}
    <2>1. PICK v \in V : TRUE
      OBVIOUS
    <2>2. [x \in D |-> v] \in [D -> V]
      OBVIOUS
    <2>3. SolvedOn(D \ D, [x \in D |-> v], F, D, V, R)
      BY <2>2 DEF SolvedOn
    <2> QED BY <2>2, <2>3
  <1>2. \A U \in unsolved : IsFiniteSet(U)
    BY FS_Subset
  <1>3. PICK U \in unsolved : \A W \in unsolved : Cardinality(U) <= Cardinality(W)
    <2> HIDE DEF unsolved
    <2> QED BY <1>1, <1>2, SmallestSet
  <1>4. PICK g \in [D -> V] : SolvedOn(D \ U, g, F, D, V, R)
    OBVIOUS
  <1>5. ASSUME U # {} PROVE FALSE
    <2>1. PICK x \in U : \A y \in U : <<x, y>> \notin R
      BY <1>5 DEF EndsIn
    <2> DEFINE h == [g EXCEPT ![x] = F[g][x]]
    <2>2. F[g] \in [D -> V] /\ x \in D
      BY DEF DependsAlong
    <2>3. h \in [D -> V] /\ h[x] = F[g][x] /\ \A y \in D \ {x} : h[y] = g[y]
      BY <2>2
    <2> HIDE DEF h
    <2>4. \A y \in D : <<x, y>> \in R => y \in D \ U
      BY <2>1
    <2>5. F[h][x] = F[g][x]
      BY <2>2, <2>3, <2>4 DEF DependsAlong
    <2>6. ASSUME NEW z \in D \ U PROVE h[z] = F[h][z]
      <3>1. \A y \in D : <<z, y>> \in R => y \in D \ U
        BY <1>4, <2>6 DEF SolvedOn
      <3>2. F[h][z] = F[g][z]
        BY <2>3, <3>1 DEF DependsAlong
      <3> QED BY <1>4, <2>3, <3>2 DEF SolvedOn
    <2>7. SolvedOn(D \ (U \ {x}), h, F, D, V, R)
      <3>1. D \ (U \ {x}) = (D \ U) \cup {x}
        BY <2>2
      <3>2. \A z \in (D \ U) \cup {x} : h[z] = F[h][z]
        BY <2>3, <2>5, <2>6
      <3>3. \A z \in (D \ U) \cup {x}, y \in D : <<z, y>> \in R => y \in (D \ U) \cup {x}
        BY <1>4, <2>4 DEF SolvedOn
      <3> QED BY <2>2, <2>3, <3>1, <3>2, <3>3 DEF SolvedOn
    <2>8. U \ {x} \in unsolved
      BY <2>3, <2>7
    <2>9. Cardinality(U \ {x}) < Cardinality(U) /\ Cardinality(U \ {x}) \in Nat
          /\ Cardinality(U) \in Nat
      BY <1>2, OneLess, Zenon
    <2> HIDE DEF unsolved
    <2> QED BY <1>3, <2>8, <2>9
  <1>6. D \ U = D
    BY <1>5
  <1>7. g = F[g]
    BY <1>4, <1>6 DEF SolvedOn, DependsAlong
  <1> QED BY <1>7 DEF HasSolution

-----------------------------------------------------------------------------
(* Sequences                                                                *)

(* What a sequence has at its places is of the set it is over.              *)
LEMMA ElementOfSequence ==
    ASSUME NEW V, NEW s \in Seq(V), NEW k \in 1 .. Len(s)
    PROVE  s[k] \in V
  OBVIOUS

(* The equation of FlattenSeq.                                              *)
Flattens(h, seqs) ==
    h = [i \in 1 .. Len(seqs) |-> IF i = 1 THEN seqs[i] ELSE h[i - 1] \o seqs[i]]

(* It has a solution,                                                       *)
LEMMA FlattenExists ==
    ASSUME NEW V, NEW seqs \in Seq(Seq(V))
    PROVE  \E h : Flattens(h, seqs)
  <1> DEFINE D == 1 .. Len(seqs)
             R == {ik \in D \X D : ik[2] = ik[1] - 1}
             F == [g \in [D -> Seq(V)] |->
                     [i \in D |-> IF i = 1 THEN seqs[i] ELSE g[i - 1] \o seqs[i]]]
  <1>1. Len(seqs) \in Nat /\ D \subseteq Nat /\ \A i \in D : seqs[i] \in Seq(V)
    OBVIOUS
  <1>2. IsFiniteSet(D)
    BY <1>1, FS_Interval
  <1>3. EndsIn(D, R)
    <2> SUFFICES ASSUME NEW S \in SUBSET D, S # {}
                 PROVE  \E x \in S : \A y \in S : <<x, y>> \notin R
      BY DEF EndsIn
    <2>1. PICK i \in S : \A k \in S : i <= k
      BY <1>1, LeastNatural
    <2>2. \A k \in S : <<i, k>> \notin R
      BY <1>1, <2>1
    <2> QED BY <2>2
  <1>4. DependsAlong(F, D, Seq(V), R)
    <2>1. ASSUME NEW g \in [D -> Seq(V)], NEW i \in D
          PROVE  (IF i = 1 THEN seqs[i] ELSE g[i - 1] \o seqs[i]) \in Seq(V)
      <3>1. CASE i = 1
        BY <1>1, <3>1
      <3>2. CASE i # 1
        <4>1. i - 1 \in D
          BY <1>1, <3>2
        <4>2. g[i - 1] \in Seq(V) /\ seqs[i] \in Seq(V)
          BY <1>1, <4>1
        <4>3. g[i - 1] \o seqs[i] \in Seq(V)
          BY <4>2
        <4> QED BY <3>2, <4>3
      <3> QED BY <3>1, <3>2
    <2>2. F \in [[D -> Seq(V)] -> [D -> Seq(V)]]
      <3> HIDE DEF D
      <3>1. \A g \in [D -> Seq(V)] :
               [i \in D |-> IF i = 1 THEN seqs[i] ELSE g[i - 1] \o seqs[i]] \in [D -> Seq(V)]
        BY <2>1
      <3> QED BY <3>1
    <2>3. ASSUME NEW g \in [D -> Seq(V)], NEW h \in [D -> Seq(V)], NEW i \in D,
                 \A k \in D : <<i, k>> \in R => g[k] = h[k]
          PROVE  F[g][i] = F[h][i]
      <3>1. CASE i = 1
        BY <3>1
      <3>2. CASE i # 1
        <4>1. i - 1 \in D /\ <<i, i - 1>> \in R
          BY <1>1, <3>2
        <4>2. g[i - 1] = h[i - 1]
          BY <2>3, <4>1
        <4> QED BY <4>2
      <3> QED BY <3>1, <3>2
    <2> HIDE DEF D, F, R
    <2> QED BY <2>2, <2>3 DEF DependsAlong
  <1>5. Seq(V) # {}
    BY <<>> \in Seq(V)
  <1>6. HasSolution(F, D, Seq(V))
    <2> HIDE DEF D, F, R
    <2> QED BY <1>2, <1>3, <1>4, <1>5, RecursionHasASolution
  <1>7. PICK g \in [D -> Seq(V)] : g = F[g]
    BY <1>6 DEF HasSolution
  <1> QED BY <1>7 DEF Flattens

(* whose values are sequences of the same elements.                         *)
LEMMA FlattenedSequences ==
    ASSUME NEW V, NEW seqs \in Seq(Seq(V)), NEW h, Flattens(h, seqs)
    PROVE  \A i \in 1 .. Len(seqs) : h[i] \in Seq(V)
  <1> DEFINE bad == {i \in 1 .. Len(seqs) : h[i] \notin Seq(V)}
  <1>1. Len(seqs) \in Nat /\ \A i \in 1 .. Len(seqs) : i \in Nat /\ seqs[i] \in Seq(V)
    OBVIOUS
  <1>2. ASSUME bad # {} PROVE FALSE
    <2>1. PICK i \in bad : \A k \in bad : i <= k
      BY <1>1, <1>2, LeastNatural
    <2>2. h[i] = IF i = 1 THEN seqs[i] ELSE h[i - 1] \o seqs[i]
      BY DEF Flattens
    <2>3. i # 1
      BY <1>1, <2>2
    <2>4. i - 1 \in 1 .. Len(seqs) /\ i - 1 < i
      BY <1>1, <2>3
    <2>5. h[i - 1] \in Seq(V) /\ seqs[i] \in Seq(V)
      BY <1>1, <2>1, <2>4
    <2>6. h[i - 1] \o seqs[i] \in Seq(V)
      BY <2>5
    <2> QED BY <2>2, <2>3, <2>6
  <1> QED BY <1>2

(* So what FlattenSeq makes of sequences is one.                            *)
LEMMA FlattenIsSequence ==
    ASSUME NEW V, NEW seqs \in Seq(Seq(V))
    PROVE  FlattenSeq(seqs) \in Seq(V)
  <1>1. CASE Len(seqs) = 0
    <2>1. seqs = <<>>
      BY <1>1
    <2> QED BY <1>1, <2>1 DEF FlattenSeq
  <1>2. CASE Len(seqs) # 0
    <2>1. Len(seqs) \in 1 .. Len(seqs)
      BY <1>2
    <2>2. \A h : Flattens(h, seqs) => h[Len(seqs)] \in Seq(V)
      BY <2>1, FlattenedSequences
    <2>3. \E h : Flattens(h, seqs)
      BY FlattenExists
    <2> QED BY <1>2, <2>2, <2>3 DEF FlattenSeq, Flattens
  <1> QED BY <1>1, <1>2

(* The candidates for an affinity are devices, and there is one.            *)
LEMMA CandidatesAreDevices ==
    ASSUME NEW types \in Seq(STRING)
    PROVE  DevicesOfTypes(types) \in Seq(ListDevices) /\ DevicesOfTypes(types) # <<>>
  <1> DEFINE one(type) == [d \in DOMAIN ListDevice |->
                              IF ListDevice[d] = type THEN <<d>> ELSE <<>>]
             ofType(type) == FlattenSeq(one(type))
             matching == FlattenSeq([k \in DOMAIN types |-> ofType(types[k])])
  <1>1. Len(ListDevice) \in Nat \ {0} /\ DOMAIN ListDevice = 1 .. Len(ListDevice)
        /\ ListDevices = 1 .. Len(ListDevice)
    BY ListAssumption DEF ListDevices
  <1>2. \A type : one(type) \in Seq(Seq(ListDevices))
    <2>1. \A d \in ListDevices : <<d>> \in Seq(ListDevices)
      OBVIOUS
    <2>2. <<>> \in Seq(ListDevices)
      OBVIOUS
    <2> TAKE type
    <2>3. \A d \in 1 .. Len(ListDevice) :
             (IF ListDevice[d] = type THEN <<d>> ELSE <<>>) \in Seq(ListDevices)
      BY <1>1, <2>1, <2>2
    <2> QED BY <1>1, <2>3
  <1> HIDE DEF one
  <1>3. \A type : ofType(type) \in Seq(ListDevices)
    BY <1>2, FlattenIsSequence
  <1> HIDE DEF ofType
  <1>4. [k \in DOMAIN types |-> ofType(types[k])] \in Seq(Seq(ListDevices))
    <2>1. Len(types) \in Nat /\ DOMAIN types = 1 .. Len(types)
      OBVIOUS
    <2> QED BY <1>3, <2>1
  <1>5. matching \in Seq(ListDevices)
    BY <1>4, FlattenIsSequence
  <1>6. DevicesOfTypes(types) = IF matching = <<>> THEN [d \in DOMAIN ListDevice |-> d] ELSE matching
    BY DEF DevicesOfTypes, ofType, one
  <1> HIDE DEF matching
  <1>7. [d \in DOMAIN ListDevice |-> d] \in Seq(ListDevices)
        /\ [d \in DOMAIN ListDevice |-> d] # <<>>
    <2>1. [d \in 1 .. Len(ListDevice) |-> d] \in Seq(ListDevices)
      BY <1>1
    <2>2. Len([d \in 1 .. Len(ListDevice) |-> d]) = Len(ListDevice)
      BY <1>1
    <2>3. [d \in 1 .. Len(ListDevice) |-> d] # <<>>
      BY <1>1, <2>2
    <2> QED BY <1>1, <2>1, <2>3
  <1> QED BY <1>5, <1>6, <1>7

-----------------------------------------------------------------------------
(* Costs and ranks                                                          *)

(* Nothing takes no time.                                                   *)
PositiveTimes ==
    \A g \in TaskGraphs : \A n \in DOMAIN g.exec : \A k \in DOMAIN g.exec[n] :
        g.exec[n][k].wcet > 0

(* The nodes of a graph are finite, what an edge carries is a natural, and  *)
(* the edges end somewhere.                                                 *)
LEMMA GraphFacts ==
    ASSUME graph \in TaskGraphs
    PROVE  /\ IsFiniteSet(GraphNodes) /\ GraphNodes \subseteq Nat
           /\ \A p, n : EdgeBytes(p, n) \in Nat
           /\ EndsIn(GraphNodes, graph.edges)
           /\ \A n \in GraphNodes : graph.affinity[n] \in Seq(STRING)
  <1>1. IsTaskGraph(graph)
    BY ListAssumption
  <1>2. GraphNodes = 1 .. Len(graph.affinity) /\ Len(graph.affinity) \in Nat
        /\ \A n \in GraphNodes : graph.affinity[n] \in Seq(STRING)
    BY <1>1 DEF IsTaskGraph, GraphNodes
  <1>3. IsFiniteSet(GraphNodes) /\ GraphNodes \subseteq Nat
    BY <1>2, FS_Interval
  <1>4. \A p, n : EdgeBytes(p, n) \in Nat
    BY <1>1 DEF IsTaskGraph, EdgeBytes
  <1>5. EndsIn(GraphNodes, graph.edges)
    BY <1>1 DEF IsTaskGraph, GraphNodes, EndsIn
  <1> QED BY <1>2, <1>3, <1>4, <1>5

(* A node costs a natural on every device, and something if nothing takes   *)
(* no time.                                                                 *)
LEMMA CostIsNatural ==
    ASSUME graph \in TaskGraphs, NEW n \in GraphNodes, NEW d
    PROVE  ExecCostOn(n, d) \in Nat /\ (PositiveTimes => ExecCostOn(n, d) > 0)
  <1> PICK times : times = graph.exec[n]
    OBVIOUS
  <1> DEFINE ofType == {k \in DOMAIN times : times[k].type = ListDevice[d]}
  <1>1. times \in Seq([type : STRING, wcet : Nat]) /\ n \in DOMAIN graph.exec
    BY ListAssumption DEF IsTaskGraph, GraphNodes
  <1> PICK len \in Nat : len = Len(times) /\ DOMAIN times = 1 .. len
    BY <1>1
  <1>2. \A k \in 1 .. len : times[k].wcet \in Nat /\ (PositiveTimes => times[k].wcet > 0)
    <2>1. \A k \in 1 .. len : times[k] \in [type : STRING, wcet : Nat]
      BY <1>1, ElementOfSequence
    <2>2. PositiveTimes => \A k \in 1 .. len : times[k].wcet > 0
      BY <1>1 DEF PositiveTimes
    <2> QED BY <2>1, <2>2
  <1>3. CASE times = <<>>
    BY <1>3 DEF ExecCostOn
  <1>4. CASE times # <<>>
    <2>1. 1 \in 1 .. len
      BY <1>1, <1>4
    <2>2. ofType # {} => Min(ofType) \in 1 .. len
      <3>1. ofType \in SUBSET Nat /\ ofType \subseteq 1 .. len
        OBVIOUS
      <3> HIDE DEF ofType
      <3> QED BY <3>1, LeastOfNaturals
    <2>3. ExecCostOn(n, d) = times[IF ofType = {} THEN 1 ELSE Min(ofType)].wcet
      BY <1>4 DEF ExecCostOn
    <2> HIDE DEF ofType
    <2> QED BY <1>2, <2>1, <2>2, <2>3
  <1> QED BY <1>3, <1>4

(* The equation of the fold that adds up the costs of a node.               *)
AddsUp(h, n, c) ==
    h = [S \in SUBSET (DOMAIN c) |->
            IF S = {} THEN 0 ELSE h[S \ {Max(S)}] + ExecCostOn(n, c[Max(S)])]

(* It has a solution,                                                       *)
LEMMA CostsAddUp ==
    ASSUME graph \in TaskGraphs, NEW n \in GraphNodes, NEW c \in Seq(ListDevices)
    PROVE  \E h : AddsUp(h, n, c)
  <1> DEFINE N == DOMAIN c
             D == SUBSET N
             R == {st \in D \X D : st[1] # {} /\ st[2] = st[1] \ {Max(st[1])}}
             F == [g \in [D -> Nat] |->
                     [S \in D |-> IF S = {} THEN 0
                                  ELSE g[S \ {Max(S)}] + ExecCostOn(n, c[Max(S)])]]
  <1>1. IsFiniteSet(N) /\ N \subseteq Nat
    <2>1. N = 1 .. Len(c) /\ Len(c) \in Nat
      OBVIOUS
    <2> QED BY <2>1, FS_Interval
  <1>2. IsFiniteSet(D)
    BY <1>1, FS_SUBSET
  <1>3. \A S \in D : IsFiniteSet(S)
    BY <1>1, FS_Subset
  <1>4. \A S \in D : S # {} => Max(S) \in S
    <2> HIDE DEF N
    <2> QED BY <1>1, <1>3, Greatest
  <1> HIDE DEF N
  <1>5. EndsIn(D, R)
    <2> SUFFICES ASSUME NEW K \in SUBSET D, K # {}
                 PROVE  \E S \in K : \A T \in K : <<S, T>> \notin R
      BY DEF EndsIn
    <2>1. PICK S \in K : \A T \in K : Cardinality(S) <= Cardinality(T)
      BY <1>3, SmallestSet
    <2>2. ASSUME NEW T \in K, <<S, T>> \in R PROVE FALSE
      <3>1. S # {} /\ T = S \ {Max(S)}
        BY <2>2
      <3>2. Max(S) \in S /\ IsFiniteSet(S)
        BY <1>3, <1>4, <3>1
      <3>3. Cardinality(T) < Cardinality(S) /\ Cardinality(T) \in Nat /\ Cardinality(S) \in Nat
        BY <3>1, <3>2, OneLess
      <3> QED BY <2>1, <3>3
    <2> QED BY <2>2
  <1>6. \A k : ExecCostOn(n, c[k]) \in Nat
    BY CostIsNatural
  <1>7. DependsAlong(F, D, Nat, R)
    <2>1. ASSUME NEW g \in [D -> Nat], NEW S \in D
          PROVE  (IF S = {} THEN 0 ELSE g[S \ {Max(S)}] + ExecCostOn(n, c[Max(S)])) \in Nat
      <3>1. S \ {Max(S)} \in D
        OBVIOUS
      <3>2. g[S \ {Max(S)}] \in Nat /\ ExecCostOn(n, c[Max(S)]) \in Nat
        BY <1>6, <3>1
      <3> QED BY <3>2
    <2>2. F \in [[D -> Nat] -> [D -> Nat]]
      <3> HIDE DEF D
      <3>1. \A g \in [D -> Nat] :
               [S \in D |-> IF S = {} THEN 0
                            ELSE g[S \ {Max(S)}] + ExecCostOn(n, c[Max(S)])] \in [D -> Nat]
        BY <2>1
      <3> QED BY <3>1
    <2>3. ASSUME NEW g \in [D -> Nat], NEW h \in [D -> Nat], NEW S \in D,
                 \A T \in D : <<S, T>> \in R => g[T] = h[T]
          PROVE  F[g][S] = F[h][S]
      <3>1. CASE S = {}
        BY <3>1
      <3>2. CASE S # {}
        <4>1. S \ {Max(S)} \in D /\ <<S, S \ {Max(S)}>> \in R
          BY <3>2
        <4>2. g[S \ {Max(S)}] = h[S \ {Max(S)}]
          BY <2>3, <4>1
        <4> QED BY <4>2
      <3> QED BY <3>1, <3>2
    <2> HIDE DEF D, F, R
    <2> QED BY <2>2, <2>3 DEF DependsAlong
  <1>8. HasSolution(F, D, Nat)
    <2> HIDE DEF D, F, R
    <2> QED BY <1>2, <1>5, <1>7, RecursionHasASolution
  <1>9. PICK g \in [D -> Nat] : g = F[g]
    BY <1>8 DEF HasSolution
  <1> QED BY <1>9 DEF AddsUp, N

(* whose values are naturals, and not zero if nothing takes no time.        *)
LEMMA SumsOfCosts ==
    ASSUME graph \in TaskGraphs, NEW n \in GraphNodes, NEW c \in Seq(ListDevices),
           NEW h, AddsUp(h, n, c)
    PROVE  \A S \in SUBSET (DOMAIN c) :
              h[S] \in Nat /\ (PositiveTimes /\ S # {} => h[S] > 0)
  <1> DEFINE good(S) == h[S] \in Nat /\ (PositiveTimes /\ S # {} => h[S] > 0)
             bad == {S \in SUBSET (DOMAIN c) : ~good(S)}
  <1> SUFFICES ASSUME bad # {} PROVE FALSE
    OBVIOUS
  <1>1. IsFiniteSet(DOMAIN c) /\ DOMAIN c \subseteq Nat
    <2>1. DOMAIN c = 1 .. Len(c) /\ Len(c) \in Nat
      OBVIOUS
    <2> QED BY <2>1, FS_Interval
  <1>2. \A S \in SUBSET (DOMAIN c) : IsFiniteSet(S)
    BY <1>1, FS_Subset
  <1>3. PICK S \in bad : \A T \in bad : Cardinality(S) <= Cardinality(T)
    BY <1>2, SmallestSet
  <1>4. S \in SUBSET (DOMAIN c) /\ ~good(S)
    OBVIOUS
  <1>5. h[S] = IF S = {} THEN 0 ELSE h[S \ {Max(S)}] + ExecCostOn(n, c[Max(S)])
    BY <1>4 DEF AddsUp
  <1>6. S # {}
    BY <1>4, <1>5
  <1>7. Max(S) \in S
    BY <1>1, <1>2, <1>4, <1>6, Greatest
  <1>8. Cardinality(S \ {Max(S)}) < Cardinality(S) /\ Cardinality(S \ {Max(S)}) \in Nat
        /\ Cardinality(S) \in Nat
    BY <1>2, <1>4, <1>7, OneLess, Zenon
  <1>9. S \ {Max(S)} \notin bad
    <2> HIDE DEF bad
    <2> QED BY <1>3, <1>8
  <1>10. h[S \ {Max(S)}] \in Nat
    BY <1>4, <1>9
  <1>11. ExecCostOn(n, c[Max(S)]) \in Nat /\ (PositiveTimes => ExecCostOn(n, c[Max(S)]) > 0)
    BY CostIsNatural
  <1> QED BY <1>4, <1>5, <1>6, <1>10, <1>11

(* The average cost of a node is a natural, and not zero if nothing takes   *)
(* no time.                                                                 *)
LEMMA AverageIsNatural ==
    ASSUME graph \in TaskGraphs, NEW n \in GraphNodes
    PROVE  AverageCost(n) \in Nat /\ (PositiveTimes => AverageCost(n) > 0)
  <1> PICK c : c = CandidateDevices(n)
    OBVIOUS
  <1>1. graph.affinity[n] \in Seq(STRING)
    BY GraphFacts
  <1>2. c \in Seq(ListDevices) /\ c # <<>>
    BY <1>1, CandidatesAreDevices DEF CandidateDevices
  <1>3. Len(c) \in Nat \ {0} /\ DOMAIN c # {} /\ RankScale \in Nat
    BY <1>2, ListAssumption
  <1>4. PICK k \in 1 .. RankScale : RankScale = k * Len(c)
    BY ListAssumption DEF CandidateDevices, GraphNodes
  <1> DEFINE total == FoldLeft(LAMBDA sum, d : sum + ExecCostOn(n, d), 0, c)
  <1>5. total \in Nat /\ (PositiveTimes => total > 0)
    <2>1. \A h : AddsUp(h, n, c) => h[DOMAIN c] \in Nat /\ (PositiveTimes => h[DOMAIN c] > 0)
      BY <1>2, <1>3, SumsOfCosts
    <2>2. \E h : AddsUp(h, n, c)
      BY <1>2, CostsAddUp
    <2> QED BY <2>1, <2>2 DEF AddsUp, FoldLeft, MapThenFoldSet
  <1>6. RankScale \div Len(c) \in Nat \ {0}
    <2> PICK L \in Nat \ {0} : L = Len(c)
      BY <1>3
    <2>1. RankScale \div L \in Nat
      BY <1>3
    <2>2. RankScale < L * (RankScale \div L) + L
      BY <1>3
    <2>3. RankScale >= L
      BY <1>3, <1>4
    <2>4. ASSUME RankScale \div L = 0 PROVE FALSE
      BY <1>3, <2>2, <2>3, <2>4
    <2> QED BY <2>1, <2>4
  <1>7. AverageCost(n) = total * (RankScale \div Len(c))
    BY DEF AverageCost
  <1> HIDE DEF total
  <1> PICK t \in Nat, q \in Nat \ {0} : t = total /\ q = RankScale \div Len(c)
    BY <1>5, <1>6
  <1>8. t * q \in Nat /\ (t > 0 => t * q > 0)
    <2>1. t * q \in Nat
      OBVIOUS
    <2>2. ASSUME t > 0 PROVE t * q > 0
      BY <2>2
    <2> QED BY <2>1, <2>2
  <1> QED BY <1>5, <1>7, <1>8

(* The longest way on from a node by the ranks h of its successors, and the *)
(* equation of the ranks.                                                   *)
WaysOn(n, h) == [s \in Successors(n) |-> RankScale * EdgeBytes(n, s) + h[s]]
WayOn(n, h) == Peak(0, Successors(n), WaysOn(n, h))
Ranks(h) == h = [n \in GraphNodes |-> AverageCost(n) + WayOn(n, h)]

(* The ways on of a node are naturals if the ranks of its successors are.   *)
LEMMA WaysAreNatural ==
    ASSUME graph \in TaskGraphs, NEW n \in GraphNodes, NEW h,
           \A s \in Successors(n) : h[s] \in Nat
    PROVE  /\ WayOn(n, h) \in Nat
           /\ \A s \in Successors(n) : WayOn(n, h) >= h[s]
  <1>1. IsFiniteSet(Successors(n))
    BY GraphFacts, FS_Subset DEF Successors
  <1>2. \A s \in Successors(n) : RankScale * EdgeBytes(n, s) \in Nat
    <2> TAKE s \in Successors(n)
    <2> PICK a \in Nat, b \in Nat : a = RankScale /\ b = EdgeBytes(n, s)
      BY GraphFacts, ListAssumption
    <2>1. a * b \in Nat
      OBVIOUS
    <2> QED BY <2>1
  <1>3. \A s \in Successors(n) :
           /\ RankScale * EdgeBytes(n, s) + h[s] \in Nat
           /\ RankScale * EdgeBytes(n, s) + h[s] >= h[s]
    <2> TAKE s \in Successors(n)
    <2> PICK a \in Nat, b \in Nat : a = RankScale * EdgeBytes(n, s) /\ b = h[s]
      BY <1>2
    <2>1. a + b \in Nat /\ a + b >= b
      OBVIOUS
    <2> QED BY <2>1
  <1>4. WaysOn(n, h) \in [Successors(n) -> Nat]
        /\ \A s \in Successors(n) : WaysOn(n, h)[s] >= h[s]
    BY <1>3 DEF WaysOn
  <1>5. /\ Peak(0, Successors(n), WaysOn(n, h)) \in Nat
        /\ \A s \in Successors(n) : Peak(0, Successors(n), WaysOn(n, h)) >= WaysOn(n, h)[s]
    BY <1>1, <1>4, PeakIsGreatest
  <1>6. ASSUME NEW s \in Successors(n) PROVE WayOn(n, h) >= h[s]
    <2> PICK a \in Nat, b \in Nat, c \in Nat :
           a = Peak(0, Successors(n), WaysOn(n, h)) /\ b = WaysOn(n, h)[s] /\ c = h[s]
      BY <1>4, <1>5
    <2>1. a >= b /\ b >= c
      BY <1>4, <1>5
    <2>2. a >= c
      BY <2>1
    <2> QED BY <2>2 DEF WayOn
  <1> QED BY <1>5, <1>6 DEF WayOn

(* It has a solution, as the graph has no cycle,                            *)
LEMMA RanksExist ==
    ASSUME graph \in TaskGraphs
    PROVE  \E h : Ranks(h)
  <1> DEFINE D == GraphNodes
             F == [g \in [D -> Nat] |-> [n \in D |-> AverageCost(n) + WayOn(n, g)]]
  <1>1. IsFiniteSet(D) /\ EndsIn(D, graph.edges)
    BY GraphFacts
  <1>2. \A n \in D : Successors(n) = {s \in D : <<n, s>> \in graph.edges}
    BY DEF Successors
  <1>3. ASSUME NEW g \in [D -> Nat], NEW n \in D PROVE AverageCost(n) + WayOn(n, g) \in Nat
    <2>1. WayOn(n, g) \in Nat
      BY <1>2, WaysAreNatural
    <2>2. AverageCost(n) \in Nat
      BY AverageIsNatural
    <2> QED BY <2>1, <2>2
  <1>4. F \in [[D -> Nat] -> [D -> Nat]]
    <2> HIDE DEF D
    <2>1. \A g \in [D -> Nat] : [n \in D |-> AverageCost(n) + WayOn(n, g)] \in [D -> Nat]
      BY <1>3
    <2> QED BY <2>1
  <1>5. ASSUME NEW g \in [D -> Nat], NEW h \in [D -> Nat], NEW n \in D,
               \A y \in D : <<n, y>> \in graph.edges => g[y] = h[y]
        PROVE  F[g][n] = F[h][n]
    <2>1. \A s \in Successors(n) : g[s] = h[s]
      BY <1>2, <1>5
    <2>2. WaysOn(n, g) = WaysOn(n, h)
      BY <2>1 DEF WaysOn
    <2>3. WayOn(n, g) = WayOn(n, h)
      BY <2>2 DEF WayOn
    <2> QED BY <2>3
  <1>6. DependsAlong(F, D, Nat, graph.edges)
    <2> HIDE DEF D, F
    <2> QED BY <1>4, <1>5 DEF DependsAlong
  <1>7. HasSolution(F, D, Nat)
    <2> HIDE DEF D, F
    <2> QED BY <1>1, <1>6, RecursionHasASolution
  <1>8. PICK g \in [D -> Nat] : g = F[g]
    BY <1>7 DEF HasSolution
  <1> QED BY <1>8 DEF Ranks

(* and every solution consists of naturals.                                 *)
LEMMA RanksAreNatural ==
    ASSUME graph \in TaskGraphs, NEW h, Ranks(h)
    PROVE  \A n \in GraphNodes : h[n] \in Nat
  <1> DEFINE bad == {n \in GraphNodes : h[n] \notin Nat}
  <1> SUFFICES ASSUME bad # {} PROVE FALSE
    OBVIOUS
  <1>1. PICK n \in bad : \A s \in bad : <<n, s>> \notin graph.edges
    BY GraphFacts DEF EndsIn
  <1>2. \A s \in Successors(n) : h[s] \in Nat
    BY <1>1 DEF Successors
  <1>3. WayOn(n, h) \in Nat /\ AverageCost(n) \in Nat
    BY <1>2, WaysAreNatural, AverageIsNatural
  <1>4. h[n] = AverageCost(n) + WayOn(n, h)
    BY DEF Ranks
  <1> QED BY <1>3, <1>4

(* The ranks of the planner are naturals, and fall along every edge if      *)
(* nothing takes no time.                                                   *)
LEMMA RanksFall ==
    ASSUME graph \in TaskGraphs, PositiveTimes
    PROVE  /\ \A n \in GraphNodes : RankU[n] \in Nat
           /\ \A n \in GraphNodes : \A p \in Predecessors(n) : RankU[p] > RankU[n]
  <1>1. PICK h : h = RankU /\ Ranks(h)
    <2>1. \E h : Ranks(h)
      BY RanksExist
    <2>2. ASSUME NEW h, NEW n
          PROVE  WayOn(n, h) = Max({0} \cup {RankScale * EdgeBytes(n, s) + h[s] : s \in Successors(n)})
      <3>1. {WaysOn(n, h)[s] : s \in Successors(n)}
              = {RankScale * EdgeBytes(n, s) + h[s] : s \in Successors(n)}
        BY DEF WaysOn
      <3> QED BY <3>1 DEF WayOn, Peak
    <2>3. ASSUME NEW h
          PROVE  Ranks(h) <=>
                 h = [n \in GraphNodes |->
                        AverageCost(n)
                        + Max({0} \cup {RankScale * EdgeBytes(n, s) + h[s] : s \in Successors(n)})]
      BY <2>2 DEF Ranks
    <2> QED BY <2>1, <2>3 DEF RankU
  <1>2. \A n \in GraphNodes : h[n] \in Nat
    BY <1>1, RanksAreNatural
  <1>3. ASSUME NEW n \in GraphNodes, NEW p \in Predecessors(n) PROVE h[p] > h[n]
    <2>1. p \in GraphNodes /\ n \in Successors(p)
      BY DEF Predecessors, Successors
    <2>2. \A s \in Successors(p) : h[s] \in Nat
      BY <1>2 DEF Successors
    <2>3. WayOn(p, h) \in Nat /\ WayOn(p, h) >= h[n]
      BY <2>1, <2>2, WaysAreNatural
    <2>4. AverageCost(p) \in Nat /\ AverageCost(p) > 0
      BY <2>1, AverageIsNatural
    <2>5. h[p] = AverageCost(p) + WayOn(p, h)
      BY <1>1, <2>1 DEF Ranks
    <2> QED BY <1>2, <2>3, <2>4, <2>5
  <1> QED BY <1>1, <1>2, <1>3

-----------------------------------------------------------------------------
(* Partial schedules                                                        *)

(* The nodes placed are nodes, with times in order.                         *)
ScheduleSound(s) ==
    /\ DOMAIN s \subseteq GraphNodes
    /\ \A n \in DOMAIN s : s[n].start \in Nat /\ s[n].finish \in Nat /\ s[n].start <= s[n].finish

(* A device is available when its last node finishes.                       *)
LEMMA AvailableAfterAll ==
    ASSUME graph \in TaskGraphs, NEW s, ScheduleSound(s), NEW d
    PROVE  /\ Available(s, d) \in Nat
           /\ \A n \in DOMAIN s : s[n].dev = d => Available(s, d) >= s[n].finish
           /\ Available(s, d) = 0 \/ \E n \in DOMAIN s : s[n].dev = d /\ Available(s, d) = s[n].finish
  <1> DEFINE S == {m \in DOMAIN s : s[m].dev = d}
             f == [n \in S |-> s[n].finish]
  <1>1. IsFiniteSet(S)
    BY GraphFacts, FS_Subset DEF ScheduleSound
  <1>2. f \in [S -> Nat]
    BY DEF ScheduleSound
  <1>3. Available(s, d) = Peak(0, S, f)
    <2>1. {f[n] : n \in S} = {s[n].finish : n \in S}
      OBVIOUS
    <2> QED BY <2>1 DEF Available, Peak
  <1>4. \A n \in S : f[n] = s[n].finish
    OBVIOUS
  <1> HIDE DEF f
  <1>5. /\ Peak(0, S, f) \in Nat
        /\ \A x \in S : Peak(0, S, f) >= f[x]
        /\ Peak(0, S, f) = 0 \/ \E x \in S : Peak(0, S, f) = f[x]
    BY <1>1, <1>2, PeakIsGreatest
  <1> QED BY <1>3, <1>4, <1>5

-----------------------------------------------------------------------------
(* The plan                                                                 *)

(* The data of a predecessor planned on another device.                     *)
Comm(s, p, n) == IF s[p].dev = s[n].dev THEN 0 ELSE EdgeBytes(p, n)

(* The plan as far as it goes: times in order, and feasible.                *)
PlanIInv ==
    /\ graph \in TaskGraphs
    /\ ScheduleSound(planned)
    /\ PlansAreFeasible

(* The properties of the plan are those of its nodes.                       *)
LEMMA FeasiblePlan ==
    PlansAreFeasible <=>
        \A n \in DOMAIN planned :
           /\ \A p \in Predecessors(n) :
                 p \in DOMAIN planned
                 /\ planned[p].finish + Comm(planned, p, n) <= planned[n].start
           /\ \A m \in DOMAIN planned \ {n} :
                 planned[m].dev = planned[n].dev =>
                     planned[m].finish <= planned[n].start \/ planned[n].finish <= planned[m].start
  BY DEF PlansAreFeasible, Feasible, Comm, PlannedDelay

(* A node is ready on a device when the data of its planned predecessors is *)
(* there.                                                                   *)
LEMMA ReadyAfterAll ==
    ASSUME graph \in TaskGraphs, ScheduleSound(planned), NEW n, NEW d
    PROVE  /\ ReadyOn(n, d) \in Nat
           /\ \A p \in Predecessors(n) \cap DOMAIN planned :
                 ReadyOn(n, d) >= planned[p].finish
                                  + (IF planned[p].dev = d THEN 0 ELSE EdgeBytes(p, n))
  <1> DEFINE S == Predecessors(n) \cap DOMAIN planned
             f == [p \in S |-> planned[p].finish
                               + (IF planned[p].dev = d THEN 0 ELSE EdgeBytes(p, n))]
  <1>1. IsFiniteSet(S)
    BY GraphFacts, FS_Subset DEF ScheduleSound
  <1>2. f \in [S -> Nat]
    <2>1. \A p \in S : planned[p].finish \in Nat
                        /\ (IF planned[p].dev = d THEN 0 ELSE EdgeBytes(p, n)) \in Nat
      BY GraphFacts DEF ScheduleSound
    <2>2. \A a, b \in Nat : a + b \in Nat
      OBVIOUS
    <2>3. \A p \in S : planned[p].finish + (IF planned[p].dev = d THEN 0 ELSE EdgeBytes(p, n)) \in Nat
      BY <2>1, <2>2, Zenon
    <2> QED BY <2>3
  <1>3. ReadyOn(n, d) = Peak(0, S, f)
    <2>1. {f[p] : p \in S} = {planned[p].finish
                              + (IF planned[p].dev = d THEN 0 ELSE EdgeBytes(p, n)) : p \in S}
      OBVIOUS
    <2> QED BY <2>1 DEF ReadyOn, Peak
  <1>4. \A p \in S : f[p] = planned[p].finish
                            + (IF planned[p].dev = d THEN 0 ELSE EdgeBytes(p, n))
    OBVIOUS
  <1> HIDE DEF f
  <1>5. Peak(0, S, f) \in Nat /\ \A x \in S : Peak(0, S, f) >= f[x]
    BY <1>1, <1>2, PeakIsGreatest
  <1> QED BY <1>3, <1>4, <1>5

(* Every node is planned after its predecessors: their ranks are greater.   *)
LEMMA PredecessorsArePlanned ==
    ASSUME graph \in TaskGraphs, PositiveTimes, NEW n \in NextByRank
    PROVE  n \in Unplaced(planned) /\ Predecessors(n) \subseteq DOMAIN planned
  <1>1. n \in GraphNodes /\ n \in Unplaced(planned)
    BY DEF NextByRank, Unplaced
  <1>2. ASSUME NEW p \in Predecessors(n), p \notin DOMAIN planned PROVE FALSE
    <2>1. p \in GraphNodes /\ p \in Unplaced(planned)
      BY <1>2 DEF Predecessors, Unplaced
    <2>2. RankU[p] > RankU[n] /\ RankU[p] \in Nat /\ RankU[n] \in Nat
      BY <1>1, <2>1, RanksFall
    <2>3. p # n
      BY <2>2
    <2>4. RankU[n] > RankU[p] \/ RankU[n] = RankU[p]
      BY <2>1, <2>3 DEF NextByRank
    <2> QED BY <2>2, <2>4
  <1> QED BY <1>1, <1>2

(* A step of the planner keeps the plan feasible.                           *)
LEMMA MapNodeKeepsPlan ==
    ASSUME PositiveTimes, PlanIInv, MapNode
    PROVE  PlanIInv'
  <1>0. graph \in TaskGraphs /\ ScheduleSound(planned) /\ graph' = graph
    BY DEF PlanIInv, MapNode
  <1>1. PICK x \in NextByRank :
          planned' = PlaceNode(planned, x, [dev |-> BestDevice(x),
                                            start |-> EarliestStart(x, BestDevice(x)),
                                            finish |-> EarliestFinish(x, BestDevice(x))])
    BY DEF MapNode
  <1>2. x \in GraphNodes /\ x \notin DOMAIN planned /\ Predecessors(x) \subseteq DOMAIN planned
    BY <1>0, PredecessorsArePlanned DEF Unplaced
  <1> PICK d : d = BestDevice(x)
    OBVIOUS
  <1> PICK start : start = EarliestStart(x, d)
    OBVIOUS
  <1> PICK finish : finish = EarliestFinish(x, d)
    OBVIOUS
  <1>3. Available(planned, d) \in Nat
        /\ \A n \in DOMAIN planned : planned[n].dev = d => Available(planned, d) >= planned[n].finish
    BY <1>0, AvailableAfterAll
  <1>4. /\ ReadyOn(x, d) \in Nat
        /\ \A p \in Predecessors(x) \cap DOMAIN planned :
              ReadyOn(x, d) >= planned[p].finish
                               + (IF planned[p].dev = d THEN 0 ELSE EdgeBytes(p, x))
    BY <1>0, ReadyAfterAll
  <1>5. start \in Nat /\ start >= ReadyOn(x, d) /\ start >= Available(planned, d)
    <2>1. start = Max({ReadyOn(x, d), Available(planned, d)})
      BY DEF EarliestStart
    <2> QED BY <1>3, <1>4, <2>1, GreaterOfTwo
  <1>6. finish \in Nat /\ finish >= start
    <2>1. finish = start + ExecCostOn(x, d)
      BY DEF EarliestFinish
    <2>2. ExecCostOn(x, d) \in Nat
      BY <1>0, <1>2, CostIsNatural
    <2> QED BY <1>5, <2>1, <2>2
  <1> PICK w : w = planned'
    OBVIOUS
  <1> PICK place : place = [dev |-> d, start |-> start, finish |-> finish]
    OBVIOUS
  <1>7. DOMAIN w = DOMAIN planned \cup {x} /\ w[x] = place /\ \A m \in DOMAIN planned : w[m] = planned[m]
    <2>1. w = PlaceNode(planned, x, place)
      BY <1>1
    <2> QED BY <1>2, <2>1 DEF PlaceNode
  <1>8. place.dev = d /\ place.start = start /\ place.finish = finish
    OBVIOUS
  <1>9. ScheduleSound(planned)'
    <2>1. DOMAIN w \subseteq GraphNodes
      BY <1>0, <1>2, <1>7 DEF ScheduleSound
    <2>2. \A n \in DOMAIN w : w[n].start \in Nat /\ w[n].finish \in Nat /\ w[n].start <= w[n].finish
      BY <1>0, <1>5, <1>6, <1>7, <1>8 DEF ScheduleSound
    <2> QED BY <1>0, <2>1, <2>2 DEF ScheduleSound, GraphNodes
  <1>10. \A n \in DOMAIN planned : \A p \in Predecessors(n) :
            /\ p \in DOMAIN planned
            /\ planned[p].finish + Comm(planned, p, n) <= planned[n].start
    BY FeasiblePlan DEF PlanIInv
  <1>11. \A n \in DOMAIN planned : \A m \in DOMAIN planned \ {n} :
            planned[m].dev = planned[n].dev =>
               planned[m].finish <= planned[n].start \/ planned[n].finish <= planned[m].start
    BY FeasiblePlan DEF PlanIInv
  <1>12. \A n \in DOMAIN w : \A p \in Predecessors(n) :
            p \in DOMAIN w /\ w[p].finish + Comm(w, p, n) <= w[n].start
    <2>1. ASSUME NEW n \in DOMAIN planned, NEW p \in Predecessors(n)
          PROVE  p \in DOMAIN w /\ w[p].finish + Comm(w, p, n) <= w[n].start
      BY <1>7, <1>10 DEF Comm
    <2>2. ASSUME NEW p \in Predecessors(x)
          PROVE  p \in DOMAIN w /\ w[p].finish + Comm(w, p, x) <= w[x].start
      <3>1. p \in Predecessors(x) \cap DOMAIN planned /\ p \in DOMAIN w /\ w[p] = planned[p]
        BY <1>2, <1>7
      <3>2. Comm(w, p, x) = IF planned[p].dev = d THEN 0 ELSE EdgeBytes(p, x)
        BY <1>7, <1>8, <3>1 DEF Comm
      <3>3. ReadyOn(x, d) >= planned[p].finish + Comm(w, p, x)
        BY <1>4, <3>1, <3>2
      <3>4. planned[p].finish \in Nat /\ Comm(w, p, x) \in Nat
        BY <1>0, <3>1, GraphFacts DEF ScheduleSound, Comm
      <3> QED BY <1>4, <1>5, <1>7, <1>8, <3>1, <3>3, <3>4
    <2> QED BY <1>7, <2>1, <2>2
  <1>13. \A n \in DOMAIN w : \A m \in DOMAIN w \ {n} :
            w[m].dev = w[n].dev => w[m].finish <= w[n].start \/ w[n].finish <= w[m].start
    <2>1. \A m \in DOMAIN planned : planned[m].dev = d => planned[m].finish <= start
      BY <1>0, <1>3, <1>5 DEF ScheduleSound
    <2> QED BY <1>7, <1>8, <1>11, <2>1
  <1>14. PlansAreFeasible'
    <2>1. \A n : Predecessors(n)' = Predecessors(n)
      BY <1>0 DEF Predecessors, GraphNodes
    <2>2. \A p, n : EdgeBytes(p, n)' = EdgeBytes(p, n)
      BY <1>0 DEF EdgeBytes
    <2> QED BY <1>12, <1>13, <2>1, <2>2 DEF PlansAreFeasible, Feasible, Comm, PlannedDelay
  <1> QED BY <1>0, <1>9, <1>14 DEF PlanIInv

(* Every plan is feasible as far as it goes, for every graph without a      *)
(* cycle and positive execution times: map_nodes never looks whether a      *)
(* predecessor is planned, but sorts by rank.                               *)
THEOREM PlansAreAlwaysFeasible == PositiveTimes => (ListSpec => []PlansAreFeasible)
  <1> SUFFICES ASSUME PositiveTimes PROVE ListSpec => []PlansAreFeasible
    OBVIOUS
  <1>1. ListInit => PlanIInv
    BY DEF ListInit, PlanIInv, ScheduleSound, NothingPlaced, PlansAreFeasible, Feasible
  <1>2. PlanIInv /\ [ListNext]_listVars => PlanIInv'
    <2> SUFFICES ASSUME PlanIInv, [ListNext]_listVars PROVE PlanIInv'
      OBVIOUS
    <2>1. ASSUME MapNode PROVE PlanIInv'
      BY <2>1, MapNodeKeepsPlan
    <2>2. ASSUME UNCHANGED <<graph, planned>> PROVE PlanIInv'
      BY <2>2 DEF PlanIInv, ScheduleSound, GraphNodes, PlansAreFeasible, Feasible,
                  Predecessors, EdgeBytes, PlannedDelay
    <2>3. MapNode \/ UNCHANGED <<graph, planned>>
      BY DEF ListNext, listVars, StartReference, PlaceReference, FinishReference
    <2> QED BY <2>1, <2>2, <2>3
  <1>3. PlanIInv => PlansAreFeasible
    BY DEF PlanIInv
  <1> QED BY <1>1, <1>2, <1>3, PTL DEF ListSpec

-----------------------------------------------------------------------------
(* The reference                                                            *)

(* When the data of a node is there, when it can start, whether a device is *)
(* busy, and which nodes can be placed, in a partial schedule s.            *)
DataReadyIn(s, n) == Max({0} \cup {s[p].finish + EdgeBytes(p, n) : p \in Predecessors(n)})
StartIn(s, n) ==
    Max({Available(s, planned[n].dev)} \cup {s[p].finish + EdgeBytes(p, n) : p \in Predecessors(n)})
BusyIn(s, d, t) == \E m \in DOMAIN s : s[m].dev = d /\ s[m].start <= t /\ t < s[m].finish
WaitingIn(s) == {n \in GraphNodes \ DOMAIN s : Predecessors(n) \subseteq DOMAIN s}

(* The schedule is feasible.                                                *)
FeasibleIn(s) ==
    /\ \A n \in DOMAIN s : \A p \in Predecessors(n) :
          p \in DOMAIN s /\ s[p].finish + EdgeBytes(p, n) <= s[n].start
    /\ \A n \in DOMAIN s : \A m \in DOMAIN s \ {n} :
          s[m].dev = s[n].dev => s[m].finish <= s[n].start \/ s[n].finish <= s[m].start

(* No node was delayed for nothing.                                         *)
EagerIn(s) ==
    \A n \in DOMAIN s : \A t \in DataReadyIn(s, n) .. s[n].start - 1 : BusyIn(s, s[n].dev, t)

(* Neither is one that can be placed, up to the end of the last node of its *)
(* device; and it cannot start before any that is placed.                   *)
NobodyIsLate(s) ==
    \A n \in WaitingIn(s) :
        /\ \A t \in DataReadyIn(s, n) .. Available(s, planned[n].dev) - 1 :
              BusyIn(s, planned[n].dev, t)
        /\ \A m \in DOMAIN s : s[m].start <= StartIn(s, n)

(* A node starts when its device is free and its data is there.             *)
LEMMA StartWhenReady ==
    ASSUME graph \in TaskGraphs, NEW s, ScheduleSound(s), NEW n, Predecessors(n) \subseteq DOMAIN s
    PROVE  /\ DataReadyIn(s, n) \in Nat /\ StartIn(s, n) \in Nat
           /\ \A p \in Predecessors(n) : DataReadyIn(s, n) >= s[p].finish + EdgeBytes(p, n)
           /\ StartIn(s, n) >= DataReadyIn(s, n)
           /\ StartIn(s, n) >= Available(s, planned[n].dev)
           /\ StartIn(s, n) \in {DataReadyIn(s, n), Available(s, planned[n].dev)}
  <1> DEFINE S == Predecessors(n)
             f == [p \in S |-> s[p].finish + EdgeBytes(p, n)]
  <1> PICK free : free = Available(s, planned[n].dev)
    OBVIOUS
  <1>0. free \in Nat
    BY AvailableAfterAll
  <1>1. IsFiniteSet(S)
    BY GraphFacts, FS_Subset DEF ScheduleSound
  <1>2. f \in [S -> Nat]
    <2>1. \A p \in S : s[p].finish \in Nat /\ EdgeBytes(p, n) \in Nat
      BY GraphFacts DEF ScheduleSound
    <2>2. \A a, b \in Nat : a + b \in Nat
      OBVIOUS
    <2>3. \A p \in S : s[p].finish + EdgeBytes(p, n) \in Nat
      BY <2>1, <2>2, Zenon
    <2> QED BY <2>3
  <1>3. DataReadyIn(s, n) = Peak(0, S, f) /\ StartIn(s, n) = Peak(free, S, f)
    <2>1. {f[p] : p \in S} = {s[p].finish + EdgeBytes(p, n) : p \in S}
      OBVIOUS
    <2> QED BY <2>1 DEF DataReadyIn, StartIn, Peak
  <1>4. \A p \in S : f[p] = s[p].finish + EdgeBytes(p, n) /\ f[p] \in Nat
    BY <1>2
  <1> HIDE DEF f, S
  <1>5. /\ Peak(0, S, f) \in Nat
        /\ \A x \in S : Peak(0, S, f) >= f[x]
        /\ Peak(0, S, f) = 0 \/ \E x \in S : Peak(0, S, f) = f[x]
    BY <1>1, <1>2, PeakIsGreatest
  <1>6. /\ Peak(free, S, f) \in Nat /\ Peak(free, S, f) >= free
        /\ \A x \in S : Peak(free, S, f) >= f[x]
        /\ Peak(free, S, f) = free \/ \E x \in S : Peak(free, S, f) = f[x]
    BY <1>0, <1>1, <1>2, PeakIsGreatest
  <1> PICK a, b : a = Peak(0, S, f) /\ b = Peak(free, S, f)
    OBVIOUS
  <1>7. a \in Nat /\ b \in Nat /\ b >= free /\ b >= a /\ b \in {a, free}
    BY <1>0, <1>4, <1>5, <1>6
  <1>8. \A p \in S : a >= s[p].finish + EdgeBytes(p, n)
    BY <1>4, <1>5
  <1> QED BY <1>3, <1>7, <1>8 DEF S

(* Placing the node that can start first keeps all of that.                 *)
LEMMA PlacingTheFirst ==
    ASSUME graph \in TaskGraphs, NEW s, ScheduleSound(s),
           FeasibleIn(s), EagerIn(s), NobodyIsLate(s),
           NEW x \in WaitingIn(s), \A n \in WaitingIn(s) : StartIn(s, x) <= StartIn(s, n),
           NEW cost \in Nat,
           NEW w, w = PlaceNode(s, x, [dev |-> planned[x].dev, start |-> StartIn(s, x),
                                       finish |-> StartIn(s, x) + cost])
    PROVE  ScheduleSound(w) /\ FeasibleIn(w) /\ EagerIn(w) /\ NobodyIsLate(w)
  <1>1. x \in GraphNodes /\ x \notin DOMAIN s /\ Predecessors(x) \subseteq DOMAIN s
    BY DEF WaitingIn
  <1> PICK d : d = planned[x].dev
    OBVIOUS
  <1> PICK start : start = StartIn(s, x)
    OBVIOUS
  <1>2. /\ DataReadyIn(s, x) \in Nat /\ start \in Nat
        /\ \A p \in Predecessors(x) : DataReadyIn(s, x) >= s[p].finish + EdgeBytes(p, x)
        /\ start >= DataReadyIn(s, x) /\ start >= Available(s, d)
        /\ start \in {DataReadyIn(s, x), Available(s, d)}
    BY <1>1, StartWhenReady
  <1> PICK finish : finish = start + cost
    OBVIOUS
  <1>3. finish \in Nat /\ start <= finish
    BY <1>2
  <1>4. DOMAIN w = DOMAIN s \cup {x} /\ (\A m \in DOMAIN s : w[m] = s[m])
        /\ w[x].dev = d /\ w[x].start = start /\ w[x].finish = finish
    <2> PICK place : place = [dev |-> d, start |-> start, finish |-> finish]
      OBVIOUS
    <2>1. w = PlaceNode(s, x, place)
      OBVIOUS
    <2>2. DOMAIN w = DOMAIN s \cup {x} /\ w[x] = place /\ \A m \in DOMAIN s : w[m] = s[m]
      BY <1>1, <2>1 DEF PlaceNode
    <2> QED BY <2>2
  <1>5. \A m \in DOMAIN s : s[m].start \in Nat /\ s[m].finish \in Nat /\ s[m].start <= s[m].finish
    BY DEF ScheduleSound
  <1>6. ScheduleSound(w)
    <2>1. DOMAIN w \subseteq GraphNodes
      BY <1>1, <1>4 DEF ScheduleSound
    <2>2. \A m \in DOMAIN w : w[m].start \in Nat /\ w[m].finish \in Nat /\ w[m].start <= w[m].finish
      BY <1>2, <1>3, <1>4, <1>5
    <2> QED BY <2>1, <2>2 DEF ScheduleSound
  <1>7. \A n : Predecessors(n) \subseteq DOMAIN s => DataReadyIn(w, n) = DataReadyIn(s, n)
    <2> TAKE n
    <2> HAVE Predecessors(n) \subseteq DOMAIN s
    <2>1. {w[p].finish + EdgeBytes(p, n) : p \in Predecessors(n)}
            = {s[p].finish + EdgeBytes(p, n) : p \in Predecessors(n)}
      BY <1>4
    <2> QED BY <2>1 DEF DataReadyIn
  <1>8. \A e, t : BusyIn(s, e, t) => BusyIn(w, e, t)
    BY <1>4 DEF BusyIn
  <1>9. \A n \in DOMAIN s : s[n].dev = d => s[n].finish <= start
    <2>1. Available(s, d) \in Nat
          /\ \A n \in DOMAIN s : s[n].dev = d => Available(s, d) >= s[n].finish
      BY AvailableAfterAll
    <2> QED BY <1>2, <1>5, <2>1
  <1>10. FeasibleIn(w)
    <2>1. ASSUME NEW p \in Predecessors(x)
          PROVE  p \in DOMAIN w /\ w[p].finish + EdgeBytes(p, x) <= w[x].start
      <3>1. p \in DOMAIN s /\ w[p] = s[p] /\ s[p].finish \in Nat /\ EdgeBytes(p, x) \in Nat
        BY <1>1, <1>4, <1>5, GraphFacts
      <3>2. DataReadyIn(s, x) >= s[p].finish + EdgeBytes(p, x)
        BY <1>2
      <3> QED BY <1>2, <1>4, <3>1, <3>2
    <2>2. \A n \in DOMAIN w : \A p \in Predecessors(n) :
             p \in DOMAIN w /\ w[p].finish + EdgeBytes(p, n) <= w[n].start
      BY <1>4, <2>1 DEF FeasibleIn
    <2>3. \A n \in DOMAIN w : \A m \in DOMAIN w \ {n} :
             w[m].dev = w[n].dev => w[m].finish <= w[n].start \/ w[n].finish <= w[m].start
      BY <1>4, <1>9 DEF FeasibleIn
    <2> QED BY <2>2, <2>3 DEF FeasibleIn
  <1>11. \A t \in DataReadyIn(s, x) .. Available(s, d) - 1 : BusyIn(s, d, t)
    BY DEF NobodyIsLate
  <1>12. EagerIn(w)
    <2> SUFFICES ASSUME NEW n \in DOMAIN w, NEW t \in DataReadyIn(w, n) .. w[n].start - 1
                 PROVE  BusyIn(w, w[n].dev, t)
      BY DEF EagerIn
    <2>1. ASSUME n \in DOMAIN s PROVE BusyIn(w, w[n].dev, t)
      <3>1. Predecessors(n) \subseteq DOMAIN s
        BY <2>1 DEF FeasibleIn
      <3>2. DataReadyIn(w, n) = DataReadyIn(s, n) /\ w[n] = s[n]
        BY <1>4, <1>7, <2>1, <3>1
      <3>3. BusyIn(s, s[n].dev, t)
        BY <2>1, <3>2 DEF EagerIn
      <3> QED BY <1>8, <3>2, <3>3
    <2>2. ASSUME n = x PROVE BusyIn(w, w[n].dev, t)
      <3>1. DataReadyIn(w, n) = DataReadyIn(s, x) /\ w[n].start = start /\ w[n].dev = d
        BY <1>1, <1>4, <1>7, <2>2
      <3>2. t \in DataReadyIn(s, x) .. start - 1
        BY <3>1
      <3>3. start = Available(s, d)
        BY <1>2, <3>2
      <3>4. BusyIn(s, d, t)
        BY <1>11, <3>2, <3>3
      <3> QED BY <1>8, <3>1, <3>4
    <2> QED BY <1>4, <2>1, <2>2
  <1>13. NobodyIsLate(w)
    <2> SUFFICES ASSUME NEW n \in WaitingIn(w)
                 PROVE  /\ \A t \in DataReadyIn(w, n) .. Available(w, planned[n].dev) - 1 :
                              BusyIn(w, planned[n].dev, t)
                        /\ \A m \in DOMAIN w : w[m].start <= StartIn(w, n)
      BY DEF NobodyIsLate
    <2> PICK e : e = planned[n].dev
      OBVIOUS
    <2>1. n \in GraphNodes /\ n \notin DOMAIN w /\ Predecessors(n) \subseteq DOMAIN w
      BY DEF WaitingIn
    <2>2. /\ DataReadyIn(w, n) \in Nat /\ StartIn(w, n) \in Nat
          /\ \A p \in Predecessors(n) : DataReadyIn(w, n) >= w[p].finish + EdgeBytes(p, n)
          /\ StartIn(w, n) >= DataReadyIn(w, n) /\ StartIn(w, n) >= Available(w, e)
      BY <1>6, <2>1, StartWhenReady
    <2>3. /\ Available(w, e) \in Nat
          /\ \A m \in DOMAIN w : w[m].dev = e => Available(w, e) >= w[m].finish
          /\ Available(w, e) = 0 \/ \E m \in DOMAIN w : w[m].dev = e /\ Available(w, e) = w[m].finish
      BY <1>6, AvailableAfterAll
    <2>4. /\ Available(s, e) \in Nat
          /\ \A m \in DOMAIN s : s[m].dev = e => Available(s, e) >= s[m].finish
          /\ Available(s, e) = 0 \/ \E m \in DOMAIN s : s[m].dev = e /\ Available(s, e) = s[m].finish
      BY AvailableAfterAll
    <2>5. \A m \in DOMAIN s : s[m].start <= start
      BY DEF NobodyIsLate
    <2>6. ASSUME Predecessors(n) \subseteq DOMAIN s
          PROVE  /\ n \in WaitingIn(s) /\ DataReadyIn(w, n) = DataReadyIn(s, n)
                 /\ StartIn(s, n) \in {DataReadyIn(s, n), Available(s, e)}
                 /\ start <= StartIn(s, n)
      <3>1. n \in WaitingIn(s)
        BY <1>4, <2>1, <2>6 DEF WaitingIn
      <3>2. StartIn(s, n) \in {DataReadyIn(s, n), Available(s, e)}
        BY <2>6, StartWhenReady
      <3> QED BY <1>7, <2>6, <3>1, <3>2
    <2>7. ASSUME ~(Predecessors(n) \subseteq DOMAIN s)
          PROVE  DataReadyIn(w, n) >= finish
      <3>1. x \in Predecessors(n)
        BY <1>4, <2>1, <2>7
      <3>2. DataReadyIn(w, n) >= finish + EdgeBytes(x, n) /\ EdgeBytes(x, n) \in Nat
        BY <1>4, <2>2, <3>1, GraphFacts
      <3> QED BY <1>3, <2>2, <3>2
    <2>8. start <= StartIn(w, n)
      <3>1. ASSUME Predecessors(n) \subseteq DOMAIN s PROVE start <= StartIn(w, n)
        <4>1. CASE StartIn(s, n) = DataReadyIn(s, n)
          BY <1>2, <2>2, <2>6, <3>1, <4>1
        <4>2. CASE StartIn(s, n) = Available(s, e)
          <5>1. Available(s, e) <= Available(w, e)
            BY <1>4, <1>5, <2>3, <2>4
          <5> QED BY <1>2, <2>2, <2>3, <2>4, <2>6, <3>1, <4>2, <5>1
        <4> QED BY <2>6, <3>1, <4>1, <4>2
      <3>2. ASSUME ~(Predecessors(n) \subseteq DOMAIN s) PROVE start <= StartIn(w, n)
        BY <1>2, <1>3, <2>2, <2>7, <3>2
      <3> QED BY <3>1, <3>2
    <2>9. \A m \in DOMAIN w : w[m].start <= StartIn(w, n)
      BY <1>2, <1>4, <1>5, <2>2, <2>5, <2>8
    <2>10. ASSUME NEW t \in DataReadyIn(w, n) .. Available(w, e) - 1
           PROVE  BusyIn(w, e, t)
      <3>0. t \in Nat /\ t >= DataReadyIn(w, n) /\ t < Available(w, e)
        BY <2>2, <2>3
      <3>1. PICK m \in DOMAIN w : w[m].dev = e /\ t < w[m].finish
        BY <2>3, <3>0
      <3>2. CASE w[m].start <= t
        BY <3>1, <3>2 DEF BusyIn
      <3>3. CASE ~(w[m].start <= t)
        <4>1. t < start
          BY <1>2, <1>4, <1>5, <2>5, <3>0, <3>3
        <4>2. Predecessors(n) \subseteq DOMAIN s
          BY <1>2, <1>3, <2>2, <2>7, <3>0, <4>1
        <4>3. t < Available(s, e)
          BY <1>2, <2>2, <2>4, <2>6, <3>0, <4>1, <4>2
        <4>4. t \in DataReadyIn(s, n) .. Available(s, e) - 1
          BY <2>2, <2>4, <2>6, <3>0, <4>2, <4>3
        <4>5. BusyIn(s, e, t)
          BY <2>6, <4>2, <4>4 DEF NobodyIsLate
        <4> QED BY <1>8, <4>5
      <3> QED BY <3>2, <3>3
    <2> QED BY <2>9, <2>10
  <1> QED BY <1>6, <1>10, <1>12, <1>13

(* The reference as far as it goes; while the planner runs nothing is       *)
(* placed.                                                                  *)
RefIInv ==
    /\ graph \in TaskGraphs
    /\ ScheduleSound(placed)
    /\ FeasibleIn(placed) /\ EagerIn(placed)
    /\ listStage = "plan" => placed = NothingPlaced
    /\ listStage = "reference" => NobodyIsLate(placed)

(* What the reference promises is said of placed.                           *)
LEMMA EagerReference == ReferenceIsEager <=> FeasibleIn(placed) /\ EagerIn(placed)
  BY DEF ReferenceIsEager, Feasible, FeasibleIn, EagerIn, DataReadyIn, BusyIn

(* As long as nothing is placed, nobody is late.                            *)
LEMMA NothingIsLate ==
    ASSUME graph \in TaskGraphs, placed = NothingPlaced
    PROVE  ScheduleSound(placed) /\ FeasibleIn(placed) /\ EagerIn(placed) /\ NobodyIsLate(placed)
  <1>1. DOMAIN placed = {}
    BY DEF NothingPlaced
  <1>2. ScheduleSound(placed) /\ FeasibleIn(placed) /\ EagerIn(placed)
    BY <1>1 DEF ScheduleSound, FeasibleIn, EagerIn
  <1>3. ASSUME NEW n \in WaitingIn(placed), NEW d PROVE
           DataReadyIn(placed, n) .. Available(placed, d) - 1 = {}
    <2>1. DataReadyIn(placed, n) \in Nat
      BY <1>2, StartWhenReady DEF WaitingIn
    <2>2. Available(placed, d) = 0
      BY <1>1, <1>2, AvailableAfterAll
    <2> QED BY <2>1, <2>2
  <1> QED BY <1>1, <1>2, <1>3 DEF NobodyIsLate

(* A step of the reference keeps its invariant.                             *)
LEMMA PlaceReferenceKeepsIt ==
    ASSUME RefIInv, PlaceReference
    PROVE  RefIInv'
  <1>1. /\ graph \in TaskGraphs /\ ScheduleSound(placed) /\ FeasibleIn(placed) /\ EagerIn(placed)
        /\ NobodyIsLate(placed)
        /\ listStage' = "reference" /\ graph' = graph /\ planned' = planned
    BY DEF RefIInv, PlaceReference
  <1>2. PICK x \in FirstToStart :
           placed' = PlaceNode(placed, x, [dev |-> planned[x].dev, start |-> StartAt(x),
                                           finish |-> StartAt(x) + ExecCostOn(x, planned[x].dev)])
    BY DEF PlaceReference
  <1>3. PlaceableNodes = WaitingIn(placed) /\ \A n : StartAt(n) = StartIn(placed, n)
    BY DEF PlaceableNodes, WaitingIn, Unplaced, StartAt, StartIn
  <1>4. x \in WaitingIn(placed) /\ x \in GraphNodes
    BY <1>3 DEF FirstToStart, WaitingIn
  <1>5. \A n \in WaitingIn(placed) : StartIn(placed, n) \in Nat
    BY <1>1, StartWhenReady DEF WaitingIn
  <1>6. \A n \in WaitingIn(placed) : StartIn(placed, x) <= StartIn(placed, n)
    <2>1. \A n \in WaitingIn(placed) \ {x} :
             StartIn(placed, x) < StartIn(placed, n) \/ StartIn(placed, x) = StartIn(placed, n)
      BY <1>3 DEF FirstToStart
    <2> QED BY <1>4, <1>5, <2>1
  <1> PICK cost : cost = ExecCostOn(x, planned[x].dev)
    OBVIOUS
  <1>7. cost \in Nat
    BY <1>1, <1>4, CostIsNatural
  <1> PICK w : w = placed'
    OBVIOUS
  <1>8. w = PlaceNode(placed, x, [dev |-> planned[x].dev, start |-> StartIn(placed, x),
                                  finish |-> StartIn(placed, x) + cost])
    BY <1>2, <1>3
  <1>9. ScheduleSound(w) /\ FeasibleIn(w) /\ EagerIn(w) /\ NobodyIsLate(w)
    BY <1>1, <1>4, <1>6, <1>7, <1>8, PlacingTheFirst
  <1>10. ScheduleSound(placed)' /\ FeasibleIn(placed)' /\ EagerIn(placed)' /\ NobodyIsLate(placed)'
    <2>1. /\ GraphNodes' = GraphNodes /\ \A n : Predecessors(n)' = Predecessors(n)
          /\ \A p, n : EdgeBytes(p, n)' = EdgeBytes(p, n)
      BY <1>1 DEF GraphNodes, Predecessors, EdgeBytes
    <2>2. ScheduleSound(placed)' = ScheduleSound(w) /\ FeasibleIn(placed)' = FeasibleIn(w)
      BY <2>1 DEF ScheduleSound, FeasibleIn
    <2>3. /\ \A n : DataReadyIn(placed, n)' = DataReadyIn(w, n)
          /\ \A n : StartIn(placed, n)' = StartIn(w, n)
          /\ \A d : Available(placed, d)' = Available(w, d)
          /\ WaitingIn(placed)' = WaitingIn(w)
      BY <1>1, <2>1 DEF DataReadyIn, StartIn, Available, WaitingIn
    <2>4. EagerIn(placed)' = EagerIn(w)
      BY <2>3 DEF EagerIn, BusyIn
    <2>5. NobodyIsLate(placed)' = NobodyIsLate(w)
      BY <1>1, <2>3 DEF NobodyIsLate, BusyIn
    <2> QED BY <1>9, <2>2, <2>4, <2>5
  <1> QED BY <1>1, <1>10 DEF RefIInv

(* The reference is feasible and delays no node for nothing, for every      *)
(* graph: a gap before a node would have been taken by it when the node     *)
(* after the gap was chosen, as starts never decrease.                      *)
THEOREM ReferenceIsAlwaysEager == ListSpec => []ReferenceIsEager
  <1>1. ListInit => RefIInv
    BY NothingIsLate DEF ListInit, RefIInv
  <1>2. RefIInv /\ [ListNext]_listVars => RefIInv'
    <2> SUFFICES ASSUME RefIInv, [ListNext]_listVars PROVE RefIInv'
      OBVIOUS
    <2>1. ASSUME PlaceReference PROVE RefIInv'
      BY <2>1, PlaceReferenceKeepsIt
    <2>2. ASSUME graph' = graph /\ placed' = placed PROVE
             ScheduleSound(placed)' /\ FeasibleIn(placed)' /\ EagerIn(placed)'
      BY <2>2 DEF RefIInv, ScheduleSound, FeasibleIn, EagerIn, DataReadyIn, BusyIn, GraphNodes,
                  Predecessors, EdgeBytes
    <2>3. ASSUME UNCHANGED <<graph, planned, placed>>, NobodyIsLate(placed)
          PROVE  NobodyIsLate(placed)'
      <3>1. /\ GraphNodes' = GraphNodes /\ \A n : Predecessors(n)' = Predecessors(n)
            /\ \A p, n : EdgeBytes(p, n)' = EdgeBytes(p, n)
        BY <2>3 DEF GraphNodes, Predecessors, EdgeBytes
      <3>2. /\ \A n : DataReadyIn(placed, n)' = DataReadyIn(placed, n)
            /\ \A n : StartIn(placed, n)' = StartIn(placed, n)
            /\ \A d : Available(placed, d)' = Available(placed, d)
            /\ WaitingIn(placed)' = WaitingIn(placed)
        BY <2>3, <3>1 DEF DataReadyIn, StartIn, Available, WaitingIn
      <3> QED BY <2>3, <3>2 DEF NobodyIsLate, BusyIn
    <2>4. ASSUME MapNode PROVE RefIInv'
      BY <2>2, <2>4 DEF MapNode, RefIInv
    <2>5. ASSUME StartReference PROVE RefIInv'
      <3>1. NobodyIsLate(placed)
        BY <2>5, NothingIsLate DEF StartReference, RefIInv
      <3> QED BY <2>2, <2>3, <2>5, <3>1 DEF StartReference, RefIInv
    <2>6. ASSUME FinishReference PROVE RefIInv'
      BY <2>2, <2>6 DEF FinishReference, RefIInv
    <2>7. ASSUME UNCHANGED listVars PROVE RefIInv'
      BY <2>2, <2>3, <2>7 DEF listVars, RefIInv
    <2> QED BY <2>1, <2>4, <2>5, <2>6, <2>7 DEF ListNext
  <1>3. RefIInv => ReferenceIsEager
    BY EagerReference DEF RefIInv
  <1> QED BY <1>1, <1>2, <1>3, PTL DEF ListSpec

-----------------------------------------------------------------------------
(* Conditional graphs                                                       *)

(* The nodes that are in the order,                                         *)
Ordered == {order[k] : k \in 1 .. Len(order)}
(* the edges into a node from one that is not yet,                          *)
Open(n) == {e \in Into(n) : cdag.edges[e].from \notin Ordered}
(* and the nodes that were ever queued, a sequence that begins with those.  *)
EverQueued == order \o queued

(* The invariant of the topological sort: no node is queued twice, every    *)
(* predecessor of one is in the order and before it, and the indegree of a  *)
(* node counts its open edges.                                              *)
SortSound ==
    /\ order \in Seq(Nodes) /\ queued \in Seq(Nodes)
    /\ indegree = [n \in Nodes |-> Cardinality(Open(n))]
    /\ \A i, k \in DOMAIN EverQueued : EverQueued[i] = EverQueued[k] => i = k
    /\ \A i \in DOMAIN EverQueued, e \in Edges : cdag.edges[e].to = EverQueued[i] =>
          \E k \in 1 .. Len(order) : k < i /\ order[k] = cdag.edges[e].from

(* The order has every node once and the edges go forward in it.            *)
Positions(pos) ==
    /\ pos \in [Nodes -> 1 .. Len(order)]
    /\ \A n \in Nodes : order[pos[n]] = n
    /\ \A k \in 1 .. Len(order) : pos[order[k]] = k
    /\ \A e \in Edges : pos[cdag.edges[e].from] < pos[cdag.edges[e].to]
(* There is such an order, and there are no edges to elsewhere.             *)
Topological ==
    /\ order \in Seq(Nodes) /\ ~InvalidEndpoints
    /\ \E pos : Positions(pos)

(* The finish of a over the edge e, from a node that finishes at d.         *)
Over(a, e, d) == d + cdag.edges[e].transfer + cdag.wcet[a]

(* In the assignment m, f has the finish of the roots and, for the edges    *)
(* that leave a node of D, a finish no earlier than over the edge.          *)
Finishes(f, m, D) ==
    /\ f \in [Nodes -> SUBSET Nat]
    /\ \A n \in Nodes : \A c, d \in f[n] : c = d
    /\ \A r \in Roots : f[r] = {cdag.wcet[r]}
    /\ \A a \in D, n \in Nodes : \A e \in Links(m, a, n), d \in f[a] :
          \E c \in f[n] : c >= Over(n, e, d)

(* The finish of n is that over an edge from a.                             *)
FinishVia(f, m, a, n) == \E d \in f[a] : \E e \in Links(m, a, n) : f[n] = {Over(n, e, d)}

(* The predecessors lead back to a root.                                    *)
Backtracks(f, pre, m, D) ==
    /\ pre \in [Nodes -> SUBSET Nodes]
    /\ \A n \in Nodes : \A p, q \in pre[n] : p = q
    /\ \A n \in Nodes : pre[n] = {} => n \in Roots \/ f[n] = {}
    /\ \A n \in Nodes : \A p \in pre[n] : p \in D /\ FinishVia(f, m, p, n)

(* The nodes relaxed so far.                                                *)
Relaxed == {order[k] : k \in 1 .. at - 1}
(* No active edge from a relaxed node is better than the finish it leads    *)
(* to, and every finish is attained over an edge from a relaxed node.       *)
RelaxSound ==
    /\ at \in 1 .. Len(order) + 1
    /\ Finishes(distance, mask, Relaxed)
    /\ Backtracks(distance, predecessor, mask, Relaxed)

(* A path from a root along the edges that give its nodes their finish.     *)
Tight(f, m, p) ==
    /\ p \in Seq(Nodes) /\ p # <<>> /\ p[1] \in Roots
    /\ \A k \in 2 .. Len(p) : FinishVia(f, m, p[k - 1], p[k])

(* Such a path and the greatest finish it ends with.                        *)
LongestBy(f, m, s) ==
    /\ Finishes(f, m, Nodes) /\ Tight(f, m, s.path)
    /\ f[s.path[Len(s.path)]] = {s.response}
    /\ \A n \in Nodes : \A d \in f[n] : d <= s.response
(* What was found of a scenario that has been reported.                     *)
Longest(m, s) == \E f : LongestBy(f, m, s)

(* A report.                                                                *)
Scenario == [response : Nat, path : Seq(Nodes)]

(* The scenarios reported so far are longest paths, one per assignment.     *)
CdagSound ==
    /\ scenarios \in Seq(Scenario) /\ mask = Len(scenarios)
    /\ \A k \in 1 .. Len(scenarios) : Longest(k - 1, scenarios[k])
    /\ scenarios # <<>> => Topological
    /\ outcome = "Ok" => mask = 2^Cardinality(ConditionIds)

(* What each stage leaves to the next.                                      *)
StageSound ==
    /\ cstage \in {"sort", "branches"} =>
          scenarios = <<>> /\ at = 1 /\ predecessor = [n \in Nodes |-> {}]
    /\ cstage = "sort" => SortSound /\ ~InvalidEndpoints
    /\ cstage \in {"branches", "relax"} => Topological
    /\ cstage = "relax" => RelaxSound

(* The inductive invariant.                                                 *)
CdagIInv ==
    /\ cdag \in ConditionalGraphs
    /\ cstage \in {"sort", "branches", "relax", "done"}
    /\ outcome # "NoReachableSink" /\ (cstage # "done" => outcome = "")
    /\ cdag.wcet = <<>> => cstage = "done"
    /\ cdag.wcet # <<>> => CdagSound /\ StageSound

-----------------------------------------------------------------------------
(* The graph                                                                *)

(* Nodes and edges are finite and times natural.                            *)
LEMMA CdagFacts ==
    ASSUME cdag \in ConditionalGraphs
    PROVE  /\ Nodes = 1 .. Len(cdag.wcet) /\ Len(cdag.wcet) \in Nat
           /\ IsFiniteSet(Nodes) /\ Nodes \subseteq Nat
           /\ IsFiniteSet(Edges)
           /\ \A n \in Nodes : cdag.wcet[n] \in Nat
           /\ \A e \in Edges : cdag.edges[e].transfer \in Nat
           /\ \A n : From(n) \subseteq Edges /\ Into(n) \subseteq Edges
                     /\ IsFiniteSet(From(n)) /\ IsFiniteSet(Into(n))
           /\ cdag.wcet = <<>> <=> Nodes = {}
  <1>1. cdag.wcet \in Seq(Nat)
        /\ cdag.edges \in Seq([from : Nat, to : Nat, transfer : Nat,
                               cond : SUBSET [id : Nat, expected : BOOLEAN]])
    BY CdagAssumption DEF IsConditionalGraph
  <1>2. Nodes = 1 .. Len(cdag.wcet) /\ Len(cdag.wcet) \in Nat /\ Nodes \subseteq Nat
        /\ \A n \in Nodes : cdag.wcet[n] \in Nat
    BY <1>1 DEF Nodes
  <1>3. Edges = 1 .. Len(cdag.edges) /\ Len(cdag.edges) \in Nat
        /\ \A e \in Edges : cdag.edges[e].transfer \in Nat
    <2> DEFINE Edge == [from : Nat, to : Nat, transfer : Nat,
                        cond : SUBSET [id : Nat, expected : BOOLEAN]]
    <2>1. \A edge \in Edge : edge.transfer \in Nat
      OBVIOUS
    <2> HIDE DEF Edge
    <2>2. cdag.edges \in Seq(Edge)
      BY <1>1 DEF Edge
    <2>3. \A e \in 1 .. Len(cdag.edges) : cdag.edges[e] \in Edge
      BY <2>2, ElementOfSequence
    <2> QED BY <2>1, <2>2, <2>3 DEF Edges
  <1>4. IsFiniteSet(Nodes) /\ IsFiniteSet(Edges)
    BY <1>2, <1>3, FS_Interval
  <1>5. \A n : From(n) \subseteq Edges /\ Into(n) \subseteq Edges
    BY DEF From, Into
  <1>6. \A n : IsFiniteSet(From(n)) /\ IsFiniteSet(Into(n))
    BY <1>4, <1>5, FS_Subset
  <1>7. cdag.wcet = <<>> <=> Nodes = {}
    <2>1. cdag.wcet = <<>> <=> Len(cdag.wcet) = 0
      BY <1>1
    <2>2. Len(cdag.wcet) # 0 => 1 \in Nodes
      BY <1>2
    <2> QED BY <1>2, <2>1, <2>2
  <1> QED BY <1>2, <1>3, <1>4, <1>5, <1>6, <1>7

(* Edges whose endpoints exist lead from node to node.                      *)
LEMMA EndpointsAreNodes ==
    ASSUME ~InvalidEndpoints
    PROVE  \A e \in Edges : cdag.edges[e].from \in Nodes /\ cdag.edges[e].to \in Nodes
  BY DEF InvalidEndpoints

(* A link is an edge into a node that its assignment takes.                 *)
LEMMA LinksAreEdges ==
    \A m, a, b : \A e \in Links(m, a, b) :
        /\ e \in Edges /\ e \in From(a) /\ e \in Into(b)
        /\ cdag.edges[e].from = a /\ cdag.edges[e].to = b /\ Takes(m, e)
  BY DEF Links, From, Into

(* While the graph stays the same so does all that is said of it.           *)
LEMMA SameGraph ==
    ASSUME cdag' = cdag
    PROVE  /\ Nodes' = Nodes /\ Edges' = Edges /\ Roots' = Roots
           /\ \A n : From(n)' = From(n) /\ Into(n)' = Into(n)
           /\ ConditionIds' = ConditionIds
           /\ \A m, a, b : Links(m, a, b)' = Links(m, a, b)
           /\ InvalidEndpoints' = InvalidEndpoints
  <1>1. Nodes' = Nodes /\ Edges' = Edges
    BY DEF Nodes, Edges
  <1>2. \A n : From(n)' = From(n) /\ Into(n)' = Into(n)
    BY <1>1 DEF From, Into
  <1>3. Roots' = Roots
    BY <1>1, <1>2 DEF Roots
  <1>4. Literals(Edges)' = Literals(Edges)
    BY <1>1 DEF Literals
  <1>5. ConditionIds' = ConditionIds
    BY <1>4 DEF ConditionIds
  <1>6. \A m, id : Value(m, id)' = Value(m, id)
    BY <1>5 DEF Value
  <1>7. \A m, e : Takes(m, e)' = Takes(m, e)
    BY <1>6 DEF Takes
  <1>8. \A m, a, b : Links(m, a, b)' = Links(m, a, b)
    BY <1>2, <1>7 DEF Links
  <1>9. InvalidEndpoints' = InvalidEndpoints
    BY <1>1 DEF InvalidEndpoints
  <1> QED BY <1>1, <1>2, <1>3, <1>5, <1>8, <1>9

(* So the same functions are finishes of its nodes,                         *)
LEMMA SameFinishes ==
    ASSUME cdag' = cdag
    PROVE  \A f, m, D : Finishes(f, m, D)' = Finishes(f, m, D)
  BY SameGraph DEF Finishes, Over

(* attained over the same nodes,                                            *)
LEMMA SameVia ==
    ASSUME cdag' = cdag
    PROVE  \A f, m, a, n : FinishVia(f, m, a, n)' = FinishVia(f, m, a, n)
  BY SameGraph DEF FinishVia, Over

(* and what was a longest path is still one.                                *)
LEMMA SameLongest ==
    ASSUME cdag' = cdag
    PROVE  \A m, s : Longest(m, s)' = Longest(m, s)
  <1>1. \A f, m, p : Tight(f, m, p)' = Tight(f, m, p)
    BY SameGraph, SameVia DEF Tight
  <1>2. Nodes' = Nodes
    BY SameGraph
  <1>3. \A f, m, s : LongestBy(f, m, s)' = LongestBy(f, m, s)
    BY <1>1, <1>2, SameFinishes DEF LongestBy
  <1> QED BY <1>3 DEF Longest

(* A topological order stays one as well.                                   *)
LEMMA SameTopological ==
    ASSUME cdag' = cdag, order' = order
    PROVE  Topological' = Topological
  <1>1. \A pos : Positions(pos)' = Positions(pos)
    BY SameGraph DEF Positions
  <1> QED BY <1>1, SameGraph DEF Topological

-----------------------------------------------------------------------------
(* The topological sort                                                     *)

(* Arguments in the order of different values are different.                *)
LEMMA InOrderIsDistinct ==
    ASSUME NEW key, IsFiniteSet(DOMAIN key), \A x \in DOMAIN key : key[x] \in Int,
           NEW s \in InOrderOf(key)
    PROVE  s \in Seq(DOMAIN key) /\ \A i, k \in DOMAIN s : s[i] = s[k] => i = k
  <1>1. Cardinality(DOMAIN key) \in Nat
    BY FS_CardinalityType
  <1> PICK c \in Nat : c = Cardinality(DOMAIN key)
    BY <1>1
  <1>2. s \in [1 .. c -> DOMAIN key]
        /\ \A i, k \in DOMAIN s : i < k => key[s[i]] < key[s[k]]
    BY DEF InOrderOf
  <1>3. s \in Seq(DOMAIN key) /\ DOMAIN s = 1 .. c
    BY <1>2
  <1>4. ASSUME NEW i \in 1 .. c, NEW k \in 1 .. c, s[i] = s[k], i # k PROVE FALSE
    <2>1. i < k \/ k < i
      BY <1>4
    <2>2. key[s[i]] < key[s[k]] \/ key[s[k]] < key[s[i]]
      BY <1>2, <1>3, <2>1
    <2>3. key[s[i]] \in Int /\ key[s[k]] = key[s[i]]
      BY <1>2, <1>4
    <2> QED BY <2>2, <2>3
  <1> QED BY <1>3, <1>4

(* A sequence is what it has at its places.                                 *)
LEMMA SequenceIsFunction ==
    ASSUME NEW V, NEW s \in Seq(V)
    PROVE  s = [i \in 1 .. Len(s) |-> s[i]]
  <1>1. s \in UNION {[1 .. n -> V] : n \in Nat}
    OBVIOUS
  <1>2. PICK n \in Nat : s \in [1 .. n -> V]
    BY <1>1
  <1>3. Len(s) = n
    BY <1>2
  <1> QED BY <1>2, <1>3

(* The head of t moves to the end of s and u is added to t.                 *)
MovesOn(V, s, t, u) ==
    /\ Append(s, Head(t)) \o (Tail(t) \o u) = (s \o t) \o u
    /\ Head(t) \in V /\ Tail(t) \in Seq(V)
    /\ Head(t) = (s \o t)[Len(s) + 1] /\ Len(s) + 1 \in DOMAIN (s \o t)

(* That leaves what the two are together in its place.                      *)
LEMMA MovingOn ==
    ASSUME NEW V, NEW s \in Seq(V), NEW t \in Seq(V), NEW u \in Seq(V), t # <<>>
    PROVE  MovesOn(V, s, t, u)
  <1>1. Len(t) \in Nat \ {0} /\ Len(s) \in Nat /\ Len(u) \in Nat
    OBVIOUS
  <1>2. Head(t) \in V /\ Tail(t) \in Seq(V) /\ Len(Tail(t)) = Len(t) - 1
        /\ Head(t) = t[1] /\ \A i \in 1 .. Len(t) - 1 : Tail(t)[i] = t[i + 1]
    BY <1>1
  <1> PICK h \in V : h = Head(t)
    BY <1>2
  <1> PICK r \in Seq(V) : r = Tail(t)
    BY <1>2
  <1>3. Append(s, h) \in Seq(V) /\ Len(Append(s, h)) = Len(s) + 1
        /\ Append(s, h)[Len(s) + 1] = h /\ \A i \in 1 .. Len(s) : Append(s, h)[i] = s[i]
    BY <1>1
  <1> PICK a \in Seq(V) : a = Append(s, h)
    BY <1>3
  <1>4. r \o u \in Seq(V) /\ Len(r \o u) = Len(r) + Len(u)
        /\ \A i \in 1 .. Len(r) + Len(u) : (r \o u)[i] = IF i <= Len(r) THEN r[i] ELSE u[i - Len(r)]
    OBVIOUS
  <1> PICK b \in Seq(V) : b = r \o u
    BY <1>4
  <1>5. s \o t \in Seq(V) /\ Len(s \o t) = Len(s) + Len(t)
        /\ \A i \in 1 .. Len(s) + Len(t) : (s \o t)[i] = IF i <= Len(s) THEN s[i] ELSE t[i - Len(s)]
    OBVIOUS
  <1> PICK c \in Seq(V) : c = s \o t
    BY <1>5
  <1>6. a \o b \in Seq(V) /\ Len(a \o b) = Len(a) + Len(b)
        /\ \A i \in 1 .. Len(a) + Len(b) : (a \o b)[i] = IF i <= Len(a) THEN a[i] ELSE b[i - Len(a)]
    OBVIOUS
  <1>7. c \o u \in Seq(V) /\ Len(c \o u) = Len(c) + Len(u)
        /\ \A i \in 1 .. Len(c) + Len(u) : (c \o u)[i] = IF i <= Len(c) THEN c[i] ELSE u[i - Len(c)]
    OBVIOUS
  <1>8. Len(a \o b) = Len(c \o u)
    BY <1>1, <1>2, <1>3, <1>4, <1>5, <1>6, <1>7
  <1>9. ASSUME NEW i \in 1 .. Len(s) + Len(t) + Len(u) PROVE (a \o b)[i] = (c \o u)[i]
    <2>1. CASE i <= Len(s)
      BY <2>1, <1>1, <1>2, <1>3, <1>4, <1>5, <1>6, <1>7
    <2>2. CASE i = Len(s) + 1
      BY <2>2, <1>1, <1>2, <1>3, <1>4, <1>5, <1>6, <1>7
    <2>3. CASE i > Len(s) + 1 /\ i <= Len(s) + Len(t)
      BY <2>3, <1>1, <1>2, <1>3, <1>4, <1>5, <1>6, <1>7
    <2>4. CASE i > Len(s) + Len(t)
      BY <2>4, <1>1, <1>2, <1>3, <1>4, <1>5, <1>6, <1>7
    <2> QED BY <1>1, <2>1, <2>2, <2>3, <2>4
  <1>10. Len(a \o b) = Len(s) + Len(t) + Len(u)
    BY <1>1, <1>2, <1>3, <1>4, <1>5, <1>6
  <1>11. a \o b = c \o u
    <2> PICK x \in Seq(V) : x = a \o b
      BY <1>6
    <2> PICK y \in Seq(V) : y = c \o u
      BY <1>7
    <2>1. Len(x) = Len(y) /\ \A i \in 1 .. Len(x) : x[i] = y[i]
      BY <1>8, <1>9, <1>10
    <2>2. x = [i \in 1 .. Len(x) |-> x[i]] /\ y = [i \in 1 .. Len(y) |-> y[i]]
      BY SequenceIsFunction
    <2>3. [i \in 1 .. Len(x) |-> x[i]] = [i \in 1 .. Len(y) |-> y[i]]
      BY <2>1
    <2> QED BY <2>2, <2>3
  <1>12. c[Len(s) + 1] = h /\ Len(s) + 1 \in 1 .. Len(c)
    BY <1>1, <1>2, <1>5
  <1>13. DOMAIN c = 1 .. Len(c)
    OBVIOUS
  <1> QED BY <1>2, <1>11, <1>12, <1>13 DEF MovesOn

(* At first every node without a predecessor is queued.                     *)
LEMMA StartIsSorted ==
    ASSUME cdag \in ConditionalGraphs, CdagStart(cdag)
    PROVE  SortSound
  <1> DEFINE key == [n \in Roots |-> n]
  <1>1. order = <<>> /\ queued \in InOrderOf(key) /\ indegree = [n \in Nodes |-> Cardinality(Into(n))]
    BY DEF CdagStart
  <1>2. Roots \subseteq Nodes /\ DOMAIN key = Roots /\ \A n \in Roots : Into(n) = {}
    BY DEF Roots
  <1>3. IsFiniteSet(Roots) /\ \A n \in Roots : key[n] \in Int
    <2>1. IsFiniteSet(Nodes) /\ Nodes \subseteq Nat
      BY CdagFacts
    <2>2. IsFiniteSet(Roots)
      BY <1>2, <2>1, FS_Subset
    <2>3. \A n \in Roots : n \in Int
      BY <1>2, <2>1
    <2> QED BY <2>2, <2>3
  <1> HIDE DEF key
  <1>4. queued \in Seq(Roots) /\ \A i, k \in DOMAIN queued : queued[i] = queued[k] => i = k
    BY <1>1, <1>2, <1>3, InOrderIsDistinct
  <1>5. queued \in Seq(Nodes) /\ \A i \in DOMAIN queued : queued[i] \in Roots
    BY <1>2, <1>4
  <1>6. EverQueued = queued
    BY <1>1, <1>5 DEF EverQueued
  <1>7. \A n : Open(n) = Into(n)
    BY <1>1 DEF Open, Ordered
  <1>8. \A i \in DOMAIN queued, e \in Edges : cdag.edges[e].to # queued[i]
    BY <1>2, <1>5 DEF Into
  <1> QED BY <1>1, <1>4, <1>5, <1>6, <1>7, <1>8 DEF SortSound

(* The nodes that are freed follow the queue: each was in it never before,  *)
(* because it had an edge from a node not in the order, and has none now.   *)
LEMMA PopKeepsSorted ==
    ASSUME cdag \in ConditionalGraphs, ~InvalidEndpoints, SortSound, PopNode
    PROVE  SortSound'
  <1> DEFINE node == Head(queued)
             met(n) == From(node) \cap Into(n)
             left == [n \in Nodes |-> indegree[n] - Cardinality(met(n))]
             freed == {n \in Nodes : indegree[n] > 0 /\ left[n] = 0}
             lastEdge == [n \in freed |-> Max(met(n))]
  <1>1. /\ indegree' = left /\ order' = Append(order, node) /\ queued # <<>> /\ cdag' = cdag
        /\ \E next \in InOrderOf(lastEdge) : queued' = Tail(queued) \o next
    BY DEF PopNode
  <1> PICK next \in InOrderOf(lastEdge) : queued' = Tail(queued) \o next
    BY <1>1
  <1>2. order \in Seq(Nodes) /\ queued \in Seq(Nodes)
        /\ indegree = [n \in Nodes |-> Cardinality(Open(n))]
    BY DEF SortSound
  <1>3. /\ EverQueued \in Seq(Nodes) /\ Len(EverQueued) \in Nat
        /\ DOMAIN EverQueued = 1 .. Len(EverQueued)
        /\ Len(EverQueued) = Len(order) + Len(queued) /\ Len(order) \in Nat /\ Len(queued) \in Nat
        /\ \A k \in 1 .. Len(order) : EverQueued[k] = order[k]
    BY <1>2 DEF EverQueued
  <1>4. node \in Nodes /\ Tail(queued) \in Seq(Nodes) /\ node = EverQueued[Len(order) + 1]
        /\ Len(order) + 1 \in 1 .. Len(EverQueued)
    <2>1. node \in Nodes /\ Tail(queued) \in Seq(Nodes) /\ node = (order \o queued)[Len(order) + 1]
          /\ Len(order) + 1 \in DOMAIN (order \o queued)
      <3>1. MovesOn(Nodes, order, queued, order)
        BY <1>1, <1>2, MovingOn
      <3> QED BY <3>1 DEF MovesOn
    <2> QED BY <1>3, <2>1 DEF EverQueued
  <1>5. /\ \A n : IsFiniteSet(Into(n)) /\ Open(n) \subseteq Into(n) /\ met(n) \subseteq Into(n)
                  /\ IsFiniteSet(Open(n)) /\ IsFiniteSet(met(n))
        /\ \A n : met(n) \subseteq Edges
        /\ Edges \subseteq Nat
    <2>1. \A n : Open(n) \subseteq Into(n) /\ met(n) \subseteq Into(n) /\ met(n) \subseteq Edges
      BY DEF Open, Into
    <2>2. \A n : IsFiniteSet(Into(n))
      BY CdagFacts
    <2>3. \A n : IsFiniteSet(Open(n)) /\ IsFiniteSet(met(n))
      BY <2>1, <2>2, FS_Subset
    <2>4. Edges \subseteq Nat
      <3>1. cdag.edges \in Seq([from : Nat, to : Nat, transfer : Nat,
                               cond : SUBSET [id : Nat, expected : BOOLEAN]])
        BY CdagAssumption DEF IsConditionalGraph
      <3> QED BY <3>1 DEF Edges
    <2> QED BY <2>1, <2>2, <2>3, <2>4
  <1>6. node \notin Ordered /\ Ordered' = Ordered \cup {node}
    <2>1. ASSUME NEW k \in 1 .. Len(order), order[k] = node PROVE FALSE
      <3>1. EverQueued[k] = EverQueued[Len(order) + 1] /\ k \in DOMAIN EverQueued
        BY <1>3, <1>4, <2>1
      <3>2. k = Len(order) + 1
        BY <1>3, <1>4, <3>1 DEF SortSound
      <3> QED BY <1>3, <3>2
    <2>2. Len(order') = Len(order) + 1 /\ order'[Len(order) + 1] = node
          /\ \A k \in 1 .. Len(order) : order'[k] = order[k]
      BY <1>1, <1>2, <1>3, <1>4
    <2> HIDE DEF node
    <2>3. \A k \in 1 .. Len(order) + 1 : k \in 1 .. Len(order) \/ k = Len(order) + 1
      BY <1>3
    <2>4. \A k \in 1 .. Len(order) : k \in 1 .. Len(order) + 1
      BY <1>3
    <2>5. Len(order) + 1 \in 1 .. Len(order) + 1
      BY <1>3
    <2>6. Ordered' = {order'[k] : k \in 1 .. Len(order) + 1}
      BY <2>2 DEF Ordered
    <2>7. ASSUME NEW x PROVE x \in Ordered' <=> x \in Ordered \cup {node}
      BY <2>2, <2>3, <2>4, <2>5, <2>6 DEF Ordered
    <2> QED BY <2>1, <2>7 DEF Ordered
  <1>7. \A n : Open(n)' = Open(n) \ met(n) /\ met(n) \subseteq Open(n)
    <2>1. \A n : Into(n)' = Into(n) /\ \A e : cdag'.edges[e].from = cdag.edges[e].from
      BY <1>1, SameGraph
    <2>2. \A n, e : e \in met(n) <=> e \in Into(n) /\ cdag.edges[e].from = node
      BY DEF From, Into
    <2> HIDE DEF met, node
    <2> QED BY <1>6, <2>1, <2>2 DEF Open
  <1>8. \A n \in Nodes : left[n] = Cardinality(Open(n)')
    <2> TAKE n \in Nodes
    <2> PICK A : A = Open(n)
      OBVIOUS
    <2> PICK B : B = met(n)
      OBVIOUS
    <2>1. A \cap B = B /\ Open(n)' = A \ B
      BY <1>7
    <2>2. IsFiniteSet(A)
      BY <1>5
    <2>3. Cardinality(A \ B) = Cardinality(A) - Cardinality(A \cap B)
      BY <2>2, FS_Difference, Zenon
    <2>4. left[n] = indegree[n] - Cardinality(B)
      OBVIOUS
    <2> QED BY <1>2, <2>1, <2>3, <2>4
  <1>9. \A n \in freed : Open(n) # {} /\ Open(n)' = {} /\ met(n) # {}
    <2> TAKE n \in freed
    <2>1. n \in Nodes /\ Cardinality(Open(n)) > 0 /\ Cardinality(Open(n)') = 0
      BY <1>2, <1>8
    <2>2. IsFiniteSet(Open(n)')
      BY <1>5, <1>7, FS_Difference
    <2>3. Open(n)' = {}
      BY <2>1, <2>2, FS_EmptySet
    <2>4. Open(n) = {} => Cardinality(Open(n)) = 0
      BY FS_EmptySet
    <2> QED BY <1>7, <2>1, <2>3, <2>4
  <1>10. next \in Seq(freed) /\ \A i, k \in DOMAIN next : next[i] = next[k] => i = k
    <2>1. DOMAIN lastEdge = freed /\ freed \subseteq Nodes
      OBVIOUS
    <2>2. IsFiniteSet(freed)
      <3> HIDE DEF freed
      <3> QED BY <2>1, CdagFacts, FS_Subset
    <2>3. \A n \in freed : lastEdge[n] \in Int
      <3> TAKE n \in freed
      <3>1. met(n) \in SUBSET Int /\ IsFiniteSet(met(n)) /\ met(n) # {}
        <4> HIDE DEF met
        <4>1. met(n) \subseteq Nat
          BY <1>5
        <4> QED BY <1>5, <1>9, <4>1
      <3>2. Max(met(n)) \in Int
        <4> HIDE DEF met
        <4> QED BY <3>1, Greatest
      <3>3. lastEdge[n] = Max(met(n))
        <4> HIDE DEF met
        <4> QED OBVIOUS
      <3> QED BY <3>2, <3>3
    <2> HIDE DEF freed, lastEdge
    <2> QED BY <2>1, <2>2, <2>3, InOrderIsDistinct
  <1>11. freed \subseteq Nodes
    OBVIOUS
  <1>12. next \in Seq(Nodes)
    <2> HIDE DEF freed, lastEdge
    <2> QED BY <1>10, <1>11
  <1>13. EverQueued' = EverQueued \o next /\ order' \in Seq(Nodes) /\ queued' \in Seq(Nodes)
    <2>0. queued # <<>> /\ order' = Append(order, Head(queued)) /\ queued' = Tail(queued) \o next
      BY <1>1
    <2> HIDE DEF freed, lastEdge, left, met
    <2> PICK added \in Seq(Nodes) : added = next
      BY <1>12
    <2> PICK old \in Seq(Nodes) : old = order
      BY <1>2
    <2> PICK rest \in Seq(Nodes) : rest = queued
      BY <1>2
    <2> rest # <<>>
      BY <2>0
    <2> MovesOn(Nodes, old, rest, added)
      BY MovingOn
    <2>1. /\ Append(old, Head(rest)) \o (Tail(rest) \o added) = (old \o rest) \o added
          /\ Head(rest) \in Nodes /\ Tail(rest) \in Seq(Nodes)
      BY DEF MovesOn
    <2>2. order' = Append(old, Head(rest)) /\ queued' = Tail(rest) \o added
      BY <2>0
    <2>3. EverQueued' = EverQueued \o next
      BY <2>1, <2>2 DEF EverQueued
    <2> QED BY <2>1, <2>2, <2>3
  <1> PICK w \in Seq(Nodes) : w = EverQueued
    BY <1>3
  <1> PICK len \in Nat : len = Len(w) /\ DOMAIN w = 1 .. len
    OBVIOUS
  <1> HIDE DEF node, met, left, freed, lastEdge
  <1>14. next \in Seq(Nodes) /\ Len(next) \in Nat /\ DOMAIN next = 1 .. Len(next)
         /\ \A k \in 1 .. Len(next) : next[k] \in freed
    <2>1. \A k \in 1 .. Len(next) : next[k] \in freed
      BY <1>10, ElementOfSequence
    <2> QED BY <1>12, <2>1
  <1>15. /\ DOMAIN EverQueued' = 1 .. len + Len(next)
         /\ \A i \in 1 .. len : EverQueued'[i] = w[i]
         /\ \A i \in len + 1 .. len + Len(next) :
               EverQueued'[i] = next[i - len] /\ i - len \in 1 .. Len(next)
    <2>1. EverQueued' = w \o next
      BY <1>13
    <2>2. /\ DOMAIN (w \o next) = 1 .. len + Len(next)
          /\ \A i \in 1 .. len : (w \o next)[i] = w[i]
          /\ \A i \in len + 1 .. len + Len(next) :
               (w \o next)[i] = next[i - len] /\ i - len \in 1 .. Len(next)
      BY <1>14
    <2> QED BY <2>1, <2>2
  <1>16. \A i \in 1 .. len, e \in Edges : cdag.edges[e].to = w[i] =>
            \E k \in 1 .. Len(order) : k < i /\ order[k] = cdag.edges[e].from
    BY DEF SortSound
  <1>17. \A i \in 1 .. len : Open(w[i]) = {}
    BY <1>16 DEF Open, Ordered, Into
  <1>18. \A i, k \in DOMAIN EverQueued' : EverQueued'[i] = EverQueued'[k] => i = k
    <2> SUFFICES ASSUME NEW i \in 1 .. len + Len(next), NEW k \in 1 .. len + Len(next),
                        EverQueued'[i] = EverQueued'[k]
                 PROVE  i = k
      BY <1>15
    <2>1. CASE i <= len /\ k <= len
      <3>1. w[i] = w[k] /\ i \in DOMAIN EverQueued /\ k \in DOMAIN EverQueued
        BY <1>15, <2>1
      <3> QED BY <3>1 DEF SortSound
    <2>2. CASE i <= len /\ k > len
      <3>1. w[i] \in freed /\ i \in 1 .. len
        BY <1>14, <1>15, <2>2
      <3> QED BY <1>9, <1>17, <3>1
    <2>3. CASE i > len /\ k <= len
      <3>1. w[k] \in freed /\ k \in 1 .. len
        BY <1>14, <1>15, <2>3
      <3> QED BY <1>9, <1>17, <3>1
    <2>4. CASE i > len /\ k > len
      <3>1. next[i - len] = next[k - len] /\ i - len \in DOMAIN next /\ k - len \in DOMAIN next
        BY <1>14, <1>15, <2>4
      <3>2. i - len = k - len
        BY <1>10, <3>1
      <3> QED BY <3>2
    <2> QED BY <2>1, <2>2, <2>3, <2>4
  <1>19. Len(order') = Len(order) + 1 /\ \A k \in 1 .. Len(order) : order'[k] = order[k]
    BY <1>1, <1>2, <1>3, <1>4
  <1>20. \A i \in DOMAIN EverQueued', e \in Edges : cdag.edges[e].to = EverQueued'[i] =>
            \E k \in 1 .. Len(order') : k < i /\ order'[k] = cdag.edges[e].from
    <2> SUFFICES ASSUME NEW i \in 1 .. len + Len(next), NEW e \in Edges,
                        cdag.edges[e].to = EverQueued'[i]
                 PROVE  \E k \in 1 .. Len(order') : k < i /\ order'[k] = cdag.edges[e].from
      BY <1>15
    <2>1. CASE i <= len
      <3>1. cdag.edges[e].to = w[i] /\ i \in 1 .. len
        BY <1>15, <2>1
      <3>2. PICK k \in 1 .. Len(order) : k < i /\ order[k] = cdag.edges[e].from
        BY <1>16, <3>1
      <3>3. k \in 1 .. Len(order') /\ order'[k] = order[k]
        BY <1>3, <1>19
      <3> QED BY <3>2, <3>3
    <2>2. CASE i > len
      <3> PICK n : n = EverQueued'[i]
        OBVIOUS
      <3>1. n \in freed
        BY <1>14, <1>15, <2>2
      <3>2. e \notin Open(n)' /\ e \in Into(n)' /\ cdag' = cdag
        BY <1>1, <1>9, <3>1, SameGraph DEF Into
      <3>3. cdag.edges[e].from \in Ordered'
        BY <3>2 DEF Open
      <3>4. PICK k \in 1 .. Len(order') : order'[k] = cdag.edges[e].from
        BY <3>3 DEF Ordered
      <3>5. k < i
        BY <1>3, <1>4, <1>19, <2>2
      <3> QED BY <3>4, <3>5
    <2> QED BY <2>1, <2>2
  <1>21. indegree' = [n \in Nodes' |-> Cardinality(Open(n)')]
    BY <1>1, <1>8, SameGraph DEF left
  <1>22. Nodes' = Nodes /\ Edges' = Edges /\ cdag' = cdag
    BY <1>1, SameGraph
  <1> QED BY <1>13, <1>18, <1>20, <1>21, <1>22 DEF SortSound

(* An order of all nodes that was queued one by one is topological.         *)
LEMMA SortedIsTopological ==
    ASSUME cdag \in ConditionalGraphs, ~InvalidEndpoints, SortSound,
           queued = <<>>, Len(order) = Len(cdag.wcet)
    PROVE  Topological
  <1> PICK len \in Nat : len = Len(order) /\ Nodes = 1 .. len
    BY CdagFacts
  <1>1. order \in Seq(Nodes) /\ DOMAIN order = 1 .. len /\ EverQueued = order
    <2>1. order \in Seq(Nodes)
      BY DEF SortSound
    <2>2. order \o <<>> = order
      BY <2>1
    <2> QED BY <2>1, <2>2 DEF EverQueued
  <1>2. order \in [1 .. len -> Nodes]
    BY <1>1
  <1>3. \A i, k \in 1 .. len : order[i] = order[k] => i = k
    BY <1>1 DEF SortSound
  <1>4. order \in Injection(1 .. len, Nodes)
    BY <1>2, <1>3 DEF Injection, IsInjective
  <1>5. IsFiniteSet(Nodes)
    BY CdagFacts
  <1>6. order \in Surjection(1 .. len, Nodes)
    BY <1>4, <1>5, FS_Injection
  <1>7. \A n \in Nodes : \E k \in 1 .. len : order[k] = n
    BY <1>6 DEF Surjection
  <1> DEFINE pos == [n \in Nodes |-> CHOOSE k \in 1 .. len : order[k] = n]
  <1>8. \A n \in Nodes : pos[n] \in 1 .. len /\ order[pos[n]] = n
    BY <1>7
  <1>9. pos \in [Nodes -> 1 .. len]
    BY <1>8
  <1> HIDE DEF pos
  <1>10. \A k \in 1 .. len : pos[order[k]] = k
    BY <1>2, <1>3, <1>8
  <1>11. \A e \in Edges : pos[cdag.edges[e].from] < pos[cdag.edges[e].to]
    <2> TAKE e \in Edges
    <2> PICK a \in Nodes : a = cdag.edges[e].from
      BY EndpointsAreNodes
    <2> PICK b \in Nodes : b = cdag.edges[e].to
      BY EndpointsAreNodes
    <2>1. pos[b] \in 1 .. len /\ order[pos[b]] = b
      BY <1>8
    <2>2. PICK k \in 1 .. len : k < pos[b] /\ order[k] = a
      BY <1>1, <2>1 DEF SortSound
    <2>3. pos[a] = k
      BY <1>10, <2>2
    <2> QED BY <2>2, <2>3
  <1> QED BY <1>1, <1>8, <1>9, <1>10, <1>11 DEF Topological, Positions

-----------------------------------------------------------------------------
(* Going forward and back                                                   *)

(* The links of an assignment go forward in a topological order.            *)
LEMMA LinksGoForward ==
    ASSUME NEW pos, Positions(pos)
    PROVE  \A m, a, b : Links(m, a, b) # {} => pos[a] < pos[b]
  BY LinksAreEdges DEF Positions

(* Of some nodes one is first in it,                                        *)
LEMMA FirstNode ==
    ASSUME NEW pos, Positions(pos), NEW S \in SUBSET Nodes, S # {}
    PROVE  \E n \in S : \A k \in S : ~(pos[k] < pos[n])
  <1> DEFINE places == {pos[n] : n \in S}
  <1>1. \A n \in S : pos[n] \in Nat
    BY DEF Positions
  <1>2. places \in SUBSET Nat /\ places # {}
    BY <1>1
  <1> HIDE DEF places
  <1>3. PICK i \in places : \A k \in places : i <= k
    BY <1>2, LeastNatural
  <1>4. PICK n \in S : pos[n] = i
    BY DEF places
  <1>5. \A k \in S : pos[k] \in places
    BY DEF places
  <1>6. \A k \in S : ~(pos[k] < pos[n])
    BY <1>1, <1>3, <1>4, <1>5
  <1> QED BY <1>6

(* and one last.                                                            *)
LEMMA LastNode ==
    ASSUME NEW pos, Positions(pos), NEW S \in SUBSET Nodes, S # {}, IsFiniteSet(S)
    PROVE  \E n \in S : \A k \in S : ~(pos[n] < pos[k])
  <1> DEFINE behind(n) == {k \in S : pos[n] < pos[k]}
             F == {behind(n) : n \in S}
  <1>1. \A n \in S : pos[n] \in Nat
    BY DEF Positions
  <1>2. F # {} /\ \A T \in F : IsFiniteSet(T)
    <2>1. F # {} /\ \A T \in F : T \in SUBSET S
      OBVIOUS
    <2> HIDE DEF F
    <2> QED BY <2>1, FS_Subset
  <1>3. PICK T \in F : \A U \in F : Cardinality(T) <= Cardinality(U)
    <2> HIDE DEF F
    <2> QED BY <1>2, SmallestSet
  <1>4. PICK n \in S : T = behind(n)
    OBVIOUS
  <1>5. ASSUME NEW k \in S, pos[n] < pos[k] PROVE FALSE
    <2>1. k \in T /\ behind(k) \in SUBSET (T \ {k})
      BY <1>1, <1>4, <1>5
    <2>2. behind(k) \in F
      OBVIOUS
    <2> HIDE DEF F, behind
    <2>3. Cardinality(behind(k)) < Cardinality(T)
      BY <1>2, <2>1, NotAsLarge
    <2>4. Cardinality(behind(k)) \in Nat /\ Cardinality(T) \in Nat
      BY <1>2, <2>2, FS_CardinalityType
    <2> QED BY <1>3, <2>2, <2>3, <2>4
  <1> QED BY <1>5

-----------------------------------------------------------------------------
(* The relaxation                                                           *)

(* What is over the links of an assignment from a to n when a finishes at   *)
(* one of the times D, a set of at most one.                                *)
Arrivals(m, a, n, D) == {Over(n, e, d) : d \in D, e \in Links(m, a, n)}

(* It is a finite set of naturals.                                          *)
LEMMA ArrivalsAreNatural ==
    ASSUME cdag \in ConditionalGraphs, NEW m, NEW a, NEW n \in Nodes,
           NEW D \in SUBSET Nat, \A c, d \in D : c = d
    PROVE  Arrivals(m, a, n, D) \in SUBSET Nat /\ IsFiniteSet(Arrivals(m, a, n, D))
  <1> DEFINE L == Links(m, a, n)
  <1>1. \A e \in L, d \in D : Over(n, e, d) \in Nat
    BY CdagFacts, LinksAreEdges DEF Over
  <1>2. Arrivals(m, a, n, D) \in SUBSET Nat
    BY <1>1 DEF Arrivals
  <1>3. CASE D = {}
    <2>1. Arrivals(m, a, n, D) = {}
      BY <1>3 DEF Arrivals
    <2> QED BY <1>2, <2>1, FS_EmptySet
  <1>4. CASE D # {}
    <2> PICK d \in D : D = {d}
      BY <1>4
    <2> DEFINE g == [e \in L |-> Over(n, e, d)]
    <2>1. Arrivals(m, a, n, D) = {g[e] : e \in L}
      BY DEF Arrivals
    <2>2. IsFiniteSet(L)
      <3>1. L \in SUBSET Edges
        BY LinksAreEdges
      <3> HIDE DEF L
      <3> QED BY <3>1, CdagFacts, FS_Subset
    <2> HIDE DEF L
    <2>3. g \in Surjection(L, {g[e] : e \in L})
      BY DEF Surjection
    <2> HIDE DEF g
    <2>4. IsFiniteSet({g[e] : e \in L})
      BY <2>2, <2>3, FS_Surjection
    <2> QED BY <1>2, <2>1, <2>4
  <1> QED BY <1>3, <1>4

(* A relaxation replaces the finish of the nodes it reaches later.          *)
LEMMA RelaxEffect ==
    ASSUME cdag \in ConditionalGraphs, RelaxNode, NEW node, node = order[at],
           NEW m, m = mask
    PROVE  /\ cdag' = cdag /\ order' = order /\ mask' = m /\ at' = at + 1 /\ at \in DOMAIN order
           /\ \A n \in Nodes :
                 LET via == Arrivals(m, node, n, distance[node])
                 IN \/ /\ \E c \in via : \A d \in distance[n] : c > d
                       /\ distance'[n] = {Max(via)} /\ predecessor'[n] = {node}
                    \/ /\ \A c \in via : \E d \in distance[n] : ~(c > d)
                       /\ distance'[n] = distance[n] /\ predecessor'[n] = predecessor[n]
           /\ distance' = [n \in Nodes |-> distance'[n]]
           /\ predecessor' = [n \in Nodes |-> predecessor'[n]]
  <1> DEFINE via(n) == {d + cdag.edges[e].transfer + cdag.wcet[n] :
                           d \in distance[node], e \in ActiveFrom(node) \cap Into(n)}
             improves(n) == \E c \in via(n) : \A d \in distance[n] : c > d
  <1>1. /\ distance' = [n \in Nodes |-> IF improves(n) THEN {Max(via(n))} ELSE distance[n]]
        /\ predecessor' = [n \in Nodes |-> IF improves(n) THEN {node} ELSE predecessor[n]]
        /\ at' = at + 1 /\ at \in DOMAIN order
        /\ cdag' = cdag /\ order' = order /\ mask' = m
    BY DEF RelaxNode, sortVars
  <1>2. \A n : ActiveFrom(node) \cap Into(n) = Links(m, node, n)
    BY DEF ActiveFrom, Active, Links
  <1>3. \A n : via(n) = Arrivals(m, node, n, distance[node])
    BY <1>2 DEF Arrivals, Over
  <1> HIDE DEF via
  <1>4. \A n \in Nodes :
           /\ improves(n) => distance'[n] = {Max(via(n))} /\ predecessor'[n] = {node}
           /\ ~improves(n) => distance'[n] = distance[n] /\ predecessor'[n] = predecessor[n]
    BY <1>1
  <1>5. /\ distance' = [n \in Nodes |-> distance'[n]]
        /\ predecessor' = [n \in Nodes |-> predecessor'[n]]
    BY <1>1
  <1>6. \A n \in Nodes :
           \/ improves(n) /\ distance'[n] = {Max(via(n))} /\ predecessor'[n] = {node}
           \/ /\ \A c \in via(n) : \E d \in distance[n] : ~(c > d)
              /\ distance'[n] = distance[n] /\ predecessor'[n] = predecessor[n]
    BY <1>4
  <1> QED BY <1>1, <1>3, <1>5, <1>6

(* So no finish gets earlier, the ones of the nodes before stay, and those  *)
(* behind are late enough for the node relaxed.                             *)
LEMMA RelaxKeepsSound ==
    ASSUME cdag \in ConditionalGraphs, Topological, RelaxSound, RelaxNode
    PROVE  RelaxSound'
  <1> PICK node : node = order[at]
    OBVIOUS
  <1> PICK m : m = mask
    OBVIOUS
  <1> PICK f : f = distance
    OBVIOUS
  <1> PICK g : g = distance'
    OBVIOUS
  <1> PICK pre : pre = predecessor
    OBVIOUS
  <1> PICK post : post = predecessor'
    OBVIOUS
  <1> PICK D : D = Relaxed
    OBVIOUS
  <1> PICK pos : Positions(pos)
    BY DEF Topological
  <1> DEFINE via(n) == Arrivals(m, node, n, f[node])
  <1>1. /\ cdag' = cdag /\ order' = order /\ mask' = m /\ at' = at + 1 /\ at \in 1 .. Len(order)
        /\ order \in Seq(Nodes) /\ Len(order) \in Nat
    BY RelaxEffect DEF Topological
  <1>2. \A n \in Nodes :
           \/ /\ \E c \in via(n) : \A d \in f[n] : c > d
              /\ g[n] = {Max(via(n))} /\ post[n] = {node}
           \/ /\ \A c \in via(n) : \E d \in f[n] : ~(c > d)
              /\ g[n] = f[n] /\ post[n] = pre[n]
    BY RelaxEffect
  <1>3. Finishes(f, m, D) /\ Backtracks(f, pre, m, D)
    BY DEF RelaxSound
  <1>4. node \in Nodes /\ node \notin D /\ D \subseteq Nodes
        /\ Relaxed' = D \cup {node} /\ at' \in 1 .. Len(order') + 1
        /\ \A a \in D : pos[a] < pos[node]
    <2>1. node \in Nodes /\ \A k \in 1 .. Len(order) : order[k] \in Nodes
      BY <1>1, ElementOfSequence
    <2>2. pos[node] = at /\ \A k \in 1 .. at - 1 : pos[order[k]] = k
      BY <1>1 DEF Positions
    <2>3. \A a \in D : \E k \in 1 .. at - 1 : a = order[k]
      BY DEF Relaxed
    <2>4. \A a \in D : a \in Nodes /\ pos[a] < pos[node]
      <3> TAKE a \in D
      <3>1. PICK k \in 1 .. at - 1 : a = order[k]
        BY <2>3
      <3>2. k \in 1 .. Len(order) /\ k < at /\ pos[a] = k
        BY <1>1, <2>2, <3>1
      <3> QED BY <2>1, <2>2, <3>1, <3>2
    <2>5. Relaxed' = {order[k] : k \in 1 .. at}
      BY <1>1 DEF Relaxed
    <2>6. {order[k] : k \in 1 .. at} = D \cup {node}
      <3>1. \A k \in 1 .. at : k \in 1 .. at - 1 \/ k = at
        BY <1>1
      <3>2. at \in 1 .. at /\ \A k \in 1 .. at - 1 : k \in 1 .. at
        BY <1>1
      <3> QED BY <3>1, <3>2 DEF Relaxed
    <2>7. ~(pos[node] < pos[node])
      BY <1>1, <2>2
    <2> QED BY <1>1, <2>1, <2>4, <2>5, <2>6, <2>7
  <1>5. f \in [Nodes -> SUBSET Nat] /\ pre \in [Nodes -> SUBSET Nodes]
        /\ \A n \in Nodes : \A c, d \in f[n] : c = d
    BY <1>3 DEF Finishes, Backtracks
  <1>6. \A n \in Nodes : via(n) \in SUBSET Nat /\ IsFiniteSet(via(n))
    BY <1>4, <1>5, ArrivalsAreNatural
  <1>7. \A n \in Nodes : via(n) # {} => Max(via(n)) \in via(n) /\ Max(via(n)) \in Nat
                                       /\ \A c \in via(n) : Max(via(n)) >= c
    <2> TAKE n \in Nodes
    <2>1. via(n) \in SUBSET Int /\ IsFiniteSet(via(n)) /\ via(n) \subseteq Nat
      BY <1>6
    <2> HIDE DEF via
    <2> QED BY <2>1, Greatest
  <1>8. \A n \in Nodes : via(n) # {} =>
           pos[node] < pos[n] /\ n \notin Roots /\ n \notin D /\ n # node
    <2> TAKE n \in Nodes
    <2> HAVE via(n) # {}
    <2>1. PICK e \in Links(m, node, n) : TRUE
      BY DEF Arrivals
    <2>2. pos[node] < pos[n]
      BY <2>1, LinksGoForward
    <2>3. n \notin Roots
      BY <2>1, LinksAreEdges DEF Roots
    <2>4. pos[node] \in Nat /\ pos[n] \in Nat /\ \A a \in D : pos[a] \in Nat
      BY <1>4 DEF Positions
    <2>5. n \notin D /\ n # node
      BY <1>4, <2>2, <2>4
    <2> QED BY <2>2, <2>3, <2>5
  <1>9. \A n \in Nodes : n \in Roots \/ n \in D \/ n = node => g[n] = f[n] /\ post[n] = pre[n]
    BY <1>2, <1>8
  <1>10. \A n \in Nodes : g[n] \in SUBSET Nat /\ post[n] \in SUBSET Nodes
                         /\ (\A c, d \in g[n] : c = d) /\ (\A p, q \in post[n] : p = q)
    <2> TAKE n \in Nodes
    <2> HIDE DEF via
    <2>1. f[n] \in SUBSET Nat /\ pre[n] \in SUBSET Nodes /\ (\A c, d \in f[n] : c = d)
          /\ \A p, q \in pre[n] : p = q
      BY <1>3, <1>5 DEF Backtracks
    <2>2. CASE g[n] = f[n] /\ post[n] = pre[n]
      BY <2>1, <2>2
    <2>3. CASE via(n) # {} /\ g[n] = {Max(via(n))} /\ post[n] = {node}
      <3>1. Max(via(n)) \in Nat
        BY <1>7, <2>3
      <3> QED BY <1>4, <2>3, <3>1
    <2> QED BY <1>2, <2>2, <2>3
  <1>11. \A n \in Nodes : \A d \in f[n] : \E c \in g[n] : c >= d
    <2> TAKE n \in Nodes
    <2> TAKE d \in f[n]
    <2> HIDE DEF via
    <2>0. d \in Nat
      BY <1>5
    <2>1. CASE g[n] = f[n]
      BY <2>0, <2>1
    <2>2. ASSUME NEW c \in via(n), c > d, g[n] = {Max(via(n))} PROVE \E b \in g[n] : b >= d
      <3>1. Max(via(n)) >= c /\ Max(via(n)) \in Nat /\ c \in Nat
        BY <1>6, <1>7
      <3> QED BY <2>0, <2>2, <3>1
    <2> QED BY <1>2, <2>1, <2>2
  <1>12. \A n \in Nodes : \A c \in via(n) : \E b \in g[n] : b >= c
    <2> TAKE n \in Nodes
    <2> TAKE c \in via(n)
    <2> HIDE DEF via
    <2>0. c \in Nat
      BY <1>6
    <2>1. CASE g[n] = {Max(via(n))}
      <3>1. Max(via(n)) >= c
        BY <1>7
      <3> QED BY <2>1, <3>1
    <2>2. ASSUME NEW d \in f[n], ~(c > d), g[n] = f[n] PROVE \E b \in g[n] : b >= c
      <3>1. d \in Nat
        BY <1>5
      <3> QED BY <2>0, <2>2, <3>1
    <2> QED BY <1>2, <2>1, <2>2
  <1>13. g = [n \in Nodes |-> g[n]] /\ post = [n \in Nodes |-> post[n]]
    BY RelaxEffect
  <1>14. g \in [Nodes -> SUBSET Nat] /\ post \in [Nodes -> SUBSET Nodes]
    BY <1>10, <1>13
  <1> HIDE DEF via
  <1>15. Finishes(g, m, D \cup {node})
    <2>1. \A r \in Roots : g[r] = {cdag.wcet[r]}
      BY <1>3, <1>9 DEF Finishes, Roots
    <2>2. ASSUME NEW a \in D \cup {node}, NEW n \in Nodes, NEW e \in Links(m, a, n), NEW d \in g[a]
          PROVE  \E c \in g[n] : c >= Over(n, e, d)
      <3>1. d \in f[a]
        BY <1>4, <1>9, <2>2
      <3>2. CASE a = node
        <4>1. Over(n, e, d) \in via(n)
          BY <3>1, <3>2 DEF via, Arrivals
        <4> QED BY <1>12, <4>1
      <3>3. CASE a \in D
        <4>1. PICK c \in f[n] : c >= Over(n, e, d)
          BY <1>3, <3>1, <3>3 DEF Finishes
        <4>2. PICK b \in g[n] : b >= c
          BY <1>11
        <4>3. b \in Nat /\ c \in Nat /\ Over(n, e, d) \in Nat
          <5>1. d \in Nat /\ e \in Edges
            BY <1>4, <1>5, <3>1, LinksAreEdges
          <5>2. Over(n, e, d) \in Nat
            BY <5>1, CdagFacts DEF Over
          <5> QED BY <1>5, <1>14, <5>2
        <4> QED BY <4>1, <4>2, <4>3
      <3> QED BY <3>2, <3>3
    <2> QED BY <1>10, <1>14, <2>1, <2>2 DEF Finishes
  <1>16. Backtracks(g, post, m, D \cup {node})
    <2>1. \A n \in Nodes : post[n] = {} => n \in Roots \/ g[n] = {}
      BY <1>2, <1>3 DEF Backtracks
    <2>2. ASSUME NEW n \in Nodes, NEW p \in post[n]
          PROVE  p \in D \cup {node} /\ FinishVia(g, m, p, n)
      <3>1. CASE g[n] = f[n] /\ post[n] = pre[n]
        <4>1. p \in D /\ FinishVia(f, m, p, n)
          BY <1>3, <3>1, <2>2 DEF Backtracks
        <4>2. g[p] = f[p]
          BY <1>4, <1>9, <4>1
        <4> QED BY <3>1, <4>1, <4>2 DEF FinishVia
      <3>2. CASE via(n) # {} /\ g[n] = {Max(via(n))} /\ post[n] = {node}
        <4>0. PICK c : c = Max(via(n))
          OBVIOUS
        <4>1. c \in via(n)
          BY <1>7, <3>2, <4>0
        <4>2. PICK d \in f[node], e \in Links(m, node, n) : c = Over(n, e, d)
          BY <4>1 DEF via, Arrivals
        <4>3. p = node /\ g[node] = f[node]
          BY <1>4, <1>9, <3>2
        <4> QED BY <3>2, <4>0, <4>2, <4>3 DEF FinishVia
      <3> QED BY <1>2, <3>1, <3>2
    <2> QED BY <1>10, <1>14, <2>1, <2>2 DEF Backtracks
  <1>17. Finishes(distance, mask, Relaxed)' /\ Backtracks(distance, predecessor, mask, Relaxed)'
    BY <1>1, <1>4, <1>15, <1>16, SameGraph DEF Finishes, Backtracks, FinishVia, Over
  <1> QED BY <1>4, <1>17 DEF RelaxSound

-----------------------------------------------------------------------------
(* The sink and the critical path                                           *)

(* Some node is a root.                                                     *)
LEMMA SomeRoot ==
    ASSUME cdag \in ConditionalGraphs, Topological, Nodes # {}
    PROVE  Roots # {}
  <1> PICK pos : Positions(pos)
    BY DEF Topological
  <1>1. PICK r \in Nodes : \A k \in Nodes : ~(pos[k] < pos[r])
    BY FirstNode
  <1>2. ASSUME NEW e \in Into(r) PROVE FALSE
    <2>1. e \in Edges /\ cdag.edges[e].to = r
      BY DEF Into
    <2>2. cdag.edges[e].from \in Nodes
      BY <2>1, EndpointsAreNodes DEF Topological
    <2>3. pos[cdag.edges[e].from] < pos[r]
      BY <2>1 DEF Positions
    <2> QED BY <1>1, <2>2, <2>3
  <1> QED BY <1>2 DEF Roots

(* Behind every node that is reached is a sink that finishes no earlier:    *)
(* the last of the nodes that finish no earlier.                            *)
LEMMA SinkBehind ==
    ASSUME cdag \in ConditionalGraphs, Topological, Finishes(distance, mask, Nodes),
           NEW n \in Nodes, NEW d \in distance[n]
    PROVE  \E s \in Sinks : \E c \in distance[s] : c >= d
  <1> PICK pos : Positions(pos)
    BY DEF Topological
  <1> DEFINE late == {k \in Nodes : \E c \in distance[k] : c >= d}
  <1>1. \A k \in Nodes : \A c \in distance[k] : c \in Nat
    BY DEF Finishes
  <1>2. n \in late /\ late \in SUBSET Nodes
    BY <1>1
  <1>3. IsFiniteSet(late)
    <2> HIDE DEF late
    <2> QED BY <1>2, CdagFacts, FS_Subset
  <1>4. PICK s \in late : \A k \in late : ~(pos[s] < pos[k])
    <2> HIDE DEF late
    <2> QED BY <1>2, <1>3, LastNode
  <1>5. PICK c \in distance[s] : c >= d
    OBVIOUS
  <1>6. ASSUME NEW e \in ActiveFrom(s) PROVE FALSE
    <2> PICK b \in Nodes : b = cdag.edges[e].to
      BY EndpointsAreNodes DEF ActiveFrom, From, Topological
    <2>1. e \in Links(mask, s, b)
      BY DEF ActiveFrom, Active, Links, Into, From
    <2>2. PICK x \in distance[b] : x >= Over(b, e, c)
      BY <1>5, <2>1 DEF Finishes
    <2>3. x >= c
      <3>1. cdag.edges[e].transfer \in Nat /\ cdag.wcet[b] \in Nat /\ x \in Nat /\ c \in Nat
        BY <1>1, <1>5, <2>1, CdagFacts, LinksAreEdges
      <3> QED BY <2>2, <3>1 DEF Over
    <2>4. b \in late
      BY <1>1, <1>5, <2>3
    <2>5. pos[s] < pos[b]
      BY <2>1, LinksGoForward
    <2> QED BY <1>4, <2>4, <2>5
  <1>7. s \in Sinks
    BY <1>5, <1>6 DEF Sinks
  <1> QED BY <1>5, <1>7

(* If there is a sink one is chosen, and it has the greatest finish.        *)
LEMMA ChosenIsLatest ==
    ASSUME cdag \in ConditionalGraphs, Finishes(distance, mask, Nodes), Sinks # {}
    PROVE  /\ ChosenSink # {} /\ ChosenSink \subseteq Sinks
           /\ \A s \in ChosenSink : \A n \in Sinks :
                 \A d \in distance[s], c \in distance[n] : c <= d
  <1> DEFINE finish(n) == CHOOSE d \in distance[n] : TRUE
             times == {finish(n) : n \in Sinks}
             latest == {n \in Sinks : finish(n) = Max(times)}
  <1>1. \A n \in Sinks : n \in Nodes /\ n \in Nat /\ finish(n) \in Nat /\ finish(n) \in distance[n]
                        /\ \A d \in distance[n] : d = finish(n)
    BY CdagFacts DEF Sinks, Finishes
  <1>2. IsFiniteSet(Sinks) /\ Sinks \subseteq Nat
    <2>1. Sinks \in SUBSET Nodes
      BY DEF Sinks
    <2> QED BY <2>1, CdagFacts, FS_Subset
  <1>3. IsFiniteSet(times)
    <2> DEFINE g == [n \in Sinks |-> finish(n)]
    <2>1. times = {g[n] : n \in Sinks}
      OBVIOUS
    <2>2. g \in Surjection(Sinks, {g[n] : n \in Sinks})
      BY DEF Surjection
    <2> HIDE DEF g
    <2>3. IsFiniteSet({g[n] : n \in Sinks})
      BY <1>2, <2>2, FS_Surjection
    <2> QED BY <2>1, <2>3
  <1>4. times \in SUBSET Int /\ times # {} /\ \A n \in Sinks : finish(n) \in times
    BY <1>1
  <1>5. Max(times) \in times /\ \A c \in times : Max(times) >= c
    <2> HIDE DEF times
    <2> QED BY <1>3, <1>4, Greatest
  <1>6. latest \in SUBSET Sinks /\ latest # {}
    BY <1>5
  <1>7. IsFiniteSet(latest) /\ latest \in SUBSET Int
    <2> HIDE DEF latest
    <2>1. IsFiniteSet(latest)
      BY <1>2, <1>6, FS_Subset
    <2>2. latest \in SUBSET Int
      BY <1>2, <1>6
    <2> QED BY <2>1, <2>2
  <1>8. Max(latest) \in latest /\ \A n \in latest : Max(latest) >= n
    <2> HIDE DEF latest
    <2> QED BY <1>6, <1>7, Greatest
  <1> DEFINE chosen(n) == \A m \in Sinks \ {n} :
                             finish(m) < finish(n) \/ (finish(m) = finish(n) /\ m < n)
  <1>9. ChosenSink = {n \in Sinks : chosen(n)}
    BY DEF ChosenSink
  <1>10. chosen(Max(latest))
    <2> PICK s \in Sinks : s = Max(latest)
      BY <1>8
    <2>1. finish(s) = Max(times) /\ s \in Nat
      BY <1>1, <1>8
    <2> SUFFICES ASSUME NEW m \in Sinks \ {s}
                 PROVE  finish(m) < finish(s) \/ (finish(m) = finish(s) /\ m < s)
      OBVIOUS
    <2>2. m \in Nat /\ finish(m) \in Nat /\ finish(s) \in Nat /\ finish(m) \in times
      BY <1>1
    <2>3. finish(s) >= finish(m)
      BY <1>5, <2>1, <2>2
    <2>4. CASE finish(m) = finish(s)
      <3>1. m \in latest
        BY <2>1, <2>4
      <3>2. s >= m
        BY <1>8, <3>1
      <3> HIDE DEF finish
      <3> QED BY <2>1, <2>2, <2>4, <3>2
    <2>5. CASE finish(m) # finish(s)
      <3> HIDE DEF finish
      <3> QED BY <2>2, <2>3, <2>5
    <2> QED BY <2>4, <2>5
  <1>11. ChosenSink # {} /\ ChosenSink \subseteq Sinks
    BY <1>8, <1>9, <1>10
  <1>12. ASSUME NEW s \in ChosenSink, NEW n \in Sinks,
                NEW d \in distance[s], NEW c \in distance[n]
         PROVE  c <= d
    <2>1. s \in Sinks /\ chosen(s)
      BY <1>9
    <2>2. d = finish(s) /\ c = finish(n) /\ d \in Nat /\ c \in Nat
      BY <1>1, <2>1
    <2>3. n = s \/ finish(n) < finish(s) \/ finish(n) = finish(s)
      BY <2>1
    <2> HIDE DEF finish
    <2> QED BY <2>2, <2>3
  <1> QED BY <1>11, <1>12

(* The equation of CriticalPath.                                            *)
BackFrom(h, n) == IF predecessor[n] = {} THEN <<n>>
                  ELSE Append(h[CHOOSE p \in predecessor[n] : TRUE], n)

(* h solves it.                                                             *)
TracesBack(h) == h = [n \in Nodes |-> BackFrom(h, n)]

(* It has a solution, because the predecessors come earlier.                *)
LEMMA TracingBackEnds ==
    ASSUME cdag \in ConditionalGraphs, Topological, NEW f, NEW m, NEW D,
           Backtracks(f, predecessor, m, D)
    PROVE  \E h \in [Nodes -> Seq(Nodes)] : TracesBack(h)
  <1> PICK pos : Positions(pos)
    BY DEF Topological
  <1> DEFINE R == {nk \in Nodes \X Nodes : nk[2] \in predecessor[nk[1]]}
             F == [h \in [Nodes -> Seq(Nodes)] |-> [n \in Nodes |-> BackFrom(h, n)]]
  <1>1. IsFiniteSet(Nodes) /\ \A n \in Nodes : predecessor[n] \in SUBSET Nodes
    BY CdagFacts DEF Backtracks
  <1>2. \A n \in Nodes : \A p \in predecessor[n] : pos[p] < pos[n]
    BY LinksGoForward DEF Backtracks, FinishVia
  <1>3. EndsIn(Nodes, R)
    <2> SUFFICES ASSUME NEW S \in SUBSET Nodes, S # {}
                 PROVE  \E x \in S : \A y \in S : <<x, y>> \notin R
      BY DEF EndsIn
    <2>1. PICK n \in S : \A k \in S : ~(pos[k] < pos[n])
      BY FirstNode
    <2>2. \A k \in S : <<n, k>> \notin R
      BY <1>2, <2>1
    <2> QED BY <2>2
  <1>4. DependsAlong(F, Nodes, Seq(Nodes), R)
    <2>1. ASSUME NEW h \in [Nodes -> Seq(Nodes)], NEW n \in Nodes
          PROVE  BackFrom(h, n) \in Seq(Nodes)
      <3>1. CASE predecessor[n] = {}
        BY <3>1 DEF BackFrom
      <3>2. CASE predecessor[n] # {}
        <4> PICK p \in Nodes : p = CHOOSE q \in predecessor[n] : TRUE
          BY <1>1, <3>2
        <4>1. h[p] \in Seq(Nodes)
          OBVIOUS
        <4>2. Append(h[p], n) \in Seq(Nodes)
          BY <4>1
        <4> QED BY <3>2, <4>2 DEF BackFrom
      <3> QED BY <3>1, <3>2
    <2>2. F \in [[Nodes -> Seq(Nodes)] -> [Nodes -> Seq(Nodes)]]
      BY <2>1
    <2>3. ASSUME NEW g \in [Nodes -> Seq(Nodes)], NEW h \in [Nodes -> Seq(Nodes)], NEW n \in Nodes,
                 \A k \in Nodes : <<n, k>> \in R => g[k] = h[k]
          PROVE  F[g][n] = F[h][n]
      <3>1. F[g][n] = BackFrom(g, n) /\ F[h][n] = BackFrom(h, n)
        OBVIOUS
      <3>2. CASE predecessor[n] = {}
        BY <3>1, <3>2 DEF BackFrom
      <3>3. CASE predecessor[n] # {}
        <4>1. PICK p \in predecessor[n] : p = CHOOSE q \in predecessor[n] : TRUE
          BY <3>3
        <4>2. p \in Nodes /\ <<n, p>> \in R
          BY <1>1
        <4>3. g[p] = h[p]
          BY <2>3, <4>2
        <4>4. BackFrom(g, n) = Append(g[p], n) /\ BackFrom(h, n) = Append(h[p], n)
          BY <3>3, <4>1 DEF BackFrom
        <4> QED BY <3>1, <4>3, <4>4
      <3> QED BY <3>2, <3>3
    <2> HIDE DEF F, R
    <2> QED BY <2>2, <2>3 DEF DependsAlong
  <1>5. Seq(Nodes) # {}
    BY <<>> \in Seq(Nodes)
  <1>6. HasSolution(F, Nodes, Seq(Nodes))
    <2> HIDE DEF F, R
    <2> QED BY <1>1, <1>3, <1>4, <1>5, RecursionHasASolution
  <1>7. PICK h \in [Nodes -> Seq(Nodes)] : h = F[h]
    BY <1>6 DEF HasSolution
  <1> QED BY <1>7 DEF TracesBack

(* A path goes on over a link that gives its end a finish.                  *)
LEMMA PathGoesOn ==
    ASSUME NEW f, NEW m, NEW p, Tight(f, m, p), NEW n \in Nodes, FinishVia(f, m, p[Len(p)], n)
    PROVE  Tight(f, m, Append(p, n)) /\ Append(p, n)[Len(Append(p, n))] = n
  <1>1. p \in Seq(Nodes) /\ Len(p) \in Nat /\ Len(p) >= 1
    <2>1. p \in Seq(Nodes) /\ p # <<>>
      BY DEF Tight
    <2> QED BY <2>1
  <1>0. /\ Append(p, n) \in Seq(Nodes) /\ Len(Append(p, n)) = Len(p) + 1
        /\ Append(p, n)[Len(p) + 1] = n /\ \A k \in 1 .. Len(p) : Append(p, n)[k] = p[k]
    BY <1>1
  <1> PICK q \in Seq(Nodes) : q = Append(p, n)
    BY <1>0
  <1>2. Len(q) = Len(p) + 1 /\ q[Len(p) + 1] = n /\ \A k \in 1 .. Len(p) : q[k] = p[k]
    BY <1>0
  <1>3. ASSUME NEW k \in 2 .. Len(q) PROVE FinishVia(f, m, q[k - 1], q[k])
    <2>1. CASE k <= Len(p)
      <3>1. k \in 2 .. Len(p) /\ k \in 1 .. Len(p) /\ k - 1 \in 1 .. Len(p)
        BY <1>1, <2>1
      <3> QED BY <1>2, <3>1 DEF Tight
    <2>2. CASE k = Len(p) + 1
      <3>1. k - 1 = Len(p) /\ Len(p) \in 1 .. Len(p)
        BY <1>1, <2>2
      <3> QED BY <1>2, <2>2, <3>1
    <2> QED BY <1>1, <1>2, <2>1, <2>2
  <1>4. q # <<>> /\ q[1] \in Roots
    <2>1. 1 \in 1 .. Len(p) /\ Len(q) # 0
      BY <1>1, <1>2
    <2> QED BY <1>2, <2>1 DEF Tight
  <1> QED BY <1>2, <1>3, <1>4 DEF Tight

(* The path traced back from a node that is reached is one to that node.    *)
LEMMA TracedPaths ==
    ASSUME cdag \in ConditionalGraphs, Topological, NEW m, NEW D,
           Finishes(distance, m, D), Backtracks(distance, predecessor, m, D),
           NEW h, TracesBack(h)
    PROVE  \A n \in Nodes : distance[n] # {} => Tight(distance, m, h[n]) /\ h[n][Len(h[n])] = n
  <1> PICK pos : Positions(pos)
    BY DEF Topological
  <1> PICK f : f = distance
    OBVIOUS
  <1> DEFINE good(n) == Tight(f, m, h[n]) /\ h[n][Len(h[n])] = n
             bad == {n \in Nodes : f[n] # {} /\ ~good(n)}
  <1> SUFFICES ASSUME bad # {} PROVE FALSE
    OBVIOUS
  <1>1. PICK n \in bad : \A k \in bad : ~(pos[k] < pos[n])
    <2>1. bad \in SUBSET Nodes
      OBVIOUS
    <2> HIDE DEF bad
    <2> QED BY <2>1, FirstNode
  <1>2. n \in Nodes /\ f[n] # {} /\ ~good(n)
    OBVIOUS
  <1>3. h[n] = BackFrom(h, n)
    BY <1>2 DEF TracesBack
  <1>4. CASE predecessor[n] = {}
    <2>1. h[n] = <<n>> /\ n \in Roots
      BY <1>2, <1>3, <1>4 DEF BackFrom, Backtracks
    <2>2. <<n>> \in Seq(Nodes) /\ <<n>> # <<>> /\ Len(<<n>>) = 1 /\ <<n>>[1] = n
      BY <1>2
    <2>3. Tight(f, m, <<n>>)
      BY <2>1, <2>2 DEF Tight
    <2> QED BY <1>2, <2>1, <2>2, <2>3
  <1>5. CASE predecessor[n] # {}
    <2>1. PICK p \in predecessor[n] : p = CHOOSE q \in predecessor[n] : TRUE
      BY <1>5
    <2>2. FinishVia(f, m, p, n) /\ p \in Nodes
      BY <1>2 DEF Backtracks
    <2>3. f[p] # {} /\ pos[p] < pos[n]
      BY <2>2, LinksGoForward DEF FinishVia
    <2>4. good(p)
      BY <1>1, <2>2, <2>3
    <2>5. h[n] = Append(h[p], n)
      BY <1>3, <1>5, <2>1 DEF BackFrom
    <2>6. FinishVia(f, m, h[p][Len(h[p])], n)
      BY <2>2, <2>4
    <2>7. Tight(f, m, Append(h[p], n)) /\ Append(h[p], n)[Len(Append(h[p], n))] = n
      BY <1>2, <2>4, <2>6, PathGoesOn
    <2> QED BY <1>2, <2>5, <2>7
  <1> QED BY <1>4, <1>5

(* So the critical path of a node that is reached is one to that node.      *)
LEMMA CriticalPathIsTight ==
    ASSUME cdag \in ConditionalGraphs, Topological, NEW m, NEW D,
           Finishes(distance, m, D), Backtracks(distance, predecessor, m, D),
           NEW n \in Nodes, distance[n] # {}
    PROVE  Tight(distance, m, CriticalPath(n)) /\ CriticalPath(n)[Len(CriticalPath(n))] = n
  <1> DEFINE it == CHOOSE h : TracesBack(h)
  <1>1. TracesBack(it)
    BY TracingBackEnds
  <1>2. CriticalPath(n) = it[n]
    BY DEF CriticalPath, TracesBack, BackFrom
  <1> HIDE DEF it
  <1> QED BY <1>1, <1>2, TracedPaths

(* At the end of a relaxation there is a sink, and its finish and critical  *)
(* path are a longest path of the scenario.                                 *)
LEMMA ScenarioIsLongest ==
    ASSUME cdag \in ConditionalGraphs, cdag.wcet # <<>>, Topological, RelaxSound,
           at \notin DOMAIN order
    PROVE  /\ ChosenSink # {}
           /\ \A sink \in ChosenSink : \A response \in distance[sink] :
                 LET s == [response |-> response, path |-> CriticalPath(sink)]
                 IN s \in Scenario /\ LongestBy(distance, mask, s)
  <1>1. /\ Finishes(distance, mask, Nodes) /\ Finishes(distance, mask, Relaxed)
        /\ Backtracks(distance, predecessor, mask, Relaxed)
    <2> PICK pos : Positions(pos)
      BY DEF Topological
    <2>1. order \in Seq(Nodes)
      BY DEF Topological
    <2>2. at = Len(order) + 1 /\ Len(order) \in Nat /\ 1 .. at - 1 = 1 .. Len(order)
      BY <2>1 DEF RelaxSound
    <2>3. \A n \in Nodes : pos[n] \in 1 .. Len(order) /\ order[pos[n]] = n
      BY DEF Positions
    <2>4. \A n \in Nodes : n \in Relaxed
      BY <2>2, <2>3 DEF Relaxed
    <2>5. Finishes(distance, mask, Relaxed) /\ Backtracks(distance, predecessor, mask, Relaxed)
      BY DEF RelaxSound
    <2> QED BY <2>4, <2>5 DEF Finishes
  <1>2. Sinks # {}
    <2>1. Nodes # {}
      BY CdagFacts
    <2>2. PICK r \in Roots : TRUE
      BY <2>1, SomeRoot
    <2>3. r \in Nodes /\ cdag.wcet[r] \in distance[r]
      BY <1>1, <2>2 DEF Roots, Finishes
    <2>4. \E s \in Sinks : \E c \in distance[s] : c >= cdag.wcet[r]
      BY <1>1, <2>3, SinkBehind
    <2> QED BY <2>4
  <1>3. /\ ChosenSink # {} /\ ChosenSink \subseteq Sinks
        /\ \A s \in ChosenSink : \A n \in Sinks :
              \A d \in distance[s], c \in distance[n] : c <= d
    BY <1>1, <1>2, ChosenIsLatest
  <1>4. ASSUME NEW sink \in ChosenSink, NEW response \in distance[sink],
               NEW s, s = [response |-> response, path |-> CriticalPath(sink)]
        PROVE  s \in Scenario /\ LongestBy(distance, mask, s)
    <2>1. sink \in Nodes /\ sink \in Sinks /\ distance[sink] # {}
      BY <1>3 DEF Sinks
    <2>2. /\ Tight(distance, mask, CriticalPath(sink))
          /\ CriticalPath(sink)[Len(CriticalPath(sink))] = sink
      BY <1>1, <2>1, CriticalPathIsTight
    <2>3. response \in Nat /\ distance[sink] = {response}
          /\ \A n \in Nodes : \A d \in distance[n] : d \in Nat
      BY <1>1, <2>1 DEF Finishes
    <2>4. ASSUME NEW n \in Nodes, NEW d \in distance[n] PROVE d <= response
      <3> PICK k \in Sinks : \E c \in distance[k] : c >= d
        BY <1>1, SinkBehind
      <3>1. PICK c \in distance[k] : c >= d
        OBVIOUS
      <3>2. c <= response /\ c \in Nat
        BY <1>3, <2>3, <3>1 DEF Sinks
      <3> QED BY <2>3, <3>1, <3>2
    <2>5. s.response = response /\ s.path = CriticalPath(sink) /\ s.path \in Seq(Nodes)
      BY <1>4, <2>2 DEF Tight
    <2>6. s \in Scenario
      BY <1>4, <2>3, <2>5 DEF Scenario
    <2>7. LongestBy(distance, mask, s)
      BY <1>1, <2>2, <2>3, <2>4, <2>5 DEF LongestBy
    <2> QED BY <2>6, <2>7
  <1> QED BY <1>3, <1>4

(* Before the first node is relaxed the roots have their finish.            *)
LEMMA FromRootsIsSound ==
    ASSUME cdag \in ConditionalGraphs, NEW m
    PROVE  /\ Finishes(FromRoots, m, {})
           /\ Backtracks(FromRoots, [n \in Nodes |-> {}], m, {})
  <1>1. \A n \in Nodes : cdag.wcet[n] \in Nat
    BY CdagFacts
  <1>2. Roots \subseteq Nodes
    BY DEF Roots
  <1>3. FromRoots \in [Nodes -> SUBSET Nat]
        /\ \A n \in Nodes : FromRoots[n] = IF n \in Roots THEN {cdag.wcet[n]} ELSE {}
    BY <1>1 DEF FromRoots
  <1>4. Finishes(FromRoots, m, {})
    BY <1>2, <1>3 DEF Finishes
  <1>5. Backtracks(FromRoots, [n \in Nodes |-> {}], m, {})
    BY <1>3 DEF Backtracks
  <1> QED BY <1>4, <1>5

(* So the next scenario starts soundly.                                     *)
LEMMA NextStartIsSound ==
    ASSUME cdag \in ConditionalGraphs, cdag' = cdag, order \in Seq(Nodes), order' = order,
           distance' = FromRoots, predecessor' = [n \in Nodes |-> {}], at' = 1
    PROVE  RelaxSound'
  <1> PICK m : m = mask'
    OBVIOUS
  <1> PICK f : f = FromRoots
    OBVIOUS
  <1>1. Relaxed' = {}
    BY DEF Relaxed
  <1>2. Finishes(f, m, {}) /\ Backtracks(f, [n \in Nodes |-> {}], m, {})
    BY FromRootsIsSound
  <1>3. Finishes(distance, mask, Relaxed)' /\ Backtracks(distance, predecessor, mask, Relaxed)'
    BY <1>1, <1>2, SameGraph DEF Finishes, Backtracks, FinishVia, Over
  <1>4. at' \in 1 .. Len(order') + 1
    BY SMT
  <1> QED BY <1>3, <1>4 DEF RelaxSound

-----------------------------------------------------------------------------
(* The invariant                                                            *)

(* The initial states satisfy it.                                           *)
LEMMA CdagInitSound == CdagInit => CdagIInv
  <1> SUFFICES ASSUME CdagInit PROVE CdagIInv
    OBVIOUS
  <1>1. PICK g \in ConditionalGraphs :
           /\ CdagStart(g)
           /\ CASE g.wcet = <<>> -> cstage = "done" /\ outcome = "Ok"
                [] g.wcet # <<>> /\ InvalidEndpoints ->
                     cstage = "done" /\ outcome = "InvalidEdgeEndpoint"
                [] OTHER -> cstage = "sort" /\ outcome = ""
    BY DEF CdagInit
  <1>2. cdag = g /\ cdag \in ConditionalGraphs /\ CdagStart(cdag)
    BY <1>1 DEF CdagStart
  <1>3. \/ g.wcet = <<>> /\ cstage = "done" /\ outcome = "Ok"
        \/ g.wcet # <<>> /\ InvalidEndpoints /\ cstage = "done" /\ outcome = "InvalidEdgeEndpoint"
        \/ g.wcet # <<>> /\ ~InvalidEndpoints /\ cstage = "sort" /\ outcome = ""
    BY <1>1
  <1>4. SortSound
    BY <1>2, StartIsSorted
  <1>5. cdag.wcet # <<>> => /\ scenarios = <<>> /\ mask = 0 /\ at = 1
                            /\ predecessor = [n \in Nodes |-> {}]
    BY <1>2 DEF CdagStart
  <1>6. ASSUME cdag.wcet # <<>> PROVE CdagSound
    <2>1. scenarios = <<>> /\ mask = 0 /\ outcome # "Ok"
      BY <1>2, <1>3, <1>5, <1>6
    <2>2. <<>> \in Seq(Scenario) /\ Len(<<>>) = 0
      OBVIOUS
    <2> QED BY <2>1, <2>2 DEF CdagSound
  <1>7. cdag.wcet # <<>> => StageSound
    BY <1>2, <1>3, <1>4, <1>5 DEF StageSound
  <1> QED BY <1>2, <1>3, <1>6, <1>7 DEF CdagIInv

(* What was found stays found while the graph, the order and the scenarios  *)
(* do.                                                                      *)
LEMMA SoundStays ==
    ASSUME CdagSound, cdag' = cdag, order' = order \/ scenarios = <<>>,
           scenarios' = scenarios, mask' = mask, outcome' = outcome \/ outcome' # "Ok"
    PROVE  CdagSound'
  <1>1. Scenario' = Scenario /\ ConditionIds' = ConditionIds
    BY SameGraph DEF Scenario
  <1>2. scenarios # <<>> => Topological'
    BY SameTopological DEF CdagSound
  <1>3. \A m, s : Longest(m, s)' = Longest(m, s)
    BY SameLongest
  <1> QED BY <1>1, <1>2, <1>3 DEF CdagSound

(* An error ends the analysis.                                              *)
LEMMA FailingKeepsSound ==
    ASSUME CdagIInv, cdag.wcet # <<>>, NEW error, error \notin {"Ok", "NoReachableSink"},
           Fail(error), UNCHANGED sortVars
    PROVE  CdagIInv'
  <1>1. cdag' = cdag /\ order' = order /\ scenarios' = scenarios /\ mask' = mask
        /\ outcome' = error /\ cstage' = "done"
    BY DEF Fail, sortVars, relaxVars
  <1>2. CdagSound'
    BY <1>1, SoundStays DEF CdagIInv
  <1>3. StageSound'
    BY <1>1 DEF StageSound
  <1> QED BY <1>1, <1>2, <1>3 DEF CdagIInv

(* Every step keeps the invariant.                                          *)
LEMMA CdagStepSound == CdagIInv /\ [CdagNext]_cdagVars => CdagIInv'
  <1> SUFFICES ASSUME CdagIInv, [CdagNext]_cdagVars PROVE CdagIInv'
    OBVIOUS
  <1>0. cdag \in ConditionalGraphs
    BY DEF CdagIInv
  <1>1. ASSUME PopNode PROVE CdagIInv'
    <2>1. cstage = "sort" /\ cdag' = cdag /\ cstage' = cstage /\ outcome' = outcome
          /\ mask' = mask /\ at' = at /\ predecessor' = predecessor /\ scenarios' = scenarios
      BY <1>1 DEF PopNode, relaxVars
    <2>2. cdag.wcet # <<>> /\ CdagSound /\ StageSound
      BY <2>1 DEF CdagIInv
    <2>3. SortSound /\ ~InvalidEndpoints /\ scenarios = <<>> /\ at = 1
          /\ predecessor = [n \in Nodes |-> {}]
      BY <2>1, <2>2 DEF StageSound
    <2>4. CdagSound'
      BY <2>1, <2>2, <2>3, SoundStays
    <2>5. SortSound' /\ ~InvalidEndpoints' /\ Nodes' = Nodes
      BY <1>0, <1>1, <2>1, <2>3, PopKeepsSorted, SameGraph
    <2>6. StageSound'
      BY <2>1, <2>3, <2>5 DEF StageSound
    <2> QED BY <2>1, <2>2, <2>4, <2>6 DEF CdagIInv
  <1>2. ASSUME Sorted PROVE CdagIInv'
    <2>1. cstage = "sort" /\ queued = <<>> /\ UNCHANGED sortVars
      BY <1>2 DEF Sorted
    <2>2. cdag.wcet # <<>> /\ CdagSound /\ StageSound
      BY <2>1 DEF CdagIInv
    <2>3. SortSound /\ ~InvalidEndpoints /\ scenarios = <<>> /\ at = 1
          /\ predecessor = [n \in Nodes |-> {}]
      BY <2>1, <2>2 DEF StageSound
    <2>4. CASE Len(order) # Len(cdag.wcet)
      <3>1. Fail("CyclicGraph")
        BY <1>2, <2>4 DEF Sorted
      <3> QED BY <2>1, <2>2, <3>1, FailingKeepsSound
    <2>5. CASE Len(order) = Len(cdag.wcet)
      <3>1. cstage' = "branches" /\ cdag' = cdag /\ outcome' = outcome /\ order' = order
            /\ mask' = mask /\ at' = at /\ predecessor' = predecessor /\ scenarios' = scenarios
        BY <1>2, <2>5 DEF Sorted, relaxVars, sortVars
      <3>2. Topological
        BY <1>0, <2>1, <2>3, <2>5, SortedIsTopological
      <3>3. Topological' /\ Nodes' = Nodes
        BY <3>1, <3>2, SameTopological, SameGraph
      <3>4. CdagSound'
        BY <2>2, <3>1, SoundStays
      <3>5. StageSound'
        BY <2>3, <3>1, <3>3 DEF StageSound
      <3>6. outcome = ""
        BY <2>1 DEF CdagIInv
      <3> QED BY <1>0, <2>2, <3>1, <3>4, <3>5, <3>6 DEF CdagIInv
    <2> QED BY <2>4, <2>5
  <1>3. ASSUME CheckBranches PROVE CdagIInv'
    <2>1. cstage = "branches" /\ UNCHANGED sortVars
      BY <1>3 DEF CheckBranches
    <2>2. cdag.wcet # <<>> /\ CdagSound /\ StageSound
      BY <2>1 DEF CdagIInv
    <2>3. Topological /\ at = 1 /\ predecessor = [n \in Nodes |-> {}]
      BY <2>1, <2>2 DEF StageSound
    <2>4. CASE \E n \in Nodes : ~CompleteSplit(n)
      <3>1. Fail("InvalidBranches")
        BY <1>3, <2>4 DEF CheckBranches
      <3> QED BY <2>1, <2>2, <3>1, FailingKeepsSound
    <2>6. CASE /\ ~(\E n \in Nodes : ~CompleteSplit(n))
               /\ Cardinality(ConditionIds) > MaxConditions
      <3>1. Fail("ScenarioSpaceTooLarge")
        BY <1>3, <2>6 DEF CheckBranches
      <3> QED BY <2>1, <2>2, <3>1, FailingKeepsSound
    <2>5. CASE /\ ~(\E n \in Nodes : ~CompleteSplit(n))
               /\ ~(Cardinality(ConditionIds) > MaxConditions)
      <3>1. cstage' = "relax" /\ cdag' = cdag /\ outcome' = outcome /\ order' = order
            /\ mask' = mask /\ at' = at /\ predecessor' = predecessor /\ scenarios' = scenarios
            /\ distance' = FromRoots
        BY <1>3, <2>5 DEF CheckBranches, sortVars
      <3>2. Topological' /\ order \in Seq(Nodes)
        BY <2>3, <3>1, SameTopological DEF Topological
      <3>3. CdagSound'
        BY <2>2, <3>1, SoundStays
      <3>4. RelaxSound'
        BY <1>0, <2>3, <3>1, <3>2, NextStartIsSound
      <3>5. StageSound'
        BY <3>1, <3>2, <3>4 DEF StageSound
      <3>6. outcome = ""
        BY <2>1 DEF CdagIInv
      <3> QED BY <1>0, <2>2, <3>1, <3>3, <3>5, <3>6 DEF CdagIInv
    <2> QED BY <2>4, <2>5, <2>6
  <1>4. ASSUME RelaxNode PROVE CdagIInv'
    <2>1. cstage = "relax" /\ cdag' = cdag /\ cstage' = cstage /\ outcome' = outcome
          /\ order' = order /\ mask' = mask /\ scenarios' = scenarios
      BY <1>4 DEF RelaxNode, sortVars
    <2>2. cdag.wcet # <<>> /\ CdagSound /\ StageSound
      BY <2>1 DEF CdagIInv
    <2>3. Topological /\ RelaxSound
      BY <2>1, <2>2 DEF StageSound
    <2>4. CdagSound' /\ Topological' /\ RelaxSound'
      BY <1>0, <1>4, <2>1, <2>2, <2>3, SoundStays, SameTopological, RelaxKeepsSound
    <2>5. StageSound'
      BY <2>1, <2>4 DEF StageSound
    <2> QED BY <1>0, <2>1, <2>2, <2>4, <2>5 DEF CdagIInv
  <1>5. ASSUME Conclude PROVE CdagIInv'
    <2>1. cstage = "relax" /\ at \notin DOMAIN order /\ order' = order
      BY <1>5 DEF Conclude, sortVars
    <2>2. cdag.wcet # <<>> /\ CdagSound /\ StageSound /\ outcome = ""
      BY <2>1 DEF CdagIInv
    <2>3. Topological /\ RelaxSound
      BY <2>1, <2>2 DEF StageSound
    <2>4. /\ ChosenSink # {}
          /\ \A sink \in ChosenSink : \A response \in distance[sink] :
                LET s == [response |-> response, path |-> CriticalPath(sink)]
                IN s \in Scenario /\ LongestBy(distance, mask, s)
      BY <1>0, <2>1, <2>2, <2>3, ScenarioIsLongest
    <2>5. PICK sink \in ChosenSink : \E response \in distance[sink] :
             /\ scenarios' = Append(scenarios, [response |-> response,
                                                path |-> CriticalPath(sink)])
             /\ mask' = mask + 1 /\ at' = 1 /\ distance' = FromRoots
             /\ predecessor' = [n \in Nodes |-> {}]
             /\ \/ mask + 1 = 2^Cardinality(ConditionIds) /\ cstage' = "done" /\ outcome' = "Ok"
                \/ cstage' = cstage /\ outcome' = outcome
             /\ cdag' = cdag
      BY <1>5, <2>4 DEF Conclude
    <2> PICK response \in distance[sink] :
           /\ scenarios' = Append(scenarios, [response |-> response,
                                              path |-> CriticalPath(sink)])
           /\ mask' = mask + 1 /\ at' = 1 /\ distance' = FromRoots
           /\ predecessor' = [n \in Nodes |-> {}]
           /\ \/ mask + 1 = 2^Cardinality(ConditionIds) /\ cstage' = "done" /\ outcome' = "Ok"
              \/ cstage' = cstage /\ outcome' = outcome
           /\ cdag' = cdag
      BY <2>5
    <2> PICK s : s = [response |-> response, path |-> CriticalPath(sink)]
      OBVIOUS
    <2>6. s \in Scenario /\ Longest(mask, s)
      BY <2>4 DEF Longest
    <2>7. Topological'
      BY <2>1, <2>3, SameTopological
    <2>8. RelaxSound'
      BY <1>0, <2>1, <2>3, NextStartIsSound DEF Topological
    <2>9. CdagSound'
      <3>1. scenarios' = Append(scenarios, s)
        OBVIOUS
      <3>2. scenarios \in Seq(Scenario) /\ mask = Len(scenarios) /\ mask \in Nat
        <4>1. scenarios \in Seq(Scenario) /\ mask = Len(scenarios)
          BY <2>2 DEF CdagSound
        <4> QED BY <4>1
      <3>3. /\ Append(scenarios, s) \in Seq(Scenario) /\ Len(Append(scenarios, s)) = mask + 1
            /\ Append(scenarios, s)[mask + 1] = s
            /\ \A k \in 1 .. mask : Append(scenarios, s)[k] = scenarios[k]
        BY <2>6, <3>2
      <3> PICK longer : longer = Append(scenarios, s)
        OBVIOUS
      <3>4. ASSUME NEW k \in 1 .. mask + 1 PROVE Longest(k - 1, longer[k])
        <4>1. CASE k <= mask
          <5>1. k \in 1 .. Len(scenarios)
            BY <3>2, <4>1
          <5>2. Longest(k - 1, scenarios[k])
            BY <2>2, <5>1 DEF CdagSound
          <5> QED BY <3>2, <3>3, <5>1, <5>2
        <4>2. CASE k = mask + 1
          <5>1. k - 1 = mask
            BY <3>2, <4>2
          <5> QED BY <2>6, <3>3, <4>2, <5>1
        <4> QED BY <3>2, <4>1, <4>2
      <3>5. \A m, x : Longest(m, x)' = Longest(m, x)
        BY SameLongest
      <3>6. Scenario' = Scenario /\ ConditionIds' = ConditionIds
        BY SameGraph DEF Scenario
      <3>7. /\ scenarios' = longer /\ longer \in Seq(Scenario)
            /\ Len(longer) = mask + 1 /\ mask' = mask + 1
        BY <3>1, <3>3
      <3>8. outcome' = "Ok" => mask' = 2^Cardinality(ConditionIds)
        BY <2>2
      <3> QED BY <2>7, <3>4, <3>5, <3>6, <3>7, <3>8 DEF CdagSound
    <2>10. StageSound'
      BY <2>1, <2>7, <2>8 DEF StageSound
    <2> QED BY <1>0, <2>1, <2>2, <2>9, <2>10 DEF CdagIInv
  <1>6. ASSUME UNCHANGED cdagVars PROVE CdagIInv'
    <2>1. /\ cdag' = cdag /\ cstage' = cstage /\ outcome' = outcome /\ indegree' = indegree
          /\ queued' = queued /\ order' = order /\ mask' = mask /\ at' = at
          /\ distance' = distance /\ predecessor' = predecessor /\ scenarios' = scenarios
      BY <1>6 DEF cdagVars
    <2>2. CdagSound => CdagSound'
      BY <2>1, SoundStays
    <2>3. /\ Nodes' = Nodes /\ InvalidEndpoints' = InvalidEndpoints /\ Topological' = Topological
      BY <2>1, SameGraph, SameTopological
    <2>4. SortSound' = SortSound
      <3>1. Ordered' = Ordered /\ EverQueued' = EverQueued
        BY <2>1 DEF Ordered, EverQueued
      <3>2. \A n : Open(n)' = Open(n)
        BY <2>1, <3>1, SameGraph DEF Open
      <3> QED BY <2>1, <3>1, <3>2, SameGraph DEF SortSound
    <2>5. RelaxSound => RelaxSound'
      <3> PICK m : m = mask
        OBVIOUS
      <3> PICK f : f = distance
        OBVIOUS
      <3> PICK pre : pre = predecessor
        OBVIOUS
      <3> PICK D : D = Relaxed
        OBVIOUS
      <3>1. Relaxed' = D
        BY <2>1 DEF Relaxed
      <3>2. RelaxSound => at \in 1 .. Len(order) + 1 /\ Finishes(f, m, D) /\ Backtracks(f, pre, m, D)
        BY DEF RelaxSound
      <3>3. Finishes(f, m, D) => Finishes(distance, mask, Relaxed)'
        BY <2>1, <3>1, SameGraph DEF Finishes, Over
      <3>4. Backtracks(f, pre, m, D) => Backtracks(distance, predecessor, mask, Relaxed)'
        BY <2>1, <3>1, SameGraph DEF Backtracks, FinishVia, Over
      <3> QED BY <2>1, <3>2, <3>3, <3>4 DEF RelaxSound
    <2>6. StageSound => StageSound'
      BY <2>1, <2>3, <2>4, <2>5 DEF StageSound
    <2> QED BY <2>1, <2>2, <2>6 DEF CdagIInv
  <1> QED BY <1>1, <1>2, <1>3, <1>4, <1>5, <1>6 DEF CdagNext

(* The analysis keeps the invariant, whatever the graphs.                   *)
THEOREM CdagInvariance == CdagSpec => []CdagIInv
  <1>1. CdagInit => CdagIInv
    BY CdagInitSound
  <1>2. CdagIInv /\ [CdagNext]_cdagVars => CdagIInv'
    BY CdagStepSound
  <1> QED BY <1>1, <1>2, PTL DEF CdagSpec

-----------------------------------------------------------------------------
(* The length of a path                                                     *)

(* The longest transfer between two nodes is that of one of the links.      *)
LEMMA HopIsGreatest ==
    ASSUME cdag \in ConditionalGraphs, NEW m, NEW a, NEW b, Links(m, a, b) # {}
    PROVE  /\ Hop(m, a, b) \in Nat
           /\ \E e \in Links(m, a, b) : Hop(m, a, b) = cdag.edges[e].transfer
           /\ \A e \in Links(m, a, b) : Hop(m, a, b) >= cdag.edges[e].transfer
  <1> DEFINE L == Links(m, a, b)
             g == [e \in L |-> cdag.edges[e].transfer]
             T == {cdag.edges[e].transfer : e \in L}
  <1>1. L \in SUBSET Edges /\ \A e \in L : cdag.edges[e].transfer \in Nat
    BY LinksAreEdges, CdagFacts
  <1>2. T \in SUBSET Nat /\ T # {} /\ \A e \in L : cdag.edges[e].transfer \in T
    BY <1>1
  <1>3. IsFiniteSet(L)
    <2> HIDE DEF L
    <2> QED BY <1>1, CdagFacts, FS_Subset
  <1>4. IsFiniteSet(T)
    <2>1. g \in Surjection(L, T)
      <3> HIDE DEF L
      <3> QED BY DEF Surjection
    <2> HIDE DEF g, L, T
    <2> QED BY <1>3, <2>1, FS_Surjection
  <1>5. Max(T) \in T /\ \A k \in T : Max(T) >= k
    <2>1. T \in SUBSET Int
      BY <1>2
    <2> HIDE DEF T
    <2> QED BY <1>2, <1>4, <2>1, Greatest
  <1>6. Hop(m, a, b) = Max(T)
    BY DEF Hop
  <1> PICK c : c = Max(T)
    OBVIOUS
  <1>7. c \in T /\ (\A k \in T : c >= k) /\ Hop(m, a, b) = c
    <2> HIDE DEF T
    <2> QED BY <1>5, <1>6
  <1> QED BY <1>1, <1>2, <1>7

(* Nodes that are linked one to the next.                                   *)
Chain(m, p) ==
    /\ p \in Seq(Nodes) /\ p # <<>>
    /\ \A k \in 2 .. Len(p) : Links(m, p[k - 1], p[k]) # {}

(* The equation of PathLength.                                              *)
LengthTo(h, m, p, k) == IF k = 1 THEN cdag.wcet[p[1]]
                        ELSE h[k - 1] + Hop(m, p[k - 1], p[k]) + cdag.wcet[p[k]]

(* h solves it.                                                             *)
Lengths(h, m, p) == h = [k \in DOMAIN p |-> LengthTo(h, m, p, k)]

(* It has a solution.                                                       *)
LEMMA LengthsExist ==
    ASSUME cdag \in ConditionalGraphs, NEW m, NEW p, Chain(m, p)
    PROVE  \E h \in [DOMAIN p -> Nat] : Lengths(h, m, p)
  <1> PICK len \in Nat : len = Len(p) /\ DOMAIN p = 1 .. len
    BY DEF Chain
  <1> DEFINE D == 1 .. len
             R == {ik \in D \X D : ik[2] = ik[1] - 1}
             F == [h \in [D -> Nat] |-> [k \in D |-> LengthTo(h, m, p, k)]]
  <1>1. \A k \in D : p[k] \in Nodes
    BY ElementOfSequence DEF Chain
  <1>2. IsFiniteSet(D) /\ D \subseteq Nat
    <2>1. 1 \in Int /\ len \in Int
      OBVIOUS
    <2>2. IsFiniteSet(1 .. len)
      BY <2>1, FS_Interval
    <2> QED BY <2>2
  <1>3. EndsIn(D, R)
    <2> SUFFICES ASSUME NEW S \in SUBSET D, S # {}
                 PROVE  \E x \in S : \A y \in S : <<x, y>> \notin R
      BY DEF EndsIn
    <2>1. PICK i \in S : \A k \in S : i <= k
      BY <1>2, LeastNatural
    <2>2. \A k \in S : <<i, k>> \notin R
      BY <1>2, <2>1
    <2> QED BY <2>2
  <1>4. DependsAlong(F, D, Nat, R)
    <2>1. ASSUME NEW h \in [D -> Nat], NEW k \in D PROVE LengthTo(h, m, p, k) \in Nat
      <3>1. CASE k = 1
        <4>1. cdag.wcet[p[1]] \in Nat
          BY <1>1, <3>1, CdagFacts
        <4> QED BY <3>1, <4>1 DEF LengthTo
      <3>2. CASE k # 1
        <4>1. k - 1 \in D /\ k \in 2 .. Len(p)
          BY <3>2
        <4>2. h[k - 1] \in Nat /\ cdag.wcet[p[k]] \in Nat
          BY <1>1, <4>1, CdagFacts
        <4>3. Hop(m, p[k - 1], p[k]) \in Nat
          BY <4>1, HopIsGreatest DEF Chain
        <4> QED BY <3>2, <4>2, <4>3 DEF LengthTo
      <3> QED BY <3>1, <3>2
    <2>2. F \in [[D -> Nat] -> [D -> Nat]]
      <3> HIDE DEF D
      <3>1. \A h \in [D -> Nat] : [k \in D |-> LengthTo(h, m, p, k)] \in [D -> Nat]
        BY <2>1
      <3> QED BY <3>1
    <2>3. ASSUME NEW g \in [D -> Nat], NEW h \in [D -> Nat], NEW k \in D,
                 \A i \in D : <<k, i>> \in R => g[i] = h[i]
          PROVE  F[g][k] = F[h][k]
      <3>1. F[g][k] = LengthTo(g, m, p, k) /\ F[h][k] = LengthTo(h, m, p, k)
        OBVIOUS
      <3>2. CASE k = 1
        BY <3>1, <3>2 DEF LengthTo
      <3>3. CASE k # 1
        <4>1. k - 1 \in D /\ <<k, k - 1>> \in R
          BY <3>3
        <4>2. g[k - 1] = h[k - 1]
          BY <2>3, <4>1
        <4> QED BY <3>1, <3>3, <4>2 DEF LengthTo
      <3> QED BY <3>2, <3>3
    <2> HIDE DEF D, F, R
    <2> QED BY <2>2, <2>3 DEF DependsAlong
  <1>5. HasSolution(F, D, Nat)
    <2>1. Nat # {}
      OBVIOUS
    <2> HIDE DEF D, F, R
    <2> QED BY <1>2, <1>3, <1>4, <2>1, RecursionHasASolution
  <1>6. PICK h \in [D -> Nat] : h = F[h]
    BY <1>5 DEF HasSolution
  <1> QED BY <1>6 DEF Lengths

(* A path begins with another.                                              *)
BeginsWith(q, p) == Len(p) <= Len(q) /\ \A k \in 1 .. Len(p) : p[k] = q[k]

(* There is only one, and it does not depend on what comes later,           *)
LEMMA LengthsAgree ==
    ASSUME NEW m, NEW p \in Seq(Nodes), NEW q \in Seq(Nodes), BeginsWith(q, p),
           NEW g, Lengths(g, m, p), NEW h, Lengths(h, m, q)
    PROVE  \A k \in 1 .. Len(p) : g[k] = h[k]
  <1> DEFINE bad == {k \in 1 .. Len(p) : g[k] # h[k]}
  <1> SUFFICES ASSUME bad # {} PROVE FALSE
    OBVIOUS
  <1>1. bad \in SUBSET Nat
    OBVIOUS
  <1>2. PICK k \in bad : \A i \in bad : k <= i
    <2> HIDE DEF bad
    <2> QED BY <1>1, LeastNatural
  <1>3. k \in 1 .. Len(p) /\ k \in 1 .. Len(q) /\ p[k] = q[k]
    BY DEF BeginsWith
  <1>4. g[k] = LengthTo(g, m, p, k) /\ h[k] = LengthTo(h, m, q, k)
    BY <1>3 DEF Lengths
  <1>5. CASE k = 1
    BY <1>3, <1>4, <1>5 DEF LengthTo
  <1>6. CASE k # 1
    <2>1. k - 1 \in 1 .. Len(p) /\ ~(k <= k - 1)
      BY <1>3, <1>6
    <2>2. g[k - 1] = h[k - 1] /\ p[k - 1] = q[k - 1]
      BY <1>2, <2>1 DEF BeginsWith
    <2> QED BY <1>3, <1>4, <1>6, <2>2 DEF LengthTo
  <1> QED BY <1>5, <1>6

(* and PathLength is what it says of the last node.                         *)
LEMMA PathLengthIs ==
    ASSUME cdag \in ConditionalGraphs, NEW m, NEW p, Chain(m, p), NEW h, Lengths(h, m, p)
    PROVE  PathLength(m, p) = h[Len(p)]
  <1> DEFINE it == CHOOSE g : Lengths(g, m, p)
  <1>1. Lengths(it, m, p)
    OBVIOUS
  <1>2. PathLength(m, p) = it[Len(p)]
    BY DEF PathLength, Lengths, LengthTo
  <1> HIDE DEF it
  <1>3. p \in Seq(Nodes) /\ Len(p) \in 1 .. Len(p) /\ Len(p) <= Len(p)
    <2>1. p \in Seq(Nodes) /\ p # <<>>
      BY DEF Chain
    <2> QED BY <2>1
  <1>4. it[Len(p)] = h[Len(p)]
    <2>1. BeginsWith(p, p)
      BY <1>3 DEF BeginsWith
    <2> QED BY <1>1, <1>3, <2>1, LengthsAgree
  <1> QED BY <1>2, <1>4

(* A chain has a length, that of its nodes and the longest links between    *)
(* them: of one node,                                                       *)
LEMMA LengthOfOne ==
    ASSUME cdag \in ConditionalGraphs, NEW m, NEW n \in Nodes
    PROVE  /\ Chain(m, <<n>>) /\ <<n>>[Len(<<n>>)] = n
           /\ PathLength(m, <<n>>) = cdag.wcet[n] /\ PathLength(m, <<n>>) \in Nat
  <1>0. /\ <<n>> \in Seq(Nodes) /\ <<n>> # <<>> /\ Len(<<n>>) = 1
        /\ <<n>>[1] = n /\ DOMAIN <<n>> = 1 .. 1
    OBVIOUS
  <1> PICK p : p = <<n>>
    OBVIOUS
  <1>1. p \in Seq(Nodes) /\ p # <<>> /\ Len(p) = 1 /\ p[1] = n /\ DOMAIN p = 1 .. 1
    BY <1>0
  <1>2. Chain(m, p)
    BY <1>1 DEF Chain
  <1>3. PICK h \in [DOMAIN p -> Nat] : Lengths(h, m, p)
    BY <1>2, LengthsExist
  <1>4. h[1] = LengthTo(h, m, p, 1)
    BY <1>1, <1>3 DEF Lengths
  <1>5. PathLength(m, p) = h[1]
    BY <1>1, <1>2, <1>3, PathLengthIs
  <1>6. cdag.wcet[n] \in Nat
    BY CdagFacts
  <1> QED BY <1>1, <1>2, <1>4, <1>5, <1>6 DEF LengthTo

(* and with one node more.                                                  *)
LEMMA LengthOfLonger ==
    ASSUME cdag \in ConditionalGraphs, NEW m, NEW p, Chain(m, p), NEW n \in Nodes,
           Links(m, p[Len(p)], n) # {}
    PROVE  /\ Chain(m, Append(p, n)) /\ Append(p, n)[Len(Append(p, n))] = n
           /\ PathLength(m, p) \in Nat
           /\ PathLength(m, Append(p, n)) =
                 PathLength(m, p) + Hop(m, p[Len(p)], n) + cdag.wcet[n]
  <1>1. p \in Seq(Nodes) /\ Len(p) \in Nat /\ Len(p) >= 1
    <2>1. p \in Seq(Nodes) /\ p # <<>>
      BY DEF Chain
    <2> QED BY <2>1
  <1>0. /\ Append(p, n) \in Seq(Nodes) /\ Len(Append(p, n)) = Len(p) + 1
        /\ Append(p, n)[Len(p) + 1] = n /\ \A k \in 1 .. Len(p) : Append(p, n)[k] = p[k]
    BY <1>1
  <1>14. PICK q \in Seq(Nodes) : q = Append(p, n)
    BY <1>0
  <1>2. Len(q) = Len(p) + 1 /\ q[Len(p) + 1] = n /\ \A k \in 1 .. Len(p) : q[k] = p[k]
    BY <1>0, <1>14
  <1>3. ASSUME NEW k \in 2 .. Len(q) PROVE Links(m, q[k - 1], q[k]) # {}
    <2>1. CASE k <= Len(p)
      <3>1. k \in 2 .. Len(p) /\ k \in 1 .. Len(p) /\ k - 1 \in 1 .. Len(p)
        BY <1>1, <2>1
      <3> QED BY <1>2, <3>1 DEF Chain
    <2>2. CASE k = Len(p) + 1
      <3>1. k - 1 = Len(p) /\ Len(p) \in 1 .. Len(p)
        BY <1>1, <2>2
      <3> QED BY <1>2, <2>2, <3>1
    <2> QED BY <1>1, <1>2, <2>1, <2>2
  <1>4. Chain(m, q)
    <2>1. q # <<>>
      BY <1>1, <1>2
    <2> QED BY <1>3, <2>1 DEF Chain
  <1>5. PICK g \in [DOMAIN p -> Nat] : Lengths(g, m, p)
    BY LengthsExist
  <1>6. PICK h \in [DOMAIN q -> Nat] : Lengths(h, m, q)
    BY <1>4, LengthsExist
  <1>7. PathLength(m, p) = g[Len(p)] /\ PathLength(m, q) = h[Len(q)]
    BY <1>4, <1>5, <1>6, PathLengthIs
  <1>8. Len(p) <= Len(q) /\ Len(p) \in 1 .. Len(p) /\ Len(p) \in DOMAIN p
        /\ Len(q) \in DOMAIN q /\ Len(q) # 1 /\ Len(q) - 1 = Len(p)
    BY <1>1, <1>2
  <1>9. g[Len(p)] = h[Len(p)]
    <2>1. BeginsWith(q, p)
      BY <1>2, <1>8 DEF BeginsWith
    <2>2. \A k \in 1 .. Len(p) : g[k] = h[k]
      <3>1. p \in Seq(Nodes) /\ q \in Seq(Nodes) /\ Lengths(g, m, p) /\ Lengths(h, m, q)
        BY <1>1, <1>5, <1>6
      <3> QED BY <2>1, <3>1, LengthsAgree
    <2> QED BY <1>8, <2>2
  <1>10. h[Len(q)] = LengthTo(h, m, q, Len(q))
    BY <1>6, <1>8 DEF Lengths
  <1>11. h[Len(q)] = h[Len(p)] + Hop(m, q[Len(p)], q[Len(q)]) + cdag.wcet[q[Len(q)]]
    BY <1>8, <1>10 DEF LengthTo
  <1>12. q[Len(p)] = p[Len(p)] /\ q[Len(q)] = n
    BY <1>2, <1>8
  <1>13. g[Len(p)] \in Nat
    BY <1>5, <1>8
  <1> QED BY <1>4, <1>7, <1>9, <1>11, <1>12, <1>13, <1>14

(* A tight path is as long as its end finishes late.                        *)
LEMMA TightLength ==
    ASSUME cdag \in ConditionalGraphs, NEW f, NEW m, Finishes(f, m, Nodes),
           NEW p, Tight(f, m, p)
    PROVE  Chain(m, p) /\ f[p[Len(p)]] = {PathLength(m, p)}
  <1>1. p \in Seq(Nodes) /\ Len(p) \in Nat /\ Len(p) >= 1 /\ DOMAIN p = 1 .. Len(p)
    <2>1. p \in Seq(Nodes) /\ p # <<>>
      BY DEF Tight
    <2> QED BY <2>1
  <1>2. Chain(m, p)
    BY DEF Chain, Tight, FinishVia
  <1>3. PICK h \in [DOMAIN p -> Nat] : Lengths(h, m, p)
    BY <1>2, LengthsExist
  <1> DEFINE bad == {k \in 1 .. Len(p) : f[p[k]] # {h[k]}}
  <1>4. ASSUME bad # {} PROVE FALSE
    <2>1. bad \in SUBSET Nat
      BY <1>1
    <2>2. PICK k \in bad : \A i \in bad : k <= i
      <3> HIDE DEF bad
      <3> QED BY <1>4, <2>1, LeastNatural
    <2>3. k \in 1 .. Len(p) /\ f[p[k]] # {h[k]} /\ h[k] = LengthTo(h, m, p, k)
      BY <1>1, <1>3 DEF Lengths
    <2>4. CASE k = 1
      <3>1. p[1] \in Roots
        BY DEF Tight
      <3>2. f[p[1]] = {cdag.wcet[p[1]]}
        BY <3>1 DEF Finishes
      <3> QED BY <2>3, <2>4, <3>2 DEF LengthTo
    <2>5. CASE k # 1
      <3>1. k \in 2 .. Len(p) /\ k - 1 \in 1 .. Len(p) /\ ~(k <= k - 1)
        BY <1>1, <2>3, <2>5
      <3> PICK a \in Nodes, b \in Nodes : a = p[k - 1] /\ b = p[k]
        BY <1>1, <2>3, <3>1, ElementOfSequence
      <3>2. f[a] = {h[k - 1]}
        BY <2>2, <3>1
      <3> PICK d : d = h[k - 1]
        OBVIOUS
      <3>3. d \in Nat /\ f[a] = {d}
        BY <1>1, <1>3, <3>1, <3>2
      <3>4. FinishVia(f, m, a, b)
        BY <3>1 DEF Tight
      <3>5. PICK e \in Links(m, a, b) : f[b] = {Over(b, e, d)}
        BY <3>3, <3>4 DEF FinishVia
      <3>6. Hop(m, a, b) \in Nat /\ Hop(m, a, b) >= cdag.edges[e].transfer
        BY <3>5, HopIsGreatest
      <3>7. PICK e2 \in Links(m, a, b) : Hop(m, a, b) = cdag.edges[e2].transfer
        BY <3>5, HopIsGreatest
      <3>8. Over(b, e, d) >= Over(b, e2, d)
        <4>1. \E c \in f[b] : c >= Over(b, e2, d)
          BY <3>3, <3>7 DEF Finishes
        <4> QED BY <3>5, <4>1
      <3>9. /\ cdag.edges[e].transfer \in Nat /\ cdag.edges[e2].transfer \in Nat
            /\ cdag.wcet[b] \in Nat
        BY LinksAreEdges, CdagFacts, <3>5, <3>7
      <3>10. cdag.edges[e].transfer = Hop(m, a, b)
        BY <3>3, <3>6, <3>7, <3>8, <3>9 DEF Over
      <3>11. h[k] = d + Hop(m, a, b) + cdag.wcet[b]
        BY <2>3, <2>5 DEF LengthTo
      <3>12. f[b] = {h[k]}
        BY <3>5, <3>10, <3>11 DEF Over
      <3> QED BY <2>3, <3>12
    <2> QED BY <2>4, <2>5
  <1>5. Len(p) \in 1 .. Len(p)
    BY <1>1
  <1>6. f[p[Len(p)]] = {h[Len(p)]}
    BY <1>4, <1>5
  <1> QED BY <1>2, <1>3, <1>6, PathLengthIs

-----------------------------------------------------------------------------
(* All the paths of an assignment                                           *)

(* The equation of AllPaths.                                                *)
PathsVia(g, m, n) ==
    {<<n>> : r \in {n} \cap Roots}
    \cup {Append(p, n) : p \in UNION {g[a] : a \in {b \in Nodes : Links(m, b, n) # {}}}}

(* g solves it.                                                             *)
PathsTo(g, m) == g = [n \in Nodes |-> PathsVia(g, m, n)]

(* It has a solution, because the links go forward in the order.            *)
LEMMA PathsExist ==
    ASSUME cdag \in ConditionalGraphs, Topological, NEW m
    PROVE  \E g \in [Nodes -> SUBSET Seq(Nodes)] : PathsTo(g, m)
  <1> PICK pos : Positions(pos)
    BY DEF Topological
  <1> DEFINE V == SUBSET Seq(Nodes)
             R == {nk \in Nodes \X Nodes : Links(m, nk[2], nk[1]) # {}}
             F == [h \in [Nodes -> V] |-> [n \in Nodes |-> PathsVia(h, m, n)]]
  <1>1. IsFiniteSet(Nodes)
    BY CdagFacts
  <1>2. \A n, k \in Nodes : <<n, k>> \in R => pos[k] < pos[n]
    BY LinksGoForward
  <1>3. EndsIn(Nodes, R)
    <2> SUFFICES ASSUME NEW S \in SUBSET Nodes, S # {}
                 PROVE  \E x \in S : \A y \in S : <<x, y>> \notin R
      BY DEF EndsIn
    <2>1. PICK n \in S : \A k \in S : ~(pos[k] < pos[n])
      BY FirstNode
    <2>2. \A k \in S : <<n, k>> \notin R
      BY <1>2, <2>1
    <2> QED BY <2>2
  <1>4. DependsAlong(F, Nodes, V, R)
    <2>1. ASSUME NEW h \in [Nodes -> V], NEW n \in Nodes
          PROVE  PathsVia(h, m, n) \in V
      <3>1. ASSUME NEW p \in PathsVia(h, m, n) PROVE p \in Seq(Nodes)
        <4>1. CASE p = <<n>>
          BY <4>1
        <4>2. CASE p # <<n>>
          <5>1. PICK a \in Nodes : \E q \in h[a] : p = Append(q, n)
            BY <4>2 DEF PathsVia
          <5>2. PICK q \in h[a] : p = Append(q, n)
            BY <5>1
          <5>3. q \in Seq(Nodes)
            BY <5>2
          <5> QED BY <5>2, <5>3
        <4> QED BY <4>1, <4>2
      <3> QED BY <3>1
    <2>2. F \in [[Nodes -> V] -> [Nodes -> V]]
      <3> HIDE DEF V
      <3>1. \A h \in [Nodes -> V] : [n \in Nodes |-> PathsVia(h, m, n)] \in [Nodes -> V]
        BY <2>1
      <3> QED BY <3>1
    <2>3. ASSUME NEW g \in [Nodes -> V], NEW h \in [Nodes -> V], NEW n \in Nodes,
                 \A k \in Nodes : <<n, k>> \in R => g[k] = h[k]
          PROVE  F[g][n] = F[h][n]
      <3>1. F[g][n] = PathsVia(g, m, n) /\ F[h][n] = PathsVia(h, m, n)
        OBVIOUS
      <3>2. \A a \in {b \in Nodes : Links(m, b, n) # {}} : g[a] = h[a]
        BY <2>3
      <3>3. {g[a] : a \in {b \in Nodes : Links(m, b, n) # {}}}
              = {h[a] : a \in {b \in Nodes : Links(m, b, n) # {}}}
        BY <3>2
      <3> QED BY <3>1, <3>3 DEF PathsVia
    <2> HIDE DEF F, R, V
    <2> QED BY <2>2, <2>3 DEF DependsAlong
  <1>5. V # {}
    BY {} \in V
  <1>6. HasSolution(F, Nodes, V)
    <2> HIDE DEF F, R, V
    <2> QED BY <1>1, <1>3, <1>4, <1>5, RecursionHasASolution
  <1>7. PICK h \in [Nodes -> V] : h = F[h]
    BY <1>6 DEF HasSolution
  <1> QED BY <1>7 DEF PathsTo

(* A path ends no later than its last node finishes.                        *)
Bounded(f, m, n, p) ==
    /\ Chain(m, p) /\ p[Len(p)] = n
    /\ PathLength(m, p) \in Nat
    /\ \E c \in f[n] : PathLength(m, p) <= c

(* Every path is one of those, by induction along the order.                *)
LEMMA PathsAreBounded ==
    ASSUME cdag \in ConditionalGraphs, Topological, NEW f, NEW m, Finishes(f, m, Nodes),
           NEW g, PathsTo(g, m)
    PROVE  \A n \in Nodes : \A p \in g[n] : Bounded(f, m, n, p)
  <1> PICK pos : Positions(pos)
    BY DEF Topological
  <1> DEFINE bad == {n \in Nodes : \E p \in g[n] : ~Bounded(f, m, n, p)}
  <1> SUFFICES ASSUME bad # {} PROVE FALSE
    OBVIOUS
  <1>1. PICK n \in bad : \A k \in bad : ~(pos[k] < pos[n])
    <2>1. bad \in SUBSET Nodes
      OBVIOUS
    <2> HIDE DEF bad
    <2> QED BY <2>1, FirstNode
  <1>2. PICK p \in g[n] : n \in Nodes /\ ~Bounded(f, m, n, p)
    OBVIOUS
  <1>3. p \in PathsVia(g, m, n)
    BY <1>2 DEF PathsTo
  <1>4. CASE n \in Roots /\ p = <<n>>
    <2>1. f[n] = {cdag.wcet[n]} /\ cdag.wcet[n] \in Nat
      BY <1>2, <1>4, CdagFacts DEF Finishes
    <2>2. /\ Chain(m, p) /\ p[Len(p)] = n
          /\ PathLength(m, p) = cdag.wcet[n] /\ PathLength(m, p) \in Nat
      BY <1>2, <1>4, LengthOfOne
    <2> QED BY <1>2, <2>1, <2>2 DEF Bounded
  <1>5. ASSUME NEW a \in Nodes, NEW q \in g[a], Links(m, a, n) # {}, p = Append(q, n) PROVE FALSE
    <2>1. pos[a] < pos[n]
      BY <1>5, LinksGoForward
    <2>2. Bounded(f, m, a, q)
      BY <1>1, <2>1
    <2>3. Chain(m, q) /\ q[Len(q)] = a
      BY <2>2 DEF Bounded
    <2>4. PICK c \in f[a] : PathLength(m, q) <= c
      BY <2>2 DEF Bounded
    <2>5. /\ Chain(m, p) /\ p[Len(p)] = n /\ PathLength(m, q) \in Nat
          /\ PathLength(m, p) = PathLength(m, q) + Hop(m, a, n) + cdag.wcet[n]
      BY <1>2, <1>5, <2>3, LengthOfLonger
    <2>6. PICK e \in Links(m, a, n) : Hop(m, a, n) = cdag.edges[e].transfer
      BY <1>5, HopIsGreatest
    <2>7. PICK d \in f[n] : d >= Over(n, e, c)
      BY <1>2, <2>4, <2>6 DEF Finishes
    <2>8. Hop(m, a, n) \in Nat /\ cdag.wcet[n] \in Nat /\ c \in Nat /\ d \in Nat
      BY <1>2, <1>5, <2>4, <2>7, HopIsGreatest, CdagFacts DEF Finishes
    <2>9. PathLength(m, p) \in Nat /\ PathLength(m, p) <= d
      <3> PICK i \in Nat, k \in Nat, t \in Nat :
               i = PathLength(m, q) /\ k = Hop(m, a, n) /\ t = cdag.wcet[n]
        BY <2>5, <2>8
      <3>1. PathLength(m, p) = i + k + t /\ i <= c
        BY <2>4, <2>5
      <3>2. d >= c + k + t
        BY <2>6, <2>7 DEF Over
      <3>3. i + k + t \in Nat /\ i + k + t <= d
        BY <2>8, <3>1, <3>2
      <3> QED BY <3>1, <3>3
    <2> QED BY <1>2, <2>5, <2>7, <2>9 DEF Bounded
  <1> QED BY <1>3, <1>4, <1>5 DEF PathsVia

(* All the paths end by the latest finish.                                  *)
LEMMA AllPathsAreBounded ==
    ASSUME cdag \in ConditionalGraphs, Topological, NEW f, NEW m, Finishes(f, m, Nodes)
    PROVE  \A p \in AllPaths(m) : \E n \in Nodes : Bounded(f, m, n, p)
  <1> DEFINE it == CHOOSE g : PathsTo(g, m)
  <1>1. PathsTo(it, m)
    BY PathsExist
  <1>2. AllPaths(m) = UNION {it[n] : n \in Nodes}
    BY DEF AllPaths, PathsTo, PathsVia
  <1> HIDE DEF it
  <1>3. \A n \in Nodes : \A p \in it[n] : Bounded(f, m, n, p)
    BY <1>1, PathsAreBounded
  <1> QED BY <1>2, <1>3

(* A longest path is a path, as long as its response, and no path is        *)
(* longer.                                                                  *)
LEMMA LongestIsLongest ==
    ASSUME cdag \in ConditionalGraphs, Topological, NEW m, NEW s, s \in Scenario, Longest(m, s)
    PROVE  /\ IsPath(m, s.path) /\ PathLength(m, s.path) = s.response
           /\ \A p \in AllPaths(m) : PathLength(m, p) <= s.response
  <1> PICK f : LongestBy(f, m, s)
    BY DEF Longest
  <1>1. /\ Finishes(f, m, Nodes) /\ Tight(f, m, s.path)
        /\ f[s.path[Len(s.path)]] = {s.response}
        /\ \A n \in Nodes : \A d \in f[n] : d <= s.response
    BY DEF LongestBy
  <1>2. Chain(m, s.path) /\ PathLength(m, s.path) = s.response
    BY <1>1, TightLength
  <1>3. IsPath(m, s.path)
    <2> PICK q : q = s.path
      OBVIOUS
    <2>1. q \in Seq(Nodes) /\ q[1] \in Roots
      BY <1>1 DEF Tight
    <2>2. ASSUME NEW k \in 1 .. Len(q) - 1 PROVE Links(m, q[k], q[k + 1]) # {}
      <3> PICK i : i = k + 1
        OBVIOUS
      <3>1. i \in 2 .. Len(q) /\ i - 1 = k
        BY <2>1
      <3>2. Links(m, q[i - 1], q[i]) # {}
        BY <1>2, <3>1 DEF Chain
      <3> QED BY <3>1, <3>2
    <2> QED BY <2>1, <2>2 DEF IsPath
  <1>4. ASSUME NEW p \in AllPaths(m) PROVE PathLength(m, p) <= s.response
    <2>1. PICK n \in Nodes : Bounded(f, m, n, p)
      BY <1>1, AllPathsAreBounded
    <2>2. PICK c \in f[n] : PathLength(m, p) <= c
      BY <2>1 DEF Bounded
    <2>3. c \in Nat /\ c <= s.response /\ PathLength(m, p) \in Nat /\ s.response \in Nat
      BY <1>1, <2>1 DEF Bounded, Finishes, Scenario
    <2> QED BY <2>2, <2>3
  <1> QED BY <1>2, <1>3, <1>4

(* The invariant is that the scenarios reported are longest paths.          *)
LEMMA SoundScenarios == CdagIInv => ScenariosAreLongestPaths
  <1> SUFFICES ASSUME CdagIInv PROVE ScenariosAreLongestPaths
    OBVIOUS
  <1>1. outcome # "NoReachableSink" /\ cdag \in ConditionalGraphs
    BY DEF CdagIInv
  <1>2. ASSUME cdag.wcet # <<>>
        PROVE  /\ \A k \in DOMAIN scenarios :
                     LET m == k - 1
                         s == scenarios[k]
                     IN /\ IsPath(m, s.path) /\ PathLength(m, s.path) = s.response
                        /\ \A p \in AllPaths(m) : PathLength(m, p) <= s.response
               /\ outcome = "Ok" => Len(scenarios) = 2^Cardinality(ConditionIds)
    <2>1. CdagSound
      BY <1>2 DEF CdagIInv
    <2>2. scenarios \in Seq(Scenario)
      BY <2>1 DEF CdagSound
    <2>3. ASSUME NEW k \in DOMAIN scenarios, NEW m, m = k - 1, NEW s, s = scenarios[k]
          PROVE  /\ IsPath(m, s.path) /\ PathLength(m, s.path) = s.response
                 /\ \A p \in AllPaths(m) : PathLength(m, p) <= s.response
      <3>1. k \in 1 .. Len(scenarios) /\ s \in Scenario /\ scenarios # <<>>
        BY <2>2, <2>3, ElementOfSequence
      <3>2. Longest(m, s) /\ Topological
        BY <2>1, <2>3, <3>1 DEF CdagSound
      <3> QED BY <1>1, <3>1, <3>2, LongestIsLongest
    <2> QED BY <2>1, <2>3 DEF CdagSound
  <1> QED BY <1>1, <1>2 DEF ScenariosAreLongestPaths

(* Every scenario of an accepted graph reports the length of its longest    *)
(* active path and a critical path of that length, and there is one for     *)
(* every assignment (analyze_conditional_dag): whatever the graphs.         *)
THEOREM ScenariosAreAlwaysLongestPaths == CdagSpec => []ScenariosAreLongestPaths
  BY CdagInvariance, SoundScenarios, PTL

-----------------------------------------------------------------------------
(* Sums over finite sets                                                    *)

(* g gives every subset of S its sum, whichever element is added first.     *)
IsSum(g, f, S) ==
    /\ g \in [SUBSET S -> Nat]
    /\ g[{}] = 0
    /\ \A T \in SUBSET S : \A x \in T : g[T] = f[x] + g[T \ {x}]

Counted(f, S) == IsFiniteSet(S) /\ \A j \in S : f[j] \in Nat

(* One more element adds its value to every sum it is in.                   *)
LEMMA SumExtends ==
    ASSUME NEW f, NEW S, NEW x, x \notin S, \A j \in S \cup {x} : f[j] \in Nat,
           NEW g, IsSum(g, f, S)
    PROVE  \E h : IsSum(h, f, S \cup {x})
  <1> DEFINE h == [T \in SUBSET (S \cup {x}) |->
                      IF x \in T THEN f[x] + g[T \ {x}] ELSE g[T]]
  <1>1. \A T \in SUBSET (S \cup {x}) : T \ {x} \in SUBSET S /\ (x \notin T => T \in SUBSET S)
    OBVIOUS
  <1>2. h \in [SUBSET (S \cup {x}) -> Nat]
    <2>1. \A T \in SUBSET S : g[T] \in Nat
      BY DEF IsSum
    <2>2. \A T \in SUBSET (S \cup {x}) :
             (IF x \in T THEN f[x] + g[T \ {x}] ELSE g[T]) \in Nat
      BY <1>1, <2>1
    <2> QED BY <2>2
  <1>3. h[{}] = 0
    BY DEF IsSum
  <1>4. ASSUME NEW T \in SUBSET (S \cup {x}), NEW y \in T
        PROVE  h[T] = f[y] + h[T \ {y}]
    <2>1. T \ {y} \in SUBSET (S \cup {x})
      OBVIOUS
    <2>2. CASE y = x
      BY <1>1, <2>1, <2>2
    <2>3. CASE y # x /\ x \in T
      <3>1. (T \ {x}) \ {y} = (T \ {y}) \ {x} /\ y \in T \ {x}
        BY <2>3
      <3>2. g[T \ {x}] = f[y] + g[(T \ {y}) \ {x}]
        <4> PICK U : U = T \ {x}
          OBVIOUS
        <4>1. U \in SUBSET S /\ y \in U
          BY <1>1, <3>1
        <4>2. g[U] = f[y] + g[U \ {y}]
          BY <4>1 DEF IsSum
        <4> QED BY <3>1, <4>2
      <3>3. h[T] = f[x] + g[T \ {x}] /\ h[T \ {y}] = f[x] + g[(T \ {y}) \ {x}]
        BY <2>1, <2>3
      <3>4. T \ {x} \in SUBSET S /\ (T \ {y}) \ {x} \in SUBSET S
        OBVIOUS
      <3>5. g[T \ {x}] \in Nat /\ g[(T \ {y}) \ {x}] \in Nat
        BY <3>4 DEF IsSum
      <3>6. f[y] \in Nat /\ f[x] \in Nat
        OBVIOUS
      <3> QED BY <3>2, <3>3, <3>5, <3>6
    <2>4. CASE x \notin T
      BY <1>1, <2>1, <2>4 DEF IsSum
    <2> QED BY <2>2, <2>3, <2>4
  <1> HIDE DEF h
  <1> QED BY <1>2, <1>3, <1>4 DEF IsSum

(* Every finite set has its sums: a smallest one without would have         *)
(* them by the previous lemma.                                              *)
LEMMA SumExists ==
    ASSUME NEW f, NEW S, Counted(f, S)
    PROVE  \E g : IsSum(g, f, S)
  <1> SUFFICES ASSUME ~ \E g : IsSum(g, f, S) PROVE FALSE
    OBVIOUS
  <1> DEFINE F == {T \in SUBSET S : ~ \E g : IsSum(g, f, T)}
  <1>1. F # {} /\ \A T \in F : IsFiniteSet(T)
    BY FS_Subset DEF Counted
  <1>2. PICK T \in F : \A U \in F : Cardinality(T) <= Cardinality(U)
    BY <1>1, SmallestSet
  <1>3. T # {}
    <2>1. IsSum([U \in SUBSET {} |-> 0], f, {})
      BY DEF IsSum
    <2> QED BY <2>1
  <1>4. PICK x \in T : TRUE
    BY <1>3
  <1>5. Cardinality(T \ {x}) < Cardinality(T) /\ Cardinality(T \ {x}) \in Nat
        /\ Cardinality(T) \in Nat
    BY <1>1, <1>4, OneLess, Zenon
  <1>6. T \ {x} \in SUBSET S /\ T \ {x} \notin F
    BY <1>2, <1>5
  <1>7. PICK g : IsSum(g, f, T \ {x})
    BY <1>6
  <1>8. \A j \in (T \ {x}) \cup {x} : f[j] \in Nat
    BY DEF Counted
  <1>9. x \notin T \ {x} /\ (T \ {x}) \cup {x} = T
    OBVIOUS
  <1>10. \E h : IsSum(h, f, (T \ {x}) \cup {x})
    BY <1>7, <1>8, <1>9, SumExtends, Zenon
  <1> QED BY <1>9, <1>10

(* The equation of the fold that sums, which picks elements in some order.  *)
Unfolds(h, f, S) ==
    h = [T \in SUBSET S |->
            IF T = {} THEN 0
            ELSE f[CHOOSE x \in T : TRUE] + h[T \ {CHOOSE x \in T : TRUE}]]

(* The sums solve it,                                                       *)
LEMMA SumUnfolds ==
    ASSUME NEW f, NEW S, NEW g, IsSum(g, f, S)
    PROVE  Unfolds(g, f, S)
  <1>1. \A T \in SUBSET S : T # {} => (CHOOSE x \in T : TRUE) \in T
    OBVIOUS
  <1> QED BY <1>1 DEF IsSum, Unfolds

(* and nothing else does: a smallest set with another value would have one  *)
(* without the element that is picked first.                                *)
LEMMA SumIsUnique ==
    ASSUME NEW f, NEW S, IsFiniteSet(S), NEW g, IsSum(g, f, S), NEW h, Unfolds(h, f, S)
    PROVE  h = g
  <1> SUFFICES ASSUME h # g PROVE FALSE
    OBVIOUS
  <1> DEFINE any(T) == CHOOSE x \in T : TRUE
  <1> DEFINE F == {T \in SUBSET S : h[T] # g[T]}
  <1>0. Unfolds(g, f, S)
    BY SumUnfolds
  <1>1. F # {}
    <2>1. g = [T \in SUBSET S |-> g[T]] /\ h = [T \in SUBSET S |-> h[T]]
      BY <1>0 DEF Unfolds
    <2> QED BY <2>1
  <1>2. \A T \in F : IsFiniteSet(T)
    BY FS_Subset
  <1>3. PICK T \in F : \A U \in F : Cardinality(T) <= Cardinality(U)
    BY <1>1, <1>2, SmallestSet
  <1>4. /\ h[T] = IF T = {} THEN 0 ELSE f[any(T)] + h[T \ {any(T)}]
        /\ g[T] = IF T = {} THEN 0 ELSE f[any(T)] + g[T \ {any(T)}]
    BY <1>0 DEF Unfolds
  <1>5. T # {}
    BY <1>4
  <1>6. any(T) \in T
    BY <1>5
  <1>7. PICK x \in T : x = any(T)
    BY <1>6
  <1> HIDE DEF any
  <1>8. Cardinality(T \ {x}) < Cardinality(T) /\ Cardinality(T \ {x}) \in Nat
        /\ Cardinality(T) \in Nat
    BY <1>2, OneLess, Zenon
  <1>9. T \ {x} \notin F
    BY <1>3, <1>8
  <1>10. h[T \ {x}] = g[T \ {x}]
    BY <1>9
  <1> QED BY <1>4, <1>5, <1>7, <1>10

(* So the fold returns the sum.                                             *)
LEMMA FoldIsSum ==
    ASSUME NEW f, NEW S, IsFiniteSet(S), NEW g, IsSum(g, f, S)
    PROVE  SumOver(f, S) = g[S] /\ SumOver(f, S) \in Nat
  <1>1. \A h : Unfolds(h, f, S) => h = g
    BY SumIsUnique
  <1>2. Unfolds(g, f, S)
    BY SumUnfolds
  <1>3. SumOver(f, S) = g[S]
    BY <1>1, <1>2 DEF Unfolds, SumOver, MapThenSumSet, MapThenFoldSet
  <1> QED BY <1>3 DEF IsSum

(* One value can be taken out of the sum.                                   *)
LEMMA SumWithout ==
    ASSUME NEW f, NEW S, Counted(f, S), NEW x
    PROVE  /\ SumOver(f, S) \in Nat /\ SumOver(f, S \ {x}) \in Nat
           /\ x \in S => SumOver(f, S) = f[x] + SumOver(f, S \ {x})
  <1>1. PICK g : IsSum(g, f, S)
    BY SumExists
  <1>2. SumOver(f, S) = g[S] /\ SumOver(f, S) \in Nat
    BY <1>1, FoldIsSum DEF Counted
  <1>3. CASE x \in S
    <2>1. IsSum([T \in SUBSET (S \ {x}) |-> g[T]], f, S \ {x})
      BY <1>1 DEF IsSum
    <2>2. IsFiniteSet(S \ {x})
      BY <1>3, OneLess DEF Counted
    <2>3. SumOver(f, S \ {x}) = g[S \ {x}] /\ SumOver(f, S \ {x}) \in Nat
      BY <2>1, <2>2, FoldIsSum
    <2>4. g[S] = f[x] + g[S \ {x}]
      BY <1>1, <1>3 DEF IsSum
    <2> QED BY <1>2, <1>3, <2>3, <2>4
  <1>4. CASE x \notin S
    <2>1. S \ {x} = S
      BY <1>4
    <2> QED BY <1>2, <1>4, <2>1
  <1> QED BY <1>3, <1>4

(* Nothing adds up to nothing.                                              *)
LEMMA SumOfNone == \A f : SumOver(f, {}) = 0
  <1> TAKE f
  <1>1. IsSum([T \in SUBSET {} |-> 0], f, {})
    BY DEF IsSum
  <1>2. IsFiniteSet({})
    BY FS_EmptySet
  <1> QED BY <1>1, <1>2, FoldIsSum

(* What is in S and not nothing is in T, and as much there.                 *)
Dominates(g, T, f, S) == \A x \in S : f[x] = 0 \/ (x \in T /\ f[x] <= g[x])

(* A sum of less over fewer elements is no greater: take the first element  *)
(* out of a smallest set with a greater sum.                                *)
LEMMA SumIsMonotone ==
    ASSUME NEW f, NEW S, Counted(f, S), NEW g, NEW T, Counted(g, T), Dominates(g, T, f, S)
    PROVE  SumOver(f, S) <= SumOver(g, T)
  <1> DEFINE bad == {U \in SUBSET S :
                        \E V \in SUBSET T : Dominates(g, V, f, U) /\ ~ (SumOver(f, U) <= SumOver(g, V))}
  <1> SUFFICES ASSUME bad # {} PROVE FALSE
    OBVIOUS
  <1>1. \A U \in bad : IsFiniteSet(U)
    BY FS_Subset DEF Counted
  <1>2. PICK U \in bad : \A W \in bad : Cardinality(U) <= Cardinality(W)
    <2> HIDE DEF bad
    <2> QED BY <1>1, SmallestSet
  <1>3. PICK V \in SUBSET T : Dominates(g, V, f, U) /\ ~ (SumOver(f, U) <= SumOver(g, V))
    BY <1>2
  <1>4. Counted(f, U) /\ Counted(g, V) /\ IsFiniteSet(U)
    BY FS_Subset DEF Counted
  <1>5. SumOver(f, U) \in Nat /\ SumOver(g, V) \in Nat
    BY <1>4, SumWithout
  <1>6. U # {}
    <2>1. SumOver(f, {}) = 0
      BY SumOfNone
    <2> QED BY <1>3, <1>5, <2>1
  <1>7. PICK x \in U : TRUE
    BY <1>6
  <1>8. U \ {x} \notin bad
    <2>1. Cardinality(U \ {x}) < Cardinality(U) /\ Cardinality(U \ {x}) \in Nat
          /\ Cardinality(U) \in Nat
      BY <1>4, <1>7, OneLess, Zenon
    <2> HIDE DEF bad
    <2> QED BY <1>2, <2>1
  <1>9. U \ {x} \in SUBSET S
    OBVIOUS
  <1>10. SumOver(f, U) = f[x] + SumOver(f, U \ {x}) /\ SumOver(f, U \ {x}) \in Nat /\ f[x] \in Nat
    BY <1>4, <1>7, SumWithout DEF Counted
  <1>11. CASE f[x] = 0
    <2>1. Dominates(g, V, f, U \ {x})
      BY <1>3 DEF Dominates
    <2>2. SumOver(f, U \ {x}) <= SumOver(g, V)
      BY <1>8, <1>9, <2>1
    <2> QED BY <1>3, <1>10, <1>11, <2>2
  <1>12. CASE f[x] # 0
    <2>1. x \in V /\ f[x] <= g[x]
      BY <1>3, <1>7, <1>12 DEF Dominates
    <2>2. Dominates(g, V \ {x}, f, U \ {x})
      BY <1>3 DEF Dominates
    <2>3. V \ {x} \in SUBSET T
      OBVIOUS
    <2>4. SumOver(f, U \ {x}) <= SumOver(g, V \ {x})
      BY <1>8, <1>9, <2>2, <2>3
    <2>5. SumOver(g, V) = g[x] + SumOver(g, V \ {x}) /\ SumOver(g, V \ {x}) \in Nat /\ g[x] \in Nat
      <3>1. g[x] \in Nat
        BY <1>4, <2>1 DEF Counted
      <3> HIDE DEF bad
      <3>2. SumOver(g, V) = g[x] + SumOver(g, V \ {x}) /\ SumOver(g, V \ {x}) \in Nat
        <4>1. Counted(g, V) /\ x \in V
          BY <1>4, <2>1
        <4> QED BY <4>1, SumWithout
      <3> QED BY <3>1, <3>2
    <2> HIDE DEF bad
    <2> QED BY <1>3, <1>10, <2>1, <2>4, <2>5
  <1> QED BY <1>11, <1>12

(* Equal values have equal sums.                                            *)
LEMMA SumIsSame ==
    ASSUME NEW f, NEW g, NEW S, Counted(f, S), \A x \in S : g[x] = f[x]
    PROVE  SumOver(f, S) = SumOver(g, S)
  <1>1. Counted(g, S)
    BY DEF Counted
  <1>2. \A x \in S : f[x] \in Nat
    BY DEF Counted
  <1>3. Dominates(g, S, f, S) /\ Dominates(f, S, g, S)
    BY <1>2 DEF Dominates
  <1>4. SumOver(f, S) <= SumOver(g, S) /\ SumOver(g, S) <= SumOver(f, S)
    BY <1>1, <1>3, SumIsMonotone
  <1>5. SumOver(f, S) \in Nat /\ SumOver(g, S) \in Nat
    BY <1>1, SumWithout
  <1> QED BY <1>4, <1>5

-----------------------------------------------------------------------------
(* Started periods                                                          *)

(* A quotient is the number whose multiple is reached and whose next is not.*)
LEMMA QuotientBounds ==
    ASSUME NEW n \in Nat, NEW b \in Nat \ {0}
    PROVE  n \div b \in Nat /\ b * (n \div b) <= n /\ n < b * (n \div b) + b
  OBVIOUS

(* It is no smaller than any number whose multiple is reached.              *)
LEMMA QuotientIsGreatest ==
    ASSUME NEW n \in Nat, NEW b \in Nat \ {0}, NEW k \in Nat, b * k <= n
    PROVE  k <= n \div b
  <1> PICK q : q = n \div b
    OBVIOUS
  <1>1. q \in Nat /\ b * q <= n /\ n < b * q + b
    BY QuotientBounds
  <1> SUFFICES ASSUME k >= q + 1 PROVE FALSE
    BY <1>1
  <1>2. b * k >= b * (q + 1)
    BY <1>1
  <1>3. b * (q + 1) = b * q + b
    BY <1>1
  <1>4. b * k \in Nat /\ b * q \in Nat
    BY <1>1
  <1> QED BY <1>1, <1>2, <1>3, <1>4

(* The number of started periods is the least whose multiple covers a.      *)
LEMMA CeilDivBounds ==
    ASSUME NEW a \in Nat, NEW b \in Nat \ {0}
    PROVE  CeilDiv(a, b) \in Nat /\ a <= b * CeilDiv(a, b)
  <1> PICK q : q = (a + b - 1) \div b
    OBVIOUS
  <1>1. a + b - 1 \in Nat
    OBVIOUS
  <1>2. q \in Nat /\ a + b - 1 < b * q + b
    BY <1>1, QuotientBounds
  <1>3. b * q \in Nat
    BY <1>2
  <1> QED BY <1>2, <1>3 DEF CeilDiv

(* It is the least such number.                                             *)
LEMMA CeilDivIsLeast ==
    ASSUME NEW a \in Nat, NEW b \in Nat \ {0}, NEW k \in Nat, a <= b * k
    PROVE  CeilDiv(a, b) <= k
  <1> PICK q : q = (a + b - 1) \div b
    OBVIOUS
  <1>1. a + b - 1 \in Nat
    OBVIOUS
  <1>2. q \in Nat /\ b * q <= a + b - 1
    BY <1>1, QuotientBounds
  <1> SUFFICES ASSUME q >= k + 1 PROVE FALSE
    BY <1>2 DEF CeilDiv
  <1>3. b * q >= b * (k + 1)
    BY <1>2
  <1>4. b * (k + 1) = b * k + b /\ b * k \in Nat /\ b * q \in Nat
    BY <1>2
  <1> QED BY <1>2, <1>3, <1>4

(* More time starts no fewer periods, longer periods start no more.         *)
LEMMA CeilDivIsMonotone ==
    ASSUME NEW a \in Nat, NEW c \in Nat, a <= c, NEW b \in Nat \ {0}, NEW d \in Nat \ {0}, d <= b
    PROVE  CeilDiv(a, b) <= CeilDiv(c, d)
  <1> PICK q : q = CeilDiv(c, d)
    OBVIOUS
  <1>1. q \in Nat /\ c <= d * q
    BY CeilDivBounds
  <1>2. d * q <= b * q
    BY <1>1
  <1>3. d * q \in Nat /\ b * q \in Nat
    BY <1>1
  <1>4. a <= b * q
    BY <1>1, <1>2, <1>3
  <1> QED BY <1>1, <1>4, CeilDivIsLeast

(* Within the first period one is started, before it none.                  *)
LEMMA OnePeriodStarts ==
    ASSUME NEW a \in Nat, NEW b \in Nat \ {0}, a <= b, a # 0
    PROVE  CeilDiv(a, b) = 1
  <1> PICK q : q = CeilDiv(a, b)
    OBVIOUS
  <1>1. q \in Nat /\ a <= b * q
    BY CeilDivBounds
  <1>2. b * 1 = b /\ b * 0 = 0
    OBVIOUS
  <1>3. q <= 1
    BY <1>2, CeilDivIsLeast
  <1>4. q # 0
    BY <1>1, <1>2
  <1> QED BY <1>1, <1>3, <1>4

-----------------------------------------------------------------------------
(* Interference                                                             *)

(* Tasks with periods and deadlines, and what each costs.                   *)
Costed(tsk, cost) ==
    /\ IsFiniteSet(DOMAIN tsk)
    /\ \A k \in DOMAIN tsk :
          tsk[k].period \in Nat \ {0} /\ tsk[k].deadline \in Nat /\ cost[k] \in Nat

(* What one task demands in r units, and what several do.                   *)
Load(tsk, cost, r) == [k \in DOMAIN tsk |-> CeilDiv(r, tsk[k].period) * cost[k]]

(* Each of these demands is a number, so that they can be summed,           *)
LEMMA LoadIsNatural ==
    ASSUME NEW tsk, NEW cost, Costed(tsk, cost), NEW r \in Nat, NEW S \in SUBSET DOMAIN tsk
    PROVE  Counted(Load(tsk, cost, r), S)
  <1>1. IsFiniteSet(S)
    BY FS_Subset DEF Costed
  <1>2. ASSUME NEW k \in S PROVE Load(tsk, cost, r)[k] \in Nat
    <2>1. tsk[k].period \in Nat \ {0} /\ cost[k] \in Nat
      BY DEF Costed
    <2>2. CeilDiv(r, tsk[k].period) \in Nat
      BY <2>1, CeilDivBounds
    <2>3. CeilDiv(r, tsk[k].period) * cost[k] \in Nat
      BY <2>1, <2>2
    <2> QED BY <2>3 DEF Load
  <1> QED BY <1>1, <1>2 DEF Counted

(* and the interference is their sum.                                       *)
LEMMA InterferenceIsLoad ==
    ASSUME NEW tsk, NEW cost, Costed(tsk, cost), NEW r \in Nat, NEW above \in SUBSET DOMAIN tsk
    PROVE  /\ Interference(tsk, cost, above, r) = SumOver(Load(tsk, cost, r), above)
           /\ Interference(tsk, cost, above, r) \in Nat
  <1> DEFINE part == [k \in above |-> CeilDiv(r, tsk[k].period) * cost[k]]
  <1>1. Counted(Load(tsk, cost, r), above)
    BY LoadIsNatural
  <1>2. \A k \in above : part[k] = Load(tsk, cost, r)[k]
    BY DEF Load
  <1>3. Interference(tsk, cost, above, r) = SumOver(part, above)
    BY DEF Interference
  <1> HIDE DEF part
  <1>4. SumOver(Load(tsk, cost, r), above) = SumOver(part, above)
    BY <1>1, <1>2, SumIsSame
  <1>5. SumOver(Load(tsk, cost, r), above) \in Nat
    BY <1>1, SumWithout
  <1> QED BY <1>3, <1>4, <1>5

(* Costs and tasks above that interfere no less.                            *)
Heavier(cost1, S, cost, T) == \A k \in S : cost[k] = 0 \/ (k \in T /\ cost[k] <= cost1[k])

(* Fewer tasks above, with lower costs, demand no more in less time.        *)
LEMMA InterferenceIsMonotone ==
    ASSUME NEW tsk, NEW cost, Costed(tsk, cost), NEW cost1, Costed(tsk, cost1),
           NEW above \in SUBSET DOMAIN tsk, NEW above1 \in SUBSET DOMAIN tsk,
           Heavier(cost1, above, cost, above1), NEW r \in Nat, NEW r1 \in Nat, r <= r1
    PROVE  Interference(tsk, cost, above, r) <= Interference(tsk, cost1, above1, r1)
  <1>1. Counted(Load(tsk, cost, r), above) /\ Counted(Load(tsk, cost1, r1), above1)
    BY LoadIsNatural
  <1>2. ASSUME NEW k \in above
        PROVE  \/ Load(tsk, cost, r)[k] = 0
               \/ k \in above1 /\ Load(tsk, cost, r)[k] <= Load(tsk, cost1, r1)[k]
    <2>1. /\ tsk[k].period \in Nat \ {0} /\ cost[k] \in Nat /\ cost1[k] \in Nat
          /\ k \in DOMAIN tsk
      BY DEF Costed
    <2> PICK m : m = CeilDiv(r, tsk[k].period)
      OBVIOUS
    <2> PICK n : n = CeilDiv(r1, tsk[k].period)
      OBVIOUS
    <2> PICK c : c = cost[k]
      OBVIOUS
    <2> PICK d : d = cost1[k]
      OBVIOUS
    <2>2. m \in Nat /\ n \in Nat /\ m <= n
      BY <2>1, CeilDivBounds, CeilDivIsMonotone
    <2>3. Load(tsk, cost, r)[k] = m * c /\ Load(tsk, cost1, r1)[k] = n * d
      BY <2>1 DEF Load
    <2>4. c = 0 \/ (k \in above1 /\ c <= d)
      BY DEF Heavier
    <2>5. ASSUME c <= d PROVE m * c <= n * d
      <3>1. m * c <= n * c
        BY <2>1, <2>2
      <3>2. n * c <= n * d
        BY <2>1, <2>2, <2>5
      <3>3. m * c \in Nat /\ n * c \in Nat /\ n * d \in Nat
        BY <2>1, <2>2
      <3> QED BY <3>1, <3>2, <3>3
    <2>6. c = 0 => m * c = 0
      BY <2>2
    <2> QED BY <2>3, <2>4, <2>5, <2>6
  <1>3. Dominates(Load(tsk, cost1, r1), above1, Load(tsk, cost, r), above)
    BY <1>2 DEF Dominates
  <1>4. SumOver(Load(tsk, cost, r), above) <= SumOver(Load(tsk, cost1, r1), above1)
    BY <1>1, <1>3, SumIsMonotone
  <1> QED BY <1>4, InterferenceIsLoad

-----------------------------------------------------------------------------
(* The fixed point                                                          *)

(* What a response time must cover, and an r that does.                     *)
Demanded(tsk, i, cost, above, r) == cost[i] + Interference(tsk, cost, above, r)
Covers(tsk, i, cost, above, r) == r \in Nat /\ Demanded(tsk, i, cost, above, r) <= r

(* The estimates of the iteration, all of them and the first ones.          *)
Iterates(e, tsk, i, cost, above) ==
    e = [n \in Nat |-> IF n = 0 THEN cost[i]
                       ELSE cost[i] + Interference(tsk, cost, above, e[n - 1])]
Estimates(g, last, tsk, i, cost, above) ==
    /\ g \in [0 .. last -> Nat]
    /\ g[0] = cost[i]
    /\ \A n \in 1 .. last : g[n] = Demanded(tsk, i, cost, above, g[n - 1])

(* The demand is a number.                                                  *)
LEMMA DemandedIsNatural ==
    ASSUME NEW tsk, NEW cost, Costed(tsk, cost), NEW i \in DOMAIN tsk,
           NEW above \in SUBSET DOMAIN tsk, NEW r \in Nat
    PROVE  cost[i] \in Nat /\ Demanded(tsk, i, cost, above, r) \in Nat
  <1>1. cost[i] \in Nat
    BY DEF Costed
  <1>2. Interference(tsk, cost, above, r) \in Nat
    BY InterferenceIsLoad
  <1> QED BY <1>1, <1>2 DEF Demanded

(* The estimates can be continued as far as one likes,                      *)
LEMMA EstimatesExist ==
    ASSUME NEW tsk, NEW cost, Costed(tsk, cost), NEW i \in DOMAIN tsk,
           NEW above \in SUBSET DOMAIN tsk
    PROVE  \A last \in Nat : \E g : Estimates(g, last, tsk, i, cost, above)
  <1> DEFINE bad == {last \in Nat : ~ \E g : Estimates(g, last, tsk, i, cost, above)}
  <1> SUFFICES ASSUME bad # {} PROVE FALSE
    OBVIOUS
  <1>1. PICK N \in bad : \A m \in bad : N <= m
    BY LeastNatural
  <1>2. cost[i] \in Nat
    BY DEF Costed
  <1>3. N # 0
    <2>1. Estimates([n \in 0 .. 0 |-> cost[i]], 0, tsk, i, cost, above)
      BY <1>2 DEF Estimates
    <2> QED BY <2>1
  <1>4. N - 1 \in Nat /\ N \in Nat
    BY <1>3
  <1>5. N - 1 \notin bad
    BY <1>1, <1>4
  <1>6. PICK g : Estimates(g, N - 1, tsk, i, cost, above)
    BY <1>4, <1>5
  <1> PICK last : last = Demanded(tsk, i, cost, above, g[N - 1])
    OBVIOUS
  <1>7. \A n \in 0 .. N - 1 : g[n] \in Nat
    BY <1>6 DEF Estimates
  <1>8. last \in Nat
    BY <1>4, <1>7, DemandedIsNatural
  <1> DEFINE h == [n \in 0 .. N |-> IF n = N THEN last ELSE g[n]]
  <1>9. h \in [0 .. N -> Nat] /\ h[0] = cost[i]
    BY <1>3, <1>4, <1>6, <1>7, <1>8 DEF Estimates
  <1>10. ASSUME NEW n \in 1 .. N PROVE h[n] = Demanded(tsk, i, cost, above, h[n - 1])
    <2>1. n - 1 \in 0 .. N /\ n - 1 # N /\ n \in 0 .. N
      BY <1>4
    <2>2. h[n - 1] = g[n - 1]
      BY <2>1
    <2>3. CASE n = N
      BY <2>1, <2>2, <2>3
    <2>4. CASE n # N
      <3>1. n \in 1 .. N - 1 /\ h[n] = g[n]
        BY <1>4, <2>1, <2>4
      <3>2. g[n] = Demanded(tsk, i, cost, above, g[n - 1])
        BY <1>6, <3>1 DEF Estimates
      <3> QED BY <2>2, <3>1, <3>2
    <2> QED BY <2>3, <2>4
  <1>11. Estimates(h, N, tsk, i, cost, above)
    <2> HIDE DEF h
    <2> QED BY <1>9, <1>10 DEF Estimates
  <1> QED BY <1>1, <1>11

(* in one way.                                                              *)
LEMMA EstimatesAgree ==
    ASSUME NEW tsk, NEW i, NEW cost, NEW above, NEW M \in Nat, NEW N \in Nat, M <= N,
           NEW g, Estimates(g, M, tsk, i, cost, above),
           NEW h, Estimates(h, N, tsk, i, cost, above)
    PROVE  \A n \in 0 .. M : g[n] = h[n]
  <1> DEFINE bad == {n \in 0 .. M : g[n] # h[n]}
  <1> SUFFICES ASSUME bad # {} PROVE FALSE
    OBVIOUS
  <1>0. bad \in SUBSET Nat
    OBVIOUS
  <1>1. PICK n \in bad : \A m \in bad : n <= m
    <2> HIDE DEF bad
    <2> QED BY <1>0, LeastNatural
  <1>2. n # 0
    BY <1>1 DEF Estimates
  <1>3. n \in 1 .. M /\ n \in 1 .. N /\ n - 1 \in 0 .. M
    BY <1>2
  <1>4. n - 1 \notin bad
    BY <1>1, <1>3
  <1>5. g[n - 1] = h[n - 1]
    BY <1>3, <1>4
  <1>6. /\ g[n] = Demanded(tsk, i, cost, above, g[n - 1])
        /\ h[n] = Demanded(tsk, i, cost, above, h[n - 1])
    BY <1>3 DEF Estimates
  <1> QED BY <1>5, <1>6

(* So the recursive equation of the iteration has a solution,               *)
LEMMA IteratesExist ==
    ASSUME NEW tsk, NEW cost, Costed(tsk, cost), NEW i \in DOMAIN tsk,
           NEW above \in SUBSET DOMAIN tsk
    PROVE  \E e \in [Nat -> Nat] : Iterates(e, tsk, i, cost, above)
  <1> DEFINE first(N) == CHOOSE g : Estimates(g, N, tsk, i, cost, above)
  <1>1. \A N \in Nat : Estimates(first(N), N, tsk, i, cost, above)
    BY EstimatesExist
  <1> DEFINE e == [N \in Nat |-> first(N)[N]]
  <1> HIDE DEF first
  <1>2. ASSUME NEW N \in Nat
        PROVE  /\ e[N] \in Nat
               /\ e[N] = IF N = 0 THEN cost[i]
                         ELSE cost[i] + Interference(tsk, cost, above, e[N - 1])
    <2>1. Estimates(first(N), N, tsk, i, cost, above)
      BY <1>1
    <2>2. e[N] \in Nat
      BY <2>1 DEF Estimates
    <2>3. CASE N = 0
      BY <2>1, <2>2, <2>3 DEF Estimates
    <2>4. CASE N # 0
      <3>1. N - 1 \in Nat /\ N - 1 <= N /\ N - 1 \in 0 .. N - 1 /\ N \in 1 .. N
        BY <2>4
      <3>2. Estimates(first(N - 1), N - 1, tsk, i, cost, above)
        BY <1>1, <3>1
      <3>3. first(N - 1)[N - 1] = first(N)[N - 1]
        BY <2>1, <3>1, <3>2, EstimatesAgree
      <3>4. e[N - 1] = first(N)[N - 1]
        BY <3>1, <3>3
      <3>5. first(N)[N] = Demanded(tsk, i, cost, above, first(N)[N - 1])
        BY <2>1, <3>1 DEF Estimates
      <3>6. e[N] = Demanded(tsk, i, cost, above, e[N - 1])
        BY <3>4, <3>5
      <3> HIDE DEF e
      <3> QED BY <2>2, <2>4, <3>6 DEF Demanded
    <2> QED BY <2>3, <2>4
  <1>3. e \in [Nat -> Nat]
    BY <1>2
  <1>4. e = [N \in Nat |-> e[N]]
    OBVIOUS
  <1> HIDE DEF e
  <1>5. Iterates(e, tsk, i, cost, above)
    BY <1>2, <1>4 DEF Iterates
  <1> QED BY <1>3, <1>5

(* and one only.                                                            *)
LEMMA IteratesAreUnique ==
    ASSUME NEW tsk, NEW i, NEW cost, NEW above,
           NEW e, Iterates(e, tsk, i, cost, above),
           NEW h, Iterates(h, tsk, i, cost, above)
    PROVE  h = e
  <1> DEFINE bad == {n \in Nat : h[n] # e[n]}
  <1>1. e = [n \in Nat |-> e[n]] /\ h = [n \in Nat |-> h[n]]
    BY DEF Iterates
  <1> SUFFICES ASSUME bad # {} PROVE FALSE
    BY <1>1
  <1>2. PICK n \in bad : \A m \in bad : n <= m
    BY LeastNatural
  <1>3. \A m \in Nat :
           /\ e[m] = IF m = 0 THEN cost[i] ELSE cost[i] + Interference(tsk, cost, above, e[m - 1])
           /\ h[m] = IF m = 0 THEN cost[i] ELSE cost[i] + Interference(tsk, cost, above, h[m - 1])
    BY DEF Iterates
  <1>4. n # 0
    BY <1>3
  <1>5. n - 1 \in Nat /\ n - 1 \notin bad
    BY <1>2, <1>4
  <1> QED BY <1>3, <1>5

(* What the iteration returns once its estimates are known.                 *)
Stops(e, deadline, n) == e[n] = e[n - 1] \/ e[n] > deadline \/ n = MaxIterations
StopsAt(e, deadline) ==
    CHOOSE n \in 1 .. MaxIterations :
        Stops(e, deadline, n) /\ \A m \in 1 .. n - 1 : ~Stops(e, deadline, m)
Outcome(e, deadline) ==
    LET last == StopsAt(e, deadline)
    IN [response |-> e[last],
        verdict |-> IF e[last] = e[last - 1] THEN "Converged"
                    ELSE IF e[last] > deadline THEN "Late" ELSE "IterationLimit"]

(* The iteration computes the estimates and returns where they stop.        *)
LEMMA FixedPointIs ==
    ASSUME NEW tsk, NEW i, NEW cost, NEW above, NEW e, Iterates(e, tsk, i, cost, above)
    PROVE  FixedPoint(tsk, i, cost, above) = Outcome(e, tsk[i].deadline)
  <1>1. \A h : Iterates(h, tsk, i, cost, above) => h = e
    BY IteratesAreUnique
  <1>2. e = CHOOSE h : Iterates(h, tsk, i, cost, above)
    BY <1>1
  <1>3. FixedPoint(tsk, i, cost, above)
           = Outcome(CHOOSE h : Iterates(h, tsk, i, cost, above), tsk[i].deadline)
    BY DEF FixedPoint, Outcome, Iterates, StopsAt, Stops
  <1> QED BY <1>2, <1>3

(* It stops.                                                                *)
LEMMA ItStops ==
    ASSUME NEW e, NEW deadline
    PROVE  LET last == StopsAt(e, deadline)
           IN /\ last \in 1 .. MaxIterations
              /\ Stops(e, deadline, last)
              /\ \A m \in 1 .. last - 1 : ~Stops(e, deadline, m)
  <1> DEFINE stopping == {n \in 1 .. MaxIterations : Stops(e, deadline, n)}
  <1>1. MaxIterations \in Nat \ {0}
    BY MaxIterationsAssumption
  <1>2. MaxIterations \in stopping /\ stopping \in SUBSET Nat
    BY <1>1 DEF Stops
  <1>3. PICK n \in stopping : \A m \in stopping : n <= m
    <2> HIDE DEF stopping
    <2> QED BY <1>2, LeastNatural
  <1>4. \A m \in 1 .. n - 1 : ~Stops(e, deadline, m)
    BY <1>1, <1>3
  <1> QED BY <1>3, <1>4 DEF StopsAt

(* No estimate exceeds an r that covers the demand.                         *)
LEMMA EstimatesStayBelow ==
    ASSUME NEW tsk, NEW cost, Costed(tsk, cost), NEW i \in DOMAIN tsk,
           NEW above \in SUBSET DOMAIN tsk,
           NEW e \in [Nat -> Nat], Iterates(e, tsk, i, cost, above),
           NEW r, Covers(tsk, i, cost, above, r)
    PROVE  \A n \in Nat : e[n] <= r
  <1> DEFINE bad == {n \in Nat : ~ (e[n] <= r)}
  <1> SUFFICES ASSUME bad # {} PROVE FALSE
    OBVIOUS
  <1>1. PICK n \in bad : \A m \in bad : n <= m
    BY LeastNatural
  <1>2. r \in Nat /\ cost[i] \in Nat /\ Interference(tsk, cost, above, r) \in Nat
    BY InterferenceIsLoad DEF Covers, Costed
  <1>3. cost[i] + Interference(tsk, cost, above, r) <= r
    BY DEF Covers, Demanded
  <1>4. \A m \in Nat : e[m] = IF m = 0 THEN cost[i]
                              ELSE cost[i] + Interference(tsk, cost, above, e[m - 1])
    BY DEF Iterates
  <1>5. n # 0
    BY <1>2, <1>3, <1>4
  <1>6. n - 1 \in Nat /\ n - 1 \notin bad
    BY <1>1, <1>5
  <1>7. e[n - 1] \in Nat /\ e[n - 1] <= r
    BY <1>6
  <1>8. Heavier(cost, above, cost, above)
    BY DEF Heavier, Costed
  <1>9. Interference(tsk, cost, above, e[n - 1]) <= Interference(tsk, cost, above, r)
    BY <1>2, <1>7, <1>8, InterferenceIsMonotone
  <1>10. Interference(tsk, cost, above, e[n - 1]) \in Nat
    BY <1>7, InterferenceIsLoad
  <1>11. e[n] = cost[i] + Interference(tsk, cost, above, e[n - 1])
    BY <1>4, <1>5
  <1>12. e[n] <= r
    BY <1>2, <1>3, <1>9, <1>10, <1>11
  <1> QED BY <1>1, <1>12

(* When the iteration converges, it is to the least r that covers, which is *)
(* within the deadline unless nothing interferes.                           *)
LEMMA ConvergedIsLeast ==
    ASSUME NEW tsk, NEW cost, Costed(tsk, cost), NEW i \in DOMAIN tsk,
           NEW above \in SUBSET DOMAIN tsk,
           FixedPoint(tsk, i, cost, above).verdict = "Converged"
    PROVE  LET x == FixedPoint(tsk, i, cost, above).response
           IN /\ Covers(tsk, i, cost, above, x)
              /\ x <= tsk[i].deadline \/ x = cost[i]
              /\ \A r : Covers(tsk, i, cost, above, r) => x <= r
  <1>1. PICK e \in [Nat -> Nat] : Iterates(e, tsk, i, cost, above)
    BY IteratesExist
  <1> DEFINE deadline == tsk[i].deadline
             last == StopsAt(e, deadline)
  <1>2. FixedPoint(tsk, i, cost, above) = Outcome(e, deadline)
    BY <1>1, FixedPointIs
  <1>3. /\ last \in 1 .. MaxIterations
        /\ \A m \in 1 .. last - 1 : ~Stops(e, deadline, m)
    BY ItStops
  <1>4. FixedPoint(tsk, i, cost, above).response = e[last] /\ e[last] = e[last - 1]
    BY <1>2 DEF Outcome
  <1>5. MaxIterations \in Nat
    BY MaxIterationsAssumption
  <1>6. last \in Nat /\ last # 0 /\ last - 1 \in Nat /\ deadline \in Nat
    BY <1>3, <1>5 DEF Costed
  <1>7. \A m \in Nat : e[m] = IF m = 0 THEN cost[i]
                              ELSE cost[i] + Interference(tsk, cost, above, e[m - 1])
    BY <1>1 DEF Iterates
  <1> HIDE DEF last, deadline
  <1>8. e[last] = cost[i] + Interference(tsk, cost, above, e[last])
    BY <1>4, <1>6, <1>7
  <1>9. e[last] \in Nat
    BY <1>6
  <1>10. Covers(tsk, i, cost, above, e[last])
    BY <1>8, <1>9 DEF Covers, Demanded
  <1>11. e[last] <= deadline \/ e[last] = cost[i]
    <2>1. CASE last = 1
      BY <1>4, <1>7, <2>1
    <2>2. CASE last # 1
      <3>1. last - 1 \in 1 .. last - 1
        BY <1>6, <2>2
      <3>2. ~Stops(e, deadline, last - 1)
        BY <1>3, <3>1
      <3>3. ~ (e[last - 1] > deadline)
        BY <3>2 DEF Stops
      <3> QED BY <1>4, <1>6, <1>9, <3>3
    <2> QED BY <2>1, <2>2
  <1>12. \A r : Covers(tsk, i, cost, above, r) => e[last] <= r
    BY <1>1, <1>6, EstimatesStayBelow
  <1> QED BY <1>4, <1>10, <1>11, <1>12 DEF deadline

(* An r within the deadline that covers makes it converge, if it has time.  *)
LEMMA CoveredConverges ==
    ASSUME NEW tsk, NEW cost, Costed(tsk, cost), NEW i \in DOMAIN tsk,
           NEW above \in SUBSET DOMAIN tsk,
           FixedPoint(tsk, i, cost, above).verdict # "IterationLimit",
           NEW r, Covers(tsk, i, cost, above, r), r <= tsk[i].deadline \/ r = cost[i]
    PROVE  FixedPoint(tsk, i, cost, above).verdict = "Converged"
  <1>1. PICK e \in [Nat -> Nat] : Iterates(e, tsk, i, cost, above)
    BY IteratesExist
  <1> DEFINE deadline == tsk[i].deadline
             last == StopsAt(e, deadline)
  <1>2. FixedPoint(tsk, i, cost, above) = Outcome(e, deadline)
    BY <1>1, FixedPointIs
  <1>3. /\ last \in 1 .. MaxIterations
        /\ \A m \in 1 .. last - 1 : ~Stops(e, deadline, m)
    BY ItStops
  <1>4. FixedPoint(tsk, i, cost, above).verdict
           = IF e[last] = e[last - 1] THEN "Converged"
             ELSE IF e[last] > deadline THEN "Late" ELSE "IterationLimit"
    BY <1>2 DEF Outcome
  <1>5. MaxIterations \in Nat
    BY MaxIterationsAssumption
  <1>6. last \in Nat /\ last # 0 /\ last - 1 \in Nat /\ deadline \in Nat /\ r \in Nat
    BY <1>3, <1>5 DEF Costed, Covers
  <1>7. \A n \in Nat : e[n] <= r /\ e[n] \in Nat
    BY <1>1, EstimatesStayBelow
  <1>8. r <= deadline \/ r = cost[i]
    OBVIOUS
  <1>9. \A m \in Nat : e[m] = IF m = 0 THEN cost[i]
                              ELSE cost[i] + Interference(tsk, cost, above, e[m - 1])
    BY <1>1 DEF Iterates
  <1> HIDE DEF last, deadline
  <1>10. CASE r <= deadline
    <2>1. ~ (e[last] > deadline)
      BY <1>6, <1>7, <1>10
    <2> QED BY <1>4, <2>1
  <1>11. CASE r = cost[i]
    <2>1. e[0] = cost[i] /\ e[1] = cost[i] + Interference(tsk, cost, above, e[0])
      BY <1>9
    <2>2. Interference(tsk, cost, above, e[0]) \in Nat
      BY InterferenceIsLoad
    <2>3. e[1] <= r /\ e[1] \in Nat
      BY <1>7
    <2>4. e[1] = e[0]
      BY <1>6, <1>11, <2>1, <2>2, <2>3
    <2>5. last = 1
      <3>1. Stops(e, deadline, 1)
        BY <2>4 DEF Stops
      <3>2. last # 1 => 1 \in 1 .. last - 1
        BY <1>6
      <3> QED BY <1>3, <3>1, <3>2
    <2> QED BY <1>4, <2>4, <2>5
  <1> QED BY <1>8, <1>10, <1>11

(* The test accepts a task when some r within its deadline covers.          *)
HasResponse(tsk, i, cost, above) ==
    \E r : Covers(tsk, i, cost, above, r) /\ r <= tsk[i].deadline

(* An accepted task has a response that covers, the least, within its       *)
(* deadline;                                                                *)
LEMMA AcceptedIsFeasible ==
    ASSUME NEW tsk, NEW cost, Costed(tsk, cost), NEW i \in DOMAIN tsk,
           NEW above \in SUBSET DOMAIN tsk,
           AnalyzeTask(tsk, i, cost, above).outcome = "Schedulable"
    PROVE  LET x == AnalyzeTask(tsk, i, cost, above).response
           IN /\ Covers(tsk, i, cost, above, x) /\ x <= tsk[i].deadline
              /\ \A r : Covers(tsk, i, cost, above, r) => x <= r
  <1> PICK f : f = FixedPoint(tsk, i, cost, above)
    OBVIOUS
  <1>1. cost[i] \in Nat /\ tsk[i].deadline \in Nat
    BY DEF Costed
  <1>2. cost[i] <= tsk[i].deadline
    <2> SUFFICES ASSUME cost[i] > tsk[i].deadline PROVE FALSE
      BY <1>1
    <2>1. ~ (cost[i] <= tsk[i].deadline)
      BY <1>1
    <2>2. AnalyzeTask(tsk, i, cost, above).outcome = "DeadlineMiss"
      BY <2>1 DEF AnalyzeTask, Result
    <2> QED BY <2>2
  <1>3. ~ (cost[i] > tsk[i].deadline)
    BY <1>1, <1>2
  <1>4. AnalyzeTask(tsk, i, cost, above)
           = Result(f.response, CASE f.verdict = "Converged" -> "Schedulable"
                                  [] f.verdict = "Late" -> "DeadlineMiss"
                                  [] OTHER -> "IterationLimit")
    BY <1>2, <1>3 DEF AnalyzeTask
  <1>5. f.verdict = "Converged" /\ AnalyzeTask(tsk, i, cost, above).response = f.response
    BY <1>4 DEF Result
  <1> PICK x : x = f.response
    OBVIOUS
  <1>6. /\ Covers(tsk, i, cost, above, x)
        /\ x <= tsk[i].deadline \/ x = cost[i]
        /\ \A r : Covers(tsk, i, cost, above, r) => x <= r
    BY <1>5, ConvergedIsLeast
  <1>7. x <= tsk[i].deadline
    BY <1>2, <1>6
  <1> QED BY <1>5, <1>6, <1>7

(* and where there is one within the deadline the task is accepted, unless  *)
(* the iteration runs out of rounds.                                        *)
LEMMA FeasibleIsAccepted ==
    ASSUME NEW tsk, NEW cost, Costed(tsk, cost), NEW i \in DOMAIN tsk,
           NEW above \in SUBSET DOMAIN tsk,
           FixedPoint(tsk, i, cost, above).verdict # "IterationLimit",
           HasResponse(tsk, i, cost, above)
    PROVE  AnalyzeTask(tsk, i, cost, above).outcome = "Schedulable"
  <1> PICK f : f = FixedPoint(tsk, i, cost, above)
    OBVIOUS
  <1>1. PICK r : Covers(tsk, i, cost, above, r) /\ r <= tsk[i].deadline
    BY DEF HasResponse
  <1>2. /\ r \in Nat /\ cost[i] \in Nat /\ tsk[i].deadline \in Nat
        /\ Interference(tsk, cost, above, r) \in Nat
    BY <1>1, InterferenceIsLoad DEF Costed, Covers
  <1>3. cost[i] + Interference(tsk, cost, above, r) <= r
    BY <1>1 DEF Covers, Demanded
  <1>4. cost[i] <= tsk[i].deadline /\ ~ (cost[i] > tsk[i].deadline)
    BY <1>1, <1>2, <1>3
  <1>5. f.verdict = "Converged"
    BY <1>1, CoveredConverges
  <1>6. AnalyzeTask(tsk, i, cost, above)
           = Result(f.response, CASE f.verdict = "Converged" -> "Schedulable"
                                  [] f.verdict = "Late" -> "DeadlineMiss"
                                  [] OTHER -> "IterationLimit")
    BY <1>4 DEF AnalyzeTask
  <1> QED BY <1>5, <1>6 DEF Result

-----------------------------------------------------------------------------
(* The hyperperiod                                                          *)

Divides(d, n) == \E q \in Nat : n = d * q

(* The greatest common divisor divides both.                                *)
LEMMA GcdDivides ==
    ASSUME NEW a \in Nat \ {0}, NEW b \in Nat \ {0}
    PROVE  Gcd(a, b) \in Nat \ {0} /\ Divides(Gcd(a, b), a) /\ Divides(Gcd(a, b), b)
  <1> DEFINE common == {d \in 1 .. a : a % d = 0 /\ b % d = 0}
  <1>1. 1 \in common /\ common \in SUBSET Int
    OBVIOUS
  <1>2. IsFiniteSet(common)
    <2>1. IsFiniteSet(1 .. a) /\ common \in SUBSET (1 .. a)
      BY FS_Interval
    <2> HIDE DEF common
    <2> QED BY <2>1, FS_Subset
  <1>3. Max(common) \in common
    <2> HIDE DEF common
    <2> QED BY <1>1, <1>2, Greatest
  <1>4. PICK g : g = Gcd(a, b)
    OBVIOUS
  <1>5. g \in 1 .. a /\ a % g = 0 /\ b % g = 0
    BY <1>3, <1>4 DEF Gcd
  <1> HIDE DEF common
  <1>6. g \in Nat \ {0}
    BY <1>5
  <1>7. a = g * (a \div g) /\ b = g * (b \div g) /\ a \div g \in Nat /\ b \div g \in Nat
    BY <1>5, <1>6
  <1> QED BY <1>4, <1>6, <1>7 DEF Divides

(* The least common multiple is a multiple of both.                         *)
LEMMA CommonMultiple ==
    ASSUME NEW h \in Nat \ {0}, NEW p \in Nat \ {0}
    PROVE  LET m == (h \div Gcd(h, p)) * p
           IN m \in Nat \ {0} /\ Divides(h, m) /\ Divides(p, m)
  <1>1. PICK g : g = Gcd(h, p)
    OBVIOUS
  <1>2. g \in Nat \ {0} /\ Divides(g, h) /\ Divides(g, p)
    BY <1>1, GcdDivides
  <1>3. PICK q \in Nat : h = g * q
    BY <1>2 DEF Divides
  <1>4. PICK t \in Nat : p = g * t
    BY <1>2 DEF Divides
  <1>5. q # 0 /\ t # 0
    BY <1>2, <1>3, <1>4
  <1>6. (g * q) \div g = q
    BY <1>2
  <1>7. (h \div Gcd(h, p)) * p = q * p
    BY <1>1, <1>3, <1>6
  <1>8. q * p \in Nat \ {0}
    BY <1>5
  <1>9. q * p = h * t
    BY <1>2, <1>3, <1>4
  <1>10. q * p = p * q
    OBVIOUS
  <1> QED BY <1>7, <1>8, <1>9, <1>10 DEF Divides

(* A divisor of a divisor divides.                                          *)
LEMMA DividesIsTransitive ==
    ASSUME NEW a \in Nat, NEW b \in Nat, NEW c \in Nat, Divides(a, b), Divides(b, c)
    PROVE  Divides(a, c)
  <1>1. PICK q \in Nat : b = a * q
    BY DEF Divides
  <1>2. PICK t \in Nat : c = b * t
    BY DEF Divides
  <1>3. c = a * (q * t) /\ q * t \in Nat
    BY <1>1, <1>2
  <1> QED BY <1>3 DEF Divides

(* The recursive equation of the hyperperiod.                               *)
Multiplies(over, tsk) ==
    over = [k \in 0 .. Len(tsk) |->
               IF k = 0 THEN 1
               ELSE (over[k - 1] \div Gcd(over[k - 1], tsk[k].period)) * tsk[k].period]

(* It has a solution.                                                       *)
LEMMA MultiplesExist ==
    ASSUME NEW tsk \in Seq(TimedTask)
    PROVE  \E over : Multiplies(over, tsk)
  <1> DEFINE D == 0 .. Len(tsk)
             V == Nat \ {0}
             R == {ik \in D \X D : ik[2] = ik[1] - 1}
             next(g, k) == IF k = 0 THEN 1
                           ELSE (g[k - 1] \div Gcd(g[k - 1], tsk[k].period)) * tsk[k].period
             F == [g \in [D -> V] |-> [k \in D |-> next(g, k)]]
  <1>1. Len(tsk) \in Nat /\ D \in SUBSET Nat
    OBVIOUS
  <1>2. IsFiniteSet(D)
    BY <1>1, FS_Interval
  <1>3. EndsIn(D, R)
    <2> SUFFICES ASSUME NEW S \in SUBSET D, S # {}
                 PROVE  \E x \in S : \A y \in S : <<x, y>> \notin R
      BY DEF EndsIn
    <2>1. PICK i \in S : \A k \in S : i <= k
      BY <1>1, LeastNatural
    <2>2. \A k \in S : <<i, k>> \notin R
      BY <1>1, <2>1
    <2> QED BY <2>2
  <1>4. DependsAlong(F, D, V, R)
    <2>1. ASSUME NEW g \in [D -> V], NEW k \in D
          PROVE  next(g, k) \in V
      <3>1. CASE k = 0
        BY <3>1
      <3>2. CASE k # 0
        <4>1. k - 1 \in D /\ k \in 1 .. Len(tsk)
          BY <1>1, <3>2
        <4>2. g[k - 1] \in V
          BY <4>1
        <4>3. tsk[k].period \in Nat \ {0}
          <5>1. tsk[k] \in TimedTask
            BY <4>1
          <5> QED BY <5>1 DEF TimedTask
        <4>4. (g[k - 1] \div Gcd(g[k - 1], tsk[k].period)) * tsk[k].period \in V
          BY <4>2, <4>3, CommonMultiple
        <4> QED BY <3>2, <4>4
      <3> QED BY <3>1, <3>2
    <2>2. F \in [[D -> V] -> [D -> V]]
      <3> HIDE DEF D, V, next
      <3>1. \A g \in [D -> V] : [k \in D |-> next(g, k)] \in [D -> V]
        BY <2>1
      <3> QED BY <3>1
    <2>3. ASSUME NEW g \in [D -> V], NEW h \in [D -> V], NEW i \in D,
                 \A k \in D : <<i, k>> \in R => g[k] = h[k]
          PROVE  F[g][i] = F[h][i]
      <3>1. CASE i = 0
        BY <3>1
      <3>2. CASE i # 0
        <4>1. i - 1 \in D /\ <<i, i - 1>> \in R
          BY <1>1, <3>2
        <4>2. g[i - 1] = h[i - 1]
          BY <2>3, <4>1
        <4>3. next(g, i) = next(h, i)
          BY <4>2
        <4> HIDE DEF next
        <4> QED BY <4>3
      <3> QED BY <3>1, <3>2
    <2> HIDE DEF D, F, R, V
    <2> QED BY <2>2, <2>3 DEF DependsAlong
  <1>5. V # {}
    BY 1 \in V
  <1>6. HasSolution(F, D, V)
    <2> HIDE DEF D, F, R, V
    <2> QED BY <1>2, <1>3, <1>4, <1>5, RecursionHasASolution
  <1>7. PICK g \in [D -> V] : g = F[g]
    BY <1>6 DEF HasSolution
  <1> QED BY <1>7 DEF Multiplies

(* The hyperperiod is a multiple of every period.                           *)
LEMMA HyperperiodIsMultiple ==
    ASSUME NEW tsk \in Seq(TimedTask)
    PROVE  /\ Hyperperiod(tsk) \in Nat \ {0}
           /\ \A k \in DOMAIN tsk : Divides(tsk[k].period, Hyperperiod(tsk))
  <1> DEFINE over == CHOOSE h : Multiplies(h, tsk)
  <1>1. Multiplies(over, tsk)
    BY MultiplesExist
  <1>2. Hyperperiod(tsk) = over[Len(tsk)]
    BY DEF Hyperperiod, Multiplies
  <1> HIDE DEF over
  <1> DEFINE good(k) == /\ over[k] \in Nat \ {0}
                        /\ \A m \in 1 .. k : Divides(tsk[m].period, over[k])
             bad == {k \in 0 .. Len(tsk) : ~ good(k)}
  <1>3. Len(tsk) \in Nat /\ bad \in SUBSET Nat
    OBVIOUS
  <1>4. ASSUME bad # {} PROVE FALSE
    <2>1. PICK k \in bad : \A m \in bad : k <= m
      <3> HIDE DEF bad
      <3> QED BY <1>3, <1>4, LeastNatural
    <2>2. k \in 0 .. Len(tsk) /\ ~ good(k)
      OBVIOUS
    <2>3. over[k] = IF k = 0 THEN 1
                    ELSE (over[k - 1] \div Gcd(over[k - 1], tsk[k].period)) * tsk[k].period
      BY <1>1, <2>2 DEF Multiplies
    <2>4. k # 0
      <3> SUFFICES ASSUME k = 0 PROVE FALSE
        OBVIOUS
      <3>1. over[0] = 1 /\ 1 .. 0 = {}
        BY <2>3
      <3> QED BY <2>2, <3>1
    <2>5. k - 1 \in 0 .. Len(tsk) /\ k \in 1 .. Len(tsk) /\ k - 1 < k /\ k \in Nat
      BY <1>3, <2>2, <2>4
    <2>6. good(k - 1)
      <3>1. k - 1 \notin bad
        <4> HIDE DEF bad
        <4> QED BY <2>1, <2>5
      <3> QED BY <2>5, <3>1
    <2>7. \A m \in 1 .. Len(tsk) : tsk[m].period \in Nat \ {0}
      <3>1. \A m \in 1 .. Len(tsk) : tsk[m] \in TimedTask
        OBVIOUS
      <3> QED BY <3>1 DEF TimedTask
    <2>8. PICK h : h = over[k - 1]
      OBVIOUS
    <2>9. h \in Nat \ {0} /\ \A m \in 1 .. k - 1 : Divides(tsk[m].period, h)
      BY <2>6, <2>8
    <2>10. PICK p : p = tsk[k].period
      OBVIOUS
    <2>11. p \in Nat \ {0}
      BY <2>5, <2>7, <2>10
    <2>12. over[k] = (h \div Gcd(h, p)) * p
      BY <2>3, <2>4, <2>8, <2>10
    <2>13. over[k] \in Nat \ {0} /\ Divides(h, over[k]) /\ Divides(p, over[k])
      BY <2>9, <2>11, <2>12, CommonMultiple
    <2>14. ASSUME NEW m \in 1 .. k PROVE Divides(tsk[m].period, over[k])
      <3>1. CASE m = k
        BY <2>10, <2>13, <3>1
      <3>2. CASE m # k
        <4>1. m \in 1 .. k - 1 /\ m \in 1 .. Len(tsk)
          BY <1>3, <2>5, <3>2
        <4> QED BY <2>7, <2>9, <2>13, <4>1, DividesIsTransitive
      <3> QED BY <3>1, <3>2
    <2>15. good(k)
      BY <2>13, <2>14
    <2> HIDE DEF good
    <2> QED BY <2>2, <2>15
  <1>5. good(Len(tsk))
    BY <1>3, <1>4
  <1> QED BY <1>2, <1>5

(* One sum bounds another when multiples of its values do.                  *)
LEMMA SumIsScaled ==
    ASSUME NEW a \in Nat, NEW b \in Nat, NEW f, NEW g, NEW S, Counted(f, S), Counted(g, S),
           \A x \in S : a * f[x] <= b * g[x]
    PROVE  a * SumOver(f, S) <= b * SumOver(g, S)
  <1> DEFINE bad == {U \in SUBSET S : ~ (a * SumOver(f, U) <= b * SumOver(g, U))}
  <1> SUFFICES ASSUME bad # {} PROVE FALSE
    OBVIOUS
  <1>1. \A U \in bad : IsFiniteSet(U)
    BY FS_Subset DEF Counted
  <1>2. PICK U \in bad : \A W \in bad : Cardinality(U) <= Cardinality(W)
    <2> HIDE DEF bad
    <2> QED BY <1>1, SmallestSet
  <1>3. Counted(f, U) /\ Counted(g, U) /\ IsFiniteSet(U)
    BY FS_Subset DEF Counted
  <1>4. U # {}
    <2>1. SumOver(f, {}) = 0 /\ SumOver(g, {}) = 0
      BY SumOfNone
    <2> QED BY <2>1
  <1>5. PICK x \in U : TRUE
    BY <1>4
  <1>6. U \ {x} \in SUBSET S /\ U \ {x} \notin bad
    <2>1. Cardinality(U \ {x}) < Cardinality(U) /\ Cardinality(U \ {x}) \in Nat
          /\ Cardinality(U) \in Nat
      BY <1>3, <1>5, OneLess, Zenon
    <2>2. U \ {x} \in SUBSET S
      OBVIOUS
    <2> HIDE DEF bad
    <2> QED BY <1>2, <2>1, <2>2
  <1>7. PICK m : m = SumOver(f, U \ {x})
    OBVIOUS
  <1>8. PICK n : n = SumOver(g, U \ {x})
    OBVIOUS
  <1>9. a * m <= b * n
    BY <1>6, <1>7, <1>8
  <1>10. a * f[x] <= b * g[x] /\ f[x] \in Nat /\ g[x] \in Nat
    BY DEF Counted
  <1>11. ~ (a * SumOver(f, U) <= b * SumOver(g, U))
    OBVIOUS
  <1> HIDE DEF bad
  <1>12. SumOver(f, U) = f[x] + m /\ SumOver(g, U) = g[x] + n /\ m \in Nat /\ n \in Nat
    BY <1>3, <1>5, <1>7, <1>8, SumWithout
  <1>13. a * (f[x] + m) = a * f[x] + a * m /\ b * (g[x] + n) = b * g[x] + b * n
    BY <1>10, <1>12
  <1>14. a * f[x] \in Nat /\ a * m \in Nat /\ b * g[x] \in Nat /\ b * n \in Nat
    BY <1>10, <1>12
  <1> QED BY <1>9, <1>10, <1>11, <1>12, <1>13, <1>14

-----------------------------------------------------------------------------
(* The tests of a task set                                                  *)

(* What the proofs use of a task set.                                       *)
LEMMA TaskFacts ==
    ASSUME NEW tsk \in Seq(TimedTask)
    PROVE  /\ DOMAIN tsk = 1 .. Len(tsk) /\ IsFiniteSet(DOMAIN tsk)
           /\ \A k \in DOMAIN tsk : tsk[k] \in TimedTask
           /\ \A cost : (\A k \in DOMAIN tsk : cost[k] \in Nat) => Costed(tsk, cost)
  <1>1. DOMAIN tsk = 1 .. Len(tsk) /\ Len(tsk) \in Nat
    OBVIOUS
  <1>2. IsFiniteSet(DOMAIN tsk)
    BY <1>1, FS_Interval
  <1>3. \A k \in DOMAIN tsk : tsk[k] \in TimedTask
    BY <1>1
  <1>4. \A k \in DOMAIN tsk : tsk[k].period \in Nat \ {0} /\ tsk[k].deadline \in Nat
    BY <1>3 DEF TimedTask
  <1> QED BY <1>1, <1>2, <1>3, <1>4 DEF Costed

(* Worst-case execution times are costs.                                    *)
LEMMA WcetsAreCosts ==
    ASSUME NEW tsk \in Seq(TimedTask)
    PROVE  Costed(tsk, Wcets(tsk))
  <1>1. \A k \in DOMAIN tsk : tsk[k].wcet \in Nat
    BY TaskFacts DEF TimedTask
  <1>2. \A k \in DOMAIN tsk : Wcets(tsk)[k] \in Nat
    BY <1>1 DEF Wcets
  <1> QED BY <1>2, TaskFacts

(* A single thread does all the work of a task.                             *)
LEMMA OneThreadCosts ==
    ASSUME NEW tsk \in Seq(TimedTask),
           \A k \in DOMAIN tsk :
              tsk[k].serial + tsk[k].parallel + tsk[k].overhead + tsk[k].critical = tsk[k].wcet
    PROVE  IsolatedCosts(tsk, 1) = Wcets(tsk)
  <1>1. ASSUME NEW k \in DOMAIN tsk
        PROVE  IsolatedCosts(tsk, 1)[k] = tsk[k].wcet
    <2> PICK t : t = tsk[k]
      OBVIOUS
    <2>1. /\ t.threads \in Nat \ {0} /\ t.serial \in Nat /\ t.parallel \in Nat
          /\ t.overhead \in Nat /\ t.critical \in Nat
      BY TaskFacts DEF TimedTask
    <2>2. (IF t.threads < 1 THEN t.threads ELSE 1) = 1
      BY <2>1
    <2>3. CeilDiv(t.parallel, 1) = t.parallel
      BY <2>1 DEF CeilDiv
    <2>4. IsolatedCosts(tsk, 1)[k] = t.serial + CeilDiv(t.parallel, 1) + t.overhead + t.critical
      BY <2>2 DEF IsolatedCosts
    <2> QED BY <2>3, <2>4
  <1> QED BY <1>1 DEF IsolatedCosts, Wcets

(* A larger team costs no more.                                             *)
LEMMA MoreThreadsCostNoMore ==
    ASSUME NEW tsk \in Seq(TimedTask), NEW n \in Nat \ {0}, NEW m \in Nat \ {0}, n <= m
    PROVE  /\ Costed(tsk, IsolatedCosts(tsk, n))
           /\ \A k \in DOMAIN tsk : IsolatedCosts(tsk, m)[k] <= IsolatedCosts(tsk, n)[k]
  <1> DEFINE team(k, t) == IF tsk[k].threads < t THEN tsk[k].threads ELSE t
  <1>1. ASSUME NEW k \in DOMAIN tsk
        PROVE  /\ IsolatedCosts(tsk, n)[k] \in Nat
               /\ IsolatedCosts(tsk, m)[k] <= IsolatedCosts(tsk, n)[k]
    <2>1. /\ tsk[k].threads \in Nat \ {0} /\ tsk[k].serial \in Nat /\ tsk[k].parallel \in Nat
          /\ tsk[k].overhead \in Nat /\ tsk[k].critical \in Nat
      BY TaskFacts DEF TimedTask
    <2>2. /\ team(k, n) \in Nat \ {0} /\ team(k, m) \in Nat \ {0}
          /\ team(k, n) <= team(k, m)
      BY <2>1
    <2>3. /\ IsolatedCosts(tsk, n)[k]
                = tsk[k].serial + CeilDiv(tsk[k].parallel, team(k, n))
                     + tsk[k].overhead + tsk[k].critical
          /\ IsolatedCosts(tsk, m)[k]
                = tsk[k].serial + CeilDiv(tsk[k].parallel, team(k, m))
                     + tsk[k].overhead + tsk[k].critical
      BY DEF IsolatedCosts
    <2> HIDE DEF team
    <2>4. /\ CeilDiv(tsk[k].parallel, team(k, n)) \in Nat
          /\ CeilDiv(tsk[k].parallel, team(k, m)) \in Nat
      BY <2>1, <2>2, CeilDivBounds
    <2>5. CeilDiv(tsk[k].parallel, team(k, m)) <= CeilDiv(tsk[k].parallel, team(k, n))
      <3>1. tsk[k].parallel <= tsk[k].parallel
        BY <2>1
      <3> QED BY <2>1, <2>2, <3>1, CeilDivIsMonotone
    <2> PICK p : p = CeilDiv(tsk[k].parallel, team(k, n))
      OBVIOUS
    <2> PICK q : q = CeilDiv(tsk[k].parallel, team(k, m))
      OBVIOUS
    <2>6. p \in Nat /\ q \in Nat /\ q <= p
      BY <2>4, <2>5
    <2>7. /\ IsolatedCosts(tsk, n)[k] = tsk[k].serial + p + tsk[k].overhead + tsk[k].critical
          /\ IsolatedCosts(tsk, m)[k] = tsk[k].serial + q + tsk[k].overhead + tsk[k].critical
      BY <2>3
    <2> QED BY <2>1, <2>6, <2>7
  <1> QED BY <1>1, TaskFacts

(* With lower costs a fixed point that converged still does, and lower.     *)
LEMMA CheaperConverges ==
    ASSUME NEW tsk, NEW cost, Costed(tsk, cost), NEW cost1, Costed(tsk, cost1),
           \A k \in DOMAIN tsk : cost[k] <= cost1[k],
           NEW i \in DOMAIN tsk, NEW above \in SUBSET DOMAIN tsk,
           FixedPoint(tsk, i, cost1, above).verdict = "Converged",
           FixedPoint(tsk, i, cost, above).verdict # "IterationLimit"
    PROVE  /\ FixedPoint(tsk, i, cost, above).verdict = "Converged"
           /\ FixedPoint(tsk, i, cost, above).response
                 <= FixedPoint(tsk, i, cost1, above).response
  <1> PICK x : x = FixedPoint(tsk, i, cost1, above).response
    OBVIOUS
  <1>1. Covers(tsk, i, cost1, above, x) /\ (x <= tsk[i].deadline \/ x = cost1[i])
    BY ConvergedIsLeast
  <1>2. x \in Nat /\ cost[i] \in Nat /\ cost1[i] \in Nat /\ cost[i] <= cost1[i]
    BY <1>1 DEF Covers, Costed
  <1>3. Interference(tsk, cost1, above, x) \in Nat /\ Interference(tsk, cost, above, x) \in Nat
        /\ Interference(tsk, cost, above, cost[i]) \in Nat
    BY <1>2, InterferenceIsLoad
  <1>4. Heavier(cost1, above, cost, above)
    BY DEF Heavier
  <1>5. cost1[i] + Interference(tsk, cost1, above, x) <= x
    BY <1>1 DEF Covers, Demanded
  <1>6. Interference(tsk, cost, above, x) <= Interference(tsk, cost1, above, x)
    <2>1. x <= x
      BY <1>2
    <2> QED BY <1>2, <1>4, <2>1, InterferenceIsMonotone
  <1>7. Covers(tsk, i, cost, above, x)
    BY <1>2, <1>3, <1>5, <1>6 DEF Covers, Demanded
  <1>8. FixedPoint(tsk, i, cost, above).verdict = "Converged"
    <2>1. CASE x <= tsk[i].deadline
      BY <1>7, <2>1, CoveredConverges
    <2>2. CASE x = cost1[i]
      <3>1. cost[i] <= x
        BY <1>2, <2>2
      <3>2. Interference(tsk, cost, above, cost[i]) <= Interference(tsk, cost1, above, x)
        BY <1>2, <1>4, <3>1, InterferenceIsMonotone
      <3>3. Covers(tsk, i, cost, above, cost[i])
        BY <1>2, <1>3, <1>5, <2>2, <3>2 DEF Covers, Demanded
      <3> QED BY <3>3, CoveredConverges
    <2> QED BY <1>1, <2>1, <2>2
  <1> QED BY <1>7, <1>8, ConvergedIsLeast

(* No iteration of a task set with these costs ends at the limit.           *)
Settled(tsk, cost) ==
    \A i \in DOMAIN tsk, above \in SUBSET DOMAIN tsk :
        FixedPoint(tsk, i, cost, above).verdict # "IterationLimit"

(* openmp_wcrt.rs: a second thread worsens no accepted bound.               *)
LEMMA MoreThreadsAreNoWorse ==
    ASSUME NEW tsk \in Seq(TimedTask), Settled(tsk, IsolatedCosts(tsk, 2))
    PROVE  NoWorse(AnalyzeOpenMpWcrt(tsk, 1), AnalyzeOpenMpWcrt(tsk, 2))
  <1> PICK one : one = IsolatedCosts(tsk, 1)
    OBVIOUS
  <1> PICK two : two = IsolatedCosts(tsk, 2)
    OBVIOUS
  <1>1. /\ Costed(tsk, one) /\ Costed(tsk, two)
        /\ \A k \in DOMAIN tsk : two[k] <= one[k]
    <2>1. 1 \in Nat \ {0} /\ 2 \in Nat \ {0} /\ 1 <= 2 /\ 2 <= 2
      OBVIOUS
    <2> QED BY <2>1, MoreThreadsCostNoMore
  <1>2. ASSUME NEW k \in DOMAIN tsk,
               AnalyzeTask(tsk, k, one, StrictlyAbove(tsk, k)).outcome = "Schedulable"
        PROVE  /\ AnalyzeTask(tsk, k, two, StrictlyAbove(tsk, k)).outcome = "Schedulable"
               /\ AnalyzeTask(tsk, k, two, StrictlyAbove(tsk, k)).response
                     <= AnalyzeTask(tsk, k, one, StrictlyAbove(tsk, k)).response
    <2> PICK above : above = StrictlyAbove(tsk, k)
      OBVIOUS
    <2>1. above \in SUBSET DOMAIN tsk
      BY DEF StrictlyAbove
    <2> PICK x : x = AnalyzeTask(tsk, k, one, above).response
      OBVIOUS
    <2>2. Covers(tsk, k, one, above, x) /\ x <= tsk[k].deadline
      BY <1>1, <1>2, <2>1, AcceptedIsFeasible
    <2>3. Covers(tsk, k, two, above, x)
      <3>1. x \in Nat /\ one[k] \in Nat /\ two[k] \in Nat /\ two[k] <= one[k] /\ x <= x
        BY <1>1, <2>2 DEF Covers, Costed
      <3>2. Interference(tsk, one, above, x) \in Nat /\ Interference(tsk, two, above, x) \in Nat
        BY <1>1, <2>1, <3>1, InterferenceIsLoad
      <3>3. Heavier(one, above, two, above)
        BY <1>1, <2>1 DEF Heavier
      <3>4. Interference(tsk, two, above, x) <= Interference(tsk, one, above, x)
        BY <1>1, <2>1, <3>1, <3>3, InterferenceIsMonotone
      <3>5. one[k] + Interference(tsk, one, above, x) <= x
        BY <2>2 DEF Covers, Demanded
      <3> QED BY <3>1, <3>2, <3>4, <3>5 DEF Covers, Demanded
    <2>4. HasResponse(tsk, k, two, above)
      BY <2>2, <2>3 DEF HasResponse
    <2>5. FixedPoint(tsk, k, two, above).verdict # "IterationLimit"
      BY <2>1 DEF Settled
    <2>6. AnalyzeTask(tsk, k, two, above).outcome = "Schedulable"
      BY <1>1, <2>1, <2>4, <2>5, FeasibleIsAccepted
    <2>7. AnalyzeTask(tsk, k, two, above).response <= x
      BY <1>1, <2>1, <2>3, <2>6, AcceptedIsFeasible
    <2> QED BY <2>6, <2>7
  <1>3. /\ AnalyzeOpenMpWcrt(tsk, 1)
              = [k \in DOMAIN tsk |-> AnalyzeTask(tsk, k, one, StrictlyAbove(tsk, k))]
        /\ AnalyzeOpenMpWcrt(tsk, 2)
              = [k \in DOMAIN tsk |-> AnalyzeTask(tsk, k, two, StrictlyAbove(tsk, k))]
    BY DEF AnalyzeOpenMpWcrt
  <1> QED BY <1>2, <1>3 DEF NoWorse

(* The demand of a task set that EDF can schedule is no more than one       *)
(* processor serves: each share of a million is rounded down.               *)
LEMMA UtilizationIsBounded ==
    ASSUME NEW tsk \in Seq(TimedTask)
    PROVE  /\ UtilizationPpm(tsk) \in Nat
           /\ EdfExactBound(tsk) => UtilizationPpm(tsk) <= Million
  <1> PICK h : h = Hyperperiod(tsk)
    OBVIOUS
  <1> DEFINE S == DOMAIN tsk
             shares == [i \in S |-> (tsk[i].wcet * Million) \div tsk[i].period]
             demands == [i \in S |-> tsk[i].wcet * (h \div tsk[i].period)]
  <1>1. h \in Nat \ {0} /\ \A k \in S : Divides(tsk[k].period, h)
    BY HyperperiodIsMultiple
  <1>2. ASSUME NEW k \in S
        PROVE  /\ shares[k] \in Nat /\ demands[k] \in Nat
               /\ h * shares[k] <= Million * demands[k]
    <2> PICK p : p = tsk[k].period
      OBVIOUS
    <2> PICK c : c = tsk[k].wcet
      OBVIOUS
    <2>1. p \in Nat \ {0} /\ c \in Nat
      BY TaskFacts DEF TimedTask
    <2>2. PICK q \in Nat : h = p * q
      BY <1>1 DEF Divides
    <2>3. h \div p = q
      BY <2>1, <2>2
    <2>4. c * Million \in Nat
      BY <2>1 DEF Million
    <2> PICK w : w = c * Million
      OBVIOUS
    <2> PICK u : u = w \div p
      OBVIOUS
    <2>5. w \in Nat /\ u \in Nat /\ p * u <= w
      BY <2>1, <2>4, QuotientBounds
    <2>6. shares[k] = u /\ demands[k] = c * q
      BY <2>3
    <2>7. c * q \in Nat
      BY <2>1
    <2>8. h * u = q * (p * u)
      BY <2>1, <2>2, <2>5
    <2>9. q * (p * u) <= q * w
      <3>1. p * u \in Nat
        BY <2>1, <2>5
      <3> QED BY <2>5, <3>1
    <2>10. q * w = Million * (c * q)
      BY <2>1, <2>2 DEF Million
    <2> QED BY <2>5, <2>6, <2>7, <2>8, <2>9, <2>10
  <1>3. IsFiniteSet(S)
    BY TaskFacts
  <1>4. UtilizationPpm(tsk) = SumOver(shares, S) /\ Demand(tsk) = SumOver(demands, S)
    BY DEF UtilizationPpm, Demand
  <1> HIDE DEF shares, demands, S
  <1>5. Counted(shares, S) /\ Counted(demands, S)
    BY <1>2, <1>3 DEF Counted
  <1> PICK u : u = SumOver(shares, S)
    OBVIOUS
  <1> PICK d : d = SumOver(demands, S)
    OBVIOUS
  <1>6. u \in Nat /\ d \in Nat
    BY <1>5, SumWithout
  <1>7. Million \in Nat /\ Million # 0
    BY DEF Million
  <1>8. h * u <= Million * d
    <2>1. h \in Nat /\ \A k \in S : h * shares[k] <= Million * demands[k]
      BY <1>1, <1>2
    <2> QED BY <1>5, <1>7, <2>1, SumIsScaled
  <1>9. ASSUME d <= h PROVE u <= Million
    <2> PICK m : m = Million
      OBVIOUS
    <2>1. m \in Nat /\ h * u <= m * d
      BY <1>7, <1>8
    <2>2. m * d <= m * h
      BY <1>1, <1>6, <1>9, <2>1
    <2> SUFFICES ASSUME u >= m + 1 PROVE FALSE
      BY <1>6, <2>1
    <2>3. h * u >= h * (m + 1)
      BY <1>1, <1>6, <2>1
    <2>4. h * (m + 1) = m * h + h
      BY <1>1, <2>1
    <2>5. h * u \in Nat /\ m * d \in Nat /\ m * h \in Nat
      BY <1>1, <1>6, <2>1
    <2> QED BY <1>1, <2>1, <2>2, <2>3, <2>4, <2>5
  <1> QED BY <1>4, <1>6, <1>9 DEF EdfExactBound

(* What a task costs at a speed.                                            *)
SpeedCosts(tsk, speed) == [i \in DOMAIN tsk |-> ServiceTime(tsk[i].wcet, speed)]

(* At speed 1 a task is served in its execution time.                       *)
LEMMA SpeedOne ==
    ASSUME NEW tsk \in Seq(TimedTask)
    PROVE  SpeedCosts(tsk, Million) = Wcets(tsk)
  <1>1. ASSUME NEW k \in DOMAIN tsk
        PROVE  ServiceTime(tsk[k].wcet, Million) = tsk[k].wcet
    <2>1. tsk[k].wcet \in Nat
      BY TaskFacts DEF TimedTask
    <2> QED BY <2>1 DEF ServiceTime, CeilDiv, Million
  <1> QED BY <1>1 DEF SpeedCosts, Wcets

(* At half that speed it takes no less.                                     *)
LEMMA HalfSpeed ==
    ASSUME NEW tsk \in Seq(TimedTask)
    PROVE  /\ Costed(tsk, SpeedCosts(tsk, Million \div 2))
           /\ \A k \in DOMAIN tsk : Wcets(tsk)[k] <= SpeedCosts(tsk, Million \div 2)[k]
  <1>1. ASSUME NEW k \in DOMAIN tsk
        PROVE  /\ SpeedCosts(tsk, Million \div 2)[k] \in Nat
               /\ Wcets(tsk)[k] <= SpeedCosts(tsk, Million \div 2)[k]
    <2>1. tsk[k].wcet \in Nat
      BY TaskFacts DEF TimedTask
    <2> QED BY <2>1 DEF SpeedCosts, ServiceTime, CeilDiv, Million, Wcets
  <1> QED BY <1>1, TaskFacts

(* The least and the greatest of two speeds.                                *)
LEMMA TwoSpeeds ==
    ASSUME NEW slow \in Nat, NEW fast \in Nat, slow <= fast
    PROVE  Min({slow, fast}) = slow /\ Max({slow, fast}) = fast
  <1>1. Min({slow, fast}) = slow
    <2>1. {slow, fast} \in SUBSET Nat /\ {slow, fast} # {}
      OBVIOUS
    <2>2. Min({slow, fast}) \in {slow, fast} /\ \A m \in {slow, fast} : Min({slow, fast}) <= m
      BY <2>1, LeastOfNaturals
    <2> QED BY <2>2
  <1>2. Max({slow, fast}) = fast
    <2>1. {slow, fast} \in SUBSET Int /\ {slow, fast} # {} /\ IsFiniteSet({slow, fast})
      <3>1. {slow, fast} \in SUBSET (0 .. fast) /\ IsFiniteSet(0 .. fast)
        BY FS_Interval
      <3> QED BY <3>1, FS_Subset
    <2>2. Max({slow, fast}) \in {slow, fast} /\ \A m \in {slow, fast} : Max({slow, fast}) >= m
      BY <2>1, Greatest
    <2> QED BY <2>2
  <1> QED BY <1>1, <1>2

(* A result of the uniform test, by what it depends on.                     *)
Judged(tooMuch, late, lower, f) ==
    CASE tooMuch -> Result(0, "CapacityExceeded")
      [] late -> Result(lower, "DeadlineMiss")
      [] OTHER -> Result(f.response, IF f.verdict = "Converged" THEN "Schedulable"
                                     ELSE "Inconclusive")

(* What the uniform test accepts, by the costs at the least and the greatest*)
(* speed and by the capacity.                                               *)
AtSpeeds(speeds, slow, fast) ==
    /\ slow \in Nat /\ fast \in Nat /\ slow <= fast
    /\ {speeds[k] : k \in DOMAIN speeds} \ {0} = {slow, fast}
JudgedBy(results, tsk, slowCost, fastCost, capacity) ==
    \A k \in DOMAIN tsk :
        LET f == FixedPoint(tsk, k, slowCost, Above(tsk, k))
        IN /\ results[k].outcome = "Schedulable" <=>
                 /\ ~ (UtilizationPpm(tsk) > capacity)
                 /\ ~ (fastCost[k] > tsk[k].deadline)
                 /\ f.verdict = "Converged"
           /\ results[k].outcome = "Schedulable" => results[k].response = f.response

(* The uniform test is judged by them.                                      *)
LEMMA UniformAccepts ==
    ASSUME NEW tsk \in Seq(TimedTask), NEW speeds, NEW slow, NEW fast,
           AtSpeeds(speeds, slow, fast)
    PROVE  JudgedBy(AnalyzeUniformGlobalFp(tsk, speeds), tsk, SpeedCosts(tsk, slow),
                    SpeedCosts(tsk, fast), SumOver(speeds, DOMAIN speeds))
  <1> SUFFICES ASSUME NEW k \in DOMAIN tsk
               PROVE  LET result == AnalyzeUniformGlobalFp(tsk, speeds)[k]
                          f == FixedPoint(tsk, k, SpeedCosts(tsk, slow), Above(tsk, k))
                      IN /\ result.outcome = "Schedulable" <=>
                               /\ ~ (UtilizationPpm(tsk) > SumOver(speeds, DOMAIN speeds))
                               /\ ~ (SpeedCosts(tsk, fast)[k] > tsk[k].deadline)
                               /\ f.verdict = "Converged"
                         /\ result.outcome = "Schedulable" => result.response = f.response
    BY Zenon DEF JudgedBy
  <1> DEFINE positive == {speeds[m] : m \in DOMAIN speeds} \ {0}
  <1>1. Min({slow, fast}) = slow /\ Max({slow, fast}) = fast
    BY TwoSpeeds DEF AtSpeeds
  <1>2. positive = {slow, fast}
    BY DEF AtSpeeds
  <1>3. AnalyzeUniformGlobalFp(tsk, speeds)[k]
           = Judged(UtilizationPpm(tsk) > SumOver(speeds, DOMAIN speeds),
                    SpeedCosts(tsk, Max(positive))[k] > tsk[k].deadline,
                    SpeedCosts(tsk, Max(positive))[k],
                    FixedPoint(tsk, k, SpeedCosts(tsk, Min(positive)), Above(tsk, k)))
    BY DEF AnalyzeUniformGlobalFp, SpeedCosts, Judged
  <1> HIDE DEF positive
  <1>4. Min(positive) = slow /\ Max(positive) = fast
    BY <1>1, <1>2, Zenon
  <1>5. AnalyzeUniformGlobalFp(tsk, speeds)[k]
           = Judged(UtilizationPpm(tsk) > SumOver(speeds, DOMAIN speeds),
                    SpeedCosts(tsk, fast)[k] > tsk[k].deadline,
                    SpeedCosts(tsk, fast)[k],
                    FixedPoint(tsk, k, SpeedCosts(tsk, slow), Above(tsk, k)))
    BY <1>3, <1>4
  <1> PICK result : result = AnalyzeUniformGlobalFp(tsk, speeds)[k]
    OBVIOUS
  <1> PICK f : f = FixedPoint(tsk, k, SpeedCosts(tsk, slow), Above(tsk, k))
    OBVIOUS
  <1>6. CASE \/ UtilizationPpm(tsk) > SumOver(speeds, DOMAIN speeds)
             \/ SpeedCosts(tsk, fast)[k] > tsk[k].deadline
    <2>1. \/ result = Result(0, "CapacityExceeded")
          \/ result = Result(SpeedCosts(tsk, fast)[k], "DeadlineMiss")
      BY <1>5, <1>6 DEF Judged
    <2>2. result.outcome # "Schedulable"
      BY <2>1 DEF Result
    <2> QED BY <1>6, <2>2
  <1>7. CASE /\ ~ (UtilizationPpm(tsk) > SumOver(speeds, DOMAIN speeds))
             /\ ~ (SpeedCosts(tsk, fast)[k] > tsk[k].deadline)
    <2>1. result = Result(f.response, IF f.verdict = "Converged" THEN "Schedulable"
                                      ELSE "Inconclusive")
      BY <1>5, <1>7 DEF Judged
    <2>2. result.outcome = "Schedulable" <=> f.verdict = "Converged"
      BY <2>1 DEF Result
    <2>3. result.response = f.response
      BY <2>1 DEF Result
    <2> QED BY <1>7, <2>2, <2>3
  <1> QED BY <1>6, <1>7

(* Sums of one and of two speeds.                                           *)
LEMMA SumOfSpeeds ==
    ASSUME NEW a \in Nat, NEW b \in Nat
    PROVE  /\ SumOver(<<a>>, DOMAIN <<a>>) = a
           /\ SumOver(<<a, b>>, DOMAIN <<a, b>>) = a + b
  <1>1. IsFiniteSet({1}) /\ IsFiniteSet({1, 2})
    <2>1. IsFiniteSet({1}) /\ IsFiniteSet({1} \cup {2})
      BY FS_Singleton, FS_AddElement, Zenon
    <2>2. {1} \cup {2} = {1, 2}
      OBVIOUS
    <2> QED BY <2>1, <2>2, Zenon
  <1>2. SumOver(<<a>>, {1}) = a
    <2>1. Counted(<<a>>, {1})
      BY <1>1 DEF Counted
    <2>2. {1} \ {1} = {}
      OBVIOUS
    <2>3. SumOver(<<a>>, {1}) = <<a>>[1] + SumOver(<<a>>, {1} \ {1})
      BY <2>1, SumWithout
    <2>4. SumOver(<<a>>, {1} \ {1}) = 0
      BY <2>2, SumOfNone, Zenon
    <2> QED BY <2>3, <2>4
  <1>3. SumOver(<<a, b>>, {1, 2}) = a + b
    <2>1. Counted(<<a, b>>, {1, 2}) /\ Counted(<<a, b>>, {1})
      BY <1>1 DEF Counted
    <2>2. {1, 2} \ {2} = {1} /\ {1} \ {1} = {}
      OBVIOUS
    <2>3. SumOver(<<a, b>>, {1, 2}) = <<a, b>>[2] + SumOver(<<a, b>>, {1, 2} \ {2})
      BY <2>1, SumWithout
    <2>4. SumOver(<<a, b>>, {1}) = <<a, b>>[1] + SumOver(<<a, b>>, {1} \ {1})
      BY <2>1, SumWithout
    <2>5. SumOver(<<a, b>>, {1, 2} \ {2}) = SumOver(<<a, b>>, {1})
      BY <2>2, Zenon
    <2>6. SumOver(<<a, b>>, {1} \ {1}) = 0
      BY <2>2, SumOfNone, Zenon
    <2> QED BY <2>3, <2>4, <2>5, <2>6
  <1>4. DOMAIN <<a>> = {1} /\ DOMAIN <<a, b>> = {1, 2}
    OBVIOUS
  <1> QED BY <1>2, <1>3, <1>4, Zenon

(* uniform_rta.rs: on one processor of speed 1 it is response-time analysis.*)
LEMMA OneProcessorIsUniform ==
    ASSUME NEW tsk \in Seq(TimedTask), EdfExactBound(tsk)
    PROVE  SameAcceptance(AnalyzeUniprocessorFp(tsk), AnalyzeUniformGlobalFp(tsk, <<Million>>))
  <1>1. Million \in Nat
    BY DEF Million
  <1>2. SumOver(<<Million>>, DOMAIN <<Million>>) = Million
    BY <1>1, SumOfSpeeds
  <1>3. UtilizationPpm(tsk) \in Nat /\ UtilizationPpm(tsk) <= Million
    BY UtilizationIsBounded
  <1>4. {<<Million>>[m] : m \in DOMAIN <<Million>>} \ {0} = {Million, Million}
    <2>1. {<<Million>>[m] : m \in DOMAIN <<Million>>} = {Million}
      OBVIOUS
    <2>2. Million # 0
      BY DEF Million
    <2> QED BY <2>1, <2>2
  <1> PICK cost : cost = Wcets(tsk)
    OBVIOUS
  <1>5. SpeedCosts(tsk, Million) = cost
    BY SpeedOne
  <1>6. ASSUME NEW k \in DOMAIN tsk
        PROVE  LET f == FixedPoint(tsk, k, cost, Above(tsk, k))
                   one == AnalyzeTask(tsk, k, cost, Above(tsk, k))
                   result == AnalyzeUniformGlobalFp(tsk, <<Million>>)[k]
               IN /\ one.outcome = "Schedulable" <=> result.outcome = "Schedulable"
                  /\ one.outcome = "Schedulable" => one.response = result.response
    <2> PICK f : f = FixedPoint(tsk, k, cost, Above(tsk, k))
      OBVIOUS
    <2> PICK one : one = AnalyzeTask(tsk, k, cost, Above(tsk, k))
      OBVIOUS
    <2> PICK result : result = AnalyzeUniformGlobalFp(tsk, <<Million>>)[k]
      OBVIOUS
    <2>1. cost[k] \in Nat /\ tsk[k].deadline \in Nat
      BY WcetsAreCosts DEF Costed
    <2>2. ~ (UtilizationPpm(tsk) > Million)
      BY <1>1, <1>3
    <2>3. JudgedBy(AnalyzeUniformGlobalFp(tsk, <<Million>>), tsk, cost, cost, Million)
      <3>1. AtSpeeds(<<Million>>, Million, Million)
        BY <1>1, <1>4 DEF AtSpeeds
      <3>2. JudgedBy(AnalyzeUniformGlobalFp(tsk, <<Million>>), tsk, SpeedCosts(tsk, Million),
                     SpeedCosts(tsk, Million), SumOver(<<Million>>, DOMAIN <<Million>>))
        BY <3>1, UniformAccepts
      <3> QED BY <1>2, <1>5, <3>2, Zenon
    <2>4. /\ result.outcome = "Schedulable" <=>
                ~ (cost[k] > tsk[k].deadline) /\ f.verdict = "Converged"
          /\ result.outcome = "Schedulable" => result.response = f.response
      BY <2>2, <2>3 DEF JudgedBy
    <2>5. CASE cost[k] > tsk[k].deadline
      <3>1. one = Result(cost[k], "DeadlineMiss")
        BY <2>1, <2>5 DEF AnalyzeTask
      <3> QED BY <2>4, <2>5, <3>1 DEF Result
    <2>6. CASE ~ (cost[k] > tsk[k].deadline)
      <3>1. one = Result(f.response, CASE f.verdict = "Converged" -> "Schedulable"
                                       [] f.verdict = "Late" -> "DeadlineMiss"
                                       [] OTHER -> "IterationLimit")
        BY <2>1, <2>6 DEF AnalyzeTask
      <3>2. one.response = f.response /\ (one.outcome = "Schedulable" <=> f.verdict = "Converged")
        BY <3>1 DEF Result
      <3> QED BY <2>4, <2>6, <3>2
    <2> QED BY <2>5, <2>6
  <1>7. AnalyzeUniprocessorFp(tsk)
           = [k \in DOMAIN tsk |-> AnalyzeTask(tsk, k, cost, Above(tsk, k))]
    BY DEF AnalyzeUniprocessorFp
  <1> QED BY <1>6, <1>7 DEF SameAcceptance

(* uniform_rta.rs: with the slower processor as fast as the other no        *)
(* accepted bound is worse.                                                 *)
LEMMA FasterIsNoWorse ==
    ASSUME NEW tsk \in Seq(TimedTask), Settled(tsk, Wcets(tsk))
    PROVE  NoWorse(AnalyzeUniformGlobalFp(tsk, <<Million \div 2, Million>>),
                   AnalyzeUniformGlobalFp(tsk, <<Million, Million>>))
  <1> PICK half : half = Million \div 2
    OBVIOUS
  <1>1. half \in Nat /\ Million \in Nat /\ half <= Million /\ half # 0 /\ Million # 0
        /\ Million <= Million
    BY DEF Million
  <1> PICK a : a = AnalyzeUniformGlobalFp(tsk, <<half, Million>>)
    OBVIOUS
  <1> PICK b : b = AnalyzeUniformGlobalFp(tsk, <<Million, Million>>)
    OBVIOUS
  <1>2. /\ SumOver(<<half, Million>>, DOMAIN <<half, Million>>) = half + Million
        /\ SumOver(<<Million, Million>>, DOMAIN <<Million, Million>>) = Million + Million
    BY <1>1, SumOfSpeeds
  <1>3. {<<half, Million>>[m] : m \in DOMAIN <<half, Million>>} \ {0} = {half, Million}
    <2>1. {<<half, Million>>[m] : m \in DOMAIN <<half, Million>>} = {half, Million}
      OBVIOUS
    <2> QED BY <1>1, <2>1
  <1>4. {<<Million, Million>>[m] : m \in DOMAIN <<Million, Million>>} \ {0} = {Million, Million}
    <2>1. {<<Million, Million>>[m] : m \in DOMAIN <<Million, Million>>} = {Million, Million}
      OBVIOUS
    <2> QED BY <1>1, <2>1
  <1> PICK cost : cost = Wcets(tsk)
    OBVIOUS
  <1> PICK slower : slower = SpeedCosts(tsk, half)
    OBVIOUS
  <1>5. SpeedCosts(tsk, Million) = cost
    BY SpeedOne
  <1>6. /\ Costed(tsk, cost) /\ Costed(tsk, slower)
        /\ \A k \in DOMAIN tsk : cost[k] <= slower[k]
    BY WcetsAreCosts, HalfSpeed
  <1>7. JudgedBy(a, tsk, slower, cost, half + Million)
    <2>1. AtSpeeds(<<half, Million>>, half, Million)
      BY <1>1, <1>3 DEF AtSpeeds
    <2>2. JudgedBy(a, tsk, SpeedCosts(tsk, half), SpeedCosts(tsk, Million),
                   SumOver(<<half, Million>>, DOMAIN <<half, Million>>))
      BY <2>1, UniformAccepts
    <2> QED BY <1>2, <1>5, <2>2, Zenon
  <1>8. JudgedBy(b, tsk, cost, cost, Million + Million)
    <2>1. AtSpeeds(<<Million, Million>>, Million, Million)
      BY <1>1, <1>4 DEF AtSpeeds
    <2>2. JudgedBy(b, tsk, SpeedCosts(tsk, Million), SpeedCosts(tsk, Million),
                   SumOver(<<Million, Million>>, DOMAIN <<Million, Million>>))
      BY <2>1, UniformAccepts
    <2> QED BY <1>2, <1>5, <2>2, Zenon
  <1>9. ASSUME NEW k \in DOMAIN tsk, a[k].outcome = "Schedulable"
        PROVE  b[k].outcome = "Schedulable" /\ b[k].response <= a[k].response
    <2> PICK f : f = FixedPoint(tsk, k, cost, Above(tsk, k))
      OBVIOUS
    <2> PICK g : g = FixedPoint(tsk, k, slower, Above(tsk, k))
      OBVIOUS
    <2>1. /\ ~ (UtilizationPpm(tsk) > half + Million)
          /\ ~ (cost[k] > tsk[k].deadline)
          /\ g.verdict = "Converged" /\ a[k].response = g.response
      BY <1>9, <1>7 DEF JudgedBy
    <2>2. Above(tsk, k) \in SUBSET DOMAIN tsk
      BY DEF Above
    <2>3. f.verdict # "IterationLimit"
      BY <2>2 DEF Settled
    <2>4. f.verdict = "Converged" /\ f.response <= g.response
      BY <1>6, <2>1, <2>2, <2>3, CheaperConverges
    <2>5. ~ (UtilizationPpm(tsk) > Million + Million)
      <3>1. UtilizationPpm(tsk) \in Nat
        BY UtilizationIsBounded
      <3> QED BY <1>1, <2>1, <3>1
    <2>6. /\ b[k].outcome = "Schedulable"
          /\ b[k].response = f.response
      BY <1>8, <2>1, <2>4, <2>5 DEF JudgedBy
    <2> QED BY <2>1, <2>4, <2>6
  <1>10. DOMAIN a = DOMAIN tsk
    BY DEF AnalyzeUniformGlobalFp
  <1> QED BY <1>9, <1>10 DEF NoWorse

-----------------------------------------------------------------------------
(* The tasks of one device                                                  *)

(* Every place among them is taken: places are distinct, and as many as the *)
(* tasks.                                                                   *)
LEMMA EveryPlaceIsTaken ==
    ASSUME tasks \in Seq(TimedTask)
    PROVE  /\ Cardinality(Local) \in Nat
           /\ \A n \in 1 .. Cardinality(Local) : \E i \in Local : Place(i) = n
  <1>1. Local \in SUBSET (1 .. Len(tasks)) /\ Len(tasks) \in Nat
    BY DEF Local
  <1>2. IsFiniteSet(Local) /\ Cardinality(Local) \in Nat
    <2>1. IsFiniteSet(1 .. Len(tasks))
      BY <1>1, FS_Interval
    <2> QED BY <1>1, <2>1, FS_Subset, FS_CardinalityType
  <1> PICK count : count = Cardinality(Local)
    OBVIOUS
  <1> DEFINE upTo(i) == {k \in Local : k <= i}
  <1>3. ASSUME NEW i \in Local
        PROVE  /\ IsFiniteSet(upTo(i)) /\ Place(i) = Cardinality(upTo(i))
               /\ Place(i) \in 1 .. count
    <2>1. upTo(i) \in SUBSET Local
      OBVIOUS
    <2>2. i \in upTo(i)
      BY <1>1
    <2>3. Place(i) = Cardinality(upTo(i))
      BY DEF Place
    <2> HIDE DEF upTo
    <2>4. IsFiniteSet(upTo(i)) /\ Cardinality(upTo(i)) \in Nat /\ Cardinality(upTo(i)) <= count
      BY <1>2, <2>1, FS_Subset, FS_CardinalityType
    <2>5. Cardinality(upTo(i)) # 0
      BY <2>2, <2>4, FS_EmptySet
    <2> QED BY <1>2, <2>3, <2>4, <2>5
  <1>4. ASSUME NEW i \in Local, NEW k \in Local, i < k PROVE Place(i) < Place(k)
    <2>1. upTo(i) \in SUBSET (upTo(k) \ {k}) /\ k \in upTo(k)
      <3>1. \A m \in Local : m \in Nat
        BY <1>1
      <3>2. \A m \in Local : m <= i => m <= k /\ m # k
        BY <1>4, <3>1
      <3>3. k <= k
        BY <3>1
      <3> QED BY <3>2, <3>3
    <2> HIDE DEF upTo
    <2>2. Cardinality(upTo(i)) < Cardinality(upTo(k))
      BY <1>3, <2>1, NotAsLarge
    <2> QED BY <1>3, <2>2
  <1> DEFINE f == [i \in Local |-> Place(i)]
  <1>5. f \in Injection(Local, 1 .. count)
    <2>1. f \in [Local -> 1 .. count]
      BY <1>3
    <2>2. ASSUME NEW i \in Local, NEW k \in Local, f[i] = f[k] PROVE i = k
      <3>1. Place(i) = Place(k) /\ Place(i) \in Nat
        <4>1. Place(i) = Place(k)
          BY <2>2
        <4>2. Place(i) \in 1 .. count /\ count \in Nat
          BY <1>2, <1>3
        <4> QED BY <4>1, <4>2
      <3>2. ~ (i < k) /\ ~ (k < i)
        <4>1. i < k => Place(i) < Place(k)
          BY <1>4
        <4>2. k < i => Place(k) < Place(i)
          BY <1>4
        <4> QED BY <3>1, <4>1, <4>2
      <3> QED BY <1>1, <3>2
    <2> HIDE DEF f
    <2> QED BY <2>1, <2>2 DEF Injection, IsInjective
  <1>6. IsFiniteSet(1 .. count) /\ Cardinality(1 .. count) = count
    BY <1>2, FS_Interval
  <1>7. f \in Surjection(Local, 1 .. count)
    <2> HIDE DEF f
    <2> QED BY <1>5, <1>6, FS_Injection
  <1>8. ASSUME NEW n \in 1 .. count PROVE \E i \in Local : Place(i) = n
    <2>1. \E i \in Local : f[i] = n
      <3> HIDE DEF f
      <3> QED BY <1>7 DEF Surjection
    <2> QED BY <2>1
  <1> QED BY <1>2, <1>8

(* They are a task set, whose tasks are tasks of the device.                *)
LEMMA LocalTasksAreTasks ==
    ASSUME tasks \in Seq(TimedTask)
    PROVE  /\ LocalTasks \in Seq(TimedTask)
           /\ \A n \in DOMAIN LocalTasks :
                 \E i \in Local : Place(i) = n /\ LocalTasks[n] = tasks[i]
  <1> PICK count : count = Cardinality(Local)
    OBVIOUS
  <1> DEFINE taskAt(n) == CHOOSE i \in Local : Place(i) = n
  <1>1. count \in Nat /\ \A n \in 1 .. count : taskAt(n) \in Local /\ Place(taskAt(n)) = n
    BY EveryPlaceIsTaken
  <1>2. LocalTasks = [n \in 1 .. count |-> tasks[taskAt(n)]]
    BY DEF LocalTasks
  <1> HIDE DEF taskAt
  <1>3. \A i \in Local : tasks[i] \in TimedTask
    BY DEF Local
  <1>4. \A n \in 1 .. count : tasks[taskAt(n)] \in TimedTask
    BY <1>1, <1>3
  <1>5. LocalTasks \in Seq(TimedTask)
    BY <1>1, <1>2, <1>4
  <1> QED BY <1>1, <1>2, <1>5

(* The task set of a behaviour is one of those given.                       *)
TasksPicked == tasks \in TaskSets

(* No step changes it.                                                      *)
LEMMA TasksStayPicked == RefSpec => []TasksPicked
  <1>1. RefInit => TasksPicked
    BY DEF RefInit, TasksPicked
  <1>2. TasksPicked /\ [RefNext]_refVars => TasksPicked'
    <2> SUFFICES ASSUME TasksPicked, [RefNext]_refVars PROVE tasks' = tasks
      BY DEF TasksPicked
    <2>1. CASE RunJob
      BY <2>1 DEF RunJob
    <2>2. CASE Idle
      BY <2>2 DEF Idle
    <2>3. CASE StartLevel2
      BY <2>3 DEF StartLevel2
    <2>4. CASE Tick
      BY <2>4 DEF Tick
    <2>5. CASE Finish
      BY <2>5 DEF Finish
    <2>6. CASE UNCHANGED refVars
      BY <2>6 DEF refVars
    <2> QED BY <2>1, <2>2, <2>3, <2>4, <2>5, <2>6 DEF RefNext
  <1> QED BY <1>1, <1>2, PTL DEF RefSpec

(* The hypothesis of the properties, for the two costs it speaks of.        *)
LEMMA RoundsSettle ==
    ASSUME RoundsSuffice
    PROVE  Settled(LocalTasks, Wcets(LocalTasks))
           /\ Settled(LocalTasks, IsolatedCosts(LocalTasks, 2))
  <1>1. \A cost \in {Wcets(LocalTasks), IsolatedCosts(LocalTasks, 2)} : Settled(LocalTasks, cost)
    BY DEF RoundsSuffice, Settled
  <1> QED BY <1>1

(* The three tests agree in every state: on one processor of speed 1 the    *)
(* uniform test runs the same iteration, with the same costs and distinct   *)
(* priorities the OpenMP test does, and what covers the demand of higher    *)
(* costs covers that of lower ones.                                         *)
THEOREM AnalysesAlwaysAgree == RefSpec => []AnalysesAgree
  <1>1. TasksPicked => AnalysesAgree
    <2> SUFFICES ASSUME TasksPicked PROVE AnalysesAgree
      OBVIOUS
    <2>1. tasks \in Seq(TimedTask)
      BY TaskSetsAssumption DEF TasksPicked
    <2> PICK tsk : tsk = LocalTasks
      OBVIOUS
    <2>2. tsk \in Seq(TimedTask)
      BY <2>1, LocalTasksAreTasks
    <2>3. EdfExactBound(tsk) =>
             SameAcceptance(AnalyzeUniprocessorFp(tsk), AnalyzeUniformGlobalFp(tsk, <<Million>>))
      BY <2>2, OneProcessorIsUniform
    <2>4. Distinct /\ SameWork => SameAcceptance(AnalyzeUniprocessorFp(tsk), AnalyzeOpenMpWcrt(tsk, 1))
      <3> SUFFICES ASSUME Distinct, SameWork
                   PROVE  AnalyzeOpenMpWcrt(tsk, 1) = AnalyzeUniprocessorFp(tsk)
        BY DEF SameAcceptance
      <3>1. IsolatedCosts(tsk, 1) = Wcets(tsk)
        <4>1. ASSUME NEW k \in DOMAIN tsk
              PROVE  tsk[k].serial + tsk[k].parallel + tsk[k].overhead + tsk[k].critical = tsk[k].wcet
          <5>1. PICK i \in Local : tsk[k] = tasks[i]
            BY <2>1, LocalTasksAreTasks
          <5> QED BY <5>1 DEF SameWork
        <4> QED BY <2>2, <4>1, OneThreadCosts
      <3>2. ASSUME NEW k \in DOMAIN tsk PROVE StrictlyAbove(tsk, k) = Above(tsk, k)
        <4>1. ASSUME NEW m \in DOMAIN tsk, tsk[m].priority = tsk[k].priority PROVE m = k
          <5>1. PICK i \in Local : Place(i) = k /\ tsk[k] = tasks[i]
            BY <2>1, LocalTasksAreTasks
          <5>2. PICK j \in Local : Place(j) = m /\ tsk[m] = tasks[j]
            BY <2>1, LocalTasksAreTasks
          <5>3. i = j
            BY <4>1, <5>1, <5>2 DEF Distinct
          <5> QED BY <5>1, <5>2, <5>3
        <4>2. k \in Nat
          BY <2>2
        <4>3. ~ (k < k)
          BY <4>2
        <4> QED BY <4>1, <4>3 DEF StrictlyAbove, Above
      <3> QED BY <3>1, <3>2 DEF AnalyzeOpenMpWcrt, AnalyzeUniprocessorFp
    <2>5. RoundsSuffice =>
             /\ NoWorse(AnalyzeOpenMpWcrt(tsk, 1), AnalyzeOpenMpWcrt(tsk, 2))
             /\ NoWorse(AnalyzeUniformGlobalFp(tsk, <<Million \div 2, Million>>),
                        AnalyzeUniformGlobalFp(tsk, <<Million, Million>>))
      BY <2>2, RoundsSettle, MoreThreadsAreNoWorse, FasterIsNoWorse
    <2> QED BY <2>3, <2>4, <2>5 DEF AnalysesAgree
  <1> QED BY <1>1, TasksStayPicked, PTL

-----------------------------------------------------------------------------
(* Priority assignments                                                     *)

(* The tasks above i under an assignment, and whether a task is accepted    *)
(* under some tasks.                                                        *)
AboveBy(tsk, p, i) == {k \in DOMAIN tsk : p[k] < p[i] \/ (p[k] = p[i] /\ k < i)}
Passes(tsk, i, above) == AnalyzeTask(tsk, i, Wcets(tsk), above).outcome = "Schedulable"

(* The analysis depends on no priority but through the tasks above.         *)
LEMMA AnalysisWithPriorities ==
    ASSUME NEW tsk \in Seq(TimedTask), NEW p, NEW i \in DOMAIN tsk
    PROVE  AnalyzeUniprocessorFp(WithPriorities(tsk, p))[i].outcome = "Schedulable"
              <=> Passes(tsk, i, AboveBy(tsk, p, i))
  <1> PICK w : w = WithPriorities(tsk, p)
    OBVIOUS
  <1> PICK cost : cost = Wcets(tsk)
    OBVIOUS
  <1> PICK above : above = AboveBy(tsk, p, i)
    OBVIOUS
  <1>1. /\ DOMAIN w = DOMAIN tsk
        /\ \A k \in DOMAIN tsk :
              /\ w[k].period = tsk[k].period /\ w[k].deadline = tsk[k].deadline
              /\ w[k].wcet = tsk[k].wcet /\ w[k].priority = p[k]
    <2>1. \A k \in DOMAIN tsk : tsk[k] \in TimedTask
      BY TaskFacts
    <2>2. w = [k \in DOMAIN tsk |-> [tsk[k] EXCEPT !.priority = p[k]]]
      BY DEF WithPriorities
    <2>3. ASSUME NEW k \in DOMAIN tsk
          PROVE  /\ w[k].period = tsk[k].period /\ w[k].deadline = tsk[k].deadline
                 /\ w[k].wcet = tsk[k].wcet /\ w[k].priority = p[k]
      <3>1. w[k] = [tsk[k] EXCEPT !.priority = p[k]] /\ tsk[k] \in TimedTask
        BY <2>1, <2>2
      <3> QED BY <3>1 DEF TimedTask
    <2> QED BY <2>2, <2>3
  <1>2. Wcets(w) = cost
    BY <1>1 DEF Wcets
  <1>3. Above(w, i) = above
    BY <1>1 DEF Above, AboveBy
  <1>4. above \in SUBSET DOMAIN tsk
    BY DEF AboveBy
  <1>5. Costed(tsk, cost)
    BY WcetsAreCosts
  <1>6. \A r : Interference(w, cost, above, r) = Interference(tsk, cost, above, r)
    <2> TAKE r
    <2>1. [k \in above |-> CeilDiv(r, w[k].period) * cost[k]]
             = [k \in above |-> CeilDiv(r, tsk[k].period) * cost[k]]
      BY <1>1, <1>4
    <2> QED BY <2>1, Zenon DEF Interference
  <1>7. FixedPoint(w, i, cost, above) = FixedPoint(tsk, i, cost, above)
    <2>1. PICK e \in [Nat -> Nat] : Iterates(e, tsk, i, cost, above)
      BY <1>4, <1>5, IteratesExist
    <2>2. Iterates(e, w, i, cost, above)
      BY <1>6, <2>1 DEF Iterates
    <2>3. FixedPoint(tsk, i, cost, above) = Outcome(e, tsk[i].deadline)
      BY <2>1, FixedPointIs
    <2>4. FixedPoint(w, i, cost, above) = Outcome(e, w[i].deadline)
      BY <2>2, FixedPointIs
    <2> QED BY <1>1, <2>3, <2>4
  <1>8. AnalyzeTask(w, i, cost, above) = AnalyzeTask(tsk, i, cost, above)
    BY <1>1, <1>7 DEF AnalyzeTask
  <1>9. AnalyzeUniprocessorFp(w)[i] = AnalyzeTask(w, i, Wcets(w), Above(w, i))
    BY <1>1 DEF AnalyzeUniprocessorFp
  <1> QED BY <1>2, <1>3, <1>8, <1>9 DEF Passes

(* An assignment is accepted when every task passes under those above it.   *)
AcceptedOrder(tsk, p) == \A i \in DOMAIN tsk : Passes(tsk, i, AboveBy(tsk, p, i))

(* So acceptance under an assignment is that of each task under the tasks   *)
(* above it.                                                                *)
LEMMA AcceptedIs ==
    ASSUME NEW tsk \in Seq(TimedTask), NEW p
    PROVE  Accepted(AnalyzeUniprocessorFp(WithPriorities(tsk, p))) <=> AcceptedOrder(tsk, p)
  <1>1. DOMAIN AnalyzeUniprocessorFp(WithPriorities(tsk, p)) = DOMAIN tsk
    BY DEF AnalyzeUniprocessorFp, WithPriorities
  <1>2. \A i \in DOMAIN tsk :
           AnalyzeUniprocessorFp(WithPriorities(tsk, p))[i].outcome = "Schedulable"
              <=> Passes(tsk, i, AboveBy(tsk, p, i))
    BY AnalysisWithPriorities
  <1> QED BY <1>1, <1>2 DEF Accepted, AcceptedOrder

(* A task that passes has an r within its deadline that covers, and with    *)
(* rounds enough the other way round.                                       *)
LEMMA PassesIs ==
    ASSUME NEW tsk \in Seq(TimedTask), NEW i \in DOMAIN tsk, NEW above \in SUBSET DOMAIN tsk
    PROVE  /\ Passes(tsk, i, above) => HasResponse(tsk, i, Wcets(tsk), above)
           /\ Settled(tsk, Wcets(tsk)) /\ HasResponse(tsk, i, Wcets(tsk), above) =>
                 Passes(tsk, i, above)
  <1>1. Costed(tsk, Wcets(tsk))
    BY WcetsAreCosts
  <1>2. ASSUME Passes(tsk, i, above) PROVE HasResponse(tsk, i, Wcets(tsk), above)
    <2> PICK x : x = AnalyzeTask(tsk, i, Wcets(tsk), above).response
      OBVIOUS
    <2>1. Covers(tsk, i, Wcets(tsk), above, x) /\ x <= tsk[i].deadline
      BY <1>1, <1>2, AcceptedIsFeasible DEF Passes
    <2> QED BY <2>1 DEF HasResponse
  <1>3. ASSUME Settled(tsk, Wcets(tsk)), HasResponse(tsk, i, Wcets(tsk), above)
        PROVE  Passes(tsk, i, above)
    <2>1. FixedPoint(tsk, i, Wcets(tsk), above).verdict # "IterationLimit"
      BY <1>3 DEF Settled
    <2> QED BY <1>1, <1>3, <2>1, FeasibleIsAccepted DEF Passes
  <1> QED BY <1>2, <1>3

(* A task that passes also passes under fewer tasks.                        *)
LEMMA FewerAbove ==
    ASSUME NEW tsk \in Seq(TimedTask), Settled(tsk, Wcets(tsk)), NEW i \in DOMAIN tsk,
           NEW above1 \in SUBSET DOMAIN tsk, NEW above \in SUBSET above1,
           Passes(tsk, i, above1)
    PROVE  Passes(tsk, i, above)
  <1> PICK cost : cost = Wcets(tsk)
    OBVIOUS
  <1>1. Costed(tsk, cost) /\ above \in SUBSET DOMAIN tsk
    BY WcetsAreCosts
  <1>2. HasResponse(tsk, i, cost, above1)
    BY PassesIs
  <1>3. PICK r : Covers(tsk, i, cost, above1, r) /\ r <= tsk[i].deadline
    BY <1>2 DEF HasResponse
  <1>4. r \in Nat /\ cost[i] \in Nat /\ cost[i] + Interference(tsk, cost, above1, r) <= r
    BY <1>1, <1>3 DEF Covers, Demanded, Costed
  <1>5. Interference(tsk, cost, above, r) \in Nat /\ Interference(tsk, cost, above1, r) \in Nat
    BY <1>1, <1>4, InterferenceIsLoad
  <1>6. Interference(tsk, cost, above, r) <= Interference(tsk, cost, above1, r)
    <2>1. \A k \in above : cost[k] \in Nat /\ cost[k] <= cost[k] /\ k \in above1
      BY <1>1 DEF Costed
    <2>2. Heavier(cost, above, cost, above1)
      BY <2>1 DEF Heavier
    <2>3. r <= r
      BY <1>4
    <2> QED BY <1>1, <1>4, <2>2, <2>3, InterferenceIsMonotone
  <1>7. Covers(tsk, i, cost, above, r)
    BY <1>4, <1>5, <1>6 DEF Covers, Demanded
  <1>8. HasResponse(tsk, i, cost, above)
    BY <1>3, <1>7 DEF HasResponse
  <1> QED BY <1>1, <1>8, PassesIs

-----------------------------------------------------------------------------
(* Audsley's search                                                         *)

(* An assignment of the levels from one up, every task of which passes      *)
(* under the tasks that come above it, assigned or not.                     *)
Assigned(tsk, level, a) ==
    /\ DOMAIN a \in SUBSET DOMAIN tsk
    /\ a \in [DOMAIN a -> level .. Len(tsk)]
    /\ \A i, k \in DOMAIN a : a[i] = a[k] => i = k
    /\ Cardinality(DOMAIN tsk \ DOMAIN a) = level - 1
    /\ \A i \in DOMAIN a :
          Passes(tsk, i, {k \in DOMAIN tsk : k \notin DOMAIN a \/ a[k] < a[i]})

(* What is tried at a level: a task under all others that have no level.    *)
LEMMA FittingIs ==
    ASSUME NEW tsk \in Seq(TimedTask), NEW level \in 1 .. Len(tsk), NEW a,
           Assigned(tsk, level + 1, a)
    PROVE  Fitting(tsk, level, a)
              = {c \in DOMAIN tsk \ DOMAIN a : Passes(tsk, c, (DOMAIN tsk \ DOMAIN a) \ {c})}
  <1> DEFINE N == DOMAIN tsk
             free == N \ DOMAIN a
  <1>1. N = 1 .. Len(tsk) /\ IsFiniteSet(N) /\ Len(tsk) \in Nat /\ level \in Nat
    BY TaskFacts
  <1>2. IsFiniteSet(free) /\ Cardinality(free) = level
    <2>1. free \in SUBSET N
      OBVIOUS
    <2>2. Cardinality(free) = (level + 1) - 1
      BY DEF Assigned
    <2>3. (level + 1) - 1 = level
      BY <1>1
    <2>4. IsFiniteSet(free)
      <3> HIDE DEF free, N
      <3> QED BY <1>1, <2>1, FS_Subset
    <2> QED BY <2>2, <2>3, <2>4
  <1>3. ASSUME NEW c \in free
        PROVE  AboveBy(tsk, CandidateAssignment(tsk, c, level, a), c) = free \ {c}
    <2> PICK p : p = CandidateAssignment(tsk, c, level, a)
      OBVIOUS
    <2> DEFINE others == N \ (DOMAIN a \cup {c})
    <2>1. others = free \ {c}
      OBVIOUS
    <2>2. IsFiniteSet(others) /\ Cardinality(others) < level
      <3> HIDE DEF free, others
      <3>1. IsFiniteSet(free \ {c}) /\ Cardinality(free \ {c}) < Cardinality(free)
        BY <1>2, OneLess
      <3> QED BY <1>2, <2>1, <3>1
    <2>3. ASSUME NEW i \in N
          PROVE  /\ i \in DOMAIN a => p[i] = a[i]
                 /\ i = c => p[i] = level
                 /\ i \in others => p[i] = Cardinality({k \in others : k <= i})
      BY DEF CandidateAssignment
    <2>4. ASSUME NEW i \in others
          PROVE  p[i] \in Nat /\ p[i] < level
      <3> DEFINE upTo == {k \in others : k <= i}
      <3>1. upTo \in SUBSET others
        OBVIOUS
      <3>2. p[i] = Cardinality(upTo)
        BY <2>3
      <3> HIDE DEF upTo, others
      <3>3. Cardinality(upTo) \in Nat /\ Cardinality(upTo) <= Cardinality(others)
            /\ Cardinality(others) \in Nat
        BY <2>2, <3>1, FS_Subset, FS_CardinalityType
      <3> QED BY <1>1, <2>2, <3>2, <3>3
    <2>5. ASSUME NEW i \in DOMAIN a
          PROVE  i \in N /\ p[i] \in Int /\ p[i] > level
      <3>1. i \in N /\ a[i] \in level + 1 .. Len(tsk)
        BY DEF Assigned
      <3>2. p[i] = a[i]
        <4> HIDE DEF N
        <4> QED BY <2>3, <3>1, Zenon
      <3>3. a[i] \in Int /\ a[i] > level
        BY <1>1, <3>1
      <3> QED BY <3>1, <3>2, <3>3
    <2>6. p[c] = level /\ c \in N /\ ~ (c < c)
      <3>1. c \in N
        OBVIOUS
      <3>2. p[c] = level
        <4> HIDE DEF N
        <4> QED BY <2>3, <3>1, Zenon
      <3>3. ~ (c < c)
        BY <1>1, <3>1
      <3> QED BY <3>1, <3>2, <3>3
    <2>7. ASSUME NEW k \in N
          PROVE  (p[k] < p[c] \/ (p[k] = p[c] /\ k < c)) <=> k \in others
      <3>1. CASE k \in DOMAIN a
        <4>1. k \notin others
          BY <3>1
        <4> HIDE DEF others
        <4> QED BY <1>1, <2>5, <2>6, <3>1, <4>1
      <3>2. CASE k = c
        <4>1. k \notin others
          BY <3>2
        <4> HIDE DEF others
        <4> QED BY <1>1, <2>6, <3>2, <4>1
      <3>3. CASE k \in others
        <4> HIDE DEF others
        <4> QED BY <1>1, <2>4, <2>6, <3>3
      <3> QED BY <3>1, <3>2, <3>3
    <2>8. AboveBy(tsk, p, c) = others
      <3>1. others \in SUBSET N
        OBVIOUS
      <3> HIDE DEF others
      <3> QED BY <2>7, <3>1 DEF AboveBy
    <2> QED BY <2>1, <2>8
  <1>4. ASSUME NEW c \in free
        PROVE  AnalyzeUniprocessorFp(WithPriorities(tsk, CandidateAssignment(tsk, c, level, a)))
                  [c].outcome = "Schedulable" <=> Passes(tsk, c, free \ {c})
    <2>1. c \in DOMAIN tsk
      OBVIOUS
    <2> PICK p : p = CandidateAssignment(tsk, c, level, a)
      OBVIOUS
    <2>2. AnalyzeUniprocessorFp(WithPriorities(tsk, p))[c].outcome = "Schedulable"
             <=> Passes(tsk, c, AboveBy(tsk, p, c))
      BY <2>1, AnalysisWithPriorities
    <2> HIDE DEF free
    <2>3. AboveBy(tsk, p, c) = free \ {c}
      BY <1>3, Zenon
    <2> QED BY <2>2, <2>3, Zenon
  <1>5. Fitting(tsk, level, a)
           = {c \in free : AnalyzeUniprocessorFp(WithPriorities(tsk,
                                CandidateAssignment(tsk, c, level, a)))[c].outcome = "Schedulable"}
    BY DEF Fitting
  <1> HIDE DEF free, N
  <1>6. Fitting(tsk, level, a) = {c \in free : Passes(tsk, c, free \ {c})}
    BY <1>4, <1>5
  <1> QED BY <1>6 DEF free, N

(* The assignment one level on: the first task that fits gets the level.    *)
Extend(tsk, level, a) ==
    [i \in DOMAIN a \cup {Min(Fitting(tsk, level, a))} |-> IF i \in DOMAIN a THEN a[i] ELSE level]

(* It is again one whose tasks pass: who comes above them has not changed.  *)
LEMMA ExtendKeepsAssigned ==
    ASSUME NEW tsk \in Seq(TimedTask), NEW level \in 1 .. Len(tsk), NEW a,
           Assigned(tsk, level + 1, a), Fitting(tsk, level, a) # {}
    PROVE  Assigned(tsk, level, Extend(tsk, level, a))
  <1> DEFINE N == DOMAIN tsk
             free == N \ DOMAIN a
  <1> PICK c : c = Min(Fitting(tsk, level, a))
    OBVIOUS
  <1> PICK b : b = Extend(tsk, level, a)
    OBVIOUS
  <1>1. N = 1 .. Len(tsk) /\ IsFiniteSet(N) /\ Len(tsk) \in Nat /\ level \in Nat /\ level <= Len(tsk)
    BY TaskFacts
  <1>2. Fitting(tsk, level, a) = {d \in free : Passes(tsk, d, free \ {d})}
    BY FittingIs
  <1>3. c \in Fitting(tsk, level, a)
    <2>1. Fitting(tsk, level, a) \in SUBSET Nat
      BY <1>1, <1>2
    <2> QED BY <2>1, LeastOfNaturals
  <1>4. c \in free /\ Passes(tsk, c, free \ {c}) /\ c \in N /\ c \notin DOMAIN a
    BY <1>2, <1>3
  <1>5. /\ DOMAIN b = DOMAIN a \cup {c}
        /\ b = [i \in DOMAIN a \cup {c} |-> IF i \in DOMAIN a THEN a[i] ELSE level]
    BY DEF Extend
  <1>6. b[c] = level /\ \A i \in DOMAIN a : b[i] = a[i]
    BY <1>4, <1>5
  <1>7. DOMAIN a \in SUBSET N /\ \A i \in DOMAIN a : a[i] \in level + 1 .. Len(tsk)
    BY DEF Assigned
  <1>8. \A i \in DOMAIN a : a[i] \in level .. Len(tsk) /\ a[i] > level
    <2> TAKE i \in DOMAIN a
    <2>1. a[i] \in level + 1 .. Len(tsk)
      BY <1>7
    <2> HIDE DEF N
    <2> QED BY <1>1, <2>1
  <1>9. DOMAIN b \in SUBSET N
    BY <1>4, <1>5, <1>7
  <1>10. b \in [DOMAIN b -> level .. Len(tsk)]
    <2>1. level \in level .. Len(tsk)
      BY <1>1
    <2>2. \A i \in DOMAIN a \cup {c} : (IF i \in DOMAIN a THEN a[i] ELSE level) \in level .. Len(tsk)
      BY <1>8, <2>1
    <2> QED BY <1>5, <2>2
  <1>11. \A i, k \in DOMAIN b : b[i] = b[k] => i = k
    <2> SUFFICES ASSUME NEW i \in DOMAIN a \cup {c}, NEW k \in DOMAIN a \cup {c}, b[i] = b[k]
                 PROVE  i = k
      BY <1>5
    <2>1. \A m \in DOMAIN a : b[m] # level
      BY <1>1, <1>6, <1>8
    <2>2. \A m, o \in DOMAIN a : a[m] = a[o] => m = o
      BY DEF Assigned
    <2> QED BY <1>6, <2>1, <2>2
  <1>12. N \ DOMAIN b = free \ {c}
    BY <1>5
  <1>13. Cardinality(N \ DOMAIN b) = level - 1
    <2>1. Cardinality(free) = (level + 1) - 1
      BY DEF Assigned
    <2>2. IsFiniteSet(free)
      <3>1. free \in SUBSET N
        OBVIOUS
      <3> HIDE DEF free, N
      <3> QED BY <1>1, <3>1, FS_Subset
    <2> HIDE DEF free, N
    <2>3. Cardinality(free \ {c}) = Cardinality(free) - 1
      BY <1>4, <2>2, FS_RemoveElement
    <2>4. Cardinality(N \ DOMAIN b) = Cardinality(free \ {c})
      BY <1>12, Zenon
    <2> QED BY <1>1, <2>1, <2>3, <2>4
  <1>14. ASSUME NEW i \in DOMAIN a
         PROVE  Passes(tsk, i, {k \in N : k \notin DOMAIN b \/ b[k] < b[i]})
    <2>1. Passes(tsk, i, {k \in N : k \notin DOMAIN a \/ a[k] < a[i]})
      BY DEF Assigned
    <2>2. ASSUME NEW k \in N
          PROVE  (k \notin DOMAIN b \/ b[k] < b[i]) <=> (k \notin DOMAIN a \/ a[k] < a[i])
      <3>1. CASE k = c
        <4>1. a[i] > level /\ a[i] \in Int
          BY <1>1, <1>8
        <4> HIDE DEF N
        <4> QED BY <1>1, <1>4, <1>6, <3>1, <4>1
      <3>2. CASE k # c
        BY <1>5, <1>6, <3>2
      <3> QED BY <3>1, <3>2
    <2>3. {k \in N : k \notin DOMAIN b \/ b[k] < b[i]} = {k \in N : k \notin DOMAIN a \/ a[k] < a[i]}
      BY <2>2
    <2> QED BY <2>1, <2>3, Zenon
  <1>15. Passes(tsk, c, {k \in N : k \notin DOMAIN b \/ b[k] < b[c]})
    <2>1. ASSUME NEW k \in N
          PROVE  (k \notin DOMAIN b \/ b[k] < b[c]) <=> k \in free \ {c}
      <3>1. k \in DOMAIN a => ~ (b[k] < b[c])
        <4> SUFFICES ASSUME k \in DOMAIN a PROVE ~ (b[k] < b[c])
          OBVIOUS
        <4>1. b[k] > level /\ b[k] \in Int
          BY <1>1, <1>6, <1>8
        <4> HIDE DEF N
        <4> QED BY <1>1, <1>6, <4>1
      <3>2. ~ (b[c] < b[c])
        BY <1>1, <1>6
      <3> QED BY <1>5, <3>1, <3>2
    <2>2. {k \in N : k \notin DOMAIN b \/ b[k] < b[c]} = free \ {c}
      BY <2>1
    <2> QED BY <1>4, <2>2, Zenon
  <1>16. \A i \in DOMAIN b : Passes(tsk, i, {k \in N : k \notin DOMAIN b \/ b[k] < b[i]})
    <2> HIDE DEF N
    <2> QED BY <1>5, <1>14, <1>15
  <1> QED BY <1>9, <1>10, <1>11, <1>13, <1>16 DEF Assigned

(* The equation of the search.                                              *)
Searches(from, tsk) ==
    from = [level \in 1 .. Len(tsk) + 1 |->
               IF level = Len(tsk) + 1 THEN {<<>>}
               ELSE {Extend(tsk, level, a) :
                     a \in {b \in from[level + 1] : Fitting(tsk, level, b) # {}}}]

(* It has a solution.                                                       *)
LEMMA SearchExists ==
    ASSUME NEW tsk \in Seq(TimedTask)
    PROVE  \E from : Searches(from, tsk)
  <1> DEFINE n == Len(tsk)
             D == 1 .. n + 1
             maps == UNION {[T -> D] : T \in SUBSET (1 .. n)}
             V == SUBSET maps
             R == {ik \in D \X D : ik[2] = ik[1] + 1}
             next(g, level) == IF level = n + 1 THEN {<<>>}
                               ELSE {Extend(tsk, level, a) :
                                     a \in {b \in g[level + 1] : Fitting(tsk, level, b) # {}}}
             F == [g \in [D -> V] |-> [level \in D |-> next(g, level)]]
  <1>1. n \in Nat /\ D \in SUBSET Int /\ DOMAIN tsk = 1 .. n
    OBVIOUS
  <1>2. IsFiniteSet(D)
    BY <1>1, FS_Interval
  <1>3. EndsIn(D, R)
    <2> SUFFICES ASSUME NEW S \in SUBSET D, S # {}
                 PROVE  \E x \in S : \A y \in S : <<x, y>> \notin R
      BY DEF EndsIn
    <2>1. IsFiniteSet(S) /\ S \in SUBSET Int
      <3> HIDE DEF D
      <3> QED BY <1>1, <1>2, FS_Subset
    <2>2. PICK i \in S : \A k \in S : i >= k
      BY <2>1, Greatest
    <2>3. \A k \in S : <<i, k>> \notin R
      BY <1>1, <2>2
    <2> QED BY <2>3
  <1>4. ASSUME NEW a \in maps, NEW level \in D, level # n + 1, Fitting(tsk, level, a) # {}
        PROVE  Extend(tsk, level, a) \in maps
    <2> PICK c : c = Min(Fitting(tsk, level, a))
      OBVIOUS
    <2>1. Fitting(tsk, level, a) \in SUBSET (1 .. n)
      BY <1>1 DEF Fitting
    <2>2. Fitting(tsk, level, a) \in SUBSET Nat
      BY <2>1
    <2>3. c \in 1 .. n
      BY <1>4, <2>1, <2>2, LeastOfNaturals
    <2>4. PICK T \in SUBSET (1 .. n) : a \in [T -> D]
      OBVIOUS
    <2>5. Extend(tsk, level, a) = [i \in T \cup {c} |-> IF i \in T THEN a[i] ELSE level]
      BY <2>4 DEF Extend
    <2> HIDE DEF D
    <2>6. Extend(tsk, level, a) \in [T \cup {c} -> D]
      BY <2>4, <2>5
    <2>7. T \cup {c} \in SUBSET (1 .. n)
      BY <2>3
    <2> QED BY <2>6, <2>7
  <1>5. DependsAlong(F, D, V, R)
    <2>1. ASSUME NEW g \in [D -> V], NEW level \in D
          PROVE  next(g, level) \in V
      <3>1. CASE level = n + 1
        <4>1. <<>> \in [{} -> D] /\ {} \in SUBSET (1 .. n)
          OBVIOUS
        <4>2. <<>> \in maps
          BY <4>1
        <4> HIDE DEF maps
        <4> QED BY <3>1, <4>2
      <3>2. CASE level # n + 1
        <4>1. level + 1 \in D
          BY <1>1, <3>2
        <4> HIDE DEF maps, D
        <4>2. g[level + 1] \in SUBSET maps
          BY <4>1
        <4>3. \A a \in g[level + 1] : Fitting(tsk, level, a) # {} => Extend(tsk, level, a) \in maps
          BY <1>4, <3>2, <4>2
        <4> QED BY <3>2, <4>2, <4>3
      <3> QED BY <3>1, <3>2
    <2>2. F \in [[D -> V] -> [D -> V]]
      <3> HIDE DEF D, V, next
      <3>1. \A g \in [D -> V] : [level \in D |-> next(g, level)] \in [D -> V]
        BY <2>1
      <3> QED BY <3>1
    <2>3. ASSUME NEW g \in [D -> V], NEW h \in [D -> V], NEW i \in D,
                 \A k \in D : <<i, k>> \in R => g[k] = h[k]
          PROVE  F[g][i] = F[h][i]
      <3>1. CASE i = n + 1
        BY <3>1
      <3>2. CASE i # n + 1
        <4>1. i + 1 \in D /\ <<i, i + 1>> \in R
          BY <1>1, <3>2
        <4>2. g[i + 1] = h[i + 1]
          BY <2>3, <4>1
        <4>3. next(g, i) = next(h, i)
          BY <4>2, Zenon
        <4> HIDE DEF next, V
        <4> QED BY <4>3
      <3> QED BY <3>1, <3>2
    <2> HIDE DEF D, F, R, V
    <2> QED BY <2>2, <2>3 DEF DependsAlong
  <1>6. V # {}
    OBVIOUS
  <1>7. HasSolution(F, D, V)
    <2> HIDE DEF D, F, R, V
    <2> QED BY <1>2, <1>3, <1>5, <1>6, RecursionHasASolution
  <1>8. PICK g \in [D -> V] : g = F[g]
    BY <1>7 DEF HasSolution
  <1>9. g = [level \in D |-> next(g, level)]
    <2> HIDE DEF D, V, next
    <2> QED BY <1>8
  <1> QED BY <1>9 DEF Searches

(* The search is a solution of the equation, at the highest level.          *)
LEMMA OpaIsSearch ==
    ASSUME NEW tsk \in Seq(TimedTask)
    PROVE  \E from : Searches(from, tsk) /\ AudsleyOpa(tsk) = from[1]
  <1>1. AudsleyOpa(tsk) = (CHOOSE from : Searches(from, tsk))[1]
    BY DEF AudsleyOpa, Searches, Extend
  <1>2. Searches(CHOOSE from : Searches(from, tsk), tsk)
    BY SearchExists, Zenon
  <1> QED BY <1>1, <1>2, Zenon

(* What a solution has at a level.                                          *)
LEMMA SearchStep ==
    ASSUME NEW tsk \in Seq(TimedTask), NEW from, Searches(from, tsk)
    PROVE  /\ from[Len(tsk) + 1] = {<<>>}
           /\ \A level \in 1 .. Len(tsk) :
                 from[level] = {Extend(tsk, level, a) :
                                a \in {b \in from[level + 1] : Fitting(tsk, level, b) # {}}}
  <1>1. Len(tsk) \in Nat
    OBVIOUS
  <1>2. \A level \in 1 .. Len(tsk) + 1 :
           from[level] = IF level = Len(tsk) + 1 THEN {<<>>}
                         ELSE {Extend(tsk, level, a) :
                               a \in {b \in from[level + 1] : Fitting(tsk, level, b) # {}}}
    BY Zenon DEF Searches
  <1>3. /\ Len(tsk) + 1 \in 1 .. Len(tsk) + 1
        /\ \A level \in 1 .. Len(tsk) : level \in 1 .. Len(tsk) + 1 /\ level # Len(tsk) + 1
    BY <1>1
  <1> QED BY <1>2, <1>3, Zenon

(* There are n numbers up to n.                                             *)
LEMMA UpToCount == \A n \in Nat : IsFiniteSet(1 .. n) /\ Cardinality(1 .. n) = n
  BY FS_Interval

(* At every level the search keeps assignments whose tasks pass.            *)
LEMMA SearchAssigns ==
    ASSUME NEW tsk \in Seq(TimedTask), NEW from, Searches(from, tsk)
    PROVE  \A level \in 1 .. Len(tsk) + 1 : \A a \in from[level] : Assigned(tsk, level, a)
  <1> PICK n : n = Len(tsk)
    OBVIOUS
  <1> DEFINE fine(level) == \A a \in from[level] : Assigned(tsk, level, a)
             bad == {m \in 0 .. n : ~ fine(n + 1 - m)}
  <1>1. n \in Nat /\ DOMAIN tsk = 1 .. n /\ IsFiniteSet(DOMAIN tsk)
    BY TaskFacts
  <1>2. fine(n + 1)
    <2>1. from[n + 1] = {<<>>}
      BY SearchStep
    <2>2. /\ DOMAIN <<>> = {}
          /\ <<>> \in [{} -> (n + 1) .. Len(tsk)]
      OBVIOUS
    <2>3. Cardinality(DOMAIN tsk \ DOMAIN <<>>) = (n + 1) - 1
      <3>1. n \in Nat
        BY <1>1
      <3>2. IsFiniteSet(1 .. n) /\ Cardinality(1 .. n) = n
        BY <3>1, UpToCount
      <3>3. DOMAIN tsk \ DOMAIN <<>> = 1 .. n
        BY <1>1, <2>2
      <3>4. Cardinality(DOMAIN tsk \ DOMAIN <<>>) = Cardinality(1 .. n)
        BY <3>3, Zenon
      <3> QED BY <3>1, <3>2, <3>4
    <2>4. Assigned(tsk, n + 1, <<>>)
      BY <2>2, <2>3 DEF Assigned
    <2> QED BY <2>1, <2>4
  <1>3. ASSUME NEW level \in 1 .. n, fine(level + 1) PROVE fine(level)
    <2>1. from[level] = {Extend(tsk, level, a) :
                         a \in {b \in from[level + 1] : Fitting(tsk, level, b) # {}}}
      BY SearchStep
    <2>2. ASSUME NEW a \in from[level + 1], Fitting(tsk, level, a) # {}
          PROVE  Assigned(tsk, level, Extend(tsk, level, a))
      BY <1>3, <2>2, ExtendKeepsAssigned
    <2> QED BY <2>1, <2>2
  <1> HIDE DEF fine
  <1>4. bad = {}
    <2> SUFFICES ASSUME bad # {} PROVE FALSE
      OBVIOUS
    <2>1. bad \in SUBSET Nat
      BY <1>1
    <2> HIDE DEF bad
    <2>2. PICK m \in bad : \A k \in bad : m <= k
      BY <2>1, LeastNatural
    <2> USE DEF bad
    <2>3. m \in 0 .. n /\ ~ fine(n + 1 - m)
      OBVIOUS
    <2>4. m # 0
      <3> SUFFICES ASSUME m = 0 PROVE FALSE
        OBVIOUS
      <3>1. n + 1 - m = n + 1
        BY <1>1
      <3> QED BY <1>2, <2>3, <3>1
    <2>5. m - 1 \in 0 .. n /\ ~ (m <= m - 1) /\ n + 1 - m \in 1 .. n
          /\ n + 1 - (m - 1) = (n + 1 - m) + 1
      BY <1>1, <2>3, <2>4
    <2>6. fine(n + 1 - (m - 1))
      BY <2>2, <2>5
    <2>7. fine(n + 1 - m)
      BY <1>3, <2>5, <2>6
    <2> QED BY <2>3, <2>7
  <1> SUFFICES ASSUME NEW level \in 1 .. n + 1 PROVE fine(level)
    BY DEF fine
  <1>5. n + 1 - level \in 0 .. n /\ n + 1 - (n + 1 - level) = level
    BY <1>1
  <1> QED BY <1>4, <1>5

(* An assignment of distinct priorities to the tasks.                       *)
IsOrder(tsk, p) ==
    /\ p \in [DOMAIN tsk -> DOMAIN tsk]
    /\ \A k, m \in DOMAIN tsk : p[k] = p[m] => k = m

(* What is found is one, and accepted: no task is left out, and those that  *)
(* come above a task are those of a lower number.                           *)
LEMMA FoundIsAccepted ==
    ASSUME NEW tsk \in Seq(TimedTask), NEW p \in AudsleyOpa(tsk)
    PROVE  IsOrder(tsk, p) /\ AcceptedOrder(tsk, p)
  <1> PICK N : N = DOMAIN tsk
    OBVIOUS
  <1>1. N = 1 .. Len(tsk) /\ IsFiniteSet(N) /\ Len(tsk) \in Nat
    BY TaskFacts
  <1>2. PICK from : Searches(from, tsk) /\ AudsleyOpa(tsk) = from[1]
    BY OpaIsSearch
  <1>3. Assigned(tsk, 1, p)
    <2>1. 1 \in 1 .. Len(tsk) + 1
      BY <1>1
    <2> QED BY <1>2, <2>1, SearchAssigns
  <1>4. DOMAIN p = N
    <2>1. DOMAIN p \in SUBSET N /\ Cardinality(N \ DOMAIN p) = 1 - 1
      BY <1>3 DEF Assigned
    <2>2. IsFiniteSet(N \ DOMAIN p)
      BY <1>1, FS_Subset
    <2>3. N \ DOMAIN p = {}
      <3> PICK rest : rest = N \ DOMAIN p
        OBVIOUS
      <3>1. IsFiniteSet(rest) /\ Cardinality(rest) = 0
        BY <2>1, <2>2
      <3> QED BY <3>1, FS_EmptySet
    <2> QED BY <2>1, <2>3
  <1>5. p \in [N -> N] /\ \A k, m \in N : p[k] = p[m] => k = m
    BY <1>1, <1>3, <1>4 DEF Assigned
  <1>6. ASSUME NEW i \in N
        PROVE  Passes(tsk, i, AboveBy(tsk, p, i))
    <2>1. Passes(tsk, i, {k \in N : k \notin DOMAIN p \/ p[k] < p[i]})
      BY <1>3, <1>4 DEF Assigned
    <2>2. ASSUME NEW k \in N
          PROVE  (k \notin DOMAIN p \/ p[k] < p[i]) <=> (p[k] < p[i] \/ (p[k] = p[i] /\ k < i))
      <3>1. ~ (i < i) /\ (p[k] = p[i] => k = i)
        BY <1>1, <1>5
      <3> QED BY <1>4, <3>1
    <2>3. AboveBy(tsk, p, i) = {k \in N : p[k] < p[i] \/ (p[k] = p[i] /\ k < i)}
      BY DEF AboveBy
    <2>4. {k \in N : k \notin DOMAIN p \/ p[k] < p[i]} = AboveBy(tsk, p, i)
      BY <2>2, <2>3
    <2> QED BY <2>1, <2>4, Zenon
  <1> QED BY <1>5, <1>6 DEF IsOrder, AcceptedOrder

(* If some order is accepted, a task fits at every level: of those without  *)
(* a level the one the order puts lowest, which has passed under more.      *)
LEMMA SomeTaskFits ==
    ASSUME NEW tsk \in Seq(TimedTask), Settled(tsk, Wcets(tsk)),
           NEW p, IsOrder(tsk, p), AcceptedOrder(tsk, p),
           NEW level \in 1 .. Len(tsk), NEW a, Assigned(tsk, level + 1, a)
    PROVE  Fitting(tsk, level, a) # {}
  <1> PICK N : N = DOMAIN tsk
    OBVIOUS
  <1> PICK free : free = N \ DOMAIN a
    OBVIOUS
  <1>1. N = 1 .. Len(tsk) /\ IsFiniteSet(N) /\ Len(tsk) \in Nat /\ level \in Nat /\ level # 0
    BY TaskFacts
  <1>2. IsFiniteSet(free) /\ free # {}
    <2>1. IsFiniteSet(free)
      BY <1>1, FS_Subset
    <2>2. Cardinality(free) = (level + 1) - 1
      BY DEF Assigned
    <2>3. Cardinality(free) # 0
      BY <1>1, <2>2
    <2> QED BY <2>1, <2>3, FS_EmptySet
  <1>3. \A k \in free : k \in N /\ p[k] \in Int
    BY <1>1 DEF IsOrder
  <1>4. PICK c \in free : \A k \in free : p[k] <= p[c]
    <2> DEFINE numbers == {p[k] : k \in free}
    <2>1. IsFiniteSet(numbers)
      <3>1. numbers \in SUBSET N
        BY <1>3 DEF IsOrder
      <3> HIDE DEF numbers
      <3> QED BY <1>1, <3>1, FS_Subset
    <2>2. numbers \in SUBSET Int /\ numbers # {}
      BY <1>2, <1>3
    <2> HIDE DEF numbers
    <2>3. PICK top \in numbers : \A x \in numbers : top >= x
      BY <2>1, <2>2, Greatest
    <2> USE DEF numbers
    <2>4. PICK d \in free : p[d] = top
      OBVIOUS
    <2>5. \A k \in free : p[d] >= p[k]
      BY <2>3, <2>4
    <2>6. \A k \in free : p[k] <= p[d]
      BY <1>3, <2>5
    <2> QED BY <2>6
  <1>5. AboveBy(tsk, p, c) \in SUBSET N
    BY DEF AboveBy
  <1>6. free \ {c} \in SUBSET AboveBy(tsk, p, c)
    <2> SUFFICES ASSUME NEW k \in free, k # c PROVE p[k] < p[c] /\ k \in N
      BY DEF AboveBy
    <2>1. p[k] # p[c]
      BY <1>3 DEF IsOrder
    <2> QED BY <1>3, <1>4, <2>1
  <1>7. c \in N /\ Passes(tsk, c, AboveBy(tsk, p, c))
    BY <1>3 DEF AcceptedOrder
  <1>8. Passes(tsk, c, free \ {c})
    BY <1>5, <1>6, <1>7, FewerAbove
  <1>9. Fitting(tsk, level, a) = {d \in free : Passes(tsk, d, free \ {d})}
    <2>1. Fitting(tsk, level, a)
             = {d \in DOMAIN tsk \ DOMAIN a : Passes(tsk, d, (DOMAIN tsk \ DOMAIN a) \ {d})}
      BY FittingIs
    <2> QED BY <2>1
  <1> QED BY <1>8, <1>9

(* So the search ends with an assignment.                                   *)
LEMMA SearchSucceeds ==
    ASSUME NEW tsk \in Seq(TimedTask), Settled(tsk, Wcets(tsk)),
           NEW p, IsOrder(tsk, p), AcceptedOrder(tsk, p)
    PROVE  AudsleyOpa(tsk) # {}
  <1> PICK n : n = Len(tsk)
    OBVIOUS
  <1>1. n \in Nat
    OBVIOUS
  <1>2. PICK from : Searches(from, tsk) /\ AudsleyOpa(tsk) = from[1]
    BY OpaIsSearch
  <1> DEFINE empty == {m \in 0 .. n : from[n + 1 - m] = {}}
  <1>3. empty = {}
    <2> SUFFICES ASSUME empty # {} PROVE FALSE
      OBVIOUS
    <2>1. empty \in SUBSET Nat
      BY <1>1
    <2> HIDE DEF empty
    <2>2. PICK m \in empty : \A k \in empty : m <= k
      BY <2>1, LeastNatural
    <2> USE DEF empty
    <2>3. m \in 0 .. n /\ from[n + 1 - m] = {}
      OBVIOUS
    <2>4. m # 0
      <3> SUFFICES ASSUME m = 0 PROVE FALSE
        OBVIOUS
      <3>1. n + 1 - m = n + 1
        BY <1>1
      <3>2. from[n + 1] = {<<>>}
        BY <1>2, SearchStep
      <3> QED BY <2>3, <3>1, <3>2
    <2> PICK level : level = n + 1 - m
      OBVIOUS
    <2>5. m - 1 \in 0 .. n /\ ~ (m <= m - 1) /\ level \in 1 .. n /\ level + 1 \in 1 .. n + 1
          /\ n + 1 - (m - 1) = level + 1
      BY <1>1, <2>3, <2>4
    <2>6. PICK a : a \in from[level + 1]
      BY <2>2, <2>5
    <2>7. Assigned(tsk, level + 1, a)
      BY <1>2, <2>5, <2>6, SearchAssigns
    <2>8. Fitting(tsk, level, a) # {}
      BY <2>5, <2>7, SomeTaskFits
    <2>9. from[level] = {Extend(tsk, level, b) :
                         b \in {d \in from[level + 1] : Fitting(tsk, level, d) # {}}}
      BY <1>2, <2>5, SearchStep
    <2>10. Extend(tsk, level, a) \in from[level]
      BY <2>6, <2>8, <2>9
    <2>11. from[level] = {}
      BY <2>3
    <2> QED BY <2>10, <2>11
  <1>4. n \in 0 .. n /\ n + 1 - n = 1
    BY <1>1
  <1>5. from[1] # {}
    BY <1>3, <1>4
  <1> QED BY <1>2, <1>5

-----------------------------------------------------------------------------
(* Deadline-monotonic priorities                                            *)

(* The tasks with earlier deadlines, ties to the lower index.               *)
Earlier(tsk, i) ==
    {k \in DOMAIN tsk : \/ tsk[k].deadline < tsk[i].deadline
                        \/ tsk[k].deadline = tsk[i].deadline /\ k < i}

(* They are the tasks above under deadline-monotonic priorities, which are  *)
(* distinct: of two tasks one is among the earlier ones of the other, who   *)
(* then has all of its earlier ones and one more.                           *)
LEMMA DmRanks ==
    ASSUME NEW tsk \in Seq(TimedTask)
    PROVE  /\ IsOrder(tsk, DmPriorityAssignment(tsk))
           /\ \A i \in DOMAIN tsk :
                 AboveBy(tsk, DmPriorityAssignment(tsk), i) = Earlier(tsk, i)
  <1> PICK n : n = Len(tsk)
    OBVIOUS
  <1> PICK N : N = DOMAIN tsk
    OBVIOUS
  <1> PICK p : p = DmPriorityAssignment(tsk)
    OBVIOUS
  <1>1. N = 1 .. n /\ IsFiniteSet(N) /\ n \in Nat /\ \A k \in N : tsk[k].deadline \in Nat
    <2>1. N = 1 .. n /\ IsFiniteSet(N) /\ n \in Nat /\ \A k \in N : tsk[k] \in TimedTask
      BY TaskFacts
    <2> QED BY <2>1 DEF TimedTask
  <1>2. \A i \in N : Earlier(tsk, i) \in SUBSET (N \ {i})
    BY <1>1 DEF Earlier
  <1>3. p = [i \in N |-> 1 + Cardinality(Earlier(tsk, i))]
    BY DEF DmPriorityAssignment, RanksBy, Earlier
  <1>4. ASSUME NEW i \in N
        PROVE  /\ IsFiniteSet(Earlier(tsk, i)) /\ Cardinality(Earlier(tsk, i)) \in Nat
               /\ p[i] = 1 + Cardinality(Earlier(tsk, i)) /\ p[i] \in Int /\ p[i] \in N
    <2> PICK E : E = Earlier(tsk, i)
      OBVIOUS
    <2>1. E \in SUBSET (N \ {i}) /\ E \in SUBSET N
      BY <1>2
    <2>2. IsFiniteSet(E) /\ Cardinality(E) \in Nat
      BY <1>1, <2>1, FS_Subset, FS_CardinalityType
    <2>3. Cardinality(E) < Cardinality(N)
      BY <1>1, <2>1, NotAsLarge
    <2>4. Cardinality(N) = n
      <3>1. Cardinality(1 .. n) = n
        BY <1>1, UpToCount
      <3> QED BY <1>1, <3>1, Zenon
    <2>5. p[i] = 1 + Cardinality(E)
      BY <1>3
    <2>6. 1 + Cardinality(E) \in 1 .. n /\ 1 + Cardinality(E) \in Int
      <3> PICK size : size = Cardinality(E)
        OBVIOUS
      <3> HIDE <1>3
      <3> QED BY <1>1, <2>2, <2>3, <2>4
    <2> QED BY <1>1, <2>2, <2>5, <2>6
  <1>5. ASSUME NEW i \in N, NEW k \in Earlier(tsk, i) PROVE p[k] < p[i]
    <2> PICK E : E = Earlier(tsk, i)
      OBVIOUS
    <2> PICK G : G = Earlier(tsk, k)
      OBVIOUS
    <2>1. k \in N /\ k \in E
      BY <1>2
    <2>2. G \in SUBSET (E \ {k})
      <3> SUFFICES ASSUME NEW m \in G PROVE m \in E /\ m # k
        OBVIOUS
      <3>1. m \in N /\ m # k
        BY <1>2, <2>1
      <3>2. /\ tsk[m].deadline < tsk[k].deadline
               \/ (tsk[m].deadline = tsk[k].deadline /\ m < k)
            /\ tsk[k].deadline < tsk[i].deadline
               \/ (tsk[k].deadline = tsk[i].deadline /\ k < i)
        BY DEF Earlier
      <3>3. /\ tsk[m].deadline \in Nat /\ tsk[k].deadline \in Nat /\ tsk[i].deadline \in Nat
            /\ m \in Nat /\ k \in Nat /\ i \in Nat
        BY <1>1, <2>1, <3>1
      <3>4. tsk[m].deadline < tsk[i].deadline \/ (tsk[m].deadline = tsk[i].deadline /\ m < i)
        BY <3>2, <3>3
      <3> QED BY <3>1, <3>4 DEF Earlier
    <2>3. Cardinality(G) < Cardinality(E)
      BY <1>4, <2>1, <2>2, NotAsLarge
    <2>4. /\ p[k] = 1 + Cardinality(G) /\ p[i] = 1 + Cardinality(E)
          /\ Cardinality(G) \in Nat /\ Cardinality(E) \in Nat
      BY <1>4, <2>1
    <2> QED BY <2>3, <2>4
  <1>6. ASSUME NEW i \in N, NEW k \in N, i # k
        PROVE  k \in Earlier(tsk, i) \/ i \in Earlier(tsk, k)
    <2>1. /\ tsk[k].deadline \in Nat /\ tsk[i].deadline \in Nat
          /\ k \in Nat /\ i \in Nat
      BY <1>1
    <2> QED BY <1>6, <2>1 DEF Earlier
  <1>7. \A k, m \in N : p[k] = p[m] => k = m
    <2> SUFFICES ASSUME NEW k \in N, NEW m \in N, k # m PROVE p[k] # p[m]
      OBVIOUS
    <2>1. p[k] < p[m] \/ p[m] < p[k]
      BY <1>5, <1>6
    <2> QED BY <1>4, <2>1
  <1>8. ASSUME NEW i \in N PROVE AboveBy(tsk, p, i) = Earlier(tsk, i)
    <2>1. ASSUME NEW k \in N
          PROVE  (p[k] < p[i] \/ (p[k] = p[i] /\ k < i)) <=> k \in Earlier(tsk, i)
      <3>1. k \in Earlier(tsk, i) => p[k] < p[i]
        BY <1>5
      <3>2. i \in Earlier(tsk, k) => p[i] < p[k]
        BY <1>5
      <3>3. k = i => ~ (k < i) /\ ~ (p[k] < p[i]) /\ k \notin Earlier(tsk, i)
        BY <1>1, <1>2, <1>4
      <3>4. p[i] \in Int /\ p[k] \in Int
        BY <1>4
      <3> QED BY <1>6, <1>7, <3>1, <3>2, <3>3, <3>4
    <2> QED BY <1>2, <2>1 DEF AboveBy
  <1>9. IsOrder(tsk, p)
    <2>1. p \in [N -> N]
      BY <1>3, <1>4
    <2> QED BY <1>7, <2>1 DEF IsOrder
  <1> QED BY <1>8, <1>9

(* With constrained deadlines a task passes under the earlier ones if any   *)
(* order is accepted: of these and the task itself, the last in that order  *)
(* to have any work finishes at some r within its own period, and so each   *)
(* of them demands its work just once by then.                              *)
LEMMA EarlierIsFeasible ==
    ASSUME NEW tsk \in Seq(TimedTask), \A k \in DOMAIN tsk : tsk[k].deadline <= tsk[k].period,
           NEW q, IsOrder(tsk, q), AcceptedOrder(tsk, q), NEW i \in DOMAIN tsk
    PROVE  HasResponse(tsk, i, Wcets(tsk), Earlier(tsk, i))
  <1> PICK cost : cost = Wcets(tsk)
    OBVIOUS
  <1> PICK N : N = DOMAIN tsk
    OBVIOUS
  <1> PICK E : E = Earlier(tsk, i)
    OBVIOUS
  <1> DEFINE S == E \cup {i}
             busy == {k \in S : cost[k] # 0}
  <1>1. /\ Costed(tsk, cost) /\ IsFiniteSet(N) /\ i \in N
        /\ \A k \in N : /\ cost[k] \in Nat /\ tsk[k].deadline \in Nat
                        /\ tsk[k].period \in Nat \ {0} /\ tsk[k].deadline <= tsk[k].period
    BY WcetsAreCosts DEF Costed
  <1>2. N = 1 .. Len(tsk)
    BY TaskFacts
  <1>3. E \in SUBSET N /\ i \notin E /\ S \in SUBSET N /\ S \ {i} = E
    <2>1. E \in SUBSET N
      BY DEF Earlier
    <2>2. ~ (tsk[i].deadline < tsk[i].deadline) /\ ~ (i < i)
      BY <1>1, <1>2
    <2>3. i \notin E
      BY <2>2 DEF Earlier
    <2> QED BY <1>1, <2>1, <2>3
  <1>4. \A k \in S : tsk[k].deadline <= tsk[i].deadline
    <2> SUFFICES ASSUME NEW k \in S PROVE tsk[k].deadline <= tsk[i].deadline
      OBVIOUS
    <2>1. tsk[k].deadline \in Nat /\ tsk[i].deadline \in Nat
      BY <1>1, <1>3
    <2>2. k = i \/ tsk[k].deadline < tsk[i].deadline \/ tsk[k].deadline = tsk[i].deadline
      BY DEF Earlier
    <2> QED BY <2>1, <2>2
  <1>5. ASSUME NEW r \in Nat, NEW T \in SUBSET N
        PROVE  Counted(Load(tsk, cost, r), T)
               /\ Interference(tsk, cost, T, r) = SumOver(Load(tsk, cost, r), T)
               /\ Interference(tsk, cost, T, r) \in Nat
    BY <1>1, LoadIsNatural, InterferenceIsLoad
  <1>6. ASSUME NEW r \in Nat, NEW k \in N
        PROVE  /\ Load(tsk, cost, r)[k] \in Nat
               /\ cost[k] = 0 => Load(tsk, cost, r)[k] = 0
               /\ r # 0 /\ r <= tsk[k].period => Load(tsk, cost, r)[k] = cost[k]
    <2>1. /\ Load(tsk, cost, r)[k] = CeilDiv(r, tsk[k].period) * cost[k]
          /\ cost[k] \in Nat /\ tsk[k].period \in Nat \ {0}
      BY <1>1 DEF Load
    <2>2. CeilDiv(r, tsk[k].period) \in Nat
      BY <2>1, CeilDivBounds
    <2>3. r # 0 /\ r <= tsk[k].period => CeilDiv(r, tsk[k].period) = 1
      BY <2>1, OnePeriodStarts
    <2> PICK c : c = CeilDiv(r, tsk[k].period)
      OBVIOUS
    <2>4. c * cost[k] \in Nat
      BY <2>1, <2>2
    <2>5. cost[k] = 0 => c * cost[k] = 0
      BY <2>2
    <2>6. c = 1 => c * cost[k] = cost[k]
      BY <2>1
    <2> QED BY <2>1, <2>3, <2>4, <2>5, <2>6
  <1>7. ASSUME busy = {} PROVE Covers(tsk, i, cost, E, 0)
    <2> PICK L : L = Load(tsk, cost, 0)
      OBVIOUS
    <2>1. \A k \in E : L[k] = 0
      BY <1>3, <1>6, <1>7
    <2>2. Counted(L, E) /\ Counted(L, {}) /\ Interference(tsk, cost, E, 0) = SumOver(L, E)
          /\ SumOver(L, E) \in Nat
      BY <1>3, <1>5
    <2>3. Dominates(L, {}, L, E)
      BY <2>1 DEF Dominates
    <2>4. SumOver(L, E) <= SumOver(L, {})
      BY <2>2, <2>3, SumIsMonotone
    <2>5. SumOver(L, {}) = 0
      BY SumOfNone
    <2>6. cost[i] = 0
      BY <1>7
    <2> QED BY <2>2, <2>4, <2>5, <2>6 DEF Covers, Demanded
  <1>8. ASSUME busy # {}
        PROVE  \E r : Covers(tsk, i, cost, E, r) /\ r <= tsk[i].deadline
    <2>1. \A k \in busy : k \in S /\ k \in N /\ q[k] \in N /\ q[k] \in Int
      BY <1>2, <1>3 DEF IsOrder
    <2>2. PICK j \in busy : \A k \in busy : q[k] <= q[j]
      <3> DEFINE numbers == {q[k] : k \in busy}
      <3>1. numbers \in SUBSET N /\ numbers \in SUBSET Int /\ numbers # {}
        BY <1>8, <2>1
      <3> HIDE DEF numbers
      <3>2. IsFiniteSet(numbers)
        BY <1>1, <3>1, FS_Subset
      <3>3. PICK top \in numbers : \A x \in numbers : top >= x
        BY <3>1, <3>2, Greatest
      <3> USE DEF numbers
      <3> HIDE DEF busy
      <3>4. PICK d \in busy : q[d] = top
        OBVIOUS
      <3>5. \A k \in busy : q[d] >= q[k]
        BY <3>3, <3>4
      <3>6. \A k \in busy : q[k] <= q[d]
        BY <2>1, <3>5
      <3> QED BY <3>6
    <2> PICK A : A = AboveBy(tsk, q, j)
      OBVIOUS
    <2>3. j \in S /\ j \in N /\ cost[j] # 0 /\ cost[j] \in Nat /\ A \in SUBSET N
      BY <1>1, <2>1 DEF AboveBy
    <2>4. HasResponse(tsk, j, cost, A)
      BY <2>3, PassesIs DEF AcceptedOrder
    <2>5. PICK r : Covers(tsk, j, cost, A, r) /\ r <= tsk[j].deadline
      BY <2>4 DEF HasResponse
    <2> PICK L : L = Load(tsk, cost, r)
      OBVIOUS
    <2>6. /\ r \in Nat /\ cost[j] + SumOver(L, A) <= r /\ SumOver(L, A) \in Nat
          /\ Counted(L, A) /\ Counted(L, S) /\ Counted(L, S \ {j})
          /\ Interference(tsk, cost, E, r) = SumOver(L, E) /\ SumOver(L, E) \in Nat
      <3>1. r \in Nat /\ cost[j] + Interference(tsk, cost, A, r) <= r
        BY <2>5 DEF Covers, Demanded
      <3>2. S \ {j} \in SUBSET N
        BY <1>3
      <3> HIDE DEF S
      <3> QED BY <1>3, <1>5, <2>3, <3>1, <3>2
    <2>7. r # 0 /\ r <= tsk[j].period /\ r <= tsk[i].period /\ r <= tsk[i].deadline
      <3>1. r # 0
        BY <2>3, <2>6
      <3>2. /\ tsk[j].deadline <= tsk[i].deadline
            /\ tsk[j].deadline <= tsk[j].period /\ tsk[i].deadline <= tsk[i].period
            /\ tsk[j].deadline \in Nat /\ tsk[i].deadline \in Nat
            /\ tsk[j].period \in Nat /\ tsk[i].period \in Nat
        BY <1>1, <1>4, <2>3
      <3> QED BY <2>5, <2>6, <3>1, <3>2
    <2>8. L[i] = cost[i] /\ L[j] = cost[j]
      BY <1>1, <1>6, <2>3, <2>6, <2>7
    <2>9. Dominates(L, A, L, S \ {j})
      <3> SUFFICES ASSUME NEW k \in S, k # j, L[k] # 0 PROVE k \in A /\ L[k] <= L[k]
        BY DEF Dominates
      <3>1. k \in N /\ cost[k] # 0 /\ L[k] \in Nat
        BY <1>3, <1>6, <2>6
      <3>2. k \in busy
        BY <3>1
      <3>3. q[k] <= q[j] /\ q[k] # q[j] /\ q[k] \in Int /\ q[j] \in Int
        BY <2>1, <2>2, <2>3, <3>1, <3>2 DEF IsOrder
      <3>4. q[k] < q[j]
        BY <3>3
      <3> QED BY <3>1, <3>4 DEF AboveBy
    <2>10. SumOver(L, S \ {j}) <= SumOver(L, A)
      <3> PICK U : U = S \ {j}
        OBVIOUS
      <3>1. Counted(L, U) /\ Dominates(L, A, L, U)
        BY <2>6, <2>9
      <3>2. SumOver(L, U) <= SumOver(L, A)
        BY <2>6, <3>1, SumIsMonotone
      <3> QED BY <3>2
    <2>11. /\ SumOver(L, S) = L[j] + SumOver(L, S \ {j}) /\ SumOver(L, S \ {j}) \in Nat
           /\ SumOver(L, S) = L[i] + SumOver(L, S \ {i})
      <3> HIDE DEF S
      <3>0. j \in S
        BY <2>3
      <3>1. SumOver(L, S) = L[j] + SumOver(L, S \ {j})
        BY <2>6, <3>0, SumWithout
      <3>4. SumOver(L, S \ {j}) \in Nat
        BY <2>6, <3>0, SumWithout
      <3> USE DEF S
      <3>2. i \in S
        OBVIOUS
      <3> HIDE DEF S
      <3>3. SumOver(L, S) = L[i] + SumOver(L, S \ {i})
        BY <2>6, <3>2, SumWithout
      <3> QED BY <3>1, <3>3, <3>4
    <2>12. SumOver(L, S \ {i}) = SumOver(L, E)
      BY <1>3, Zenon
    <2>13. cost[i] + SumOver(L, E) <= r
      <3> HIDE DEF S
      <3>1. cost[i] \in Nat
        BY <1>1
      <3> QED BY <2>3, <2>6, <2>8, <2>10, <2>11, <2>12, <3>1
    <2>14. Covers(tsk, i, cost, E, r)
      BY <2>6, <2>13 DEF Covers, Demanded
    <2> QED BY <2>7, <2>14
  <1>9. \E r : Covers(tsk, i, cost, E, r) /\ r <= tsk[i].deadline
    <2>1. 0 <= tsk[i].deadline
      BY <1>1
    <2> HIDE DEF busy
    <2> QED BY <1>7, <1>8, <2>1
  <1> QED BY <1>9 DEF HasResponse

(* So deadline-monotonic priorities are accepted.                           *)
LEMMA DmIsAccepted ==
    ASSUME NEW tsk \in Seq(TimedTask), Settled(tsk, Wcets(tsk)),
           \A k \in DOMAIN tsk : tsk[k].deadline <= tsk[k].period,
           NEW q, IsOrder(tsk, q), AcceptedOrder(tsk, q)
    PROVE  AcceptedOrder(tsk, DmPriorityAssignment(tsk))
  <1> SUFFICES ASSUME NEW i \in DOMAIN tsk
               PROVE  Passes(tsk, i, AboveBy(tsk, DmPriorityAssignment(tsk), i))
    BY DEF AcceptedOrder
  <1>1. AboveBy(tsk, DmPriorityAssignment(tsk), i) = Earlier(tsk, i)
    BY DmRanks
  <1>2. Earlier(tsk, i) \in SUBSET DOMAIN tsk
    BY DEF Earlier
  <1>3. HasResponse(tsk, i, Wcets(tsk), Earlier(tsk, i))
    BY EarlierIsFeasible
  <1>4. Passes(tsk, i, Earlier(tsk, i))
    BY <1>2, <1>3, PassesIs
  <1> QED BY <1>1, <1>4, Zenon

(* Audsley's search finds only accepted orders, one whenever there is one,  *)
(* and with constrained deadlines just when the deadline-monotonic one is   *)
(* accepted, in every state and whatever the task sets are.                 *)
THEOREM OpaIsAlwaysOptimal == RefSpec => []OpaIsOptimal
  <1>1. TasksPicked => OpaIsOptimal
    <2> SUFFICES ASSUME TasksPicked PROVE OpaIsOptimal
      OBVIOUS
    <2>1. tasks \in Seq(TimedTask)
      BY TaskSetsAssumption DEF TasksPicked
    <2> PICK tsk : tsk = LocalTasks
      OBVIOUS
    <2> PICK found : found = AudsleyOpa(tsk)
      OBVIOUS
    <2>2. tsk \in Seq(TimedTask)
      BY <2>1, LocalTasksAreTasks
    <2>3. \A p : p \in Orders <=> IsOrder(tsk, p)
      BY DEF Orders, IsOrder
    <2>4. \A p : AcceptedWith(p) <=> AcceptedOrder(tsk, p)
      BY <2>2, AcceptedIs DEF AcceptedWith
    <2>5. \A p \in found : p \in Orders /\ AcceptedWith(p)
      BY <2>2, <2>3, <2>4, FoundIsAccepted
    <2>6. ASSUME RoundsSuffice, NEW p \in Orders, AcceptedWith(p)
          PROVE  found # {}
      BY <2>2, <2>3, <2>4, <2>6, RoundsSettle, SearchSucceeds
    <2>7. ASSUME RoundsSuffice, Constrained
          PROVE  found # {} <=> AcceptedWith(DmPriorityAssignment(tsk))
      <3>1. ASSUME NEW k \in DOMAIN tsk PROVE tsk[k].deadline <= tsk[k].period
        <4>1. PICK i \in Local : tsk[k] = tasks[i]
          BY <2>1, LocalTasksAreTasks
        <4> QED BY <2>7, <4>1 DEF Constrained
      <3>2. ASSUME NEW q \in found PROVE AcceptedWith(DmPriorityAssignment(tsk))
        <4>1. IsOrder(tsk, q) /\ AcceptedOrder(tsk, q)
          BY <2>2, FoundIsAccepted
        <4>2. AcceptedOrder(tsk, DmPriorityAssignment(tsk))
          BY <2>2, <2>7, <3>1, <4>1, RoundsSettle, DmIsAccepted
        <4> QED BY <2>4, <4>2
      <3>3. DmPriorityAssignment(tsk) \in Orders
        BY <2>2, <2>3, DmRanks
      <3> QED BY <2>6, <2>7, <3>2, <3>3
    <2> QED BY <2>5, <2>6, <2>7 DEF OpaIsOptimal
  <1> QED BY <1>1, TasksStayPicked, PTL

-----------------------------------------------------------------------------
(* Enough rounds                                                            *)

(* The estimates never decrease, and while they change they grow.           *)
LEMMA EstimatesGrow ==
    ASSUME NEW tsk, NEW cost, Costed(tsk, cost), NEW i \in DOMAIN tsk,
           NEW above \in SUBSET DOMAIN tsk,
           NEW e \in [Nat -> Nat], Iterates(e, tsk, i, cost, above)
    PROVE  \A n \in Nat : e[n] <= e[n + 1]
  <1> DEFINE bad == {n \in Nat : ~ (e[n] <= e[n + 1])}
  <1>1. \A n \in Nat : e[n] \in Nat
    OBVIOUS
  <1>2. \A n \in Nat : e[n] = IF n = 0 THEN cost[i]
                              ELSE cost[i] + Interference(tsk, cost, above, e[n - 1])
    BY Zenon DEF Iterates
  <1>3. cost[i] \in Nat /\ \A r \in Nat : Interference(tsk, cost, above, r) \in Nat
    BY InterferenceIsLoad DEF Costed
  <1>4. bad = {}
    <2> SUFFICES ASSUME bad # {} PROVE FALSE
      OBVIOUS
    <2>1. bad \in SUBSET Nat
      OBVIOUS
    <2> HIDE DEF bad
    <2>2. PICK n \in bad : \A k \in bad : n <= k
      BY <2>1, LeastNatural
    <2> USE DEF bad
    <2>3. n \in Nat /\ ~ (e[n] <= e[n + 1])
      OBVIOUS
    <2>4. n + 1 \in Nat /\ n + 1 # 0 /\ (n + 1) - 1 = n
      BY <2>3
    <2>5. e[n + 1] = cost[i] + Interference(tsk, cost, above, e[n])
      BY <1>2, <2>4
    <2>6. n # 0
      <3> SUFFICES ASSUME n = 0 PROVE FALSE
        OBVIOUS
      <3>1. e[n] = cost[i]
        BY <1>2, <2>3
      <3>2. Interference(tsk, cost, above, e[n]) \in Nat
        BY <1>1, <1>3, <2>3
      <3> QED BY <1>3, <2>3, <2>5, <3>1, <3>2
    <2>7. n - 1 \in Nat /\ (n - 1) + 1 = n /\ ~ (n <= n - 1)
      BY <2>3, <2>6
    <2>8. e[n - 1] <= e[n]
      BY <2>2, <2>7
    <2>9. e[n] = cost[i] + Interference(tsk, cost, above, e[n - 1])
      BY <1>2, <2>3, <2>6
    <2>10. Heavier(cost, above, cost, above)
      BY DEF Heavier, Costed
    <2>11. e[n - 1] \in Nat /\ e[n] \in Nat
      BY <1>1, <2>3, <2>7
    <2>12. Interference(tsk, cost, above, e[n - 1]) <= Interference(tsk, cost, above, e[n])
      BY <2>8, <2>10, <2>11, InterferenceIsMonotone
    <2>13. /\ Interference(tsk, cost, above, e[n - 1]) \in Nat
           /\ Interference(tsk, cost, above, e[n]) \in Nat
      BY <1>3, <2>11
    <2> QED BY <1>3, <2>3, <2>5, <2>9, <2>12, <2>13
  <1> QED BY <1>4

(* The rounds suffice for deadlines below their number: every round before  *)
(* the last adds at least one unit.                                         *)
LEMMA EnoughRounds ==
    ASSUME NEW tsk, NEW cost, Costed(tsk, cost), NEW i \in DOMAIN tsk,
           NEW above \in SUBSET DOMAIN tsk, tsk[i].deadline < MaxIterations
    PROVE  FixedPoint(tsk, i, cost, above).verdict # "IterationLimit"
  <1> PICK deadline : deadline = tsk[i].deadline
    OBVIOUS
  <1>1. PICK e \in [Nat -> Nat] : Iterates(e, tsk, i, cost, above)
    BY IteratesExist
  <1> PICK last : last = StopsAt(e, deadline)
    OBVIOUS
  <1>2. /\ last \in 1 .. MaxIterations /\ Stops(e, deadline, last)
        /\ \A m \in 1 .. last - 1 : ~ Stops(e, deadline, m)
    BY ItStops
  <1>3. FixedPoint(tsk, i, cost, above) = Outcome(e, deadline)
    BY <1>1, FixedPointIs
  <1> SUFFICES ASSUME ~ (e[last] = e[last - 1]), ~ (e[last] > deadline) PROVE FALSE
    BY <1>3 DEF Outcome
  <1>4. MaxIterations \in Nat /\ deadline \in Nat /\ last \in Nat /\ last # 0
        /\ last = MaxIterations
    BY <1>2, MaxIterationsAssumption DEF Stops, Costed
  <1>5. \A n \in Nat : e[n] \in Nat /\ e[n + 1] \in Nat /\ e[n] <= e[n + 1]
    BY <1>1, EstimatesGrow
  <1> DEFINE bad == {n \in Nat : n <= last /\ ~ (n <= e[n])}
  <1>6. bad = {}
    <2> SUFFICES ASSUME bad # {} PROVE FALSE
      OBVIOUS
    <2>1. bad \in SUBSET Nat
      OBVIOUS
    <2> HIDE DEF bad
    <2>2. PICK n \in bad : \A k \in bad : n <= k
      BY <2>1, LeastNatural
    <2> USE DEF bad
    <2>3. n \in Nat /\ n <= last /\ ~ (n <= e[n])
      OBVIOUS
    <2>4. n # 0
      BY <1>5, <2>3
    <2>5. n - 1 \in Nat /\ (n - 1) + 1 = n /\ ~ (n <= n - 1) /\ n - 1 <= last
      BY <1>4, <2>3, <2>4
    <2>6. n - 1 <= e[n - 1]
      BY <2>2, <2>5
    <2>7. e[n] # e[n - 1]
      <3>1. CASE n = last
        BY <3>1
      <3>2. CASE n # last
        <4>1. n \in 1 .. last - 1
          BY <1>4, <2>3, <2>4, <3>2
        <4> QED BY <1>2, <4>1 DEF Stops
      <3> QED BY <3>1, <3>2
    <2>8. e[n - 1] \in Nat /\ e[n] \in Nat /\ e[n - 1] <= e[n]
      BY <1>5, <2>5
    <2> QED BY <2>3, <2>5, <2>6, <2>7, <2>8
  <1>7. last <= e[last] /\ e[last] \in Nat
    <2>1. \A n \in Nat : n <= last => n <= e[n]
      BY <1>6
    <2>2. last \in Nat /\ last <= last
      BY <1>4
    <2> HIDE DEF bad
    <2> QED BY <1>5, <2>1, <2>2
  <1> QED BY <1>4, <1>7

(* So the rounds suffice for a task set whose deadlines are below them.     *)
THEOREM RoundsSufficeForDeadlines ==
    ASSUME tasks \in TaskSets, \A i \in Local : tasks[i].deadline < MaxIterations
    PROVE  RoundsSuffice
  <1> PICK tsk : tsk = LocalTasks
    OBVIOUS
  <1>1. tasks \in Seq(TimedTask)
    BY TaskSetsAssumption
  <1>2. tsk \in Seq(TimedTask)
    BY <1>1, LocalTasksAreTasks
  <1>3. \A i \in DOMAIN tsk : tsk[i].deadline < MaxIterations
    <2> TAKE i \in DOMAIN tsk
    <2>1. PICK k \in Local : tsk[i] = tasks[k]
      BY <1>1, LocalTasksAreTasks
    <2> QED BY <2>1
  <1>4. Costed(tsk, Wcets(tsk))
    BY <1>2, WcetsAreCosts
  <1>5. Costed(tsk, IsolatedCosts(tsk, 2))
    <2>1. 2 \in Nat \ {0} /\ 2 <= 2
      OBVIOUS
    <2> QED BY <1>2, <2>1, MoreThreadsCostNoMore
  <1>6. \A cost \in {Wcets(tsk), IsolatedCosts(tsk, 2)} : Costed(tsk, cost)
    BY <1>4, <1>5
  <1>7. \A cost \in {Wcets(tsk), IsolatedCosts(tsk, 2)} :
           \A i \in DOMAIN tsk, above \in SUBSET DOMAIN tsk :
              FixedPoint(tsk, i, cost, above).verdict # "IterationLimit"
    BY <1>3, <1>6, EnoughRounds
  <1> QED BY <1>7 DEF RoundsSuffice
=============================================================================
