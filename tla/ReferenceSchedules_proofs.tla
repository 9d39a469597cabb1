--------------------- MODULE ReferenceSchedules_proofs ---------------------
(***************************************************************************)
(* Proofs about the schedules of the reference simulators, for every task  *)
(* set.                                                                    *)
(*                                                                         *)
(* Response-time analysis is exact for the schedule of level 1 under fixed *)
(* priorities, if there is work to do: what covers a task's demand bounds  *)
(* its responses, since whenever a job waits the tasks above it have been  *)
(* served since some moment that is not long ago; its first job, released  *)
(* with all others, takes that long; and over a hyperperiod without        *)
(* overload every first job ends.                                          *)
(*                                                                         *)
(* Under EDF the utilization bound is sufficient: until any later time,    *)
(* the work that is due by then, released or to come, fits.                *)
(*                                                                         *)
(* The two simulators agree: what the one does in a step the other does    *)
(* unit by unit, as the jobs of other devices in its vector never change   *)
(* which job of the device comes first, and a unit leads to one schedule.  *)
(***************************************************************************)
EXTENDS Analyses_proofs

-----------------------------------------------------------------------------
(* More about sums                                                          *)

(* Two functions have the same values on S.                                 *)
Agree(f, g, S) == \A x \in S : g[x] = f[x]

(* Then they have the same sum.                                             *)
LEMMA AgreeingSums ==
    ASSUME NEW f, NEW g, NEW S, Counted(f, S), Agree(f, g, S)
    PROVE  SumOver(f, S) = SumOver(g, S)
  BY SumIsSame DEF Agree

(* Sums with one more.                                                      *)
LEMMA SumGrows ==
    ASSUME NEW f, NEW g, NEW S, Counted(f, S), Counted(g, S), NEW x \in S,
           Agree(f, g, S \ {x})
    PROVE  SumOver(g, S) + f[x] = SumOver(f, S) + g[x]
  <1>1. SumOver(f, S) = f[x] + SumOver(f, S \ {x}) /\ SumOver(f, S \ {x}) \in Nat
    BY SumWithout
  <1>2. SumOver(g, S) = g[x] + SumOver(g, S \ {x}) /\ SumOver(g, S \ {x}) \in Nat
    BY SumWithout
  <1>3. Counted(f, S \ {x})
    BY FS_Subset DEF Counted
  <1>4. SumOver(f, S \ {x}) = SumOver(g, S \ {x})
    BY <1>3, AgreeingSums
  <1>5. f[x] \in Nat /\ g[x] \in Nat
    BY DEF Counted
  <1> QED BY <1>1, <1>2, <1>4, <1>5

(* A sum over names is the sum over what they name.                         *)
Renames(f, S, g, name) == \A x \in S : f[x] = g[name[x]]
LEMMA SumIsRenamed ==
    ASSUME NEW f, NEW S, Counted(f, S), NEW g, NEW T, NEW name, name \in Bijection(S, T),
           Renames(f, S, g, name)
    PROVE  Counted(g, T) /\ SumOver(f, S) = SumOver(g, T)
  <1> USE DEF Renames
  <1> DEFINE named(U) == {name[x] : x \in U}
             bad == {U \in SUBSET S : SumOver(f, U) # SumOver(g, named(U))}
  <1>1. name \in [S -> T] /\ named(S) = T /\ \A x, y \in S : name[x] = name[y] => x = y
    BY DEF Bijection, Injection, Surjection, IsInjective
  <1>2. Counted(g, T)
    <2>1. IsFiniteSet(T)
      BY FS_Surjection DEF Counted, Bijection
    <2>2. \A y \in T : g[y] \in Nat
      BY <1>1 DEF Counted
    <2> QED BY <2>1, <2>2 DEF Counted
  <1>3. ASSUME bad # {} PROVE FALSE
    <2>1. \A U \in bad : IsFiniteSet(U)
      BY FS_Subset DEF Counted
    <2>2. PICK U \in bad : \A W \in bad : Cardinality(U) <= Cardinality(W)
      <3> HIDE DEF bad
      <3> QED BY <1>3, <2>1, SmallestSet
    <2>3. U \in SUBSET S /\ Counted(f, U) /\ IsFiniteSet(U)
      BY FS_Subset DEF Counted
    <2>4. U # {}
      <3> SUFFICES ASSUME U = {} PROVE FALSE
        OBVIOUS
      <3>1. named(U) = {}
        OBVIOUS
      <3> HIDE DEF named
      <3>2. SumOver(f, U) = 0 /\ SumOver(g, named(U)) = 0
        BY <3>1, SumOfNone
      <3> QED BY <3>2
    <2>5. PICK x \in U : TRUE
      BY <2>4
    <2>6. U \ {x} \in SUBSET S /\ U \ {x} \notin bad
      <3>1. Cardinality(U \ {x}) < Cardinality(U) /\ Cardinality(U \ {x}) \in Nat
            /\ Cardinality(U) \in Nat
        BY <2>3, <2>5, OneLess, Zenon
      <3>2. U \ {x} \in SUBSET S
        BY <2>3
      <3> HIDE DEF bad
      <3> QED BY <2>2, <3>1, <3>2
    <2>7. SumOver(f, U \ {x}) = SumOver(g, named(U \ {x}))
      BY <2>6
    <2>8. name[x] \in named(U) /\ named(U \ {x}) = named(U) \ {name[x]} /\ named(U) \in SUBSET T
      BY <1>1, <2>3
    <2>9. SumOver(f, U) # SumOver(g, named(U))
      OBVIOUS
    <2>10. f[x] = g[name[x]]
      BY <2>3
    <2> PICK V : V = named(U)
      OBVIOUS
    <2> HIDE DEF bad, named
    <2>11. Counted(g, V)
      BY <1>2, <2>8, FS_Subset DEF Counted
    <2>12. SumOver(f, U) = f[x] + SumOver(f, U \ {x})
      BY <2>3, SumWithout
    <2>13. SumOver(g, V) = g[name[x]] + SumOver(g, V \ {name[x]})
      BY <2>8, <2>11, SumWithout
    <2> QED BY <2>7, <2>8, <2>9, <2>10, <2>12, <2>13
  <1>4. SumOver(f, S) = SumOver(g, named(S))
    BY <1>3
  <1> QED BY <1>1, <1>2, <1>4

(* Sums of functions that add up to the same, element by element.           *)
LEMMA SumsBalance ==
    ASSUME NEW f, NEW g, NEW f2, NEW g2, NEW S, Counted(f, S), Counted(g, S),
           Counted(f2, S), Counted(g2, S), \A x \in S : f[x] + g[x] = f2[x] + g2[x]
    PROVE  SumOver(f, S) + SumOver(g, S) = SumOver(f2, S) + SumOver(g2, S)
  <1> DEFINE good(U) == SumOver(f, U) + SumOver(g, U) = SumOver(f2, U) + SumOver(g2, U)
             bad == {U \in SUBSET S : ~ good(U)}
  <1> SUFFICES ASSUME bad # {} PROVE FALSE
    <2>1. S \in SUBSET S
      OBVIOUS
    <2> QED BY <2>1
  <1>1. \A U \in bad : IsFiniteSet(U)
    BY FS_Subset DEF Counted
  <1>2. PICK U \in bad : \A V \in bad : Cardinality(U) <= Cardinality(V)
    <2> HIDE DEF bad
    <2> QED BY <1>1, SmallestSet
  <1>3. U \in SUBSET S /\ ~ good(U)
    OBVIOUS
  <1>4. good({})
    BY SumOfNone
  <1>5. PICK x \in U : TRUE
    <2>1. U # {}
      BY <1>3, <1>4
    <2> QED BY <2>1
  <1>6. good(U \ {x})
    <2>1. /\ Cardinality(U \ {x}) < Cardinality(U) /\ Cardinality(U \ {x}) \in Nat
          /\ Cardinality(U) \in Nat
      BY <1>1, <1>5, OneLess, Zenon
    <2>2. U \ {x} \notin bad
      <3> HIDE DEF bad
      <3> QED BY <1>2, <2>1
    <2>3. U \ {x} \in SUBSET S
      BY <1>3
    <2> QED BY <2>2, <2>3
  <1>7. Counted(f, U) /\ Counted(g, U) /\ Counted(f2, U) /\ Counted(g2, U)
    BY <1>1, <1>3 DEF Counted
  <1>8. /\ SumOver(f, U) = f[x] + SumOver(f, U \ {x}) /\ SumOver(f, U \ {x}) \in Nat
        /\ SumOver(g, U) = g[x] + SumOver(g, U \ {x}) /\ SumOver(g, U \ {x}) \in Nat
        /\ SumOver(f2, U) = f2[x] + SumOver(f2, U \ {x}) /\ SumOver(f2, U \ {x}) \in Nat
        /\ SumOver(g2, U) = g2[x] + SumOver(g2, U \ {x}) /\ SumOver(g2, U \ {x}) \in Nat
    BY <1>5, <1>7, SumWithout
  <1>9. /\ f[x] \in Nat /\ g[x] \in Nat /\ f2[x] \in Nat /\ g2[x] \in Nat
        /\ f[x] + g[x] = f2[x] + g2[x]
    BY <1>3, <1>5 DEF Counted
  <1>10. good(U)
    <2> PICK a, b, a2, b2 : /\ a = SumOver(f, U \ {x}) /\ b = SumOver(g, U \ {x})
                            /\ a2 = SumOver(f2, U \ {x}) /\ b2 = SumOver(g2, U \ {x})
      OBVIOUS
    <2> PICK p, q, p2, q2 : p = f[x] /\ q = g[x] /\ p2 = f2[x] /\ q2 = g2[x]
      OBVIOUS
    <2>1. a + b = a2 + b2
      BY <1>6
    <2>2. a \in Nat /\ b \in Nat /\ a2 \in Nat /\ b2 \in Nat
      BY <1>8
    <2>3. p \in Nat /\ q \in Nat /\ p2 \in Nat /\ q2 \in Nat /\ p + q = p2 + q2
      BY <1>9
    <2>4. (p + a) + (q + b) = (p2 + a2) + (q2 + b2)
      BY <2>1, <2>2, <2>3
    <2>5. /\ SumOver(f, U) = p + a /\ SumOver(g, U) = q + b
          /\ SumOver(f2, U) = p2 + a2 /\ SumOver(g2, U) = q2 + b2
      BY <1>8
    <2> QED BY <2>4, <2>5
  <1> QED BY <1>3, <1>10

-----------------------------------------------------------------------------
(* The schedule of one device                                               *)

(* What level 1 keeps, the jobs waiting and the one running together; t is  *)
(* its time, next the releases to come, resp the greatest responses.        *)
Schedule(t, next, jobs, resp) == [now |-> t, next |-> next, jobs |-> jobs, response |-> resp]
Here == Schedule(now, nextReleases, ready \cup runningJob, level1.response)

(* Jobs of the tasks of a device.                                           *)
OpenJobs(loc) == [task : loc, release : Nat, deadline : Nat, remaining : Nat]

(* A device and its tasks, and what the proof about fixed priorities        *)
(* assumes of them: they have work to do and priorities of their own.       *)
Device(tsk, loc) == tsk \in Seq(TimedTask) /\ loc \in SUBSET DOMAIN tsk
Ranked(tsk, loc) ==
    /\ \A k \in loc : tsk[k].wcet # 0
    /\ \A i, k \in loc : tsk[i].priority = tsk[k].priority => i = k

(* Between the steps of level 1, and after the releases of one: the next    *)
(* release of each task is within a period, jobs are known by task and      *)
(* release, are released, and have work left if they ever had any.          *)
Known(tsk, s, j) ==
    /\ j.release < s.next[j.task] /\ j.release <= s.now
    /\ j.deadline = j.release + tsk[j.task].deadline
    /\ tsk[j.task].wcet # 0 => j.remaining # 0
Regular(tsk, loc, s) ==
    /\ s.now \in Nat /\ s.next \in [DOMAIN tsk -> Nat] /\ s.response \in [DOMAIN tsk -> Nat]
    /\ \A k \in loc : /\ s.now <= s.next[k] /\ s.next[k] <= s.now + tsk[k].period
                      /\ Divides(tsk[k].period, s.next[k])
    /\ IsFiniteSet(s.jobs) /\ s.jobs \in SUBSET OpenJobs(loc)
    /\ \A j \in s.jobs : Known(tsk, s, j)
    /\ \A j, k \in s.jobs : j.task = k.task /\ j.release = k.release => j = k

(* What is known of its jobs.                                               *)
LEMMA RegularJobs ==
    ASSUME NEW tsk, NEW loc, Device(tsk, loc), NEW s, Regular(tsk, loc, s), NEW y \in s.jobs
    PROVE  /\ y \in OpenJobs(loc) /\ y.task \in loc /\ y.release \in Nat /\ y.deadline \in Nat
           /\ y.remaining \in Nat /\ y.release < s.next[y.task] /\ y.release <= s.now
           /\ y.deadline = y.release + tsk[y.task].deadline
           /\ tsk[y.task].wcet # 0 => y.remaining # 0
           /\ Ranked(tsk, loc) => y.remaining \in Nat \ {0}
  <1>1. y \in OpenJobs(loc)
    BY DEF Regular
  <1>2. /\ y.release < s.next[y.task] /\ y.release <= s.now
        /\ y.deadline = y.release + tsk[y.task].deadline
        /\ tsk[y.task].wcet # 0 => y.remaining # 0
    <2>1. Known(tsk, s, y)
      BY DEF Regular
    <2> QED BY <2>1 DEF Known
  <1>3. y.task \in loc /\ y.release \in Nat /\ y.deadline \in Nat /\ y.remaining \in Nat
    BY <1>1 DEF OpenJobs
  <1>4. Ranked(tsk, loc) => y.remaining # 0
    BY <1>2, <1>3 DEF Ranked
  <1> QED BY <1>1, <1>2, <1>3, <1>4

(* The work left to the jobs of the tasks in S, and the work released by    *)
(* the tasks in S from b on and before their next releases.                 *)
JobsOf(jobs, S) == {j \in jobs : j.task \in S}
WorkLeft(jobs, S) == SumOver([j \in jobs |-> j.remaining], JobsOf(jobs, S))
Requested(tsk, next, b) ==
    [k \in DOMAIN tsk |-> ((next[k] - b) \div tsk[k].period) * tsk[k].wcet]
WorkSince(tsk, next, b, S) == SumOver(Requested(tsk, next, b), S)

(* Work left is a number,                                                   *)
LEMMA WorkLeftIsNatural ==
    ASSUME NEW loc, NEW jobs, IsFiniteSet(jobs), jobs \in SUBSET OpenJobs(loc), NEW S
    PROVE  /\ WorkLeft(jobs, S) \in Nat
           /\ Counted([j \in jobs |-> j.remaining], JobsOf(jobs, S))
  <1> PICK f : f = [j \in jobs |-> j.remaining]
    OBVIOUS
  <1>1. \A j \in jobs : f[j] \in Nat
    BY DEF OpenJobs
  <1>2. JobsOf(jobs, S) \in SUBSET jobs
    BY DEF JobsOf
  <1>3. Counted(f, JobsOf(jobs, S))
    BY <1>1, <1>2, FS_Subset DEF Counted
  <1> QED BY <1>3, SumWithout DEF WorkLeft

(* to which each job adds its own, if its task counts.                      *)
LEMMA WorkLeftWithout ==
    ASSUME NEW loc, NEW jobs, IsFiniteSet(jobs), jobs \in SUBSET OpenJobs(loc), NEW S, NEW x \in jobs
    PROVE  /\ x.task \in S => WorkLeft(jobs, S) = x.remaining + WorkLeft(jobs \ {x}, S)
           /\ x.task \notin S => WorkLeft(jobs, S) = WorkLeft(jobs \ {x}, S)
           /\ WorkLeft(jobs \ {x}, S) \in Nat /\ x.remaining \in Nat
  <1> PICK f : f = [j \in jobs |-> j.remaining]
    OBVIOUS
  <1> PICK rest : rest = jobs \ {x}
    OBVIOUS
  <1> PICK g : g = [j \in rest |-> j.remaining]
    OBVIOUS
  <1>1. IsFiniteSet(rest) /\ rest \in SUBSET OpenJobs(loc)
    BY FS_Subset
  <1>2. Counted(f, JobsOf(jobs, S)) /\ Counted(g, JobsOf(rest, S)) /\ WorkLeft(rest, S) \in Nat
    BY <1>1, WorkLeftIsNatural
  <1>3. \A y \in JobsOf(rest, S) : f[y] = g[y]
    BY DEF JobsOf
  <1>4. SumOver(g, JobsOf(rest, S)) = SumOver(f, JobsOf(rest, S))
    <2>1. Agree(g, f, JobsOf(rest, S))
      BY <1>3 DEF Agree
    <2> QED BY <1>2, <2>1, AgreeingSums
  <1>5. WorkLeft(jobs, S) = SumOver(f, JobsOf(jobs, S)) /\ WorkLeft(rest, S) = SumOver(f, JobsOf(rest, S))
    BY <1>4 DEF WorkLeft
  <1>6. f[x] = x.remaining /\ x.remaining \in Nat
    BY DEF OpenJobs
  <1>7. ASSUME x.task \in S PROVE SumOver(f, JobsOf(jobs, S)) = x.remaining + SumOver(f, JobsOf(rest, S))
    <2>1. x \in JobsOf(jobs, S) /\ JobsOf(jobs, S) \ {x} = JobsOf(rest, S)
      BY <1>7 DEF JobsOf
    <2>2. SumOver(f, JobsOf(jobs, S)) = f[x] + SumOver(f, JobsOf(jobs, S) \ {x})
      BY <1>2, <2>1, SumWithout
    <2> QED BY <1>6, <2>1, <2>2
  <1>8. ASSUME x.task \notin S PROVE JobsOf(jobs, S) = JobsOf(rest, S)
    BY <1>8 DEF JobsOf
  <1> QED BY <1>2, <1>5, <1>6, <1>7, <1>8

(* No work is left to S only if no job of S is.                             *)
LEMMA SomeWorkLeft ==
    ASSUME NEW loc, NEW jobs, IsFiniteSet(jobs), jobs \in SUBSET OpenJobs(loc), NEW S,
           \A j \in jobs : j.remaining # 0
    PROVE  WorkLeft(jobs, S) = 0 <=> JobsOf(jobs, S) = {}
  <1>1. ASSUME NEW x \in JobsOf(jobs, S) PROVE WorkLeft(jobs, S) # 0
    <2>1. x \in jobs /\ x.task \in S
      BY DEF JobsOf
    <2>2. WorkLeft(jobs, S) = x.remaining + WorkLeft(jobs \ {x}, S)
          /\ WorkLeft(jobs \ {x}, S) \in Nat /\ x.remaining \in Nat \ {0}
      BY <2>1, WorkLeftWithout
    <2> QED BY <2>2
  <1>2. JobsOf(jobs, S) = {} => WorkLeft(jobs, S) = 0
    BY SumOfNone DEF WorkLeft
  <1> QED BY <1>1, <1>2

-----------------------------------------------------------------------------
(* Releases                                                                 *)

(* The tasks due, and the schedule once those in U have released a job.     *)
DueIn(loc, s) == {k \in loc : s.next[k] = s.now}
JobFor(tsk, t, k) ==
    [task |-> k, release |-> t, deadline |-> t + tsk[k].deadline, remaining |-> tsk[k].wcet]
Releasing(tsk, s, U) ==
    Schedule(s.now, [k \in DOMAIN tsk |-> IF k \in U THEN s.now + tsk[k].period ELSE s.next[k]],
             s.jobs \cup {JobFor(tsk, s.now, k) : k \in U}, s.response)

(* A period later one more release is past.                                 *)
LEMMA OnePeriodMore ==
    ASSUME NEW n \in Nat, NEW b \in Nat \ {0}
    PROVE  (n + b) \div b = (n \div b) + 1
  <1> PICK q : q = (n + b) \div b
    OBVIOUS
  <1> PICK p : p = n \div b
    OBVIOUS
  <1>1. n + b \in Nat
    OBVIOUS
  <1>2. q \in Nat /\ b * q <= n + b /\ p \in Nat /\ b * p <= n /\ n < b * p + b
    BY <1>1, QuotientBounds
  <1>3. b * (p + 1) = b * p + b /\ b * p \in Nat /\ b * q \in Nat
    BY <1>2
  <1>4. p + 1 <= q
    <2>1. b * (p + 1) <= n + b /\ p + 1 \in Nat
      BY <1>2, <1>3
    <2> QED BY <1>1, <2>1, QuotientIsGreatest
  <1>5. ~ (q >= p + 2)
    <2> SUFFICES ASSUME q >= p + 2 PROVE FALSE
      OBVIOUS
    <2>1. b * q >= b * (p + 2)
      BY <1>2
    <2>2. b * (p + 2) = b * p + b + b
      BY <1>2
    <2> QED BY <1>2, <1>3, <2>1, <2>2
  <1> QED BY <1>2, <1>4, <1>5

(* What a due task releases is an open job nobody knew.                     *)
LEMMA ReleasedIsNew ==
    ASSUME NEW tsk, NEW loc, Device(tsk, loc), NEW s, Regular(tsk, loc, s),
           NEW U \in SUBSET DueIn(loc, s)
    PROVE  /\ \A k \in U : k \in loc /\ s.next[k] = s.now /\ JobFor(tsk, s.now, k) \in OpenJobs(loc)
           /\ \A k \in U : \A j \in s.jobs : j.task # k \/ j.release # s.now
           /\ IsFiniteSet(Releasing(tsk, s, U).jobs)
           /\ Releasing(tsk, s, U).jobs \in SUBSET OpenJobs(loc)
  <1>1. \A k \in U : k \in loc /\ s.next[k] = s.now
    BY DEF DueIn
  <1>2. ASSUME NEW k \in U PROVE JobFor(tsk, s.now, k) \in OpenJobs(loc)
    <2>1. k \in DOMAIN tsk /\ tsk \in Seq(TimedTask)
      BY <1>1 DEF Device
    <2>2. tsk[k] \in TimedTask
      BY <2>1, TaskFacts
    <2>3. tsk[k].wcet \in Nat /\ tsk[k].deadline \in Nat /\ s.now \in Nat
      BY <2>2 DEF TimedTask, Regular
    <2> QED BY <1>1, <2>1, <2>3 DEF JobFor, OpenJobs
  <1>3. ASSUME NEW k \in U, NEW j \in s.jobs PROVE j.task # k \/ j.release # s.now
    <2>1. j.release < s.next[j.task] /\ j \in OpenJobs(loc)
      BY RegularJobs
    <2>2. j.release \in Nat
      BY <2>1 DEF OpenJobs
    <2> QED BY <1>1, <2>1, <2>2
  <1> DEFINE new == {JobFor(tsk, s.now, k) : k \in U}
  <1>4. IsFiniteSet(U)
    <2>1. tsk \in Seq(TimedTask) /\ U \in SUBSET DOMAIN tsk
      BY <1>1 DEF Device
    <2> QED BY <2>1, TaskFacts, FS_Subset
  <1>5. IsFiniteSet(new)
    <2> DEFINE f == [k \in U |-> JobFor(tsk, s.now, k)]
    <2>1. f \in Surjection(U, new)
      BY DEF Surjection
    <2> HIDE DEF f, new
    <2> QED BY <1>4, <2>1, FS_Surjection
  <1>6. IsFiniteSet(s.jobs) /\ s.jobs \in SUBSET OpenJobs(loc)
    BY DEF Regular
  <1>7. new \in SUBSET OpenJobs(loc)
    BY <1>2
  <1>8. Releasing(tsk, s, U).jobs = s.jobs \cup new
    BY DEF Releasing, Schedule
  <1>9. IsFiniteSet(s.jobs \cup new)
    <2> HIDE DEF new
    <2> QED BY <1>5, <1>6, FS_Union
  <1> QED BY <1>1, <1>2, <1>3, <1>6, <1>7, <1>8, <1>9

(* A release adds the work of its job to what is left and to what was       *)
(* released since any earlier time.                                         *)
LEMMA OneMoreRelease ==
    ASSUME NEW tsk, NEW loc, Device(tsk, loc), NEW s, Regular(tsk, loc, s),
           NEW U \in SUBSET DueIn(loc, s), NEW u \in U, NEW S \in SUBSET loc, NEW b \in 0 .. s.now
    PROVE  LET m == Releasing(tsk, s, U)
               m0 == Releasing(tsk, s, U \ {u})
               more == IF u \in S THEN tsk[u].wcet ELSE 0
           IN /\ WorkLeft(m.jobs, S) = WorkLeft(m0.jobs, S) + more
              /\ WorkSince(tsk, m.next, b, S) = WorkSince(tsk, m0.next, b, S) + more
              /\ WorkSince(tsk, m0.next, b, S) \in Nat
  <1> PICK m : m = Releasing(tsk, s, U)
    OBVIOUS
  <1> PICK m0 : m0 = Releasing(tsk, s, U \ {u})
    OBVIOUS
  <1> PICK x : x = JobFor(tsk, s.now, u)
    OBVIOUS
  <1>0. U \ {u} \in SUBSET DueIn(loc, s)
    OBVIOUS
  <1>1. /\ m.jobs = s.jobs \cup {JobFor(tsk, s.now, k) : k \in U}
        /\ m0.jobs = s.jobs \cup {JobFor(tsk, s.now, k) : k \in U \ {u}}
        /\ m.next = [k \in DOMAIN tsk |-> IF k \in U THEN s.now + tsk[k].period ELSE s.next[k]]
        /\ m0.next = [k \in DOMAIN tsk |-> IF k \in U \ {u} THEN s.now + tsk[k].period ELSE s.next[k]]
    BY DEF Releasing, Schedule
  <1>2. x.task = u /\ x.release = s.now /\ x.remaining = tsk[u].wcet
    BY DEF JobFor
  <1>3. /\ u \in loc /\ s.next[u] = s.now
        /\ IsFiniteSet(m.jobs) /\ m.jobs \in SUBSET OpenJobs(loc)
        /\ \A k \in U : k \in loc /\ s.next[k] = s.now
    BY ReleasedIsNew
  <1>4. x \in m.jobs /\ m.jobs \ {x} = m0.jobs
    <2>1. x \notin s.jobs
      BY <1>2, ReleasedIsNew
    <2>2. \A k \in U \ {u} : JobFor(tsk, s.now, k) # x
      BY <1>2 DEF JobFor
    <2>3. {JobFor(tsk, s.now, k) : k \in U} = {JobFor(tsk, s.now, k) : k \in U \ {u}} \cup {x}
      OBVIOUS
    <2>4. x \notin {JobFor(tsk, s.now, k) : k \in U \ {u}}
      BY <2>2
    <2> QED BY <1>1, <2>1, <2>3, <2>4
  <1>5. /\ u \in S => WorkLeft(m.jobs, S) = tsk[u].wcet + WorkLeft(m0.jobs, S)
        /\ u \notin S => WorkLeft(m.jobs, S) = WorkLeft(m0.jobs, S)
        /\ WorkLeft(m0.jobs, S) \in Nat /\ tsk[u].wcet \in Nat
    <2>1. /\ x.task \in S => WorkLeft(m.jobs, S) = x.remaining + WorkLeft(m.jobs \ {x}, S)
          /\ x.task \notin S => WorkLeft(m.jobs, S) = WorkLeft(m.jobs \ {x}, S)
          /\ WorkLeft(m.jobs \ {x}, S) \in Nat /\ x.remaining \in Nat
      BY <1>3, <1>4, WorkLeftWithout
    <2>2. m.jobs \ {x} = m0.jobs /\ x.task = u /\ x.remaining = tsk[u].wcet
      BY <1>2, <1>4
    <2> QED BY <2>1, <2>2
  <1>6. /\ tsk \in Seq(TimedTask) /\ s.now \in Nat /\ b \in Nat /\ b <= s.now
        /\ \A k \in loc : /\ k \in DOMAIN tsk /\ tsk[k].period \in Nat \ {0} /\ tsk[k].wcet \in Nat
                          /\ s.next[k] \in Nat /\ s.now <= s.next[k]
    <2>1. tsk \in Seq(TimedTask) /\ loc \in SUBSET DOMAIN tsk
      BY DEF Device
    <2>2. \A k \in loc : tsk[k] \in TimedTask /\ k \in DOMAIN tsk
      BY <2>1, TaskFacts
    <2>3. s.now \in Nat /\ \A k \in loc : s.next[k] \in Nat /\ s.now <= s.next[k]
      BY <2>1 DEF Regular
    <2>4. \A k \in loc : tsk[k].period \in Nat \ {0} /\ tsk[k].wcet \in Nat
      BY <2>2 DEF TimedTask
    <2> QED BY <2>1, <2>2, <2>3, <2>4
  <1>7. IsFiniteSet(S)
    BY <1>6, TaskFacts, FS_Subset
  <1> PICK f : f = Requested(tsk, m.next, b)
    OBVIOUS
  <1> PICK f0 : f0 = Requested(tsk, m0.next, b)
    OBVIOUS
  <1>8. \A k \in loc : /\ f[k] = ((m.next[k] - b) \div tsk[k].period) * tsk[k].wcet
                       /\ f0[k] = ((m0.next[k] - b) \div tsk[k].period) * tsk[k].wcet
    BY <1>6 DEF Requested
  <1>9. \A k \in loc : /\ m.next[k] - b \in Nat /\ m0.next[k] - b \in Nat
                       /\ k # u => m.next[k] = m0.next[k]
    BY <1>1, <1>6
  <1>10. \A k \in loc : f[k] \in Nat /\ f0[k] \in Nat
    <2> TAKE k \in loc
    <2> PICK p : p = (m.next[k] - b) \div tsk[k].period
      OBVIOUS
    <2> PICK p0 : p0 = (m0.next[k] - b) \div tsk[k].period
      OBVIOUS
    <2>1. p \in Nat /\ p0 \in Nat
      BY <1>6, <1>9, QuotientBounds
    <2>2. p * tsk[k].wcet \in Nat /\ p0 * tsk[k].wcet \in Nat
      BY <1>6, <2>1
    <2> QED BY <1>8, <2>2
  <1>11. Counted(f, S) /\ Counted(f0, S)
    BY <1>7, <1>10 DEF Counted
  <1>12. \A k \in loc \ {u} : f0[k] = f[k]
    BY <1>8, <1>9
  <1>13. f[u] = f0[u] + tsk[u].wcet
    <2>1. m.next[u] = s.now + tsk[u].period /\ m0.next[u] = s.now
      BY <1>1, <1>3, <1>6
    <2> PICK n : n = s.now - b
      OBVIOUS
    <2> PICK T : T = tsk[u].period
      OBVIOUS
    <2> PICK C : C = tsk[u].wcet
      OBVIOUS
    <2>2. n \in Nat /\ T \in Nat \ {0} /\ C \in Nat /\ m.next[u] - b = n + T /\ m0.next[u] - b = n
      BY <1>3, <1>6, <2>1
    <2>3. f[u] = ((n + T) \div T) * C /\ f0[u] = (n \div T) * C
      BY <1>3, <1>8, <2>2
    <2> PICK p : p = n \div T
      OBVIOUS
    <2>4. p \in Nat /\ (n + T) \div T = p + 1
      BY <2>2, OnePeriodMore, QuotientBounds
    <2>5. (p + 1) * C = p * C + C
      BY <2>2, <2>4
    <2> QED BY <2>3, <2>4, <2>5
  <1>14. WorkSince(tsk, m.next, b, S) = SumOver(f, S) /\ WorkSince(tsk, m0.next, b, S) = SumOver(f0, S)
    BY DEF WorkSince
  <1>15. SumOver(f, S) \in Nat /\ SumOver(f0, S) \in Nat
    BY <1>11, SumWithout
  <1>16. CASE u \in S
    <2>1. SumOver(f0, S) + f[u] = SumOver(f, S) + f0[u]
      <3>1. Agree(f, f0, S \ {u})
        BY <1>12 DEF Agree
      <3> QED BY <1>11, <1>16, <3>1, SumGrows
    <2>2. f[u] \in Nat /\ f0[u] \in Nat /\ tsk[u].wcet \in Nat
      BY <1>3, <1>5, <1>10
    <2> PICK a, a0 : a = SumOver(f, S) /\ a0 = SumOver(f0, S)
      OBVIOUS
    <2>3. a = a0 + tsk[u].wcet
      BY <1>13, <1>15, <2>1, <2>2
    <2> QED BY <1>5, <1>14, <1>15, <1>16, <2>3
  <1>17. CASE u \notin S
    <2>1. \A k \in S : f0[k] = f[k]
      BY <1>12, <1>17
    <2>2. SumOver(f, S) = SumOver(f0, S)
      BY <1>11, <2>1, SumIsSame
    <2> QED BY <1>5, <1>14, <1>15, <1>17, <2>2
  <1> QED BY <1>16, <1>17

(* All together add as much to the one as to the other.                     *)
LEMMA ReleasesAddWork ==
    ASSUME NEW tsk, NEW loc, Device(tsk, loc), NEW s, Regular(tsk, loc, s),
           NEW U \in SUBSET DueIn(loc, s), NEW S \in SUBSET loc, NEW b \in 0 .. s.now
    PROVE  LET m == Releasing(tsk, s, U)
           IN /\ WorkLeft(m.jobs, S) + WorkSince(tsk, s.next, b, S)
                    = WorkLeft(s.jobs, S) + WorkSince(tsk, m.next, b, S)
              /\ WorkLeft(s.jobs, S) \in Nat /\ WorkSince(tsk, s.next, b, S) \in Nat
              /\ WorkLeft(m.jobs, S) \in Nat /\ WorkSince(tsk, m.next, b, S) \in Nat
  <1> DEFINE left(V) == WorkLeft(Releasing(tsk, s, V).jobs, S)
             since(V) == WorkSince(tsk, Releasing(tsk, s, V).next, b, S)
             good(V) == /\ left(V) + since({}) = left({}) + since(V)
                        /\ since(V) \in Nat
             bad == {V \in SUBSET U : ~ good(V)}
  <1>0. s.next \in [DOMAIN tsk -> Nat] /\ \A k \in loc : k \in DOMAIN tsk
    BY DEF Regular, Device
  <1>1. Releasing(tsk, s, {}).jobs = s.jobs /\ Releasing(tsk, s, {}).next = s.next
    BY <1>0 DEF Releasing, Schedule
  <1>2. \A V \in SUBSET U : left(V) \in Nat
    <2> TAKE V \in SUBSET U
    <2>1. V \in SUBSET DueIn(loc, s)
      OBVIOUS
    <2>2. IsFiniteSet(Releasing(tsk, s, V).jobs) /\ Releasing(tsk, s, V).jobs \in SUBSET OpenJobs(loc)
      BY <2>1, ReleasedIsNew
    <2> QED BY <2>2, WorkLeftIsNatural
  <1>3. \A V \in SUBSET U : \A u \in V : \E more \in Nat :
           left(V) = left(V \ {u}) + more /\ since(V) = since(V \ {u}) + more
           /\ since(V \ {u}) \in Nat
    <2> TAKE V \in SUBSET U
    <2> TAKE u \in V
    <2>1. V \in SUBSET DueIn(loc, s)
      OBVIOUS
    <2> PICK more : more = IF u \in S THEN tsk[u].wcet ELSE 0
      OBVIOUS
    <2>2. more \in Nat
      <3>1. u \in loc /\ tsk \in Seq(TimedTask) /\ u \in DOMAIN tsk
        BY <1>0, <2>1 DEF DueIn, Device
      <3>2. tsk[u] \in TimedTask
        BY <3>1, TaskFacts
      <3> QED BY <3>2 DEF TimedTask
    <2>3. left(V) = left(V \ {u}) + more /\ since(V) = since(V \ {u}) + more /\ since(V \ {u}) \in Nat
      BY <2>1, OneMoreRelease
    <2> HIDE DEF left, since
    <2> QED BY <2>2, <2>3
  <1>4. since({}) \in Nat
    <2>1. Counted(Requested(tsk, s.next, b), S)
      <3>1. IsFiniteSet(S) /\ S \in SUBSET DOMAIN tsk
        BY <1>0, TaskFacts, FS_Subset DEF Device
      <3>2. ASSUME NEW k \in S PROVE Requested(tsk, s.next, b)[k] \in Nat
        <4>1. tsk[k] \in TimedTask /\ k \in DOMAIN tsk /\ k \in loc
          BY <3>1, TaskFacts DEF Device
        <4>2. tsk[k].period \in Nat \ {0} /\ tsk[k].wcet \in Nat
          BY <4>1 DEF TimedTask
        <4>3. s.next[k] - b \in Nat
          BY <1>0, <4>1 DEF Regular
        <4> PICK p : p = (s.next[k] - b) \div tsk[k].period
          OBVIOUS
        <4>4. p \in Nat
          BY <4>2, <4>3, QuotientBounds
        <4>5. p * tsk[k].wcet \in Nat
          BY <4>2, <4>4
        <4> QED BY <4>1, <4>5 DEF Requested
      <3> QED BY <3>1, <3>2 DEF Counted
    <2> QED BY <1>1, <2>1, SumWithout DEF WorkSince
  <1>5. IsFiniteSet(U)
    <2>1. U \in SUBSET DOMAIN tsk
      BY <1>0 DEF DueIn
    <2> QED BY <2>1, TaskFacts, FS_Subset DEF Device
  <1> HIDE DEF left, since
  <1>6. ASSUME bad # {} PROVE FALSE
    <2>1. \A V \in bad : IsFiniteSet(V)
      BY <1>5, FS_Subset
    <2>2. PICK V \in bad : \A W \in bad : Cardinality(V) <= Cardinality(W)
      <3> HIDE DEF bad
      <3> QED BY <1>6, <2>1, SmallestSet
    <2>3. V # {}
      <3>1. {} \in SUBSET U
        OBVIOUS
      <3>2. good({})
        BY <1>2, <1>4
      <3> QED BY <3>2
    <2>4. PICK u \in V : TRUE
      BY <2>3
    <2>5. V \ {u} \in SUBSET U /\ V \ {u} \notin bad
      <3>1. Cardinality(V \ {u}) < Cardinality(V) /\ Cardinality(V \ {u}) \in Nat
            /\ Cardinality(V) \in Nat
        BY <2>1, <2>4, OneLess, Zenon
      <3>2. V \ {u} \in SUBSET U
        OBVIOUS
      <3> HIDE DEF bad
      <3> QED BY <2>2, <3>1, <3>2
    <2>6. good(V \ {u})
      BY <2>5
    <2>7. PICK more \in Nat : left(V) = left(V \ {u}) + more /\ since(V) = since(V \ {u}) + more
      BY <1>3
    <2>8. left(V \ {u}) \in Nat /\ left({}) \in Nat
      BY <1>2, <2>5
    <2>9. good(V)
      BY <1>4, <2>6, <2>7, <2>8
    <2> QED BY <2>9
  <1>7. good(U)
    <2>1. U \in SUBSET U
      OBVIOUS
    <2> HIDE DEF good
    <2> QED BY <1>6, <2>1
  <1>8. left({}) = WorkLeft(s.jobs, S) /\ since({}) = WorkSince(tsk, s.next, b, S)
    BY <1>1 DEF left, since
  <1>9. left({}) \in Nat /\ left(U) \in Nat
    BY <1>2
  <1> QED BY <1>4, <1>7, <1>8, <1>9 DEF left, since

(* Releasing every due job keeps a schedule regular and leaves no release   *)
(* at this time.                                                            *)
LEMMA ReleasingIsRegular ==
    ASSUME NEW tsk, NEW loc, Device(tsk, loc), NEW s, Regular(tsk, loc, s)
    PROVE  LET m == Releasing(tsk, s, DueIn(loc, s))
           IN /\ Regular(tsk, loc, m) /\ m.now = s.now /\ m.response = s.response
              /\ \A k \in loc : m.now < m.next[k] /\ s.next[k] <= m.next[k]
  <1> PICK U : U = DueIn(loc, s)
    OBVIOUS
  <1> PICK m : m = Releasing(tsk, s, U)
    OBVIOUS
  <1>1. /\ m.now = s.now /\ m.response = s.response
        /\ m.jobs = s.jobs \cup {JobFor(tsk, s.now, k) : k \in U}
        /\ m.next = [k \in DOMAIN tsk |-> IF k \in U THEN s.now + tsk[k].period ELSE s.next[k]]
    BY DEF Releasing, Schedule
  <1>2. /\ tsk \in Seq(TimedTask) /\ s.now \in Nat /\ s.next \in [DOMAIN tsk -> Nat]
        /\ s.response \in [DOMAIN tsk -> Nat] /\ \A k \in loc : k \in DOMAIN tsk
    BY DEF Device, Regular
  <1>3. \A k \in DOMAIN tsk : tsk[k].period \in Nat \ {0}
    BY <1>2, TaskFacts DEF TimedTask
  <1>4. \A k \in loc : s.now <= s.next[k] /\ s.next[k] <= s.now + tsk[k].period
                       /\ Divides(tsk[k].period, s.next[k])
    BY DEF Regular
  <1>5. m.next \in [DOMAIN tsk -> Nat]
    BY <1>1, <1>2, <1>3
  <1>6. ASSUME NEW k \in loc
        PROVE  /\ m.now < m.next[k] /\ m.next[k] <= m.now + tsk[k].period
               /\ Divides(tsk[k].period, m.next[k]) /\ s.next[k] <= m.next[k]
    <2>0. k \in DOMAIN tsk /\ tsk[k].period \in Nat \ {0} /\ s.next[k] \in Nat
      BY <1>2, <1>3
    <2>1. CASE k \in U
      <3>1. s.next[k] = s.now /\ m.next[k] = s.now + tsk[k].period
        BY <1>1, <2>0, <2>1 DEF DueIn
      <3>2. PICK q \in Nat : s.now = tsk[k].period * q
        BY <1>4, <3>1 DEF Divides
      <3>3. m.next[k] = tsk[k].period * (q + 1) /\ q + 1 \in Nat
        <4> PICK T : T = tsk[k].period
          OBVIOUS
        <4>1. T \in Nat /\ T * (q + 1) = T * q + T
          BY <2>0
        <4> QED BY <3>1, <3>2, <4>1
      <3>4. Divides(tsk[k].period, m.next[k])
        BY <3>3 DEF Divides
      <3> QED BY <1>1, <1>2, <2>0, <3>1, <3>4
    <2>2. CASE k \notin U
      <3>1. m.next[k] = s.next[k] /\ s.next[k] # s.now
        BY <1>1, <2>0, <2>2 DEF DueIn
      <3> QED BY <1>1, <1>2, <1>4, <2>0, <3>1
    <2> QED BY <2>1, <2>2
  <1>7. /\ \A k \in U : k \in loc /\ s.next[k] = s.now
        /\ \A k \in U : \A j \in s.jobs : j.task # k \/ j.release # s.now
        /\ IsFiniteSet(m.jobs) /\ m.jobs \in SUBSET OpenJobs(loc)
    BY ReleasedIsNew
  <1>8. \A k \in U : JobFor(tsk, s.now, k).task = k /\ JobFor(tsk, s.now, k).release = s.now
    BY DEF JobFor
  <1>9. ASSUME NEW j \in m.jobs PROVE Known(tsk, m, j)
    <2>1. CASE j \in s.jobs
      <3>1. j.release < s.next[j.task] /\ j.release <= s.now /\ j.task \in loc /\ j.release \in Nat
        BY <1>7, <2>1, RegularJobs
      <3>2. s.next[j.task] <= m.next[j.task] /\ s.next[j.task] \in Nat /\ m.next[j.task] \in Nat
        BY <1>2, <1>5, <1>6, <3>1
      <3>3. /\ j.deadline = j.release + tsk[j.task].deadline
            /\ tsk[j.task].wcet # 0 => j.remaining # 0
        BY <2>1, RegularJobs
      <3> QED BY <1>1, <3>1, <3>2, <3>3 DEF Known
    <2>2. CASE j \notin s.jobs
      <3>1. PICK k \in U : j = JobFor(tsk, s.now, k)
        BY <1>1, <2>2
      <3>2. /\ j.task = k /\ j.release = s.now /\ k \in loc
            /\ j.deadline = s.now + tsk[k].deadline /\ j.remaining = tsk[k].wcet
        BY <1>7, <3>1 DEF JobFor
      <3>3. m.now = s.now /\ m.now < m.next[k]
        BY <1>1, <1>6, <3>2
      <3> QED BY <1>2, <3>2, <3>3 DEF Known
    <2> QED BY <2>1, <2>2
  <1>10. ASSUME NEW j \in m.jobs, NEW k \in m.jobs, j.task = k.task, j.release = k.release
         PROVE  j = k
    <2>1. \A y \in m.jobs : y \in s.jobs \/ \E u \in U : y = JobFor(tsk, s.now, u)
      BY <1>1
    <2>2. \A y, z \in s.jobs : y.task = z.task /\ y.release = z.release => y = z
      BY DEF Regular
    <2>3. CASE j \in s.jobs /\ k \in s.jobs
      BY <1>10, <2>2, <2>3
    <2>4. CASE j \notin s.jobs
      <3>1. PICK u \in U : j = JobFor(tsk, s.now, u)
        BY <2>1, <2>4
      <3>2. j.task = u /\ j.release = s.now
        BY <1>8, <3>1
      <3>3. k \notin s.jobs
        BY <1>7, <1>10, <3>2
      <3>4. PICK v \in U : k = JobFor(tsk, s.now, v)
        BY <2>1, <3>3
      <3>5. u = v
        BY <1>8, <1>10, <3>1, <3>4
      <3> QED BY <3>1, <3>4, <3>5
    <2>5. CASE k \notin s.jobs
      <3>1. PICK u \in U : k = JobFor(tsk, s.now, u)
        BY <2>1, <2>5
      <3>2. k.task = u /\ k.release = s.now
        BY <1>8, <3>1
      <3>3. j \notin s.jobs
        BY <1>7, <1>10, <3>2
      <3>4. PICK v \in U : j = JobFor(tsk, s.now, v)
        BY <2>1, <3>3
      <3>5. u = v
        BY <1>8, <1>10, <3>1, <3>4
      <3> QED BY <3>1, <3>4, <3>5
    <2> QED BY <2>3, <2>4, <2>5
  <1>11. Regular(tsk, loc, m)
    <2>1. \A k \in loc : m.now <= m.next[k]
      <3> TAKE k \in loc
      <3>1. m.now < m.next[k] /\ m.now \in Nat /\ m.next[k] \in Nat
        BY <1>1, <1>2, <1>5, <1>6
      <3> QED BY <3>1
    <2> QED BY <1>1, <1>2, <1>5, <1>6, <1>7, <1>9, <1>10, <2>1 DEF Regular
  <1> QED BY <1>1, <1>6, <1>11

-----------------------------------------------------------------------------
(* Runs                                                                     *)

(* The processor serves a job for d units, past no release.                 *)
LeftOf(x, d) == IF x.remaining = d THEN {} ELSE {[x EXCEPT !.remaining = @ - d]}
Serves(tsk, loc, m, s, x, d) ==
    /\ x \in m.jobs /\ d \in Nat /\ d <= x.remaining /\ \A k \in loc : m.now + d <= m.next[k]
    /\ s.now = m.now + d /\ s.next = m.next /\ s.jobs = (m.jobs \ {x}) \cup LeftOf(x, d)
    /\ s.response \in [DOMAIN tsk -> Nat]

(* It is late if it ends after its deadline.                                *)
Late(x, d, t) == IF x.remaining = d /\ x.deadline < t THEN 1 ELSE 0

(* The job answers if it has had all it needs.                              *)
Answers(tsk, m, s, x, d) ==
    \A i \in DOMAIN tsk :
        /\ m.response[i] <= s.response[i]
        /\ IF x.task = i /\ x.remaining = d
           THEN /\ s.now - x.release <= s.response[i]
                /\ s.response[i] = m.response[i] \/ s.response[i] = s.now - x.release
           ELSE s.response[i] = m.response[i]

(* Under fixed priorities the job comes before all others: no task has a    *)
(* higher priority, and its own has no earlier job.                         *)
Foremost(tsk, jobs, x) ==
    /\ x \in jobs
    /\ \A j \in jobs : /\ tsk[x.task].priority <= tsk[j.task].priority
                       /\ j.task = x.task => x.release <= j.release

Runs(tsk, loc, m, s, x, d) ==
    /\ Foremost(tsk, m.jobs, x) /\ Serves(tsk, loc, m, s, x, d) /\ d # 0
    /\ Answers(tsk, m, s, x, d)

(* A run takes its length from the work that is left.                       *)
LEMMA RunTakesWork ==
    ASSUME NEW tsk, NEW loc, NEW m, Regular(tsk, loc, m), NEW s, NEW x, NEW d,
           Serves(tsk, loc, m, s, x, d), NEW S
    PROVE  /\ IsFiniteSet(s.jobs) /\ s.jobs \in SUBSET OpenJobs(loc)
           /\ WorkLeft(m.jobs, S) = WorkLeft(s.jobs, S) + (IF x.task \in S THEN d ELSE 0)
           /\ WorkLeft(s.jobs, S) \in Nat /\ WorkLeft(m.jobs, S) \in Nat
  <1> PICK rest : rest = m.jobs \ {x}
    OBVIOUS
  <1>1. /\ IsFiniteSet(m.jobs) /\ m.jobs \in SUBSET OpenJobs(loc) /\ x \in m.jobs
        /\ d \in Nat /\ d <= x.remaining
        /\ s.jobs = rest \cup LeftOf(x, d)
    BY DEF Regular, Serves
  <1>2. IsFiniteSet(rest) /\ rest \in SUBSET OpenJobs(loc)
    BY <1>1, FS_Subset
  <1>3. /\ x.task \in S => WorkLeft(m.jobs, S) = x.remaining + WorkLeft(rest, S)
        /\ x.task \notin S => WorkLeft(m.jobs, S) = WorkLeft(rest, S)
        /\ WorkLeft(rest, S) \in Nat /\ x.remaining \in Nat
    BY <1>1, WorkLeftWithout
  <1>4. CASE x.remaining = d
    <2>1. s.jobs = rest
      BY <1>1, <1>4 DEF LeftOf
    <2> PICK a, b : a = WorkLeft(m.jobs, S) /\ b = WorkLeft(rest, S)
      OBVIOUS
    <2>2. b \in Nat /\ d \in Nat /\ a = b + (IF x.task \in S THEN d ELSE 0)
      BY <1>1, <1>3, <1>4
    <2> QED BY <1>2, <2>1, <2>2
  <1>5. CASE x.remaining # d
    <2>0. PICK y : y = [x EXCEPT !.remaining = @ - d]
      OBVIOUS
    <2>1. x \in OpenJobs(loc)
      BY <1>1
    <2>2. x.remaining - d \in Nat \ {0}
      BY <1>1, <1>3, <1>5
    <2>3. /\ y \in OpenJobs(loc) /\ y.task = x.task /\ y.release = x.release
          /\ y.remaining = x.remaining - d
      BY <2>0, <2>1, <2>2 DEF OpenJobs
    <2>4. s.jobs = rest \cup {y}
      BY <1>1, <1>5, <2>0 DEF LeftOf
    <2>5. y \notin rest
      <3> SUFFICES ASSUME y \in rest PROVE FALSE
        OBVIOUS
      <3>1. y = x
        BY <1>1, <2>3 DEF Regular
      <3> QED BY <3>1
    <2>6. IsFiniteSet(s.jobs) /\ s.jobs \in SUBSET OpenJobs(loc) /\ s.jobs \ {y} = rest /\ y \in s.jobs
      BY <1>2, <2>3, <2>4, <2>5, FS_AddElement
    <2>7. /\ y.task \in S => WorkLeft(s.jobs, S) = y.remaining + WorkLeft(rest, S)
          /\ y.task \notin S => WorkLeft(s.jobs, S) = WorkLeft(rest, S)
      <3>1. /\ y.task \in S => WorkLeft(s.jobs, S) = y.remaining + WorkLeft(s.jobs \ {y}, S)
            /\ y.task \notin S => WorkLeft(s.jobs, S) = WorkLeft(s.jobs \ {y}, S)
        BY <2>6, WorkLeftWithout
      <3> QED BY <2>6, <3>1
    <2> QED BY <1>1, <1>3, <2>2, <2>3, <2>6, <2>7
  <1> QED BY <1>4, <1>5

(* A run keeps a schedule regular,                                          *)
LEMMA ServingIsRegular ==
    ASSUME NEW tsk, NEW loc, Device(tsk, loc), NEW m, Regular(tsk, loc, m),
           NEW s, NEW x, NEW d, Serves(tsk, loc, m, s, x, d)
    PROVE  Regular(tsk, loc, s)
  <1>1. /\ m.now \in Nat /\ m.next \in [DOMAIN tsk -> Nat]
        /\ \A k \in loc : /\ m.next[k] <= m.now + tsk[k].period
                          /\ Divides(tsk[k].period, m.next[k])
        /\ m.jobs \in SUBSET OpenJobs(loc)
        /\ \A j, k \in m.jobs : j.task = k.task /\ j.release = k.release => j = k
    BY DEF Regular
  <1>2. /\ s.now = m.now + d /\ s.next = m.next /\ d \in Nat /\ d <= x.remaining /\ x \in m.jobs
        /\ \A k \in loc : s.now <= s.next[k]
        /\ s.jobs = (m.jobs \ {x}) \cup LeftOf(x, d) /\ s.response \in [DOMAIN tsk -> Nat]
    BY DEF Serves
  <1>3. \A k \in loc : tsk[k].period \in Nat \ {0} /\ m.next[k] \in Nat
    <2>1. tsk \in Seq(TimedTask) /\ loc \in SUBSET DOMAIN tsk
      BY DEF Device
    <2> QED BY <1>1, <2>1, TaskFacts DEF TimedTask
  <1>5. \A k \in loc : s.next[k] <= s.now + tsk[k].period
    <2> TAKE k \in loc
    <2>1. m.next[k] <= m.now + tsk[k].period /\ m.next[k] \in Nat /\ tsk[k].period \in Nat
      BY <1>1, <1>3
    <2> QED BY <1>1, <1>2, <2>1
  <1>6. ASSUME NEW y \in s.jobs
        PROVE  \E j \in m.jobs : /\ j.task = y.task /\ j.release = y.release
                                 /\ j.deadline = y.deadline
                                 /\ j.remaining # 0 => y.remaining # 0
                                 /\ y = j \/ (j = x /\ y = [x EXCEPT !.remaining = @ - d])
                                 /\ j = x => y = [x EXCEPT !.remaining = @ - d]
    <2>1. CASE y \in m.jobs \ {x}
      BY <2>1
    <2>2. CASE y \notin m.jobs \ {x}
      <3>1. y = [x EXCEPT !.remaining = @ - d]
        BY <1>2, <2>2 DEF LeftOf
      <3>2. x \in OpenJobs(loc)
        BY <1>1, <1>2
      <3>3. /\ y.task = x.task /\ y.release = x.release /\ y.deadline = x.deadline
            /\ y.remaining = x.remaining - d /\ x.remaining \in Nat
        BY <3>1, <3>2 DEF OpenJobs
      <3>4. x.remaining # d
        BY <1>2, <2>2 DEF LeftOf
      <3>5. y.remaining # 0
        BY <1>2, <3>3, <3>4
      <3> QED BY <1>2, <3>1, <3>3, <3>5
    <2> QED BY <2>1, <2>2
  <1>7. \A y \in s.jobs : Known(tsk, s, y)
    <2> TAKE y \in s.jobs
    <2>1. PICK j \in m.jobs : /\ j.task = y.task /\ j.release = y.release /\ j.deadline = y.deadline
                              /\ j.remaining # 0 => y.remaining # 0
      BY <1>6
    <2>2. /\ j.release \in Nat /\ j.release <= m.now /\ j.release < m.next[j.task]
          /\ j.deadline = j.release + tsk[j.task].deadline
          /\ tsk[j.task].wcet # 0 => j.remaining # 0
      BY RegularJobs
    <2>3. y.release <= s.now
      BY <1>1, <1>2, <2>1, <2>2
    <2> QED BY <1>2, <2>1, <2>2, <2>3 DEF Known
  <1>8. ASSUME NEW y \in s.jobs, NEW z \in s.jobs, y.task = z.task, y.release = z.release
        PROVE  y = z
    <2>1. PICK j \in m.jobs : /\ j.task = y.task /\ j.release = y.release
                              /\ y = j \/ (j = x /\ y = [x EXCEPT !.remaining = @ - d])
                              /\ j = x => y = [x EXCEPT !.remaining = @ - d]
      BY <1>6
    <2>2. PICK k \in m.jobs : /\ k.task = z.task /\ k.release = z.release
                              /\ z = k \/ (k = x /\ z = [x EXCEPT !.remaining = @ - d])
                              /\ k = x => z = [x EXCEPT !.remaining = @ - d]
      BY <1>6
    <2>3. j = k
      BY <1>1, <1>8, <2>1, <2>2
    <2> QED BY <2>1, <2>2, <2>3
  <1>9. IsFiniteSet(s.jobs) /\ s.jobs \in SUBSET OpenJobs(loc)
    BY RunTakesWork
  <1> QED BY <1>1, <1>2, <1>5, <1>7, <1>8, <1>9 DEF Regular

(* and next releases within a period of what has not been due.              *)
LEMMA RunIsRegular ==
    ASSUME NEW tsk, NEW loc, Device(tsk, loc), NEW m, Regular(tsk, loc, m),
           NEW s, NEW x, NEW d, Runs(tsk, loc, m, s, x, d)
    PROVE  Regular(tsk, loc, s) /\ \A k \in loc : s.next[k] < s.now + tsk[k].period
  <1>1. Serves(tsk, loc, m, s, x, d) /\ d \in Nat \ {0} /\ s.now = m.now + d /\ s.next = m.next
    BY DEF Runs, Serves, Answers
  <1>2. ASSUME NEW k \in loc PROVE s.next[k] < s.now + tsk[k].period
    <2>1. /\ m.next[k] <= m.now + tsk[k].period /\ m.next[k] \in Nat /\ m.now \in Nat
          /\ tsk[k].period \in Nat
      <3>1. k \in DOMAIN tsk /\ tsk \in Seq(TimedTask)
        BY DEF Device
      <3> QED BY <3>1, TaskFacts DEF TimedTask, Regular
    <2> QED BY <1>1, <2>1
  <1> QED BY <1>1, <1>2, ServingIsRegular

(* Without a job the time may pass up to the next release.                  *)
Idles(tsk, loc, m, s, d) ==
    /\ m.jobs = {} /\ d \in Nat \ {0} /\ \A k \in loc : m.now + d <= m.next[k]
    /\ s = Schedule(m.now + d, m.next, {}, m.response)

(* That keeps a schedule regular as well.                                   *)
LEMMA IdlingIsRegular ==
    ASSUME NEW tsk, NEW loc, Device(tsk, loc), NEW m, Regular(tsk, loc, m),
           NEW s, NEW d, Idles(tsk, loc, m, s, d)
    PROVE  Regular(tsk, loc, s) /\ \A k \in loc : s.next[k] < s.now + tsk[k].period
  <1>1. /\ m.now \in Nat /\ m.next \in [DOMAIN tsk -> Nat] /\ m.response \in [DOMAIN tsk -> Nat]
        /\ \A k \in loc : /\ m.next[k] <= m.now + tsk[k].period
                          /\ Divides(tsk[k].period, m.next[k])
    BY DEF Regular
  <1>2. /\ s.now = m.now + d /\ s.next = m.next /\ d \in Nat \ {0} /\ s.jobs = {}
        /\ s.response = m.response /\ \A k \in loc : s.now <= s.next[k]
    BY DEF Idles, Schedule
  <1>3. \A k \in loc : tsk[k].period \in Nat \ {0} /\ m.next[k] \in Nat
    <2>1. tsk \in Seq(TimedTask) /\ loc \in SUBSET DOMAIN tsk
      BY DEF Device
    <2> QED BY <1>1, <2>1, TaskFacts DEF TimedTask
  <1>4. \A k \in loc : s.next[k] < s.now + tsk[k].period /\ s.next[k] <= s.now + tsk[k].period
    <2> TAKE k \in loc
    <2>1. m.next[k] <= m.now + tsk[k].period /\ m.next[k] \in Nat /\ tsk[k].period \in Nat
      BY <1>1, <1>3
    <2> QED BY <1>1, <1>2, <2>1
  <1>5. IsFiniteSet({})
    BY FS_EmptySet
  <1> QED BY <1>1, <1>2, <1>4, <1>5 DEF Regular

-----------------------------------------------------------------------------
(* Released work and interference                                           *)

(* The work released since b is a number, task by task.                     *)
LEMMA RequestedIsNatural ==
    ASSUME NEW tsk, NEW loc, Device(tsk, loc), NEW s, Regular(tsk, loc, s),
           NEW S \in SUBSET loc, NEW b \in 0 .. s.now
    PROVE  /\ Counted(Requested(tsk, s.next, b), S) /\ WorkSince(tsk, s.next, b, S) \in Nat
           /\ \A k \in S : /\ k \in DOMAIN tsk /\ s.next[k] - b \in Nat
                           /\ tsk[k].period \in Nat \ {0} /\ tsk[k].wcet \in Nat
                           /\ (s.next[k] - b) \div tsk[k].period \in Nat
                           /\ Requested(tsk, s.next, b)[k]
                                 = ((s.next[k] - b) \div tsk[k].period) * tsk[k].wcet
  <1>1. /\ tsk \in Seq(TimedTask) /\ S \in SUBSET DOMAIN tsk /\ s.now \in Nat /\ b \in Nat
        /\ b <= s.now /\ \A k \in S : s.next[k] \in Nat /\ s.now <= s.next[k]
    BY DEF Device, Regular
  <1>2. IsFiniteSet(S)
    BY <1>1, TaskFacts, FS_Subset
  <1>3. ASSUME NEW k \in S
        PROVE  /\ k \in DOMAIN tsk /\ s.next[k] - b \in Nat
               /\ tsk[k].period \in Nat \ {0} /\ tsk[k].wcet \in Nat
               /\ (s.next[k] - b) \div tsk[k].period \in Nat
               /\ Requested(tsk, s.next, b)[k]
                     = ((s.next[k] - b) \div tsk[k].period) * tsk[k].wcet
               /\ Requested(tsk, s.next, b)[k] \in Nat
    <2>1. k \in DOMAIN tsk /\ tsk[k] \in TimedTask
      BY <1>1, TaskFacts
    <2>2. tsk[k].period \in Nat \ {0} /\ tsk[k].wcet \in Nat
      BY <2>1 DEF TimedTask
    <2>3. s.next[k] - b \in Nat
      BY <1>1
    <2> PICK p : p = (s.next[k] - b) \div tsk[k].period
      OBVIOUS
    <2>4. p \in Nat
      BY <2>2, <2>3, QuotientBounds
    <2>5. p * tsk[k].wcet \in Nat
      BY <2>2, <2>4
    <2>6. Requested(tsk, s.next, b)[k] = p * tsk[k].wcet
      BY <2>1 DEF Requested
    <2> QED BY <2>1, <2>2, <2>3, <2>4, <2>5, <2>6
  <1>4. Counted(Requested(tsk, s.next, b), S)
    BY <1>2, <1>3 DEF Counted
  <1> QED BY <1>3, <1>4, SumWithout DEF WorkSince

(* What is released in less than r units, from b on, is no more than        *)
(* interferes in r units.                                                   *)
LEMMA ReleasedInterferes ==
    ASSUME NEW tsk, NEW loc, Device(tsk, loc), NEW s, Regular(tsk, loc, s),
           NEW S \in SUBSET loc, NEW b \in 0 .. s.now, NEW r \in Nat, s.now < b + r
    PROVE  WorkSince(tsk, s.next, b, S) <= Interference(tsk, Wcets(tsk), S, r)
  <1>0. \A k \in S :
           /\ k \in DOMAIN tsk /\ s.next[k] - b \in Nat
           /\ tsk[k].period \in Nat \ {0} /\ tsk[k].wcet \in Nat
           /\ (s.next[k] - b) \div tsk[k].period \in Nat
           /\ Requested(tsk, s.next, b)[k] = ((s.next[k] - b) \div tsk[k].period) * tsk[k].wcet
    BY RequestedIsNatural
  <1> PICK f : f = Requested(tsk, s.next, b)
    OBVIOUS
  <1> PICK g : g = Load(tsk, Wcets(tsk), r)
    OBVIOUS
  <1>1. tsk \in Seq(TimedTask) /\ S \in SUBSET DOMAIN tsk /\ s.now \in Nat /\ b \in Nat
    BY DEF Device, Regular
  <1>2. Costed(tsk, Wcets(tsk))
    BY <1>1, WcetsAreCosts
  <1>3. Counted(f, S) /\ Counted(g, S)
    BY <1>1, <1>2, RequestedIsNatural, LoadIsNatural
  <1>4. ASSUME NEW k \in S PROVE f[k] <= g[k]
    <2>1. /\ k \in DOMAIN tsk /\ s.next[k] - b \in Nat /\ tsk[k].period \in Nat \ {0}
          /\ tsk[k].wcet \in Nat /\ (s.next[k] - b) \div tsk[k].period \in Nat
          /\ f[k] = ((s.next[k] - b) \div tsk[k].period) * tsk[k].wcet
      BY <1>0
    <2>2. s.next[k] <= s.now + tsk[k].period /\ s.next[k] \in Int
      BY <1>1 DEF Regular
    <2> PICK n : n = s.next[k] - b
      OBVIOUS
    <2> PICK T : T = tsk[k].period
      OBVIOUS
    <2> PICK C : C = tsk[k].wcet
      OBVIOUS
    <2> PICK p : p = n \div T
      OBVIOUS
    <2> PICK q : q = CeilDiv(r, T)
      OBVIOUS
    <2>3. g[k] = q * C
      BY <2>1 DEF Load, Wcets
    <2>4. n \in Nat /\ T \in Nat \ {0} /\ p \in Nat /\ f[k] = p * C /\ C \in Nat
      BY <2>1
    <2>5. n <= r + T - 1 /\ r + T - 1 \in Nat
      <3> PICK v, t : v = s.next[k] /\ t = s.now
        OBVIOUS
      <3>1. v \in Int /\ t \in Nat /\ b \in Nat /\ T \in Nat \ {0} /\ v <= t + T /\ n = v - b /\ t < b + r
        BY <1>1, <2>2, <2>4
      <3> QED BY <3>1
    <2>6. T * p <= n
      BY <2>4, QuotientBounds
    <2>7. T * p <= r + T - 1
      <3>1. T * p \in Nat
        BY <2>4
      <3> QED BY <2>4, <2>5, <2>6, <3>1
    <2>8. p <= q
      BY <2>4, <2>5, <2>7, QuotientIsGreatest DEF CeilDiv
    <2>9. q \in Nat
      BY <2>4, CeilDivBounds
    <2>10. p * C <= q * C
      BY <2>4, <2>8, <2>9
    <2> QED BY <2>3, <2>4, <2>10
  <1>5. Dominates(g, S, f, S)
    BY <1>4 DEF Dominates
  <1>6. SumOver(f, S) <= SumOver(g, S)
    BY <1>3, <1>5, SumIsMonotone
  <1>7. Interference(tsk, Wcets(tsk), S, r) = SumOver(g, S)
    BY <1>1, <1>2, InterferenceIsLoad
  <1> QED BY <1>6, <1>7 DEF WorkSince

(* By the time t all that interferes in t units has been released.          *)
LEMMA InterferenceIsReleased ==
    ASSUME NEW tsk, NEW loc, Device(tsk, loc), NEW s, Regular(tsk, loc, s), NEW S \in SUBSET loc
    PROVE  Interference(tsk, Wcets(tsk), S, s.now) <= WorkSince(tsk, s.next, 0, S)
  <1>0. \A k \in S :
           /\ k \in DOMAIN tsk /\ s.next[k] - 0 \in Nat
           /\ tsk[k].period \in Nat \ {0} /\ tsk[k].wcet \in Nat
           /\ Requested(tsk, s.next, 0)[k] = ((s.next[k] - 0) \div tsk[k].period) * tsk[k].wcet
    <2>1. ASSUME NEW b \in 0 .. s.now
          PROVE  \A k \in S :
                    /\ k \in DOMAIN tsk /\ s.next[k] - b \in Nat
                    /\ tsk[k].period \in Nat \ {0} /\ tsk[k].wcet \in Nat
                    /\ (s.next[k] - b) \div tsk[k].period \in Nat
                    /\ Requested(tsk, s.next, b)[k]
                          = ((s.next[k] - b) \div tsk[k].period) * tsk[k].wcet
      BY RequestedIsNatural
    <2>2. 0 \in 0 .. s.now
      BY DEF Regular
    <2> QED BY <2>1, <2>2
  <1> PICK f : f = Requested(tsk, s.next, 0)
    OBVIOUS
  <1> PICK g : g = Load(tsk, Wcets(tsk), s.now)
    OBVIOUS
  <1>1. tsk \in Seq(TimedTask) /\ S \in SUBSET DOMAIN tsk /\ s.now \in Nat /\ 0 \in 0 .. s.now
    BY DEF Device, Regular
  <1>2. Costed(tsk, Wcets(tsk))
    BY <1>1, WcetsAreCosts
  <1>3. Counted(f, S) /\ Counted(g, S)
    BY <1>1, <1>2, RequestedIsNatural, LoadIsNatural
  <1>4. ASSUME NEW k \in S PROVE g[k] <= f[k]
    <2>1. /\ k \in DOMAIN tsk /\ s.next[k] - 0 \in Nat /\ tsk[k].period \in Nat \ {0}
          /\ tsk[k].wcet \in Nat
          /\ f[k] = ((s.next[k] - 0) \div tsk[k].period) * tsk[k].wcet
      BY <1>0
    <2>2. s.now <= s.next[k] /\ Divides(tsk[k].period, s.next[k]) /\ s.next[k] \in Nat
      BY <1>1 DEF Regular
    <2> PICK T : T = tsk[k].period
      OBVIOUS
    <2> PICK C : C = tsk[k].wcet
      OBVIOUS
    <2>3. PICK p \in Nat : s.next[k] = T * p
      BY <2>2 DEF Divides
    <2>4. s.next[k] - 0 = T * p /\ (T * p) \div T = p
      BY <2>1, <2>2, <2>3
    <2>5. f[k] = p * C
      BY <2>1, <2>4
    <2> PICK q : q = CeilDiv(s.now, T)
      OBVIOUS
    <2>6. g[k] = q * C
      BY <2>1 DEF Load, Wcets
    <2>7. q <= p /\ q \in Nat
      BY <1>1, <2>1, <2>2, <2>3, CeilDivIsLeast, CeilDivBounds
    <2>8. q * C <= p * C
      BY <2>1, <2>7
    <2> QED BY <2>5, <2>6, <2>8
  <1>5. Dominates(f, S, g, S)
    BY <1>4 DEF Dominates
  <1>6. SumOver(g, S) <= SumOver(f, S)
    BY <1>3, <1>5, SumIsMonotone
  <1>7. Interference(tsk, Wcets(tsk), S, s.now) = SumOver(g, S)
    BY <1>1, <1>2, InterferenceIsLoad
  <1> QED BY <1>6, <1>7 DEF WorkSince

-----------------------------------------------------------------------------
(* Busy windows                                                             *)

(* The tasks above i, and what r has to be to bound its responses.          *)
Higher(tsk, loc, i) == {k \in loc : tsk[k].priority < tsk[i].priority}
Bounds(tsk, loc, i, r) ==
    Covers(tsk, i, Wcets(tsk), Higher(tsk, loc, i), r) /\ r <= tsk[i].period

(* The tasks above i have been served without a break since some b that is  *)
(* less than r ago.                                                         *)
BusyAbove(tsk, loc, i, s, r) ==
    \E b \in 0 .. s.now :
        /\ s.now < b + r
        /\ WorkLeft(s.jobs, Higher(tsk, loc, i)) + (s.now - b)
              <= WorkSince(tsk, s.next, b, Higher(tsk, loc, i))

(* A job of i is its last, and it and the tasks above have been served      *)
(* without a break since some b before its release and less than r ago.     *)
InWindow(tsk, loc, i, s, r, j) ==
    /\ j.release + tsk[i].period = s.next[i]
    /\ \E b \in 0 .. j.release :
          /\ s.now < b + r
          /\ WorkLeft(s.jobs, Higher(tsk, loc, i)) + j.remaining + (s.now - b)
                <= tsk[i].wcet + WorkSince(tsk, s.next, b, Higher(tsk, loc, i))
Within(tsk, loc, i, s, r) ==
    /\ s.response[i] <= r
    /\ BusyAbove(tsk, loc, i, s, r)
    /\ \A j \in s.jobs : j.task = i => InWindow(tsk, loc, i, s, r, j)

(* The facts about i and the tasks above it.                                *)
LEMMA HigherFacts ==
    ASSUME NEW tsk, NEW loc, Device(tsk, loc), Ranked(tsk, loc), NEW i \in loc
    PROVE  /\ Higher(tsk, loc, i) \in SUBSET loc /\ i \notin Higher(tsk, loc, i)
           /\ Higher(tsk, loc, i) \in SUBSET DOMAIN tsk
           /\ i \in DOMAIN tsk /\ tsk[i].wcet \in Nat \ {0} /\ tsk[i].period \in Nat \ {0}
           /\ Wcets(tsk)[i] = tsk[i].wcet /\ Costed(tsk, Wcets(tsk))
           /\ \A r \in Nat : Interference(tsk, Wcets(tsk), Higher(tsk, loc, i), r) \in Nat
           /\ \A k \in loc : tsk[k].priority <= tsk[i].priority => k = i \/ k \in Higher(tsk, loc, i)
           /\ \A k \in loc : tsk[k].priority \in Nat
  <1>1. /\ tsk \in Seq(TimedTask) /\ loc \in SUBSET DOMAIN tsk /\ tsk[i].wcet # 0
        /\ \A m, k \in loc : tsk[m].priority = tsk[k].priority => m = k
    BY DEF Device, Ranked
  <1>2. \A k \in loc : /\ k \in DOMAIN tsk /\ tsk[k].priority \in Nat /\ tsk[k].wcet \in Nat
                       /\ tsk[k].period \in Nat \ {0}
    BY <1>1, TaskFacts DEF TimedTask
  <1>3. Higher(tsk, loc, i) \in SUBSET loc /\ i \notin Higher(tsk, loc, i)
    BY <1>2 DEF Higher
  <1>4. \A k \in loc : tsk[k].priority <= tsk[i].priority => k = i \/ k \in Higher(tsk, loc, i)
    BY <1>1, <1>2 DEF Higher
  <1>5. Costed(tsk, Wcets(tsk)) /\ Wcets(tsk)[i] = tsk[i].wcet
    BY <1>1, <1>2, WcetsAreCosts DEF Wcets
  <1>6. Higher(tsk, loc, i) \in SUBSET DOMAIN tsk
    BY <1>1, <1>3
  <1>7. \A r \in Nat : Interference(tsk, Wcets(tsk), Higher(tsk, loc, i), r) \in Nat
    BY <1>5, <1>6, InterferenceIsLoad
  <1> QED BY <1>1, <1>2, <1>3, <1>4, <1>5, <1>6, <1>7

(* Releases keep every window: they add to both sides, a job of i is only   *)
(* released when none is left, and starts with the window of those above.   *)
LEMMA ReleasingKeepsWithin ==
    ASSUME NEW tsk, NEW loc, Device(tsk, loc), Ranked(tsk, loc), NEW s, Regular(tsk, loc, s), NEW i \in loc,
           NEW r, Bounds(tsk, loc, i, r), Within(tsk, loc, i, s, r)
    PROVE  Within(tsk, loc, i, Releasing(tsk, s, DueIn(loc, s)), r)
  <1> PICK U : U = DueIn(loc, s)
    OBVIOUS
  <1> PICK m : m = Releasing(tsk, s, U)
    OBVIOUS
  <1> PICK hp : hp = Higher(tsk, loc, i)
    OBVIOUS
  <1>1. /\ m.now = s.now /\ m.response = s.response
        /\ m.jobs = s.jobs \cup {JobFor(tsk, s.now, k) : k \in U}
        /\ m.next = [k \in DOMAIN tsk |-> IF k \in U THEN s.now + tsk[k].period ELSE s.next[k]]
    BY DEF Releasing, Schedule
  <1>2. /\ hp \in SUBSET loc /\ i \in DOMAIN tsk /\ s.now \in Nat /\ U \in SUBSET DueIn(loc, s)
        /\ r \in Nat /\ r <= tsk[i].period /\ tsk[i].period \in Nat \ {0} /\ tsk[i].wcet \in Nat
    BY HigherFacts DEF Regular, Bounds, Covers
  <1>3. \A b \in 0 .. s.now :
           /\ WorkLeft(m.jobs, hp) + WorkSince(tsk, s.next, b, hp)
                 = WorkLeft(s.jobs, hp) + WorkSince(tsk, m.next, b, hp)
           /\ WorkLeft(s.jobs, hp) \in Nat /\ WorkSince(tsk, s.next, b, hp) \in Nat
           /\ WorkLeft(m.jobs, hp) \in Nat /\ WorkSince(tsk, m.next, b, hp) \in Nat
    BY <1>2, ReleasesAddWork
  <1>4. /\ s.response[i] <= r
        /\ \A j \in s.jobs : j.task = i => InWindow(tsk, loc, i, s, r, j)
    BY DEF Within
  <1>5. PICK b \in 0 .. s.now : /\ s.now < b + r
                                /\ WorkLeft(s.jobs, hp) + (s.now - b) <= WorkSince(tsk, s.next, b, hp)
    BY DEF Within, BusyAbove
  <1>6. WorkLeft(m.jobs, hp) + (m.now - b) <= WorkSince(tsk, m.next, b, hp)
    <2> PICK w, v, w1, v1 : /\ w = WorkLeft(s.jobs, hp) /\ v = WorkSince(tsk, s.next, b, hp)
                            /\ w1 = WorkLeft(m.jobs, hp) /\ v1 = WorkSince(tsk, m.next, b, hp)
      OBVIOUS
    <2> PICK t : t = s.now
      OBVIOUS
    <2>1. /\ w \in Nat /\ v \in Nat /\ w1 \in Nat /\ v1 \in Nat /\ t \in Nat /\ b \in Nat
          /\ w1 + v = w + v1 /\ w + (t - b) <= v
      BY <1>2, <1>3, <1>5
    <2>2. w1 + (t - b) <= v1
      BY <2>1
    <2> QED BY <1>1, <2>2
  <1>7. BusyAbove(tsk, loc, i, m, r)
    BY <1>1, <1>5, <1>6 DEF BusyAbove
  <1>8. ASSUME NEW j \in m.jobs, j.task = i PROVE InWindow(tsk, loc, i, m, r, j)
    <2>1. CASE j \in s.jobs
      <3>1. j.release \in Nat /\ j.release <= s.now /\ j.remaining \in Nat
        BY <2>1, RegularJobs
      <3>2. j.release + tsk[i].period = s.next[i]
        BY <1>4, <1>8, <2>1 DEF InWindow
      <3>3. PICK c \in 0 .. j.release :
               /\ s.now < c + r
               /\ WorkLeft(s.jobs, hp) + j.remaining + (s.now - c)
                     <= tsk[i].wcet + WorkSince(tsk, s.next, c, hp)
        BY <1>4, <1>8, <2>1 DEF InWindow
      <3>4. i \notin U
        BY <1>2, <3>1, <3>2, <3>3 DEF DueIn
      <3>5. m.next[i] = s.next[i]
        BY <1>1, <1>2, <3>4
      <3>6. c \in 0 .. s.now
        BY <1>2, <3>1
      <3>7. WorkLeft(m.jobs, hp) + j.remaining + (m.now - c)
               <= tsk[i].wcet + WorkSince(tsk, m.next, c, hp)
        <4> PICK w, v, w1, v1 : /\ w = WorkLeft(s.jobs, hp) /\ v = WorkSince(tsk, s.next, c, hp)
                                /\ w1 = WorkLeft(m.jobs, hp) /\ v1 = WorkSince(tsk, m.next, c, hp)
          OBVIOUS
        <4> PICK t, e, C : t = s.now /\ e = j.remaining /\ C = tsk[i].wcet
          OBVIOUS
        <4>1. /\ w \in Nat /\ v \in Nat /\ w1 \in Nat /\ v1 \in Nat /\ w1 + v = w + v1
          BY <1>3, <3>6
        <4>2. t \in Nat /\ c \in Nat /\ e \in Nat /\ C \in Nat /\ w + e + (t - c) <= C + v
          BY <1>2, <3>1, <3>3, <3>6
        <4>3. w1 + e + (t - c) <= C + v1
          BY <4>1, <4>2
        <4> QED BY <1>1, <4>3
      <3> QED BY <1>1, <3>2, <3>3, <3>5, <3>7 DEF InWindow
    <2>2. CASE j \notin s.jobs
      <3>1. PICK k \in U : j = JobFor(tsk, s.now, k)
        BY <1>1, <2>2
      <3>2. k = i /\ j.release = s.now /\ j.remaining = tsk[i].wcet
        BY <1>8, <3>1 DEF JobFor
      <3>3. j.release + tsk[i].period = m.next[i]
        BY <1>1, <1>2, <3>2
      <3>4. WorkLeft(m.jobs, hp) + j.remaining + (m.now - b)
               <= tsk[i].wcet + WorkSince(tsk, m.next, b, hp)
        <4> PICK w1, v1, t, C : /\ w1 = WorkLeft(m.jobs, hp) /\ v1 = WorkSince(tsk, m.next, b, hp)
                                /\ t = m.now /\ C = tsk[i].wcet
          OBVIOUS
        <4>1. t \in Nat /\ b \in Nat /\ C \in Nat /\ w1 + (t - b) <= v1
          BY <1>1, <1>2, <1>6
        <4>2. w1 \in Nat /\ v1 \in Nat
          BY <1>3
        <4>3. w1 + C + (t - b) <= C + v1
          BY <4>1, <4>2
        <4> QED BY <3>2, <4>3
      <3> QED BY <1>1, <1>5, <3>2, <3>3, <3>4 DEF InWindow
    <2> QED BY <2>1, <2>2
  <1> QED BY <1>1, <1>4, <1>7, <1>8 DEF Within

(* A window that has been served for d more units is still less than r ago, *)
(* since no more than r units of work are released in r.                    *)
LEMMA WindowStaysShort ==
    ASSUME NEW tsk, NEW loc, Device(tsk, loc), Ranked(tsk, loc), NEW m, Regular(tsk, loc, m), NEW i \in loc,
           NEW r, Bounds(tsk, loc, i, r), NEW b \in 0 .. m.now, m.now < b + r
    PROVE  tsk[i].wcet + WorkSince(tsk, m.next, b, Higher(tsk, loc, i)) <= r
  <1> PICK hp : hp = Higher(tsk, loc, i)
    OBVIOUS
  <1>1. /\ hp \in SUBSET loc /\ r \in Nat /\ tsk[i].wcet \in Nat
        /\ Demanded(tsk, i, Wcets(tsk), hp, r) <= r /\ Wcets(tsk)[i] = tsk[i].wcet
        /\ Interference(tsk, Wcets(tsk), hp, r) \in Nat
    BY HigherFacts DEF Bounds, Covers
  <1>2. WorkSince(tsk, m.next, b, hp) <= Interference(tsk, Wcets(tsk), hp, r)
    BY <1>1, ReleasedInterferes
  <1>3. WorkSince(tsk, m.next, b, hp) \in Nat
    BY <1>1, RequestedIsNatural
  <1>4. tsk[i].wcet + Interference(tsk, Wcets(tsk), hp, r) <= r
    BY <1>1 DEF Demanded
  <1> QED BY <1>1, <1>2, <1>3, <1>4

(* A run keeps every window that is not over: the job that runs is of a     *)
(* task above, or of i, or there is nothing left above; and a job of i that *)
(* answers does so within its window.                                       *)
LEMMA RunKeepsWithin ==
    ASSUME NEW tsk, NEW loc, Device(tsk, loc), Ranked(tsk, loc), NEW m, Regular(tsk, loc, m), NEW i \in loc,
           NEW r, Bounds(tsk, loc, i, r), Within(tsk, loc, i, m, r),
           NEW s, NEW x, NEW d, Runs(tsk, loc, m, s, x, d), Regular(tsk, loc, s)
    PROVE  Within(tsk, loc, i, s, r)
  <1> PICK hp : hp = Higher(tsk, loc, i)
    OBVIOUS
  <1>1. /\ s.now = m.now + d /\ s.next = m.next /\ d \in Nat \ {0} /\ d <= x.remaining
        /\ x \in m.jobs /\ s.jobs = (m.jobs \ {x}) \cup LeftOf(x, d)
        /\ \A j \in m.jobs : tsk[x.task].priority <= tsk[j.task].priority
    BY DEF Runs, Serves, Foremost, Answers
  <1>2. /\ hp \in SUBSET loc /\ i \notin hp /\ i \in DOMAIN tsk /\ r \in Nat
        /\ tsk[i].wcet \in Nat \ {0} /\ tsk[i].period \in Nat \ {0}
        /\ \A k \in loc : tsk[k].priority \in Nat
        /\ \A k \in loc : tsk[k].priority <= tsk[i].priority => k = i \/ k \in hp
    BY HigherFacts DEF Bounds, Covers
  <1>3. /\ m.now \in Nat /\ s.now \in Nat /\ m.jobs \in SUBSET OpenJobs(loc)
        /\ s.jobs \in SUBSET OpenJobs(loc) /\ IsFiniteSet(m.jobs)
        /\ m.response[i] \in Nat /\ s.response[i] \in Nat
    BY <1>2 DEF Regular
  <1>4. /\ WorkLeft(m.jobs, hp) = WorkLeft(s.jobs, hp) + (IF x.task \in hp THEN d ELSE 0)
        /\ WorkLeft(s.jobs, hp) \in Nat /\ WorkLeft(m.jobs, hp) \in Nat
    BY <1>2, RunTakesWork DEF Runs
  <1>5. /\ x.task \in loc /\ x.release \in Nat /\ x.remaining \in Nat \ {0}
        /\ \A j \in m.jobs : j.task \in loc /\ j.release \in Nat /\ j.remaining \in Nat \ {0}
    BY <1>1, <1>2, RegularJobs
  <1>6. \A b \in 0 .. m.now :
           /\ WorkSince(tsk, m.next, b, hp) \in Nat
           /\ m.now < b + r => tsk[i].wcet + WorkSince(tsk, m.next, b, hp) <= r
    BY <1>2, RequestedIsNatural, WindowStaysShort
  <1>7. x.task \notin hp => WorkLeft(m.jobs, hp) = 0
    <2> SUFFICES ASSUME x.task \notin hp PROVE JobsOf(m.jobs, hp) = {}
      BY <1>3, <1>5, SomeWorkLeft
    <2> SUFFICES ASSUME NEW j \in m.jobs, j.task \in hp PROVE FALSE
      BY DEF JobsOf
    <2>1. tsk[j.task].priority < tsk[i].priority /\ tsk[x.task].priority <= tsk[j.task].priority
      BY <1>1 DEF Higher
    <2>2. tsk[x.task].priority < tsk[i].priority
      BY <1>2, <1>5, <2>1
    <2> QED BY <1>5, <2>2 DEF Higher
  <1>8. BusyAbove(tsk, loc, i, s, r)
    <2>1. PICK b \in 0 .. m.now : /\ m.now < b + r
                                  /\ WorkLeft(m.jobs, hp) + (m.now - b) <= WorkSince(tsk, m.next, b, hp)
      BY DEF Within, BusyAbove
    <2>2. CASE x.task \in hp
      <3>1. WorkLeft(s.jobs, hp) + (s.now - b) <= WorkSince(tsk, s.next, b, hp)
        BY <1>1, <1>3, <1>4, <1>6, <2>1, <2>2
      <3>2. s.now < b + r /\ b \in 0 .. s.now
        BY <1>1, <1>2, <1>3, <1>4, <1>6, <2>1, <3>1
      <3> QED BY <3>1, <3>2 DEF BusyAbove
    <2>3. CASE x.task \notin hp
      <3>1. WorkLeft(s.jobs, hp) = 0
        BY <1>4, <1>7, <2>3
      <3>2. s.now \in 0 .. s.now /\ s.now < s.now + r /\ s.now - s.now = 0
        BY <1>2, <1>3, <1>6, <2>1
      <3>3. WorkSince(tsk, s.next, s.now, hp) \in Nat
        BY <1>2, <3>2, RequestedIsNatural
      <3>4. WorkLeft(s.jobs, hp) + (s.now - s.now) <= WorkSince(tsk, s.next, s.now, hp)
        BY <1>3, <3>1, <3>2, <3>3
      <3> QED BY <3>2, <3>4 DEF BusyAbove
    <2> QED BY <2>2, <2>3
  <1>9. ASSUME NEW j \in m.jobs, j.task = i
        PROVE  /\ x.task = i => x = j
               /\ x.task # i => x.task \in hp
               /\ j.release + tsk[i].period = m.next[i]
               /\ j.release \in Nat /\ j.remaining \in Nat \ {0} /\ j.release <= m.now
               /\ \E b \in 0 .. j.release :
                     /\ b \in 0 .. m.now /\ m.now < b + r
                     /\ WorkLeft(m.jobs, hp) + j.remaining + (m.now - b)
                           <= tsk[i].wcet + WorkSince(tsk, m.next, b, hp)
    <2>1. InWindow(tsk, loc, i, m, r, j)
      BY <1>9 DEF Within
    <2>2. j.release \in Nat /\ j.remaining \in Nat \ {0} /\ j.release <= m.now
      BY <1>2, <1>5, RegularJobs
    <2>3. j.release + tsk[i].period = m.next[i]
      BY <2>1 DEF InWindow
    <2>4. PICK b \in 0 .. j.release :
             /\ m.now < b + r
             /\ WorkLeft(m.jobs, hp) + j.remaining + (m.now - b)
                   <= tsk[i].wcet + WorkSince(tsk, m.next, b, hp)
      BY <2>1 DEF InWindow
    <2>5. b \in 0 .. m.now
      BY <1>3, <2>2
    <2>6. ASSUME x.task = i PROVE x = j
      <3>1. InWindow(tsk, loc, i, m, r, x)
        BY <1>1, <2>6 DEF Within
      <3>2. x.release + tsk[i].period = m.next[i]
        BY <3>1 DEF InWindow
      <3>3. x.release = j.release
        BY <1>2, <1>5, <2>2, <2>3, <3>2
      <3> QED BY <1>1, <1>9, <2>6, <3>3 DEF Regular
    <2>7. ASSUME x.task # i PROVE x.task \in hp
      <3>1. tsk[x.task].priority <= tsk[i].priority
        BY <1>1, <1>9
      <3> QED BY <1>2, <1>5, <2>7, <3>1
    <2> QED BY <2>2, <2>3, <2>4, <2>5, <2>6, <2>7
  <1>10. ASSUME NEW y \in s.jobs, y.task = i PROVE InWindow(tsk, loc, i, s, r, y)
    <2>1. CASE y \in m.jobs \ {x}
      <3>1. PICK b \in 0 .. y.release :
               /\ b \in 0 .. m.now /\ m.now < b + r
               /\ WorkLeft(m.jobs, hp) + y.remaining + (m.now - b)
                     <= tsk[i].wcet + WorkSince(tsk, m.next, b, hp)
        BY <1>9, <1>10, <2>1
      <3>2. /\ x.task \in hp /\ y.release + tsk[i].period = s.next[i]
            /\ y.remaining \in Nat \ {0} /\ y.release \in Nat
        BY <1>1, <1>9, <1>10, <2>1
      <3>3. WorkLeft(s.jobs, hp) + y.remaining + (s.now - b)
               <= tsk[i].wcet + WorkSince(tsk, s.next, b, hp)
        BY <1>1, <1>2, <1>3, <1>4, <1>6, <3>1, <3>2
      <3>4. s.now < b + r
        BY <1>1, <1>2, <1>3, <1>4, <1>6, <3>1, <3>2, <3>3
      <3> QED BY <3>2, <3>3, <3>4 DEF InWindow
    <2>2. CASE y \notin m.jobs \ {x}
      <3>1. y = [x EXCEPT !.remaining = @ - d] /\ x.remaining # d /\ x \in OpenJobs(loc)
        BY <1>1, <1>3, <2>2 DEF LeftOf
      <3>2. y.task = x.task /\ y.release = x.release /\ y.remaining = x.remaining - d
        BY <3>1 DEF OpenJobs
      <3>3. PICK b \in 0 .. x.release :
               /\ b \in 0 .. m.now /\ m.now < b + r
               /\ WorkLeft(m.jobs, hp) + x.remaining + (m.now - b)
                     <= tsk[i].wcet + WorkSince(tsk, m.next, b, hp)
        BY <1>1, <1>9, <1>10, <3>2
      <3>4. x.task \notin hp /\ x.release + tsk[i].period = s.next[i]
        BY <1>1, <1>2, <1>9, <1>10, <3>2
      <3>5. y.remaining \in Nat \ {0}
        BY <1>1, <1>5, <3>1, <3>2
      <3>6. WorkLeft(s.jobs, hp) + y.remaining + (s.now - b)
               <= tsk[i].wcet + WorkSince(tsk, s.next, b, hp)
        BY <1>1, <1>2, <1>3, <1>4, <1>5, <1>6, <3>2, <3>3, <3>4
      <3>7. s.now < b + r
        BY <1>1, <1>2, <1>3, <1>4, <1>6, <3>3, <3>5, <3>6
      <3> QED BY <3>2, <3>3, <3>4, <3>6, <3>7 DEF InWindow
    <2> QED BY <2>1, <2>2
  <1>11. s.response[i] <= r
    <2>1. m.response[i] <= r
      BY DEF Within
    <2>2. CASE x.task = i /\ x.remaining = d
      <3>1. s.response[i] = m.response[i] \/ s.response[i] = s.now - x.release
        BY <1>2, <2>2 DEF Runs, Serves, Answers
      <3>2. PICK b \in 0 .. x.release :
               /\ b \in 0 .. m.now /\ m.now < b + r
               /\ WorkLeft(m.jobs, hp) + x.remaining + (m.now - b)
                     <= tsk[i].wcet + WorkSince(tsk, m.next, b, hp)
        BY <1>1, <1>9, <2>2
      <3>3. s.now - b <= r
        BY <1>1, <1>2, <1>3, <1>4, <1>5, <1>6, <2>2, <3>2
      <3> QED BY <1>2, <1>3, <1>5, <2>1, <3>1, <3>2, <3>3
    <2>3. CASE ~ (x.task = i /\ x.remaining = d)
      <3>1. s.response[i] = m.response[i]
        BY <1>2, <2>3 DEF Runs, Serves, Answers
      <3> QED BY <2>1, <3>1
    <2> QED BY <2>2, <2>3
  <1> QED BY <1>8, <1>10, <1>11 DEF Within

(* With nothing to run every window is over.                                *)
LEMMA IdlingKeepsWithin ==
    ASSUME NEW tsk, NEW loc, Device(tsk, loc), Ranked(tsk, loc), NEW m, Regular(tsk, loc, m), NEW i \in loc,
           NEW r, Bounds(tsk, loc, i, r), Within(tsk, loc, i, m, r),
           NEW s, NEW d, Idles(tsk, loc, m, s, d), Regular(tsk, loc, s)
    PROVE  Within(tsk, loc, i, s, r)
  <1> PICK hp : hp = Higher(tsk, loc, i)
    OBVIOUS
  <1>1. s.jobs = {} /\ s.response = m.response /\ s.now \in Nat
    BY DEF Idles, Schedule, Regular
  <1>2. hp \in SUBSET loc /\ r \in Nat
    BY HigherFacts DEF Bounds, Covers
  <1>3. WorkLeft(s.jobs, hp) = 0
    <2>1. JobsOf(s.jobs, hp) = {}
      BY <1>1 DEF JobsOf
    <2> QED BY <2>1, SumOfNone DEF WorkLeft
  <1>4. PICK b \in 0 .. m.now : m.now < b + r
    BY DEF Within, BusyAbove
  <1>5. m.now \in Nat /\ r # 0
    BY <1>2, <1>4 DEF Regular
  <1>6. s.now \in 0 .. s.now /\ s.now < s.now + r /\ s.now - s.now = 0
    BY <1>1, <1>2, <1>5
  <1>7. WorkSince(tsk, s.next, s.now, hp) \in Nat
    BY <1>2, <1>6, RequestedIsNatural
  <1>8. WorkLeft(s.jobs, hp) + (s.now - s.now) <= WorkSince(tsk, s.next, s.now, hp)
    BY <1>3, <1>6, <1>7
  <1>9. BusyAbove(tsk, loc, i, s, r)
    BY <1>6, <1>8 DEF BusyAbove
  <1> QED BY <1>1, <1>9 DEF Within

-----------------------------------------------------------------------------
(* The first job of a task                                                  *)

(* What no response can be less than.                                       *)
Precludes(tsk, loc, i, x) ==
    \A r : Covers(tsk, i, Wcets(tsk), Higher(tsk, loc, i), r) => x <= r

(* The first job of i, released at time 0 with all others, is still open:   *)
(* what has been done since is what it and the tasks above asked for and    *)
(* has not been done.                                                       *)
FirstIsOpen(tsk, loc, i, s) ==
    \E j \in s.jobs :
        /\ j.task = i /\ j.release = 0
        /\ WorkLeft(s.jobs, Higher(tsk, loc, i)) + j.remaining + s.now
              = tsk[i].wcet + WorkSince(tsk, s.next, 0, Higher(tsk, loc, i))
AtStart(loc, s) == s.now = 0 /\ s.jobs = {} /\ \A k \in loc : s.next[k] = 0
FirstIsLate(tsk, loc, i, s, x) == x <= s.response[i] \/ FirstIsOpen(tsk, loc, i, s)

(* Before the releases of a step, it may be about to be released.           *)
ReleasesOpen(tsk, loc, i, s, x) == FirstIsLate(tsk, loc, i, s, x) \/ AtStart(loc, s)

(* The releases at time 0 open it and those after keep it.                  *)
LEMMA ReleasingOpensFirst ==
    ASSUME NEW tsk, NEW loc, Device(tsk, loc), Ranked(tsk, loc), NEW s, Regular(tsk, loc, s), NEW i \in loc,
           NEW x, ReleasesOpen(tsk, loc, i, s, x)
    PROVE  FirstIsLate(tsk, loc, i, Releasing(tsk, s, DueIn(loc, s)), x)
  <1> PICK U : U = DueIn(loc, s)
    OBVIOUS
  <1> PICK m : m = Releasing(tsk, s, U)
    OBVIOUS
  <1> PICK hp : hp = Higher(tsk, loc, i)
    OBVIOUS
  <1>1. /\ m.now = s.now /\ m.response = s.response
        /\ m.jobs = s.jobs \cup {JobFor(tsk, s.now, k) : k \in U}
    BY DEF Releasing, Schedule
  <1>2. /\ hp \in SUBSET loc /\ s.now \in Nat /\ U \in SUBSET DueIn(loc, s) /\ 0 \in 0 .. s.now
        /\ tsk[i].wcet \in Nat
    BY HigherFacts DEF Regular
  <1>3. /\ WorkLeft(m.jobs, hp) + WorkSince(tsk, s.next, 0, hp)
              = WorkLeft(s.jobs, hp) + WorkSince(tsk, m.next, 0, hp)
        /\ WorkLeft(s.jobs, hp) \in Nat /\ WorkSince(tsk, s.next, 0, hp) \in Nat
        /\ WorkLeft(m.jobs, hp) \in Nat /\ WorkSince(tsk, m.next, 0, hp) \in Nat
    BY <1>2, ReleasesAddWork
  <1>4. CASE x <= s.response[i]
    BY <1>1, <1>4 DEF FirstIsLate
  <1>5. CASE FirstIsOpen(tsk, loc, i, s)
    <2>1. PICK j \in s.jobs :
             /\ j.task = i /\ j.release = 0
             /\ WorkLeft(s.jobs, hp) + j.remaining + s.now
                   = tsk[i].wcet + WorkSince(tsk, s.next, 0, hp)
      BY <1>5 DEF FirstIsOpen
    <2>2. j.remaining \in Nat
      BY DEF Regular, OpenJobs
    <2>3. WorkLeft(m.jobs, hp) + j.remaining + m.now
             = tsk[i].wcet + WorkSince(tsk, m.next, 0, hp)
      BY <1>1, <1>2, <1>3, <2>1, <2>2
    <2> QED BY <1>1, <2>1, <2>3 DEF FirstIsLate, FirstIsOpen
  <1>6. CASE AtStart(loc, s)
    <2>1. s.now = 0 /\ s.jobs = {} /\ i \in U
      BY <1>6 DEF AtStart, DueIn
    <2> PICK j : j = JobFor(tsk, s.now, i)
      OBVIOUS
    <2>2. j \in m.jobs /\ j.task = i /\ j.release = 0 /\ j.remaining = tsk[i].wcet
      BY <1>1, <2>1 DEF JobFor
    <2>3. WorkLeft(s.jobs, hp) = 0
      <3>1. JobsOf(s.jobs, hp) = {}
        BY <2>1 DEF JobsOf
      <3> QED BY <3>1, SumOfNone DEF WorkLeft
    <2>4. WorkSince(tsk, s.next, 0, hp) = 0
      <3>1. \A k \in hp : Requested(tsk, s.next, 0)[k] = 0
        <4> TAKE k \in hp
        <4>1. /\ Requested(tsk, s.next, 0)[k] = ((s.next[k] - 0) \div tsk[k].period) * tsk[k].wcet
              /\ tsk[k].period \in Nat \ {0} /\ tsk[k].wcet \in Nat
          BY <1>2, RequestedIsNatural
        <4>2. s.next[k] = 0
          BY <1>2, <1>6 DEF AtStart
        <4>3. (0 - 0) \div tsk[k].period = 0
          BY <4>1
        <4>4. 0 * tsk[k].wcet = 0
          BY <4>1
        <4> QED BY <4>1, <4>2, <4>3, <4>4
      <3>2. Counted(Requested(tsk, s.next, 0), hp)
        BY <1>2, RequestedIsNatural
      <3>3. Dominates(Requested(tsk, s.next, 0), {}, Requested(tsk, s.next, 0), hp)
        BY <3>1 DEF Dominates
      <3>4. Counted(Requested(tsk, s.next, 0), {})
        BY FS_EmptySet DEF Counted
      <3>5. SumOver(Requested(tsk, s.next, 0), hp) <= SumOver(Requested(tsk, s.next, 0), {})
        BY <3>2, <3>3, <3>4, SumIsMonotone
      <3>6. SumOver(Requested(tsk, s.next, 0), {}) = 0
        BY SumOfNone
      <3> QED BY <1>3, <3>5, <3>6 DEF WorkSince
    <2>5. WorkLeft(m.jobs, hp) + j.remaining + m.now
             = tsk[i].wcet + WorkSince(tsk, m.next, 0, hp)
      BY <1>1, <1>2, <1>3, <2>1, <2>2, <2>3, <2>4
    <2> QED BY <2>2, <2>5 DEF FirstIsLate, FirstIsOpen
  <1> QED BY <1>4, <1>5, <1>6 DEF ReleasesOpen, FirstIsLate

(* A run keeps it open or ends it, with nothing left above: then its        *)
(* response covers what all that was released has demanded.                 *)
LEMMA RunKeepsFirst ==
    ASSUME NEW tsk, NEW loc, Device(tsk, loc), Ranked(tsk, loc), NEW m, Regular(tsk, loc, m), NEW i \in loc,
           NEW r \in Nat, Precludes(tsk, loc, i, r), FirstIsLate(tsk, loc, i, m, r),
           NEW s, NEW x, NEW d, Runs(tsk, loc, m, s, x, d), Regular(tsk, loc, s)
    PROVE  FirstIsLate(tsk, loc, i, s, r)
  <1> PICK hp : hp = Higher(tsk, loc, i)
    OBVIOUS
  <1>1. /\ s.now = m.now + d /\ s.next = m.next /\ d \in Nat \ {0} /\ d <= x.remaining
        /\ x \in m.jobs /\ s.jobs = (m.jobs \ {x}) \cup LeftOf(x, d)
        /\ \A j \in m.jobs : /\ tsk[x.task].priority <= tsk[j.task].priority
                             /\ j.task = x.task => x.release <= j.release
    BY DEF Runs, Serves, Foremost, Answers
  <1>2. /\ hp \in SUBSET loc /\ i \notin hp /\ i \in DOMAIN tsk
        /\ tsk[i].wcet \in Nat \ {0} /\ Wcets(tsk)[i] = tsk[i].wcet
        /\ \A k \in loc : tsk[k].priority \in Nat
        /\ \A k \in loc : tsk[k].priority <= tsk[i].priority => k = i \/ k \in hp
        /\ \A t \in Nat : Interference(tsk, Wcets(tsk), hp, t) \in Nat
    BY HigherFacts
  <1>3. /\ m.now \in Nat /\ s.now \in Nat /\ m.jobs \in SUBSET OpenJobs(loc)
        /\ IsFiniteSet(m.jobs) /\ m.response[i] \in Nat /\ s.response[i] \in Nat
        /\ 0 \in 0 .. m.now
    BY <1>2 DEF Regular
  <1>4. /\ WorkLeft(m.jobs, hp) = WorkLeft(s.jobs, hp) + (IF x.task \in hp THEN d ELSE 0)
        /\ WorkLeft(s.jobs, hp) \in Nat /\ WorkLeft(m.jobs, hp) \in Nat
    BY <1>2, RunTakesWork DEF Runs
  <1>5. /\ x.task \in loc /\ x.release \in Nat /\ x.remaining \in Nat \ {0}
        /\ \A j \in m.jobs : j.task \in loc /\ j.release \in Nat /\ j.remaining \in Nat \ {0}
    BY <1>1, <1>2, RegularJobs
  <1>6. WorkSince(tsk, m.next, 0, hp) \in Nat
    BY <1>2, <1>3, RequestedIsNatural
  <1>7. CASE r <= m.response[i]
    <2>1. m.response[i] <= s.response[i]
      BY <1>2 DEF Runs, Serves, Answers
    <2> QED BY <1>3, <1>7, <2>1 DEF FirstIsLate
  <1>8. CASE FirstIsOpen(tsk, loc, i, m)
    <2>1. PICK j \in m.jobs :
             /\ j.task = i /\ j.release = 0
             /\ WorkLeft(m.jobs, hp) + j.remaining + m.now
                   = tsk[i].wcet + WorkSince(tsk, m.next, 0, hp)
      BY <1>8 DEF FirstIsOpen
    <2>2. x.task = i \/ x.task \in hp
      BY <1>1, <1>2, <1>5, <2>1
    <2>3. CASE x.task \in hp
      <3>1. j \in s.jobs
        BY <1>1, <1>2, <2>1, <2>3
      <3>2. WorkLeft(s.jobs, hp) + j.remaining + s.now
               = tsk[i].wcet + WorkSince(tsk, s.next, 0, hp)
        BY <1>1, <1>2, <1>3, <1>4, <1>5, <1>6, <2>1, <2>3
      <3> QED BY <2>1, <3>1, <3>2 DEF FirstIsLate, FirstIsOpen
    <2>4. CASE x.task = i
      <3>1. x = j
        <4>1. x.release = 0
          BY <1>1, <1>5, <2>1, <2>4
        <4> QED BY <1>1, <2>1, <2>4, <4>1 DEF Regular
      <3>2. x.task \notin hp
        BY <1>2, <2>4
      <3>3. CASE x.remaining # d
        <4> PICK y : y = [x EXCEPT !.remaining = @ - d]
          OBVIOUS
        <4>1. y \in s.jobs /\ x \in OpenJobs(loc)
          BY <1>1, <1>3, <3>3 DEF LeftOf
        <4>2. y.task = i /\ y.release = 0 /\ y.remaining = x.remaining - d
          BY <2>1, <3>1, <4>1 DEF OpenJobs
        <4>3. WorkLeft(s.jobs, hp) + y.remaining + s.now
                 = tsk[i].wcet + WorkSince(tsk, s.next, 0, hp)
          BY <1>1, <1>2, <1>3, <1>4, <1>5, <1>6, <2>1, <3>1, <3>2, <4>2
        <4> QED BY <4>1, <4>2, <4>3 DEF FirstIsLate, FirstIsOpen
      <3>4. CASE x.remaining = d
        <4>1. WorkLeft(m.jobs, hp) = 0
          <5> SUFFICES ASSUME NEW y \in m.jobs, y.task \in hp PROVE FALSE
            BY <1>2, <1>3, RegularJobs, SomeWorkLeft DEF JobsOf
          <5>1. tsk[y.task].priority < tsk[i].priority /\ tsk[i].priority <= tsk[y.task].priority
            BY <1>1, <2>4 DEF Higher
          <5>2. tsk[y.task].priority \in Nat /\ tsk[i].priority \in Nat
            BY <1>2, <1>5
          <5> QED BY <5>1, <5>2
        <4>2. s.now = tsk[i].wcet + WorkSince(tsk, s.next, 0, hp)
          BY <1>1, <1>2, <1>3, <1>5, <1>6, <2>1, <3>1, <3>4, <4>1
        <4>3. Interference(tsk, Wcets(tsk), hp, s.now) <= WorkSince(tsk, s.next, 0, hp)
          BY <1>2, InterferenceIsReleased
        <4>4. Interference(tsk, Wcets(tsk), hp, s.now) \in Nat /\ WorkSince(tsk, s.next, 0, hp) \in Nat
          BY <1>1, <1>2, <1>3, <1>6
        <4>5. Demanded(tsk, i, Wcets(tsk), hp, s.now) <= s.now
          BY <1>2, <4>2, <4>3, <4>4 DEF Demanded
        <4>6. r <= s.now
          BY <1>3, <4>5 DEF Precludes, Covers
        <4>7. s.now - x.release <= s.response[i] /\ x.release = 0
          BY <1>2, <2>1, <2>4, <3>1, <3>4 DEF Runs, Serves, Answers
        <4> QED BY <1>3, <4>6, <4>7 DEF FirstIsLate
      <3> QED BY <3>3, <3>4
    <2> QED BY <2>2, <2>3, <2>4
  <1> QED BY <1>7, <1>8 DEF FirstIsLate

(* Nothing to run, and it has answered.                                     *)
LEMMA IdlingKeepsFirst ==
    ASSUME NEW tsk, NEW loc, NEW m, NEW i, NEW r, FirstIsLate(tsk, loc, i, m, r),
           NEW s, NEW d, Idles(tsk, loc, m, s, d)
    PROVE  FirstIsLate(tsk, loc, i, s, r)
  BY DEF FirstIsLate, FirstIsOpen, Idles, Schedule

-----------------------------------------------------------------------------
(* The analysis of a task among those of its device                         *)

(* A task that misses its deadline by the test has no r within it that      *)
(* covers.                                                                  *)
LEMMA MissedIsInfeasible ==
    ASSUME NEW tsk, NEW cost, Costed(tsk, cost), NEW i \in DOMAIN tsk,
           NEW above \in SUBSET DOMAIN tsk,
           AnalyzeTask(tsk, i, cost, above).outcome = "DeadlineMiss",
           NEW r, Covers(tsk, i, cost, above, r)
    PROVE  r > tsk[i].deadline
  <1> PICK f : f = FixedPoint(tsk, i, cost, above)
    OBVIOUS
  <1>1. /\ cost[i] \in Nat /\ tsk[i].deadline \in Nat /\ r \in Nat
        /\ Interference(tsk, cost, above, r) \in Nat
        /\ cost[i] + Interference(tsk, cost, above, r) <= r
    BY InterferenceIsLoad DEF Costed, Covers, Demanded
  <1>2. CASE cost[i] > tsk[i].deadline
    BY <1>1, <1>2
  <1>3. CASE ~ (cost[i] > tsk[i].deadline)
    <2>1. AnalyzeTask(tsk, i, cost, above)
             = Result(f.response, CASE f.verdict = "Converged" -> "Schedulable"
                                    [] f.verdict = "Late" -> "DeadlineMiss"
                                    [] OTHER -> "IterationLimit")
      BY <1>1, <1>3 DEF AnalyzeTask
    <2>2. f.verdict = "Late"
      BY <2>1 DEF Result
    <2>3. PICK e \in [Nat -> Nat] : Iterates(e, tsk, i, cost, above)
      BY IteratesExist
    <2> PICK last : last = StopsAt(e, tsk[i].deadline)
      OBVIOUS
    <2>4. f.verdict = IF e[last] = e[last - 1] THEN "Converged"
                      ELSE IF e[last] > tsk[i].deadline THEN "Late" ELSE "IterationLimit"
      BY <2>3, FixedPointIs DEF Outcome
    <2>5. e[last] > tsk[i].deadline
      BY <2>2, <2>4
    <2>6. last \in Nat
      <3>1. last \in 1 .. MaxIterations
        BY ItStops
      <3> QED BY <3>1, MaxIterationsAssumption
    <2>7. e[last] <= r /\ e[last] \in Nat
      BY <2>3, <2>6, EstimatesStayBelow
    <2> QED BY <1>1, <2>5, <2>7
  <1> QED BY <1>2, <1>3

(* Places name the tasks of the device, each once.                          *)
LEMMA PlacesName ==
    ASSUME tasks \in Seq(TimedTask)
    PROVE  /\ [i \in Local |-> Place(i)] \in Bijection(Local, DOMAIN LocalTasks)
           /\ \A i \in Local : Place(i) \in DOMAIN LocalTasks /\ LocalTasks[Place(i)] = tasks[i]
  <1> DEFINE name == [i \in Local |-> Place(i)]
             count == Cardinality(Local)
  <1>1. LocalTasks \in Seq(TimedTask) /\ DOMAIN LocalTasks = 1 .. count /\ count \in Nat
    BY LocalTasksAreTasks, EveryPlaceIsTaken DEF LocalTasks
  <1>2. IsFiniteSet(Local)
    <2>1. Local \in SUBSET DOMAIN tasks
      BY DEF Local
    <2> QED BY <2>1, TaskFacts, FS_Subset
  <1>3. \A i \in Local : Place(i) \in 1 .. count
    <2> TAKE i \in Local
    <2> PICK S : S = {k \in Local : k <= i}
      OBVIOUS
    <2>1. i \in S /\ S \in SUBSET Local
      <3>1. i \in Nat
        BY DEF Local
      <3> QED BY <3>1
    <2>2. Place(i) = Cardinality(S)
      BY DEF Place
    <2>3. IsFiniteSet(S) /\ Cardinality(S) <= count /\ Cardinality(S) \in Nat
      BY <1>2, <2>1, FS_Subset, FS_CardinalityType
    <2>4. Cardinality(S) # 0
      BY <2>1, <2>3, FS_EmptySet
    <2> QED BY <1>1, <2>2, <2>3, <2>4
  <1>4. name \in Surjection(Local, 1 .. count)
    <2>1. name \in [Local -> 1 .. count]
      BY <1>3
    <2>2. \A n \in 1 .. count : \E i \in Local : name[i] = n
      BY EveryPlaceIsTaken
    <2> HIDE DEF name
    <2> QED BY <2>1, <2>2 DEF Surjection
  <1>5. Cardinality(1 .. count) = count
    BY <1>1, UpToCount
  <1> HIDE DEF name, count
  <1>6. name \in Injection(Local, 1 .. count)
    <2>1. count = Cardinality(Local)
      BY DEF count
    <2> QED BY <1>2, <1>4, <1>5, <2>1, FS_Surjection
  <1>7. name \in Bijection(Local, DOMAIN LocalTasks)
    BY <1>1, <1>4, <1>6 DEF Bijection
  <1>8. \A i, k \in Local : Place(i) = Place(k) => i = k
    <2>1. \A i \in Local : name[i] = Place(i)
      BY DEF name
    <2> QED BY <1>6, <2>1 DEF Injection, IsInjective
  <1>9. \A i \in Local : Place(i) \in DOMAIN LocalTasks
    BY <1>1, <1>3
  <1>10. ASSUME NEW i \in Local PROVE LocalTasks[Place(i)] = tasks[i]
    <2>1. PICK k \in Local : Place(k) = Place(i) /\ LocalTasks[Place(i)] = tasks[k]
      BY <1>9, LocalTasksAreTasks
    <2> QED BY <1>8, <2>1
  <1> QED BY <1>7, <1>9, <1>10 DEF name

(* The tasks above one in the list of the device are those with higher      *)
(* priorities, and interfere as much.                                       *)
LEMMA SameInterference ==
    ASSUME Device(tasks, Local), Ranked(tasks, Local), NEW i \in Local, NEW r \in Nat
    PROVE  Interference(LocalTasks, Wcets(LocalTasks), Above(LocalTasks, Place(i)), r)
              = Interference(tasks, Wcets(tasks), Higher(tasks, Local, i), r)
  <1> PICK own : own = LocalTasks
    OBVIOUS
  <1> PICK hp : hp = Higher(tasks, Local, i)
    OBVIOUS
  <1> PICK above : above = Above(own, Place(i))
    OBVIOUS
  <1> DEFINE name == [k \in hp |-> Place(k)]
  <1>1. tasks \in Seq(TimedTask) /\ own \in Seq(TimedTask)
    BY LocalTasksAreTasks DEF Device
  <1>2. /\ [k \in Local |-> Place(k)] \in Bijection(Local, DOMAIN own)
        /\ \A k \in Local : Place(k) \in DOMAIN own /\ own[Place(k)] = tasks[k]
    BY <1>1, PlacesName
  <1>3. /\ hp \in SUBSET Local /\ hp \in SUBSET DOMAIN tasks /\ Costed(tasks, Wcets(tasks))
        /\ \A k \in Local : tasks[k].priority \in Nat
        /\ \A k \in Local : tasks[k].priority <= tasks[i].priority => k = i \/ k \in hp
    BY HigherFacts
  <1>4. Costed(own, Wcets(own)) /\ above \in SUBSET DOMAIN own
    BY <1>1, WcetsAreCosts DEF Above
  <1>5. \A k, n \in Local : Place(k) = Place(n) => k = n
    <2>1. [k \in Local |-> Place(k)] \in Injection(Local, DOMAIN own)
      BY <1>2 DEF Bijection
    <2> PICK f : f = [k \in Local |-> Place(k)]
      OBVIOUS
    <2>2. \A k \in Local : f[k] = Place(k)
      OBVIOUS
    <2> QED BY <2>1, <2>2 DEF Injection, IsInjective
  <1>6. \A n \in DOMAIN own : \E k \in Local : Place(k) = n
    BY <1>1, LocalTasksAreTasks
  <1>7. \A k \in Local : Place(k) \in above <=> k \in hp
    <2> TAKE k \in Local
    <2>1. own[Place(k)].priority = tasks[k].priority /\ own[Place(i)].priority = tasks[i].priority
      BY <1>2
    <2>2. tasks[k].priority = tasks[i].priority => k = i
      BY DEF Ranked
    <2>3. Place(i) \in Nat
      BY <1>1, <1>2
    <2>4. ~ (Place(i) < Place(i))
      BY <2>3
    <2>5. Place(k) \in DOMAIN own
      BY <1>2
    <2> QED BY <2>1, <2>2, <2>4, <2>5 DEF Above, Higher
  <1>8. name \in Bijection(hp, above)
    <2>1. name \in [hp -> above]
      BY <1>3, <1>7
    <2>2. \A k, n \in hp : name[k] = name[n] => k = n
      BY <1>3, <1>5
    <2>3. \A n \in above : \E k \in hp : name[k] = n
      BY <1>4, <1>6, <1>7
    <2> HIDE DEF name
    <2> QED BY <2>1, <2>2, <2>3 DEF Bijection, Injection, Surjection, IsInjective
  <1> PICK f : f = Load(tasks, Wcets(tasks), r)
    OBVIOUS
  <1> PICK g : g = Load(own, Wcets(own), r)
    OBVIOUS
  <1>9. Counted(f, hp)
    BY <1>3, LoadIsNatural
  <1>10. \A k \in hp : f[k] = g[name[k]]
    <2> TAKE k \in hp
    <2>1. k \in Local /\ k \in DOMAIN tasks /\ Place(k) \in DOMAIN own /\ own[Place(k)] = tasks[k]
      BY <1>2, <1>3
    <2>2. f[k] = CeilDiv(r, tasks[k].period) * tasks[k].wcet
      BY <2>1 DEF Load, Wcets
    <2>3. g[Place(k)] = CeilDiv(r, own[Place(k)].period) * own[Place(k)].wcet
      BY <2>1 DEF Load, Wcets
    <2> QED BY <2>1, <2>2, <2>3
  <1> HIDE DEF name
  <1>11. SumOver(f, hp) = SumOver(g, above)
    BY <1>8, <1>9, <1>10, SumIsRenamed DEF Renames
  <1>12. Interference(tasks, Wcets(tasks), hp, r) = SumOver(f, hp)
    BY <1>3, InterferenceIsLoad
  <1>13. Interference(own, Wcets(own), above, r) = SumOver(g, above)
    BY <1>4, InterferenceIsLoad
  <1> QED BY <1>11, <1>12, <1>13

(* So what the analysis says of a task holds among the tasks of the device. *)
LEMMA AnalysisMeans ==
    ASSUME Device(tasks, Local), Ranked(tasks, Local), NEW i \in Local
    PROVE  /\ Analysis(i).outcome = "Schedulable" =>
                 /\ Covers(tasks, i, Wcets(tasks), Higher(tasks, Local, i), Analysis(i).response)
                 /\ Analysis(i).response <= tasks[i].deadline
                 /\ Precludes(tasks, Local, i, Analysis(i).response)
           /\ Analysis(i).outcome = "DeadlineMiss" =>
                 Precludes(tasks, Local, i, tasks[i].deadline + 1)
  <1> PICK own : own = LocalTasks
    OBVIOUS
  <1> PICK n : n = Place(i)
    OBVIOUS
  <1> PICK above : above = Above(own, n)
    OBVIOUS
  <1> PICK cost : cost = Wcets(own)
    OBVIOUS
  <1>1. tasks \in Seq(TimedTask) /\ own \in Seq(TimedTask)
    BY LocalTasksAreTasks DEF Device
  <1>2. n \in DOMAIN own /\ own[n] = tasks[i] /\ Costed(own, cost) /\ above \in SUBSET DOMAIN own
    BY <1>1, PlacesName, WcetsAreCosts DEF Above
  <1>3. Analysis(i) = AnalyzeTask(own, n, cost, above)
    BY <1>2 DEF Analysis, AnalyzeUniprocessorFp
  <1>4. cost[n] = tasks[i].wcet /\ Wcets(tasks)[i] = tasks[i].wcet
    BY <1>2, HigherFacts DEF Wcets
  <1>5. \A r : Covers(own, n, cost, above, r)
                  <=> Covers(tasks, i, Wcets(tasks), Higher(tasks, Local, i), r)
    BY <1>4, SameInterference DEF Covers, Demanded
  <1>6. ASSUME Analysis(i).outcome = "Schedulable"
        PROVE  /\ Covers(tasks, i, Wcets(tasks), Higher(tasks, Local, i), Analysis(i).response)
               /\ Analysis(i).response <= tasks[i].deadline
               /\ Precludes(tasks, Local, i, Analysis(i).response)
    <2> PICK x : x = Analysis(i).response
      OBVIOUS
    <2>1. /\ Covers(own, n, cost, above, x) /\ x <= own[n].deadline
          /\ \A r : Covers(own, n, cost, above, r) => x <= r
      BY <1>2, <1>3, <1>6, AcceptedIsFeasible
    <2> QED BY <1>2, <1>5, <2>1 DEF Precludes
  <1>7. ASSUME Analysis(i).outcome = "DeadlineMiss"
        PROVE  Precludes(tasks, Local, i, tasks[i].deadline + 1)
    <2>1. \A r : Covers(own, n, cost, above, r) => r > own[n].deadline
      BY <1>2, <1>3, <1>7, MissedIsInfeasible
    <2>2. tasks[i].deadline \in Nat
      BY <1>2 DEF Costed
    <2>3. \A r : Covers(own, n, cost, above, r) => tasks[i].deadline + 1 <= r
      BY <1>2, <2>1, <2>2 DEF Covers
    <2> QED BY <1>5, <2>3 DEF Precludes
  <1> QED BY <1>6, <1>7

-----------------------------------------------------------------------------
(* The end of the hyperperiod                                               *)

(* What the tasks release in h time units, and could be due within them.    *)
LoadIn(tsk, h) == [k \in DOMAIN tsk |-> (h \div tsk[k].period) * tsk[k].wcet]

(* With a utilization of at most 1 it fits in them, as it fits in the       *)
(* hyperperiod of the device.                                               *)
LEMMA LoadInFits ==
    ASSUME tasks \in Seq(TimedTask), EdfExactBound(LocalTasks), NEW h \in Nat
    PROVE  Counted(LoadIn(tasks, h), Local) /\ SumOver(LoadIn(tasks, h), Local) <= h
  <1> PICK own : own = LocalTasks
    OBVIOUS
  <1> PICK H : H = Hyperperiod(own)
    OBVIOUS
  <1> PICK demand : demand = [n \in DOMAIN own |-> own[n].wcet * (H \div own[n].period)]
    OBVIOUS
  <1> PICK load : load = [n \in DOMAIN own |-> (h \div own[n].period) * own[n].wcet]
    OBVIOUS
  <1>1. own \in Seq(TimedTask) /\ IsFiniteSet(DOMAIN own)
    BY LocalTasksAreTasks, TaskFacts
  <1>2. H \in Nat \ {0} /\ \A n \in DOMAIN own : Divides(own[n].period, H)
    BY <1>1, HyperperiodIsMultiple
  <1>3. SumOver(demand, DOMAIN own) <= H
    BY DEF EdfExactBound, Demand
  <1>4. ASSUME NEW n \in DOMAIN own
        PROVE  load[n] \in Nat /\ demand[n] \in Nat /\ H * load[n] <= h * demand[n]
    <2>1. own[n].period \in Nat \ {0} /\ own[n].wcet \in Nat
      BY <1>1, TaskFacts DEF TimedTask
    <2> PICK T : T = own[n].period
      OBVIOUS
    <2> PICK C : C = own[n].wcet
      OBVIOUS
    <2> PICK p : p = h \div T
      OBVIOUS
    <2>2. p \in Nat /\ T * p <= h
      BY <2>1, QuotientBounds
    <2>3. PICK q \in Nat : H = T * q
      BY <1>2 DEF Divides
    <2>4. H \div T = q
      BY <2>1, <2>3
    <2>5. load[n] = p * C /\ demand[n] = C * q
      BY <2>4
    <2>6. p * C \in Nat /\ C * q \in Nat
      BY <2>1, <2>2
    <2>7. (T * q) * (p * C) = (T * p) * (C * q)
      BY <2>1, <2>2
    <2>8. (T * p) * (C * q) <= h * (C * q)
      <3> PICK u, v : u = T * p /\ v = C * q
        OBVIOUS
      <3>1. u \in Nat /\ v \in Nat /\ u <= h
        BY <2>1, <2>2, <2>6
      <3>2. u * v <= h * v
        BY <3>1
      <3> QED BY <3>2
    <2> QED BY <2>3, <2>5, <2>6, <2>7, <2>8
  <1>5. Counted(load, DOMAIN own) /\ Counted(demand, DOMAIN own)
    BY <1>1, <1>4 DEF Counted
  <1>6. SumOver(load, DOMAIN own) \in Nat /\ SumOver(demand, DOMAIN own) \in Nat
    BY <1>5, SumWithout
  <1>7. H * SumOver(load, DOMAIN own) <= h * SumOver(demand, DOMAIN own)
    BY <1>2, <1>4, <1>5, SumIsScaled
  <1>8. SumOver(load, DOMAIN own) <= h
    <2> PICK x : x = SumOver(load, DOMAIN own)
      OBVIOUS
    <2> PICK y : y = SumOver(demand, DOMAIN own)
      OBVIOUS
    <2>1. x \in Nat /\ y \in Nat /\ H * x <= h * y /\ y <= H
      BY <1>3, <1>6, <1>7
    <2> SUFFICES ASSUME x >= h + 1 PROVE FALSE
      BY <2>1
    <2>2. h * y <= h * H
      BY <1>2, <2>1
    <2>3. H * x >= H * (h + 1)
      BY <1>2, <2>1
    <2>4. H * (h + 1) = h * H + H
      BY <1>2
    <2>5. h * y \in Nat /\ h * H \in Nat /\ H * x \in Nat
      BY <1>2, <2>1
    <2>6. H \in Nat \ {0} /\ H * (h + 1) \in Nat
      BY <1>2
    <2>7. H * x <= h * H
      BY <2>1, <2>2, <2>5
    <2>8. h * H + H <= H * x
      BY <2>3, <2>4
    <2> QED
      <3>1. PICK a, c : a = H * x /\ c = h * H
        OBVIOUS
      <3>2. a \in Nat /\ c \in Nat /\ a <= c /\ c + H <= a /\ H \in Nat \ {0}
        BY <2>5, <2>6, <2>7, <2>8, <3>1
      <3> QED BY <3>2
  <1>9. Counted(LoadIn(tasks, h), Local) /\ SumOver(LoadIn(tasks, h), Local) = SumOver(load, DOMAIN own)
    <2> PICK name : name = [i \in Local |-> Place(i)]
      OBVIOUS
    <2> PICK f : f = LoadIn(tasks, h)
      OBVIOUS
    <2>1. /\ name \in Bijection(Local, DOMAIN own)
          /\ \A i \in Local : name[i] \in DOMAIN own /\ own[name[i]] = tasks[i]
      BY PlacesName
    <2>2. \A i \in Local : f[i] = load[name[i]]
      BY <2>1 DEF LoadIn, Local
    <2>3. IsFiniteSet(Local)
      <3>1. Local \in SUBSET DOMAIN tasks
        BY DEF Local
      <3> QED BY <3>1, TaskFacts, FS_Subset
    <2>4. \A i \in Local : f[i] \in Nat
      BY <1>4, <2>1, <2>2
    <2>5. Counted(f, Local)
      BY <2>3, <2>4 DEF Counted
    <2>6. SumOver(f, Local) = SumOver(load, DOMAIN own)
      <3>1. Renames(f, Local, load, name)
        BY <2>2 DEF Renames
      <3> QED BY <2>1, <2>5, <3>1, SumIsRenamed
    <2> QED BY <2>5, <2>6
  <1> QED BY <1>8, <1>9

(* At the end of the hyperperiod every release to come is at its end.       *)
LEMMA AllReleasesEnd ==
    ASSUME NEW tsk, NEW loc, Device(tsk, loc), Ranked(tsk, loc), NEW s, Regular(tsk, loc, s), NEW k \in loc,
           s.next[k] < s.now + tsk[k].period, Divides(tsk[k].period, s.now)
    PROVE  s.next[k] = s.now
  <1>1. /\ s.now \in Nat /\ s.next[k] \in Nat /\ s.now <= s.next[k]
        /\ Divides(tsk[k].period, s.next[k]) /\ tsk[k].period \in Nat \ {0}
    BY HigherFacts DEF Device, Regular
  <1> PICK T : T = tsk[k].period
    OBVIOUS
  <1>2. PICK p \in Nat : s.now = T * p
    BY DEF Divides
  <1>3. PICK q \in Nat : s.next[k] = T * q
    BY <1>1 DEF Divides
  <1>4. T * q < T * p + T /\ T * p <= T * q /\ T \in Nat \ {0}
    BY <1>1, <1>2, <1>3
  <1>5. ~ (q >= p + 1)
    <2> SUFFICES ASSUME q >= p + 1 PROVE FALSE
      OBVIOUS
    <2>1. T * q >= T * (p + 1)
      BY <1>4
    <2>2. T * (p + 1) = T * p + T /\ T * p \in Nat /\ T * q \in Nat
      BY <1>4
    <2> QED BY <1>4, <2>1, <2>2
  <1>6. ~ (p >= q + 1)
    <2> SUFFICES ASSUME p >= q + 1 PROVE FALSE
      OBVIOUS
    <2>1. T * p >= T * (q + 1)
      BY <1>4
    <2>2. T * (q + 1) = T * q + T /\ T * p \in Nat /\ T * q \in Nat
      BY <1>4
    <2> QED BY <1>4, <2>1, <2>2
  <1>7. p = q
    BY <1>5, <1>6
  <1> QED BY <1>2, <1>3, <1>7

(* A first job that is still open then is of an overloaded device,          *)
LEMMA OpenAtTheEnd ==
    ASSUME Device(tasks, Local), Ranked(tasks, Local), NEW s, Regular(tasks, Local, s), NEW i \in Local,
           \A k \in Local : s.next[k] < s.now + tasks[k].period /\ Divides(tasks[k].period, s.now),
           EdfExactBound(LocalTasks)
    PROVE  ~ FirstIsOpen(tasks, Local, i, s)
  <1> SUFFICES ASSUME FirstIsOpen(tasks, Local, i, s) PROVE FALSE
    OBVIOUS
  <1> PICK hp : hp = Higher(tasks, Local, i)
    OBVIOUS
  <1> PICK h : h = s.now
    OBVIOUS
  <1> PICK f : f = LoadIn(tasks, h)
    OBVIOUS
  <1> PICK g : g = Requested(tasks, s.next, 0)
    OBVIOUS
  <1>1. /\ hp \in SUBSET Local /\ i \notin hp /\ tasks[i].wcet \in Nat \ {0}
        /\ tasks[i].period \in Nat \ {0} /\ i \in DOMAIN tasks
    BY HigherFacts
  <1>2. h \in Nat /\ s.jobs \in SUBSET OpenJobs(Local) /\ IsFiniteSet(s.jobs) /\ 0 \in 0 .. s.now
    BY DEF Regular
  <1>3. PICK j \in s.jobs :
           /\ j.task = i /\ j.release = 0
           /\ WorkLeft(s.jobs, hp) + j.remaining + h = tasks[i].wcet + WorkSince(tasks, s.next, 0, hp)
    BY DEF FirstIsOpen
  <1>4. j.remaining \in Nat \ {0} /\ WorkLeft(s.jobs, hp) \in Nat
    BY <1>2, WorkLeftIsNatural, RegularJobs
  <1>5. Counted(f, Local) /\ SumOver(f, Local) <= h
    <2>1. tasks \in Seq(TimedTask)
      BY DEF Device
    <2> QED BY <1>2, <2>1, LoadInFits
  <1>6. \A k \in Local : s.next[k] = h
    BY AllReleasesEnd
  <1>7. Counted(g, hp)
    BY <1>1, <1>2, RequestedIsNatural
  <1>8. \A k \in hp : f[k] = g[k]
    <2> TAKE k \in hp
    <2>1. g[k] = ((s.next[k] - 0) \div tasks[k].period) * tasks[k].wcet
      <3>1. k \in DOMAIN tasks
        BY <1>1 DEF Device
      <3> QED BY <3>1 DEF Requested
    <2>2. s.next[k] - 0 = h /\ k \in Local
      BY <1>1, <1>2, <1>6
    <2> QED BY <2>1, <2>2 DEF LoadIn, Local
  <1>9. SumOver(g, hp) = SumOver(f, hp)
    BY <1>7, <1>8, SumIsSame
  <1>10. tasks[i].wcet <= f[i] /\ f[i] \in Nat
    <2> PICK T : T = tasks[i].period
      OBVIOUS
    <2> PICK C : C = tasks[i].wcet
      OBVIOUS
    <2>1. PICK p \in Nat : h = T * p
      <3>1. Divides(T, h)
        OBVIOUS
      <3> QED BY <3>1 DEF Divides
    <2>2. h # 0
      <3>1. j.release < s.next[j.task]
        BY RegularJobs
      <3> QED BY <1>3, <1>6, <3>1
    <2>3. p # 0
      BY <1>1, <2>1, <2>2
    <2>4. f[i] = p * C
      <3>1. h \div T = p
        BY <1>1, <2>1
      <3> QED BY <1>1, <3>1 DEF LoadIn
    <2>5. 1 * C <= p * C
      BY <1>1, <2>3
    <2> QED BY <1>1, <2>4, <2>5
  <1>11. SumOver(f, hp) + f[i] <= SumOver(f, Local)
    <2>1. SumOver(f, Local) = f[i] + SumOver(f, Local \ {i}) /\ SumOver(f, Local \ {i}) \in Nat
      BY <1>5, SumWithout
    <2>2. Counted(f, hp) /\ Counted(f, Local \ {i})
      BY <1>1, <1>5, FS_Subset DEF Counted
    <2>3. Dominates(f, Local \ {i}, f, hp)
      BY <1>1, <1>5 DEF Dominates, Counted
    <2>4. SumOver(f, hp) <= SumOver(f, Local \ {i}) /\ SumOver(f, hp) \in Nat
      BY <2>2, <2>3, SumIsMonotone, SumWithout
    <2> QED BY <1>10, <2>1, <2>4
  <1>12. WorkSince(tasks, s.next, 0, hp) = SumOver(f, hp) /\ SumOver(f, hp) \in Nat
    <2>1. Counted(f, hp)
      BY <1>1, <1>5, FS_Subset DEF Counted
    <2> QED BY <1>9, <2>1, SumWithout DEF WorkSince
  <1>13. SumOver(f, Local) \in Nat
    BY <1>5, SumWithout
  <1> QED BY <1>1, <1>2, <1>3, <1>4, <1>5, <1>10, <1>11, <1>12, <1>13

(* and of none that bounds its responses.                                   *)
LEMMA BoundedAtTheEnd ==
    ASSUME NEW tsk, NEW loc, Device(tsk, loc), Ranked(tsk, loc), NEW s, Regular(tsk, loc, s), NEW i \in loc,
           s.next[i] < s.now + tsk[i].period, Divides(tsk[i].period, s.now),
           NEW r, Bounds(tsk, loc, i, r), Within(tsk, loc, i, s, r)
    PROVE  ~ FirstIsOpen(tsk, loc, i, s)
  <1> SUFFICES ASSUME NEW j \in s.jobs, j.task = i, j.release = 0 PROVE FALSE
    BY DEF FirstIsOpen
  <1>1. j.release + tsk[i].period = s.next[i] /\ \E b \in 0 .. j.release : s.now < b + r
    BY DEF Within, InWindow
  <1>2. s.next[i] = s.now
    BY AllReleasesEnd
  <1>3. r \in Nat /\ r <= tsk[i].period /\ tsk[i].period \in Nat
    BY HigherFacts DEF Bounds, Covers
  <1> QED BY <1>1, <1>2, <1>3

-----------------------------------------------------------------------------
(* The steps of level 1                                                     *)

(* One job comes before another: with its deadline or its priority first,   *)
(* as the policy has it.                                                    *)
Rank(j) == IF policy = "Edf" THEN j.deadline ELSE tasks[j.task].priority
Before(a, b) ==
    \/ Rank(a) < Rank(b)
    \/ /\ Rank(a) = Rank(b)
       /\ a.release < b.release \/ (a.release = b.release /\ a.task < b.task)
NoneBefore(jobs, x) == x \in jobs /\ \A j \in jobs : ~ Before(j, x)

(* This is the order of job_key.                                            *)
LEMMA PrecedesIs ==
    ASSUME NEW a, NEW b
    PROVE  Precedes(JobKey(a, policy), JobKey(b, policy)) <=> Before(a, b)
  <1> PICK x : x = <<Rank(a), a.release, a.task>>
    OBVIOUS
  <1> PICK y : y = <<Rank(b), b.release, b.task>>
    OBVIOUS
  <1>1. JobKey(a, policy) = x /\ JobKey(b, policy) = y
    BY DEF JobKey, Rank
  <1>2. /\ DOMAIN x = {1, 2, 3}
        /\ x[1] = Rank(a) /\ x[2] = a.release /\ x[3] = a.task
        /\ y[1] = Rank(b) /\ y[2] = b.release /\ y[3] = b.task
    OBVIOUS
  <1>3. Precedes(x, y) <=> \/ x[1] < y[1]
                           \/ x[2] < y[2] /\ x[1] = y[1]
                           \/ x[3] < y[3] /\ x[1] = y[1] /\ x[2] = y[2]
    <2>1. /\ (\A m \in 1 .. 1 - 1 : x[m] = y[m])
          /\ ((\A m \in 1 .. 2 - 1 : x[m] = y[m]) <=> x[1] = y[1])
          /\ ((\A m \in 1 .. 3 - 1 : x[m] = y[m]) <=> x[1] = y[1] /\ x[2] = y[2])
      <3>1. 1 .. 1 - 1 = {} /\ 1 .. 2 - 1 = {1} /\ 1 .. 3 - 1 = {1, 2}
        OBVIOUS
      <3> QED BY <3>1
    <2> QED BY <1>2, <2>1 DEF Precedes
  <1> QED BY <1>1, <1>2, <1>3 DEF Before

(* What it compares are numbers,                                            *)
LEMMA KeysAreNatural ==
    ASSUME Device(tasks, Local), NEW a \in OpenJobs(Local)
    PROVE  Rank(a) \in Nat /\ a.release \in Nat /\ a.task \in Nat /\ a.task \in Local
           /\ a.deadline \in Nat /\ tasks[a.task].priority \in Nat
  <1>1. a.task \in Local /\ a.release \in Nat /\ a.deadline \in Nat
    BY DEF OpenJobs
  <1>2. tasks \in Seq(TimedTask) /\ a.task \in DOMAIN tasks
    BY <1>1 DEF Device
  <1>3. tasks[a.task].priority \in Nat /\ a.task \in Nat
    <2>1. tasks[a.task] \in TimedTask /\ a.task \in 1 .. Len(tasks)
      BY <1>2, TaskFacts
    <2> QED BY <2>1 DEF TimedTask
  <1> QED BY <1>1, <1>3 DEF Rank

(* so that it is an order.                                                  *)
LEMMA BeforeIsOrder ==
    ASSUME Device(tasks, Local), NEW a \in OpenJobs(Local), NEW b \in OpenJobs(Local),
           NEW c \in OpenJobs(Local)
    PROVE  /\ ~ Before(a, a) /\ (Before(a, b) => ~ Before(b, a))
           /\ ~ Before(a, b) /\ ~ Before(b, c) => ~ Before(a, c)
  <1>1. /\ Rank(a) \in Nat /\ a.release \in Nat /\ a.task \in Nat
        /\ Rank(b) \in Nat /\ b.release \in Nat /\ b.task \in Nat
        /\ Rank(c) \in Nat /\ c.release \in Nat /\ c.task \in Nat
    BY KeysAreNatural
  <1> QED BY <1>1 DEF Before

(* Of open jobs one comes first.                                            *)
LEMMA FirstIsLeast ==
    ASSUME Device(tasks, Local), NEW S \in SUBSET OpenJobs(Local)
    PROVE  /\ \A j \in First(S, policy) : NoneBefore(S, j)
           /\ S # {} => First(S, policy) # {}
  <1>1. \A j \in First(S, policy) : NoneBefore(S, j)
    BY PrecedesIs DEF First, NoneBefore
  <1>2. ASSUME S # {} PROVE First(S, policy) # {}
    <2> DEFINE ranks == {Rank(j) : j \in S}
    <2>1. ranks \in SUBSET Nat /\ ranks # {}
      BY <1>2, KeysAreNatural
    <2>2. PICK p \in ranks : \A q \in ranks : p <= q
      <3> HIDE DEF ranks
      <3> QED BY <2>1, LeastNatural
    <2> DEFINE releases == {j.release : j \in {k \in S : Rank(k) = p}}
    <2>3. releases \in SUBSET Nat /\ releases # {}
      BY <2>2, KeysAreNatural
    <2>4. PICK r \in releases : \A q \in releases : r <= q
      <3> HIDE DEF releases
      <3> QED BY <2>3, LeastNatural
    <2> DEFINE owners == {j.task : j \in {k \in S : Rank(k) = p /\ k.release = r}}
    <2>5. owners \in SUBSET Nat /\ owners # {}
      BY <2>4, KeysAreNatural
    <2>6. PICK t \in owners : \A q \in owners : t <= q
      <3> HIDE DEF owners
      <3> QED BY <2>5, LeastNatural
    <2>7. PICK j \in S : Rank(j) = p /\ j.release = r /\ j.task = t
      BY <2>6
    <2>8. ASSUME NEW k \in S PROVE ~ Before(k, j)
      <3>1. p <= Rank(k)
        BY <2>2
      <3>2. Rank(k) = p => r <= k.release
        BY <2>4
      <3>3. Rank(k) = p /\ k.release = r => t <= k.task
        BY <2>6
      <3>4. /\ Rank(k) \in Nat /\ k.release \in Nat /\ k.task \in Nat
            /\ p \in Nat /\ r \in Nat /\ t \in Nat
        BY <2>7, KeysAreNatural
      <3> HIDE DEF ranks, releases, owners
      <3> QED BY <2>7, <3>1, <3>2, <3>3, <3>4 DEF Before
    <2>9. j \in First(S, policy)
      BY <2>7, <2>8, PrecedesIs DEF First
    <2> QED BY <2>9
  <1> QED BY <1>1, <1>2

(* At most one job is running.                                              *)
OneRuns == runningJob = {} \/ \E r : runningJob = {r}

(* The job that gets the processor comes first, and there is one if there   *)
(* are jobs.                                                                *)
LEMMA ContextSwitchIsFirst ==
    ASSUME Device(tasks, Local), OneRuns, NEW S, S \cup runningJob \in SUBSET OpenJobs(Local)
    PROVE  /\ \A x \in ContextSwitch(S) : NoneBefore(S \cup runningJob, x)
           /\ ContextSwitch(S) = {} => S \cup runningJob = {}
  <1> PICK best : best = First(S, policy)
    OBVIOUS
  <1> PICK P : P = S \cup runningJob
    OBVIOUS
  <1>1. S \in SUBSET OpenJobs(Local) /\ runningJob \in SUBSET OpenJobs(Local)
    OBVIOUS
  <1>2. (\A b \in best : b \in S /\ \A j \in S : ~ Before(j, b)) /\ (S # {} => best # {})
    BY <1>1, FirstIsLeast DEF NoneBefore
  <1>3. ContextSwitch(S) = IF \E r \in runningJob : \A b \in best : ~ Before(b, r)
                           THEN runningJob ELSE best
    BY PrecedesIs DEF ContextSwitch
  <1>4. CASE \E r \in runningJob : \A b \in best : ~ Before(b, r)
    <2>1. PICK r \in runningJob : \A b \in best : ~ Before(b, r)
      BY <1>4
    <2>2. runningJob = {r} /\ ContextSwitch(S) = {r} /\ r \in P /\ r \in OpenJobs(Local)
      BY <1>1, <1>3, <1>4, <2>1 DEF OneRuns
    <2>3. ASSUME NEW k \in P PROVE ~ Before(k, r)
      <3>1. CASE k = r
        BY <2>2, <3>1, BeforeIsOrder
      <3>2. CASE k # r
        <4>1. k \in S /\ k \in OpenJobs(Local)
          BY <1>1, <2>2, <3>2
        <4>2. PICK b \in best : b \in OpenJobs(Local)
          BY <1>1, <1>2, <4>1
        <4>3. ~ Before(k, b) /\ ~ Before(b, r)
          BY <1>2, <2>1, <4>1, <4>2
        <4> QED BY <2>2, <4>1, <4>2, <4>3, BeforeIsOrder
      <3> QED BY <3>1, <3>2
    <2> QED BY <2>2, <2>3 DEF NoneBefore
  <1>5. CASE ~ \E r \in runningJob : \A b \in best : ~ Before(b, r)
    <2>1. ContextSwitch(S) = best
      BY <1>3, <1>5
    <2>2. ASSUME NEW x \in best, NEW k \in P PROVE ~ Before(k, x)
      <3>1. CASE k \in S
        BY <1>2, <2>2, <3>1
      <3>2. CASE k \notin S
        <4>1. k \in runningJob /\ k \in OpenJobs(Local)
          BY <1>1, <3>2
        <4>2. PICK b \in best : Before(b, k)
          BY <1>5, <4>1
        <4>3. ~ Before(b, x) /\ b \in OpenJobs(Local) /\ x \in OpenJobs(Local)
          BY <1>1, <1>2, <2>2, <4>2
        <4> QED BY <4>1, <4>2, <4>3, BeforeIsOrder
      <3> QED BY <3>1, <3>2
    <2>3. best = {} => P = {}
      <3> SUFFICES ASSUME best = {}, runningJob # {} PROVE FALSE
        BY <1>2
      <3> QED BY <1>5
    <2> QED BY <1>2, <2>1, <2>2, <2>3 DEF NoneBefore
  <1> QED BY <1>4, <1>5

(* What a step finds after its releases.                                    *)
LEMMA StepReleases ==
    ASSUME Device(tasks, Local), Local # {}, Regular(tasks, Local, Here),
           now <= Hyperperiod(tasks), NEW m, m = Releasing(tasks, Here, DueIn(Local, Here))
    PROVE  /\ Regular(tasks, Local, m) /\ Here.now = now
           /\ m.now = now /\ m.next = ReleasesAfter(Local) /\ m.response = level1.response
           /\ m.jobs = Waiting \cup runningJob /\ m.jobs \in SUBSET OpenJobs(Local)
           /\ now \in Nat /\ level1.response \in [DOMAIN tasks -> Nat]
           /\ NextRelease \in Nat /\ now < NextRelease /\ \A k \in Local : NextRelease <= m.next[k]
           /\ Horizon = Hyperperiod(tasks) /\ Horizon \in Nat /\ now <= Horizon
  <1>1. Here = Schedule(now, nextReleases, ready \cup runningJob, level1.response)
    BY DEF Here
  <1>2. /\ Here.now = now /\ Here.next = nextReleases /\ Here.jobs = ready \cup runningJob
        /\ Here.response = level1.response
    BY <1>1 DEF Schedule
  <1> PICK s : s = Here
    OBVIOUS
  <1>3. Regular(tasks, Local, m) /\ \A k \in Local : m.now < m.next[k]
    BY ReleasingIsRegular
  <1>4. DueIn(Local, s) = Due(Local)
    BY <1>2 DEF DueIn, Due
  <1>5. \A k : JobFor(tasks, now, k) = Released(k)
    BY DEF JobFor, Released
  <1>6. m = Schedule(now, [k \in DOMAIN tasks |-> IF k \in Due(Local) THEN now + tasks[k].period
                                                  ELSE nextReleases[k]],
                     (ready \cup runningJob) \cup {JobFor(tasks, now, k) : k \in Due(Local)},
                     level1.response)
    BY <1>2, <1>4 DEF Releasing
  <1>7. /\ m.now = now /\ m.next = ReleasesAfter(Local) /\ m.response = level1.response
        /\ m.jobs = (ready \cup runningJob) \cup {JobFor(tasks, now, k) : k \in Due(Local)}
    BY <1>6 DEF Schedule, ReleasesAfter
  <1>8. m.jobs = Waiting \cup runningJob
    <2>1. {JobFor(tasks, now, k) : k \in Due(Local)} = {Released(k) : k \in Due(Local)}
      BY <1>5
    <2> QED BY <1>7, <2>1 DEF Waiting
  <1>9. /\ \A k \in Local : now < m.next[k]
        /\ m.jobs \in SUBSET OpenJobs(Local)
        /\ m.next \in [DOMAIN tasks -> Nat] /\ m.now \in Nat /\ m.response \in [DOMAIN tasks -> Nat]
    BY <1>3, <1>7 DEF Regular
  <1>10. /\ NextRelease \in Nat /\ now < NextRelease /\ \A k \in Local : NextRelease <= m.next[k]
    <2>1. NextRelease = Min({m.next[k] : k \in Local})
      BY <1>7 DEF NextRelease
    <2>2. Local \in SUBSET DOMAIN tasks
      BY DEF Device
    <2> DEFINE ends == {m.next[k] : k \in Local}
    <2>3. ends \in SUBSET Nat /\ ends # {} /\ \A e \in ends : now < e
      BY <1>9, <2>2
    <2>4. \A k \in Local : m.next[k] \in ends
      OBVIOUS
    <2>5. Min(ends) \in ends /\ \A e \in ends : Min(ends) <= e
      <3> HIDE DEF ends
      <3> QED BY <2>3, LeastOfNaturals
    <2> QED BY <2>1, <2>3, <2>4, <2>5
  <1>11. Horizon = Hyperperiod(tasks) /\ Horizon \in Nat /\ now <= Horizon
    <2>1. tasks \in Seq(TimedTask)
      BY DEF Device
    <2>2. Horizon \in Nat
      BY <2>1, HyperperiodIsMultiple DEF Horizon
    <2> QED BY <2>2 DEF Horizon
  <1> QED BY <1>2, <1>3, <1>7, <1>8, <1>9, <1>10, <1>11

(* The greatest responses once a job has answered.                          *)
LEMMA CompletedOne ==
    ASSUME NEW sum, sum.response \in [DOMAIN tasks -> Nat], NEW y, y.release \in Nat,
           NEW t \in Nat, y.release <= t, NEW S, S = {} \/ S = {y}
    PROVE  /\ Completed(sum, S, t).response \in [DOMAIN tasks -> Nat]
           /\ \A i \in DOMAIN tasks :
                 /\ sum.response[i] <= Completed(sum, S, t).response[i]
                 /\ IF S = {y} /\ y.task = i
                    THEN /\ t - y.release <= Completed(sum, S, t).response[i]
                         /\ \/ Completed(sum, S, t).response[i] = sum.response[i]
                            \/ Completed(sum, S, t).response[i] = t - y.release
                    ELSE Completed(sum, S, t).response[i] = sum.response[i]
  <1> PICK c : c = Completed(sum, S, t).response
    OBVIOUS
  <1>1. c = [i \in DOMAIN tasks |->
                Max({sum.response[i]} \cup {t - j.release : j \in {k \in S : k.task = i}})]
    BY DEF Completed
  <1>2. ASSUME NEW i \in DOMAIN tasks
        PROVE  /\ c[i] \in Nat /\ sum.response[i] <= c[i]
               /\ IF S = {y} /\ y.task = i
                  THEN /\ t - y.release <= c[i]
                       /\ c[i] = sum.response[i] \/ c[i] = t - y.release
                  ELSE c[i] = sum.response[i]
    <2> PICK a : a = sum.response[i]
      OBVIOUS
    <2> PICK b : b = t - y.release
      OBVIOUS
    <2>1. a \in Nat /\ b \in Nat
      OBVIOUS
    <2>2. CASE S = {y} /\ y.task = i
      <3>1. {k \in S : k.task = i} = {y}
        BY <2>2
      <3>2. {a} \cup {t - j.release : j \in {k \in S : k.task = i}} = {a, b}
        BY <3>1
      <3>3. c[i] = Max({a, b})
        BY <1>1, <3>2
      <3> QED BY <2>1, <2>2, <3>3, GreaterOfTwo
    <2>3. CASE ~ (S = {y} /\ y.task = i)
      <3>1. {k \in S : k.task = i} = {}
        BY <2>3
      <3>2. {a} \cup {t - j.release : j \in {k \in S : k.task = i}} = {a, a}
        BY <3>1
      <3>3. c[i] = Max({a, a})
        BY <1>1, <3>2
      <3> QED BY <2>1, <2>3, <3>3, GreaterOfTwo
    <2> QED BY <2>2, <2>3
  <1>3. c \in [DOMAIN tasks -> Nat]
    BY <1>1, <1>2
  <1> QED BY <1>2, <1>3

(* RunJob is a run of the first job, which is missed if it ends late.       *)
LEMMA RunJobServes ==
    ASSUME Device(tasks, Local), Local # {}, Regular(tasks, Local, Here),
           now <= Hyperperiod(tasks), OneRuns, RunJob, NEW m,
           m = Releasing(tasks, Here, DueIn(Local, Here))
    PROVE  \E s, x, d :
              /\ Here' = s /\ NoneBefore(m.jobs, x) /\ x \in OpenJobs(Local)
              /\ Serves(tasks, Local, m, s, x, d) /\ Answers(tasks, m, s, x, d)
              /\ x.remaining # 0 => d # 0
              /\ s.now <= Hyperperiod(tasks)
              /\ s = Schedule(s.now, s.next, s.jobs, s.response)
              /\ level1.misses \in Nat => level1'.misses = level1.misses + Late(x, d, s.now)
              /\ OneRuns' /\ Local' = Local /\ tasks' = tasks /\ now' = s.now
  <1>1. /\ Regular(tasks, Local, m)
        /\ m.now = now /\ m.next = ReleasesAfter(Local) /\ m.response = level1.response
        /\ m.jobs = Waiting \cup runningJob /\ m.jobs \in SUBSET OpenJobs(Local)
        /\ now \in Nat /\ level1.response \in [DOMAIN tasks -> Nat]
        /\ NextRelease \in Nat /\ now < NextRelease /\ \A k \in Local : NextRelease <= m.next[k]
        /\ Horizon = Hyperperiod(tasks) /\ Horizon \in Nat
    BY StepReleases
  <1>2. now < Horizon
    BY DEF RunJob
  <1>3. PICK x \in ContextSwitch(Waiting) :
          LET until == Min({now + x.remaining, NextRelease, Horizon})
              left == [x EXCEPT !.remaining = @ - (until - now)]
              done == {j \in {left} : j.remaining = 0}
          IN /\ now' = until
             /\ runningJob' = {left} \ done
             /\ ready' = (Waiting \cup runningJob) \ {x}
             /\ level1' = Completed(level1, done, until)
             /\ nextReleases' = ReleasesAfter(Local)
             /\ UNCHANGED <<tasks, policy, focus, stage, level2>>
    BY DEF RunJob
  <1>31. PICK until : until = Min({now + x.remaining, NextRelease, Horizon})
    OBVIOUS
  <1>32. PICK left : left = [x EXCEPT !.remaining = @ - (until - now)]
    OBVIOUS
  <1>33. PICK done : done = {j \in {left} : j.remaining = 0}
    OBVIOUS
  <1>4. /\ now' = until /\ runningJob' = {left} \ done /\ ready' = m.jobs \ {x}
        /\ level1' = Completed(level1, done, until) /\ nextReleases' = m.next
        /\ tasks' = tasks /\ focus' = focus
    BY <1>1, <1>3, <1>31, <1>32, <1>33
  <1>5. NoneBefore(m.jobs, x) /\ x \in m.jobs /\ x \in OpenJobs(Local)
    <2>1. NoneBefore(m.jobs, x)
      BY <1>1, ContextSwitchIsFirst
    <2> QED BY <1>1, <2>1 DEF NoneBefore
  <1>6. /\ x.remaining \in Nat /\ x.release \in Nat /\ x.release <= now /\ x.task \in Local
    BY <1>1, <1>5, RegularJobs
  <1>7. /\ until \in Nat /\ now <= until /\ until <= now + x.remaining /\ until <= NextRelease
        /\ until <= Horizon /\ (x.remaining # 0 => now < until)
    <2> DEFINE ends == {now + x.remaining, NextRelease, Horizon}
    <2>1. /\ ends \in SUBSET Nat /\ ends # {} /\ \A e \in ends : now <= e
          /\ x.remaining # 0 => \A e \in ends : now < e
      BY <1>1, <1>2, <1>6
    <2>2. now + x.remaining \in ends /\ NextRelease \in ends /\ Horizon \in ends
      OBVIOUS
    <2>3. until = Min(ends)
      BY <1>31
    <2> HIDE DEF ends
    <2> QED BY <2>1, <2>2, <2>3, LeastOfNaturals
  <1>71. PICK d : d = until - now
    OBVIOUS
  <1>8. d \in Nat /\ d <= x.remaining /\ until = now + d /\ (x.remaining # 0 => d # 0)
    <2> PICK e : e = x.remaining
      OBVIOUS
    <2>1. /\ until \in Nat /\ now \in Nat /\ now <= until /\ until <= now + e /\ e \in Nat
          /\ e # 0 => now < until
      BY <1>1, <1>6, <1>7
    <2>2. d \in Nat /\ d <= e /\ until = now + d /\ (e # 0 => d # 0)
      BY <1>71, <2>1
    <2> QED BY <2>2
  <1>9. /\ left.remaining = x.remaining - d /\ left.task = x.task /\ left.release = x.release
        /\ left.deadline = x.deadline /\ left = [x EXCEPT !.remaining = @ - d]
    BY <1>5, <1>32, <1>71 DEF OpenJobs
  <1>10. /\ x.remaining = d => done = {left}
         /\ x.remaining # d => done = {}
    <2>1. left.remaining = 0 <=> x.remaining = d
      <3> PICK e : e = x.remaining
        OBVIOUS
      <3>1. e \in Nat /\ d \in Nat /\ left.remaining = e - d
        BY <1>6, <1>8, <1>9
      <3>2. e - d = 0 <=> e = d
        BY <3>1
      <3> QED BY <3>1, <3>2
    <2>2. (left.remaining = 0 => done = {left}) /\ (left.remaining # 0 => done = {})
      BY <1>33
    <2> QED BY <2>1, <2>2
  <1>11. {left} \ done = LeftOf(x, d)
    BY <1>9, <1>10 DEF LeftOf
  <1>12. Local' = Local
    BY <1>4 DEF Local
  <1>121. PICK resp : resp = Completed(level1, done, until).response
    OBVIOUS
  <1>13. /\ resp \in [DOMAIN tasks -> Nat]
         /\ \A i \in DOMAIN tasks :
               /\ level1.response[i] <= resp[i]
               /\ IF x.task = i /\ x.remaining = d
                  THEN /\ until - x.release <= resp[i]
                       /\ resp[i] = level1.response[i] \/ resp[i] = until - x.release
                  ELSE resp[i] = level1.response[i]
    <2>1. done = {} \/ done = {left}
      BY <1>10
    <2>2. left.release \in Nat /\ left.release <= until
      BY <1>1, <1>6, <1>7, <1>9
    <2>3. /\ resp \in [DOMAIN tasks -> Nat]
          /\ \A i \in DOMAIN tasks :
                /\ level1.response[i] <= resp[i]
                /\ IF done = {left} /\ left.task = i
                   THEN /\ until - left.release <= resp[i]
                        /\ resp[i] = level1.response[i] \/ resp[i] = until - left.release
                   ELSE resp[i] = level1.response[i]
      <3>0. PICK y, t : y = left /\ t = until
        OBVIOUS
      <3>1. /\ level1.response \in [DOMAIN tasks -> Nat] /\ y.release \in Nat /\ t \in Nat
            /\ y.release <= t /\ (done = {} \/ done = {y})
        BY <1>1, <1>7, <2>1, <2>2, <3>0
      <3>2. /\ Completed(level1, done, t).response \in [DOMAIN tasks -> Nat]
            /\ \A i \in DOMAIN tasks :
                  /\ level1.response[i] <= Completed(level1, done, t).response[i]
                  /\ IF done = {y} /\ y.task = i
                     THEN /\ t - y.release <= Completed(level1, done, t).response[i]
                          /\ \/ Completed(level1, done, t).response[i] = level1.response[i]
                             \/ Completed(level1, done, t).response[i] = t - y.release
                     ELSE Completed(level1, done, t).response[i] = level1.response[i]
        BY <3>1, CompletedOne
      <3> QED BY <1>121, <3>0, <3>2
    <2>4. done = {left} <=> x.remaining = d
      BY <1>10
    <2> QED BY <1>9, <2>3, <2>4
  <1>14. PICK s : s = Schedule(until, m.next, (m.jobs \ {x}) \cup LeftOf(x, d), resp)
    OBVIOUS
  <1>15. Here' = s
    BY <1>4, <1>11, <1>121, <1>14 DEF Here
  <1>16. /\ s.now = until /\ s.next = m.next /\ s.jobs = (m.jobs \ {x}) \cup LeftOf(x, d)
         /\ s.response = resp
    BY <1>14 DEF Schedule
  <1>17. \A k \in Local : m.now + d <= m.next[k]
    <2> SUFFICES ASSUME NEW k \in Local PROVE m.now + d <= m.next[k]
      OBVIOUS
    <2>1. m.next \in [DOMAIN tasks -> Nat] /\ k \in DOMAIN tasks
      BY <1>1 DEF Regular, Device
    <2> QED BY <1>1, <1>7, <1>8, <2>1
  <1>18. Serves(tasks, Local, m, s, x, d) /\ Answers(tasks, m, s, x, d)
    <2>1. s.now = m.now + d /\ m.response = level1.response
      BY <1>1, <1>8, <1>16
    <2>2. Answers(tasks, m, s, x, d)
      <3>1. m.response = level1.response /\ s.response = resp /\ s.now = until
        BY <1>16, <2>1
      <3> QED BY <1>13, <3>1 DEF Answers
    <2>3. s.response \in [DOMAIN tasks -> Nat]
      BY <1>13, <1>16
    <2> QED BY <1>5, <1>8, <1>16, <1>17, <2>1, <2>2, <2>3 DEF Serves
  <1>19. level1.misses \in Nat => level1'.misses = level1.misses + Late(x, d, s.now)
    <2> SUFFICES ASSUME level1.misses \in Nat
                 PROVE  level1'.misses = level1.misses + Late(x, d, s.now)
      OBVIOUS
    <2>1. level1'.misses = level1.misses + Cardinality({j \in done : until > j.deadline})
      BY <1>4 DEF Completed
    <2>2. x.deadline \in Nat /\ until \in Nat /\ left.deadline = x.deadline /\ s.now = until
      BY <1>5, <1>7, <1>9, <1>16 DEF OpenJobs
    <2>3. Cardinality({}) = 0 /\ Cardinality({left}) = 1
      BY FS_EmptySet, FS_Singleton
    <2>4. CASE x.remaining = d /\ x.deadline < until
      <3>1. {j \in done : until > j.deadline} = {left}
        BY <1>10, <2>2, <2>4
      <3> QED BY <2>1, <2>2, <2>3, <2>4, <3>1 DEF Late
    <2>5. CASE ~ (x.remaining = d /\ x.deadline < until)
      <3>1. {j \in done : until > j.deadline} = {}
        BY <1>10, <2>2, <2>5
      <3> QED BY <2>1, <2>2, <2>3, <2>5, <3>1 DEF Late
    <2> QED BY <2>4, <2>5
  <1>20. s.now <= Hyperperiod(tasks)
    BY <1>1, <1>7, <1>16
  <1>21. OneRuns'
    BY <1>4, <1>10 DEF OneRuns
  <1>22. /\ NoneBefore(m.jobs, x) /\ x \in OpenJobs(Local) /\ (x.remaining # 0 => d # 0)
         /\ now' = s.now /\ s = Schedule(s.now, s.next, s.jobs, s.response)
    BY <1>4, <1>5, <1>8, <1>14, <1>16
  <1> QED BY <1>4, <1>12, <1>15, <1>18, <1>19, <1>20, <1>21, <1>22

(* Idle idles.                                                              *)
LEMMA IdleIdles ==
    ASSUME Device(tasks, Local), Local # {}, Regular(tasks, Local, Here),
           now <= Hyperperiod(tasks), OneRuns, Idle, NEW m,
           m = Releasing(tasks, Here, DueIn(Local, Here))
    PROVE  \E s, d : /\ Here' = s /\ Idles(tasks, Local, m, s, d) /\ s.now <= Hyperperiod(tasks)
                     /\ OneRuns' /\ Local' = Local /\ tasks' = tasks /\ now' = s.now
                     /\ level1' = level1
  <1>1. /\ m.now = now /\ m.next = ReleasesAfter(Local) /\ m.response = level1.response
        /\ m.jobs = Waiting \cup runningJob /\ m.jobs \in SUBSET OpenJobs(Local)
        /\ now \in Nat
        /\ NextRelease \in Nat /\ now < NextRelease /\ \A k \in Local : NextRelease <= m.next[k]
        /\ Horizon = Hyperperiod(tasks) /\ Horizon \in Nat
    BY StepReleases
  <1>2. /\ ContextSwitch(Waiting) = {} /\ NextRelease < Horizon /\ now' = NextRelease
        /\ tasks' = tasks /\ focus' = focus /\ nextReleases' = nextReleases
        /\ ready' = ready /\ runningJob' = runningJob /\ level1' = level1
    BY DEF Idle
  <1>3. m.jobs = {}
    BY <1>1, <1>2, ContextSwitchIsFirst
  <1>4. ready = {} /\ runningJob = {} /\ Due(Local) = {}
    BY <1>1, <1>3 DEF Waiting
  <1>5. m.next = nextReleases
    <2>1. nextReleases \in [DOMAIN tasks -> Nat]
      BY DEF Regular, Here, Schedule
    <2> QED BY <1>1, <1>4, <2>1 DEF ReleasesAfter
  <1> PICK d : d = NextRelease - now
    OBVIOUS
  <1>6. d \in Nat \ {0} /\ NextRelease = m.now + d
    BY <1>1
  <1> PICK s : s = Schedule(m.now + d, m.next, {}, m.response)
    OBVIOUS
  <1>7. Idles(tasks, Local, m, s, d)
    BY <1>1, <1>3, <1>6 DEF Idles
  <1>8. Here' = s
    BY <1>1, <1>2, <1>4, <1>5, <1>6 DEF Here
  <1>9. s.now <= Hyperperiod(tasks) /\ now' = s.now
    BY <1>1, <1>2, <1>6 DEF Schedule
  <1>10. Local' = Local /\ OneRuns'
    BY <1>2 DEF Local, OneRuns
  <1> QED BY <1>2, <1>7, <1>8, <1>9, <1>10

(* At the start a schedule is regular and has no jobs.                      *)
LEMMA RegularAtStart ==
    ASSUME Device(tasks, Local), RefInit
    PROVE  /\ Regular(tasks, Local, Here) /\ Here.now = 0 /\ Here.jobs = {}
           /\ Here.response = [i \in DOMAIN tasks |-> 0]
           /\ \A k \in Local : Here.next[k] = 0 /\ tasks[k].period \in Nat \ {0}
           /\ now <= Hyperperiod(tasks) /\ level1.misses = 0 /\ OneRuns
  <1> PICK s : s = Here
    OBVIOUS
  <1>1. /\ s.now = 0 /\ s.next = [i \in DOMAIN tasks |-> 0] /\ s.jobs = {}
        /\ s.response = [i \in DOMAIN tasks |-> 0] /\ level1.misses = 0 /\ now = 0
    BY DEF Here, Schedule, RefInit, NoResponses, Summary
  <1>2. tasks \in Seq(TimedTask)
    BY DEF Device
  <1>3. \A k \in Local : /\ k \in DOMAIN tasks /\ tasks[k].period \in Nat \ {0}
                         /\ s.next[k] = 0 /\ Divides(tasks[k].period, 0)
    <2> SUFFICES ASSUME NEW k \in Local
                 PROVE  /\ k \in DOMAIN tasks /\ tasks[k].period \in Nat \ {0}
                        /\ s.next[k] = 0 /\ Divides(tasks[k].period, 0)
      OBVIOUS
    <2>1. k \in DOMAIN tasks /\ tasks[k].period \in Nat \ {0}
      <3>1. k \in DOMAIN tasks
        BY DEF Device
      <3>2. tasks[k] \in TimedTask
        BY <1>2, <3>1, TaskFacts
      <3> QED BY <3>1, <3>2 DEF TimedTask
    <2>2. 0 = tasks[k].period * 0
      BY <2>1
    <2> QED BY <1>1, <2>1, <2>2 DEF Divides
  <1>4. Regular(tasks, Local, s)
    <2>1. IsFiniteSet({})
      BY FS_EmptySet
    <2> QED BY <1>1, <1>3, <2>1 DEF Regular
  <1>5. now <= Hyperperiod(tasks)
    BY <1>1, <1>2, HyperperiodIsMultiple
  <1> QED BY <1>1, <1>3, <1>4, <1>5 DEF OneRuns, RefInit

-----------------------------------------------------------------------------
(* The invariant of level 1                                                 *)

(* What holds between the steps of level 1, up to the end of the            *)
(* hyperperiod: every r that covers a task's demand within its period       *)
(* bounds its responses, and none is less than its first response.          *)
Sound(tsk, loc, s) ==
    /\ Regular(tsk, loc, s) /\ s.now <= Hyperperiod(tsk)
    /\ \A k \in loc : s.next[k] < s.now + tsk[k].period
    /\ \A i \in loc : \A r : Bounds(tsk, loc, i, r) => Within(tsk, loc, i, s, r)
    /\ \A i \in loc : \A r \in Nat : Precludes(tsk, loc, i, r) => ReleasesOpen(tsk, loc, i, s, r)

(* What holds after the releases of a step.                                 *)
Prepared(tsk, loc, m) ==
    /\ Regular(tsk, loc, m)
    /\ \A k \in loc : m.now < m.next[k]
    /\ \A i \in loc : \A r : Bounds(tsk, loc, i, r) => Within(tsk, loc, i, m, r)
    /\ \A i \in loc : \A r \in Nat : Precludes(tsk, loc, i, r) => FirstIsLate(tsk, loc, i, m, r)

(* Releases prepare a schedule,                                             *)
LEMMA ReleasingPrepares ==
    ASSUME NEW tsk, NEW loc, Device(tsk, loc), Ranked(tsk, loc), NEW s, Sound(tsk, loc, s)
    PROVE  Prepared(tsk, loc, Releasing(tsk, s, DueIn(loc, s)))
  <1> PICK m : m = Releasing(tsk, s, DueIn(loc, s))
    OBVIOUS
  <1>0. Regular(tsk, loc, s)
    BY DEF Sound
  <1>1. Regular(tsk, loc, m) /\ \A k \in loc : m.now < m.next[k]
    BY <1>0, ReleasingIsRegular
  <1>2. ASSUME NEW i \in loc, NEW r, Bounds(tsk, loc, i, r) PROVE Within(tsk, loc, i, m, r)
    <2>1. Within(tsk, loc, i, s, r)
      BY <1>2 DEF Sound
    <2> QED BY <1>0, <1>2, <2>1, ReleasingKeepsWithin
  <1>3. ASSUME NEW i \in loc, NEW r \in Nat, Precludes(tsk, loc, i, r)
        PROVE  FirstIsLate(tsk, loc, i, m, r)
    <2>1. ReleasesOpen(tsk, loc, i, s, r)
      BY <1>3 DEF Sound
    <2> QED BY <1>0, <2>1, ReleasingOpensFirst
  <1> QED BY <1>1, <1>2, <1>3 DEF Prepared

(* a run keeps what they prepared,                                          *)
LEMMA RunKeepsSound ==
    ASSUME NEW tsk, NEW loc, Device(tsk, loc), Ranked(tsk, loc), NEW m, Prepared(tsk, loc, m),
           NEW s, NEW x, NEW d, Runs(tsk, loc, m, s, x, d), s.now <= Hyperperiod(tsk)
    PROVE  Sound(tsk, loc, s)
  <1>0. Regular(tsk, loc, m) /\ \A k \in loc : m.now < m.next[k]
    BY DEF Prepared
  <1>1. Regular(tsk, loc, s) /\ \A k \in loc : s.next[k] < s.now + tsk[k].period
    BY <1>0, RunIsRegular
  <1>2. ASSUME NEW i \in loc, NEW r, Bounds(tsk, loc, i, r) PROVE Within(tsk, loc, i, s, r)
    <2>1. Within(tsk, loc, i, m, r)
      BY <1>2 DEF Prepared
    <2> QED BY <1>0, <1>1, <1>2, <2>1, RunKeepsWithin
  <1>3. ASSUME NEW i \in loc, NEW r \in Nat, Precludes(tsk, loc, i, r)
        PROVE  ReleasesOpen(tsk, loc, i, s, r)
    <2>1. FirstIsLate(tsk, loc, i, m, r)
      BY <1>3 DEF Prepared
    <2>2. FirstIsLate(tsk, loc, i, s, r)
      BY <1>0, <1>1, <1>3, <2>1, RunKeepsFirst
    <2> QED BY <2>2 DEF ReleasesOpen
  <1> QED BY <1>1, <1>2, <1>3 DEF Sound

(* and so does idling.                                                      *)
LEMMA IdlingKeepsSound ==
    ASSUME NEW tsk, NEW loc, Device(tsk, loc), Ranked(tsk, loc), NEW m, Prepared(tsk, loc, m),
           NEW s, NEW d, Idles(tsk, loc, m, s, d), s.now <= Hyperperiod(tsk)
    PROVE  Sound(tsk, loc, s)
  <1>0. Regular(tsk, loc, m)
    BY DEF Prepared
  <1>1. Regular(tsk, loc, s) /\ \A k \in loc : s.next[k] < s.now + tsk[k].period
    BY <1>0, IdlingIsRegular
  <1>2. ASSUME NEW i \in loc, NEW r, Bounds(tsk, loc, i, r) PROVE Within(tsk, loc, i, s, r)
    <2>1. Within(tsk, loc, i, m, r)
      BY <1>2 DEF Prepared
    <2> QED BY <1>0, <1>1, <1>2, <2>1, IdlingKeepsWithin
  <1>3. ASSUME NEW i \in loc, NEW r \in Nat, Precludes(tsk, loc, i, r)
        PROVE  ReleasesOpen(tsk, loc, i, s, r)
    <2>1. FirstIsLate(tsk, loc, i, m, r)
      BY <1>3 DEF Prepared
    <2> QED BY <2>1, IdlingKeepsFirst DEF ReleasesOpen
  <1> QED BY <1>1, <1>2, <1>3 DEF Sound

(* The first job under fixed priorities is the foremost one.                *)
LEMMA FirstIsForemost ==
    ASSUME policy = "FixedPriority", Device(tasks, Local), Ranked(tasks, Local),
           NEW jobs \in SUBSET OpenJobs(Local), NEW x, NoneBefore(jobs, x)
    PROVE  Foremost(tasks, jobs, x)
  <1>1. x \in jobs /\ \A j \in jobs : ~ Before(j, x)
    BY DEF NoneBefore
  <1>2. ASSUME NEW j \in jobs
        PROVE  /\ tasks[x.task].priority <= tasks[j.task].priority
               /\ j.task = x.task => x.release <= j.release
    <2>1. x \in OpenJobs(Local) /\ j \in OpenJobs(Local) /\ ~ Before(j, x)
      BY <1>1
    <2>2. /\ x.release \in Nat /\ j.release \in Nat
          /\ tasks[x.task].priority \in Nat /\ tasks[j.task].priority \in Nat
      BY <2>1, KeysAreNatural
    <2>3. Rank(x) = tasks[x.task].priority /\ Rank(j) = tasks[j.task].priority
      BY DEF Rank
    <2> QED BY <2>1, <2>2, <2>3 DEF Before
  <1> QED BY <1>1, <1>2 DEF Foremost

(* The invariant holds at the start.                                        *)
LEMMA SoundAtStart ==
    ASSUME Device(tasks, Local), Ranked(tasks, Local), RefInit
    PROVE  Sound(tasks, Local, Here) /\ OneRuns
  <1> PICK s : s = Here
    OBVIOUS
  <1>1. /\ s.now = 0 /\ s.jobs = {} /\ s.response = [i \in DOMAIN tasks |-> 0]
        /\ \A k \in Local : s.next[k] = 0 /\ tasks[k].period \in Nat \ {0}
        /\ Regular(tasks, Local, s) /\ OneRuns
    BY RegularAtStart
  <1>2. tasks \in Seq(TimedTask)
    BY DEF Device
  <1>3. s.now <= Hyperperiod(tasks)
    BY <1>1, <1>2, HyperperiodIsMultiple
  <1>4. \A k \in Local : s.next[k] < s.now + tasks[k].period
    BY <1>1
  <1>5. ASSUME NEW i \in Local, NEW r, Bounds(tasks, Local, i, r)
        PROVE  Within(tasks, Local, i, s, r)
    <2> PICK hp : hp = Higher(tasks, Local, i)
      OBVIOUS
    <2>1. /\ r \in Nat /\ Demanded(tasks, i, Wcets(tasks), hp, r) <= r
          /\ Interference(tasks, Wcets(tasks), hp, r) \in Nat
          /\ Wcets(tasks)[i] \in Nat \ {0} /\ i \in DOMAIN tasks /\ hp \in SUBSET Local
      BY <1>5, HigherFacts DEF Bounds, Covers
    <2>2. r > 0
      BY <2>1 DEF Demanded
    <2>3. WorkLeft(s.jobs, hp) = 0 /\ WorkSince(tasks, s.next, 0, hp) \in Nat
      <3>1. JobsOf(s.jobs, hp) = {} /\ 0 \in 0 .. s.now
        BY <1>1 DEF JobsOf
      <3>2. WorkLeft(s.jobs, hp) = 0
        BY <3>1, SumOfNone DEF WorkLeft
      <3> QED BY <1>1, <2>1, <3>1, <3>2, RequestedIsNatural
    <2>4. BusyAbove(tasks, Local, i, s, r)
      BY <1>1, <2>1, <2>2, <2>3 DEF BusyAbove
    <2> QED BY <1>1, <2>1, <2>4 DEF Within
  <1>6. AtStart(Local, s)
    BY <1>1 DEF AtStart
  <1>7. Sound(tasks, Local, s)
    BY <1>1, <1>3, <1>4, <1>5, <1>6 DEF Sound, ReleasesOpen
  <1> QED BY <1>1, <1>7

(* RunJob keeps the invariant.                                              *)
LEMMA RunJobKeepsSound ==
    ASSUME policy = "FixedPriority", Device(tasks, Local), Ranked(tasks, Local), Local # {},
           Sound(tasks, Local, Here), OneRuns, RunJob
    PROVE  Sound(tasks, Local, Here)' /\ OneRuns'
  <1> PICK m : m = Releasing(tasks, Here, DueIn(Local, Here))
    OBVIOUS
  <1>1. Regular(tasks, Local, Here) /\ now <= Hyperperiod(tasks)
    BY DEF Sound, Here, Schedule
  <1>2. Prepared(tasks, Local, m) /\ Regular(tasks, Local, m)
    BY ReleasingPrepares DEF Prepared
  <1>3. PICK s, x, d :
           /\ Here' = s /\ NoneBefore(m.jobs, x)
           /\ Serves(tasks, Local, m, s, x, d) /\ Answers(tasks, m, s, x, d)
           /\ x.remaining # 0 => d # 0
           /\ s.now <= Hyperperiod(tasks) /\ OneRuns' /\ Local' = Local /\ tasks' = tasks
    BY <1>1, RunJobServes
  <1>4. x \in m.jobs /\ m.jobs \in SUBSET OpenJobs(Local)
    BY <1>2, <1>3 DEF NoneBefore, Regular
  <1>5. d # 0
    BY <1>2, <1>3, <1>4, RegularJobs
  <1>6. Runs(tasks, Local, m, s, x, d)
    BY <1>3, <1>4, <1>5, FirstIsForemost DEF Runs
  <1>7. Sound(tasks, Local, s)
    BY <1>2, <1>3, <1>6, RunKeepsSound
  <1>8. Sound(tasks, Local, Here)' <=> Sound(tasks, Local, s)
    BY <1>3
  <1> QED BY <1>3, <1>7, <1>8

(* Idle keeps it.                                                           *)
LEMMA IdleKeepsSound ==
    ASSUME policy = "FixedPriority", Device(tasks, Local), Ranked(tasks, Local), Local # {},
           Sound(tasks, Local, Here), OneRuns, Idle
    PROVE  Sound(tasks, Local, Here)' /\ OneRuns'
  <1> PICK m : m = Releasing(tasks, Here, DueIn(Local, Here))
    OBVIOUS
  <1>1. Regular(tasks, Local, Here) /\ now <= Hyperperiod(tasks)
    BY DEF Sound, Here, Schedule
  <1>2. PICK s, d : /\ Here' = s /\ Idles(tasks, Local, m, s, d) /\ s.now <= Hyperperiod(tasks)
                    /\ OneRuns' /\ Local' = Local /\ tasks' = tasks
    BY <1>1, IdleIdles
  <1>3. Prepared(tasks, Local, m)
    BY ReleasingPrepares
  <1>4. Sound(tasks, Local, s)
    BY <1>2, <1>3, IdlingKeepsSound
  <1>5. Sound(tasks, Local, Here)' <=> Sound(tasks, Local, s)
    BY <1>2
  <1> QED BY <1>2, <1>4, <1>5

(* What the property says of the responses.                                 *)
ExactResponses ==
    \A i \in Local :
        /\ Analysis(i).outcome = "Schedulable" => level1.response[i] = Analysis(i).response
        /\ Analysis(i).outcome = "DeadlineMiss" /\ EdfExactBound(LocalTasks) =>
              level1.response[i] > tasks[i].deadline

(* At the end of level 1 the first job of a task has answered, and what     *)
(* bounds its responses bounds them still.                                  *)
LEMMA AtTheEnd ==
    ASSUME policy = "FixedPriority", Device(tasks, Local), Ranked(tasks, Local), Local # {},
           Sound(tasks, Local, Here), OneRuns, StartLevel2, NEW i \in Local
    PROVE  /\ \A r : Bounds(tasks, Local, i, r) => level1.response[i] <= r
           /\ \A r \in Nat : /\ Precludes(tasks, Local, i, r)
                             /\ EdfExactBound(LocalTasks) \/ \E b : Bounds(tasks, Local, i, b)
                             => r <= level1.response[i]
  <1> PICK s : s = Here
    OBVIOUS
  <1>1. s.now = now /\ s.response = level1.response
    BY DEF Here, Schedule
  <1>2. /\ Regular(tasks, Local, s)
        /\ \A k \in Local : s.next[k] < s.now + tasks[k].period
        /\ \A r : Bounds(tasks, Local, i, r) => Within(tasks, Local, i, s, r)
        /\ \A r \in Nat : Precludes(tasks, Local, i, r) => ReleasesOpen(tasks, Local, i, s, r)
    BY DEF Sound
  <1>3. \A r : Bounds(tasks, Local, i, r) => level1.response[i] <= r
    BY <1>1, <1>2 DEF Within
  <1>4. ASSUME NEW r \in Nat, Precludes(tasks, Local, i, r),
               EdfExactBound(LocalTasks) \/ \E b : Bounds(tasks, Local, i, b)
        PROVE  r <= level1.response[i]
    <2>1. ASSUME now >= Horizon PROVE r <= level1.response[i]
      <3>1. tasks \in Seq(TimedTask) /\ Local \in SUBSET DOMAIN tasks
        BY DEF Device
      <3>2. /\ Hyperperiod(tasks) \in Nat \ {0}
            /\ \A k \in Local : Divides(tasks[k].period, Hyperperiod(tasks))
        BY <3>1, HyperperiodIsMultiple
      <3>3. now = Hyperperiod(tasks) /\ now # 0
        <4>1. now \in Nat /\ now <= Hyperperiod(tasks)
          BY <1>1, <1>2 DEF Sound, Regular
        <4> QED BY <2>1, <3>2, <4>1 DEF Horizon
      <3>4. \A k \in Local : s.next[k] < s.now + tasks[k].period /\ Divides(tasks[k].period, s.now)
        BY <1>1, <1>2, <3>2, <3>3
      <3>5. ~ FirstIsOpen(tasks, Local, i, s)
        <4>1. CASE EdfExactBound(LocalTasks)
          BY <1>2, <3>4, <4>1, OpenAtTheEnd
        <4>2. CASE \E b : Bounds(tasks, Local, i, b)
          BY <1>2, <3>4, <4>2, BoundedAtTheEnd
        <4> QED BY <1>4, <4>1, <4>2
      <3>6. ~ AtStart(Local, s)
        BY <1>1, <3>3 DEF AtStart
      <3> QED BY <1>1, <1>2, <1>4, <3>5, <3>6 DEF ReleasesOpen, FirstIsLate
    <2>2. ASSUME ContextSwitch(Waiting) = {} PROVE r <= level1.response[i]
      <3> PICK m : m = Releasing(tasks, Here, DueIn(Local, Here))
        OBVIOUS
      <3>1. /\ Prepared(tasks, Local, m) /\ m.response = level1.response
            /\ m.jobs = Waiting \cup runningJob /\ m.jobs \in SUBSET OpenJobs(Local)
        <4>1. Prepared(tasks, Local, m)
          BY ReleasingPrepares
        <4>2. Regular(tasks, Local, Here) /\ now <= Hyperperiod(tasks)
          BY DEF Sound, Here, Schedule
        <4> QED BY <4>1, <4>2, StepReleases
      <3>2. m.jobs = {}
        BY <2>2, <3>1, ContextSwitchIsFirst
      <3>3. FirstIsLate(tasks, Local, i, m, r)
        BY <1>4, <3>1 DEF Prepared
      <3> QED BY <3>1, <3>2, <3>3 DEF FirstIsLate, FirstIsOpen
    <2> QED BY <2>1, <2>2 DEF StartLevel2
  <1> QED BY <1>3, <1>4

(* So the responses are exact then.                                         *)
LEMMA EndIsExact ==
    ASSUME policy = "FixedPriority", Device(tasks, Local), Ranked(tasks, Local), Local # {}, Constrained,
           Sound(tasks, Local, Here), OneRuns, StartLevel2
    PROVE  ExactResponses
  <1> SUFFICES ASSUME NEW i \in Local
               PROVE  /\ Analysis(i).outcome = "Schedulable" =>
                            level1.response[i] = Analysis(i).response
                      /\ Analysis(i).outcome = "DeadlineMiss" /\ EdfExactBound(LocalTasks) =>
                            level1.response[i] > tasks[i].deadline
    BY DEF ExactResponses
  <1>1. tasks[i].deadline \in Nat /\ tasks[i].deadline <= tasks[i].period /\ tasks[i].period \in Nat
    <2>1. tasks \in Seq(TimedTask) /\ i \in DOMAIN tasks
      BY DEF Device
    <2>2. tasks[i] \in TimedTask
      BY <2>1, TaskFacts
    <2> QED BY <2>2 DEF TimedTask, Constrained
  <1>2. level1.response[i] \in Nat
    <2>1. i \in DOMAIN tasks /\ Here.response \in [DOMAIN tasks -> Nat]
      BY DEF Device, Sound, Regular
    <2> QED BY <2>1 DEF Here, Schedule
  <1>3. ASSUME Analysis(i).outcome = "Schedulable"
        PROVE  level1.response[i] = Analysis(i).response
    <2> PICK r : r = Analysis(i).response
      OBVIOUS
    <2>1. /\ Covers(tasks, i, Wcets(tasks), Higher(tasks, Local, i), r)
          /\ r <= tasks[i].deadline /\ Precludes(tasks, Local, i, r)
      BY <1>3, AnalysisMeans
    <2>2. r \in Nat
      BY <2>1 DEF Covers
    <2>3. Bounds(tasks, Local, i, r)
      BY <1>1, <2>1, <2>2 DEF Bounds
    <2>4. level1.response[i] <= r /\ r <= level1.response[i]
      BY <2>1, <2>2, <2>3, AtTheEnd
    <2> QED BY <1>2, <2>2, <2>4
  <1>4. ASSUME Analysis(i).outcome = "DeadlineMiss", EdfExactBound(LocalTasks)
        PROVE  level1.response[i] > tasks[i].deadline
    <2> PICK r : r = tasks[i].deadline + 1
      OBVIOUS
    <2>1. r \in Nat /\ Precludes(tasks, Local, i, r)
      BY <1>1, <1>4, AnalysisMeans
    <2>2. r <= level1.response[i]
      BY <1>4, <2>1, AtTheEnd
    <2> QED BY <1>1, <1>2, <2>2
  <1> QED BY <1>3, <1>4

-----------------------------------------------------------------------------
(* Exactness                                                                *)

(* A task with nothing to do would be served too, when its job comes to the *)
(* processor, which the analysis does not count.                            *)
PositiveWcets == \A set \in TaskSets : \A k \in DOMAIN set : set[k].wcet # 0

(* The invariant behind the property.                                       *)
ExactIInv ==
    /\ tasks \in TaskSets /\ Local # {} /\ stage \in {"level1", "level2", "done"}
    /\ policy = "FixedPriority" /\ Constrained /\ Distinct =>
          IF stage = "level1" THEN Sound(tasks, Local, Here) /\ OneRuns ELSE ExactResponses

(* What is simulated is a device, as the proofs assume it.                  *)
LEMMA FocusIsDevice ==
    ASSUME PositiveWcets, tasks \in TaskSets, Distinct
    PROVE  Device(tasks, Local) /\ Ranked(tasks, Local)
  <1>1. tasks \in Seq(TimedTask)
    BY TaskSetsAssumption
  <1>2. Local \in SUBSET DOMAIN tasks
    BY DEF Local
  <1>3. \A k \in Local : tasks[k].wcet # 0
    BY <1>2 DEF PositiveWcets
  <1> QED BY <1>1, <1>2, <1>3 DEF Device, Ranked, Distinct

(* Response-time analysis is exact, for every task set with work to do: an  *)
(* accepted task's fixed point is the greatest response of level1.rs from a *)
(* synchronous release over the hyperperiod, and a rejected task of a       *)
(* device that is not overloaded has a response beyond its deadline.        *)
THEOREM ResponseTimesAreAlwaysExact ==
    PositiveWcets => (RefSpec => []ResponseTimesAreExact)
  <1> SUFFICES ASSUME PositiveWcets PROVE RefSpec => []ResponseTimesAreExact
    OBVIOUS
  <1>1. RefInit => ExactIInv
    <2> SUFFICES ASSUME RefInit PROVE ExactIInv
      OBVIOUS
    <2>1. tasks \in TaskSets /\ Local # {} /\ stage = "level1"
      BY DEF RefInit
    <2>2. ASSUME Distinct PROVE Sound(tasks, Local, Here) /\ OneRuns
      BY <2>1, <2>2, FocusIsDevice, SoundAtStart
    <2> QED BY <2>1, <2>2 DEF ExactIInv
  <1>2. ExactIInv /\ [RefNext]_refVars => ExactIInv'
    <2> SUFFICES ASSUME ExactIInv, [RefNext]_refVars PROVE ExactIInv'
      OBVIOUS
    <2>0. tasks \in TaskSets /\ Local # {}
      BY DEF ExactIInv
    <2>1. tasks' = tasks /\ policy' = policy /\ focus' = focus
      BY DEF RefNext, refVars, RunJob, Idle, StartLevel2, Tick, Finish
    <2>2. /\ Local' = Local /\ Constrained' = Constrained /\ Distinct' = Distinct
          /\ \A i : Analysis(i)' = Analysis(i)
          /\ EdfExactBound(LocalTasks)' = EdfExactBound(LocalTasks)
      BY <2>1 DEF Local, Constrained, Distinct, Analysis, LocalTasks, Place
    <2>3. SUFFICES ASSUME policy = "FixedPriority", Constrained, Distinct
                   PROVE  /\ stage' \in {"level1", "level2", "done"}
                          /\ stage' = "level1" => Sound(tasks, Local, Here)' /\ OneRuns'
                          /\ stage' # "level1" => ExactResponses'
      <3>1. stage' \in {"level1", "level2", "done"}
        BY DEF ExactIInv, RefNext, refVars, RunJob, Idle, StartLevel2, Tick, Finish
      <3> QED BY <2>0, <2>1, <2>2, <2>3, <3>1 DEF ExactIInv
    <2>4. Device(tasks, Local) /\ Ranked(tasks, Local)
      BY <2>0, <2>3, FocusIsDevice
    <2>5. /\ stage = "level1" => Sound(tasks, Local, Here) /\ OneRuns
          /\ stage # "level1" => ExactResponses
          /\ stage \in {"level1", "level2", "done"}
      BY <2>3 DEF ExactIInv
    <2>6. level1' = level1 /\ ExactResponses => ExactResponses'
      BY <2>1, <2>2 DEF ExactResponses
    <2>7. ASSUME RunJob
          PROVE  stage' = "level1" /\ Sound(tasks, Local, Here)' /\ OneRuns'
      <3>1. stage = "level1" /\ stage' = "level1"
        BY <2>7 DEF RunJob
      <3> QED BY <2>0, <2>3, <2>4, <2>5, <2>7, <3>1, RunJobKeepsSound
    <2>8. ASSUME Idle
          PROVE  stage' = "level1" /\ Sound(tasks, Local, Here)' /\ OneRuns'
      <3>1. stage = "level1" /\ stage' = "level1"
        BY <2>8 DEF Idle
      <3> QED BY <2>0, <2>3, <2>4, <2>5, <2>8, <3>1, IdleKeepsSound
    <2>9. ASSUME StartLevel2 PROVE stage' = "level2" /\ ExactResponses'
      <3>1. stage = "level1" /\ stage' = "level2" /\ level1' = level1
        BY <2>9 DEF StartLevel2
      <3>2. ExactResponses
        BY <2>0, <2>3, <2>4, <2>5, <2>9, <3>1, EndIsExact
      <3> QED BY <2>6, <3>1, <3>2
    <2>10. ASSUME Tick \/ Finish PROVE stage' \in {"level2", "done"} /\ ExactResponses'
      <3>1. stage = "level2" /\ stage' \in {"level2", "done"} /\ level1' = level1
        BY <2>10 DEF Tick, Finish
      <3> QED BY <2>5, <2>6, <3>1
    <2>11. CASE UNCHANGED refVars
      <3>1. /\ stage' = stage /\ level1' = level1 /\ now' = now /\ nextReleases' = nextReleases
            /\ ready' = ready /\ runningJob' = runningJob
        BY <2>11 DEF refVars
      <3>2. Here' = Here /\ (OneRuns <=> OneRuns')
        BY <3>1 DEF Here, OneRuns
      <3>3. Sound(tasks, Local, Here)' <=> Sound(tasks, Local, Here)
        BY <2>1, <2>2, <3>2
      <3> QED BY <2>5, <2>6, <3>1, <3>2, <3>3
    <2> QED BY <2>7, <2>8, <2>9, <2>10, <2>11 DEF RefNext
  <1>3. ExactIInv => ResponseTimesAreExact
    BY DEF ExactIInv, ResponseTimesAreExact, ExactResponses, Simulated
  <1> QED BY <1>1, <1>2, <1>3, PTL DEF RefSpec

-----------------------------------------------------------------------------
(* Earliest deadline first                                                  *)

(* With implicit deadlines, the work of the jobs that are due by D, and of  *)
(* those still to be released,                                              *)
Implied(tsk, loc) == \A k \in loc : tsk[k].deadline = tsk[k].period
DueBy(s, D) == [s EXCEPT !.jobs = {j \in s.jobs : j.deadline <= D}]
ToCome(tsk, next, D) ==
    [k \in DOMAIN tsk |->
        IF next[k] <= D THEN ((D - next[k]) \div tsk[k].period) * tsk[k].wcet ELSE 0]
WorkToCome(tsk, loc, next, D) == SumOver(ToCome(tsk, next, D), loc)

(* fits in the time until D, for every D.                                   *)
Fits(tsk, loc, s, D) ==
    WorkLeft(DueBy(s, D).jobs, loc) + WorkToCome(tsk, loc, s.next, D) + s.now <= D
Timely(tsk, loc, s) ==
    /\ Regular(tsk, loc, s)
    /\ \A D \in Nat : s.now <= D => Fits(tsk, loc, s, D)
    /\ \A j \in s.jobs : s.now <= j.deadline

(* A device that is not overloaded.                                         *)
Schedulable(tsk, loc) == \A h \in Nat : SumOver(LoadIn(tsk, h), loc) <= h

(* Work to come is a number, task by task.                                  *)
LEMMA ToComeIsNatural ==
    ASSUME NEW tsk, NEW loc, Device(tsk, loc), NEW next \in [DOMAIN tsk -> Nat], NEW D \in Nat
    PROVE  /\ Counted(ToCome(tsk, next, D), loc) /\ WorkToCome(tsk, loc, next, D) \in Nat
           /\ \A h \in Nat : Counted(LoadIn(tsk, h), loc) /\ SumOver(LoadIn(tsk, h), loc) \in Nat
           /\ \A k \in loc : k \in DOMAIN tsk /\ tsk[k].period \in Nat \ {0} /\ tsk[k].wcet \in Nat
  <1>1. /\ tsk \in Seq(TimedTask) /\ \A k \in loc : k \in DOMAIN tsk
        /\ IsFiniteSet(loc)
    <2>1. tsk \in Seq(TimedTask) /\ loc \in SUBSET DOMAIN tsk
      BY DEF Device
    <2> QED BY <2>1, TaskFacts, FS_Subset
  <1>2. \A k \in loc : tsk[k].period \in Nat \ {0} /\ tsk[k].wcet \in Nat
    BY <1>1, TaskFacts DEF TimedTask
  <1>3. ASSUME NEW k \in loc, NEW h \in Nat
        PROVE  (h \div tsk[k].period) * tsk[k].wcet \in Nat
    <2> PICK q : q = h \div tsk[k].period
      OBVIOUS
    <2>1. q \in Nat /\ tsk[k].wcet \in Nat
      BY <1>2, QuotientBounds
    <2>2. q * tsk[k].wcet \in Nat
      BY <2>1
    <2> QED BY <2>2
  <1>4. ASSUME NEW k \in loc PROVE ToCome(tsk, next, D)[k] \in Nat
    <2>1. CASE next[k] <= D
      <3>1. D - next[k] \in Nat
        BY <1>1, <2>1
      <3> QED BY <1>1, <1>3, <2>1, <3>1 DEF ToCome
    <2>2. CASE ~ (next[k] <= D)
      BY <1>1, <2>2 DEF ToCome
    <2> QED BY <2>1, <2>2
  <1>5. Counted(ToCome(tsk, next, D), loc)
    BY <1>1, <1>4 DEF Counted
  <1>6. ASSUME NEW h \in Nat PROVE Counted(LoadIn(tsk, h), loc) /\ SumOver(LoadIn(tsk, h), loc) \in Nat
    <2>1. \A k \in loc : LoadIn(tsk, h)[k] \in Nat
      BY <1>1, <1>3 DEF LoadIn
    <2>2. Counted(LoadIn(tsk, h), loc)
      BY <1>1, <2>1 DEF Counted
    <2> QED BY <2>2, SumWithout
  <1>7. WorkToCome(tsk, loc, next, D) \in Nat
    BY <1>5, SumWithout DEF WorkToCome
  <1> QED BY <1>1, <1>2, <1>5, <1>6, <1>7

(* What is released from t on and due by D fits in between.                 *)
LEMMA ToComeFits ==
    ASSUME NEW tsk, NEW loc, Device(tsk, loc), Schedulable(tsk, loc),
           NEW next \in [DOMAIN tsk -> Nat], NEW D \in Nat, NEW t \in Nat, t <= D,
           \A k \in loc : t <= next[k]
    PROVE  WorkToCome(tsk, loc, next, D) + t <= D
  <1> PICK h : h = D - t
    OBVIOUS
  <1> PICK f : f = ToCome(tsk, next, D)
    OBVIOUS
  <1> PICK g : g = LoadIn(tsk, h)
    OBVIOUS
  <1>1. h \in Nat
    OBVIOUS
  <1>2. /\ Counted(f, loc) /\ Counted(g, loc) /\ SumOver(f, loc) \in Nat /\ SumOver(g, loc) \in Nat
        /\ \A k \in loc : k \in DOMAIN tsk /\ tsk[k].period \in Nat \ {0} /\ tsk[k].wcet \in Nat
    BY <1>1, ToComeIsNatural DEF WorkToCome
  <1>3. ASSUME NEW k \in loc PROVE f[k] = 0 \/ f[k] <= g[k]
    <2>1. CASE next[k] <= D
      <3> PICK T, C, n : T = tsk[k].period /\ C = tsk[k].wcet /\ n = next[k]
        OBVIOUS
      <3> PICK p : p = (D - n) \div T
        OBVIOUS
      <3> PICK q : q = h \div T
        OBVIOUS
      <3>1. T \in Nat \ {0} /\ C \in Nat /\ n \in Nat /\ t <= n /\ n <= D /\ D - n \in Nat
        BY <1>2, <2>1
      <3>2. p \in Nat /\ T * p <= D - n /\ q \in Nat
        BY <1>1, <3>1, QuotientBounds
      <3>3. T * p <= h
        <4>1. T * p \in Nat /\ D - n <= h
          BY <3>1, <3>2
        <4> QED BY <1>1, <3>1, <3>2, <4>1
      <3>4. p <= q
        BY <1>1, <3>1, <3>2, <3>3, QuotientIsGreatest
      <3>5. p * C <= q * C
        BY <3>1, <3>2, <3>4
      <3>6. f[k] = p * C
        BY <1>2, <2>1 DEF ToCome
      <3>7. g[k] = q * C
        BY <1>2 DEF LoadIn
      <3> QED BY <3>5, <3>6, <3>7
    <2>2. CASE ~ (next[k] <= D)
      BY <1>2, <2>2 DEF ToCome
    <2> QED BY <2>1, <2>2
  <1>4. SumOver(f, loc) <= SumOver(g, loc)
    <2>1. Dominates(g, loc, f, loc)
      BY <1>3 DEF Dominates
    <2> QED BY <1>2, <2>1, SumIsMonotone
  <1>5. SumOver(g, loc) <= h
    BY <1>1 DEF Schedulable
  <1> PICK a, b : a = SumOver(f, loc) /\ b = SumOver(g, loc)
    OBVIOUS
  <1>6. a \in Nat /\ b \in Nat /\ a <= b /\ b <= h
    BY <1>2, <1>4, <1>5
  <1>7. a + t <= D
    BY <1>1, <1>6
  <1> QED BY <1>7 DEF WorkToCome

(* A regular schedule is one without the jobs due later.                    *)
LEMMA DueByIsRegular ==
    ASSUME NEW tsk, NEW loc, NEW s, Regular(tsk, loc, s), NEW D
    PROVE  /\ Regular(tsk, loc, DueBy(s, D))
           /\ DueBy(s, D).now = s.now /\ DueBy(s, D).next = s.next
           /\ DueBy(s, D).jobs = {j \in s.jobs : j.deadline <= D}
  <1> PICK r : r = DueBy(s, D)
    OBVIOUS
  <1>1. /\ r.now = s.now /\ r.next = s.next /\ r.response = s.response
        /\ r.jobs = {j \in s.jobs : j.deadline <= D}
    BY DEF DueBy
  <1>2. IsFiniteSet(r.jobs)
    <2>1. IsFiniteSet(s.jobs) /\ r.jobs \in SUBSET s.jobs
      BY <1>1 DEF Regular
    <2> QED BY <2>1, FS_Subset
  <1>3. Regular(tsk, loc, r)
    BY <1>1, <1>2 DEF Regular, Known
  <1> QED BY <1>1, <1>3

(* Releases move work from what is to come to what is left, if it is due.   *)
LEMMA ReleasingMovesWork ==
    ASSUME NEW tsk, NEW loc, Device(tsk, loc), Implied(tsk, loc), NEW s, Regular(tsk, loc, s),
           NEW D \in Nat, s.now <= D
    PROVE  LET m == Releasing(tsk, s, DueIn(loc, s))
           IN WorkLeft(DueBy(m, D).jobs, loc) + WorkToCome(tsk, loc, m.next, D)
                 = WorkLeft(DueBy(s, D).jobs, loc) + WorkToCome(tsk, loc, s.next, D)
  <1> PICK U : U = DueIn(loc, s)
    OBVIOUS
  <1> PICK m : m = Releasing(tsk, s, U)
    OBVIOUS
  <1> PICK V : V = {k \in U : s.now + tsk[k].period <= D}
    OBVIOUS
  <1> PICK sd : sd = DueBy(s, D)
    OBVIOUS
  <1> PICK md : md = Releasing(tsk, sd, V)
    OBVIOUS
  <1>1. /\ s.now \in Nat /\ s.next \in [DOMAIN tsk -> Nat]
        /\ \A k \in loc : k \in DOMAIN tsk /\ tsk[k].period \in Nat \ {0} /\ tsk[k].wcet \in Nat
        /\ \A k \in loc : s.now <= s.next[k] /\ s.next[k] <= s.now + tsk[k].period
    <2>1. s.now \in Nat /\ s.next \in [DOMAIN tsk -> Nat]
      BY DEF Regular
    <2> QED BY <2>1, ToComeIsNatural DEF Regular
  <1>2. DueBy(s, D).now = s.now /\ sd.next = s.next /\ sd.response = s.response
        /\ sd.jobs = {j \in s.jobs : j.deadline <= D}
    BY DEF DueBy
  <1>3. Regular(tsk, loc, sd)
    BY DueByIsRegular
  <1>4. V \in SUBSET DueIn(loc, sd) /\ s.now \in 0 .. sd.now
    BY <1>1, <1>2 DEF DueIn
  <1>5. WorkLeft(md.jobs, loc) + WorkSince(tsk, s.next, s.now, loc)
           = WorkLeft(sd.jobs, loc) + WorkSince(tsk, md.next, s.now, loc)
        /\ WorkLeft(md.jobs, loc) \in Nat /\ WorkLeft(sd.jobs, loc) \in Nat
        /\ WorkSince(tsk, s.next, s.now, loc) \in Nat /\ WorkSince(tsk, md.next, s.now, loc) \in Nat
    <2> PICK b : b = s.now
      OBVIOUS
    <2>1. loc \in SUBSET loc /\ b \in 0 .. sd.now /\ V \in SUBSET DueIn(loc, sd)
      BY <1>4
    <2>2. LET q == Releasing(tsk, sd, V)
          IN /\ WorkLeft(q.jobs, loc) + WorkSince(tsk, sd.next, b, loc)
                   = WorkLeft(sd.jobs, loc) + WorkSince(tsk, q.next, b, loc)
             /\ WorkLeft(sd.jobs, loc) \in Nat /\ WorkSince(tsk, sd.next, b, loc) \in Nat
             /\ WorkLeft(q.jobs, loc) \in Nat /\ WorkSince(tsk, q.next, b, loc) \in Nat
      BY <1>3, <2>1, ReleasesAddWork
    <2>3. sd.next = s.next
      BY <1>2
    <2> QED BY <2>2, <2>3
  <1>6. md.jobs = DueBy(m, D).jobs
    <2>1. md.jobs = sd.jobs \cup {JobFor(tsk, s.now, k) : k \in V}
      BY <1>2 DEF Releasing, Schedule
    <2>2. m.jobs = s.jobs \cup {JobFor(tsk, s.now, k) : k \in U}
      BY DEF Releasing, Schedule
    <2>3. \A k \in U : JobFor(tsk, s.now, k).deadline = s.now + tsk[k].period
      BY DEF JobFor, Implied, DueIn
    <2>4. DueBy(m, D).jobs = {j \in m.jobs : j.deadline <= D}
      BY DEF DueBy
    <2> QED BY <1>2, <2>1, <2>2, <2>3, <2>4
  <1>7. /\ m.next = [k \in DOMAIN tsk |-> IF k \in U THEN s.now + tsk[k].period ELSE s.next[k]]
        /\ md.next = [k \in DOMAIN tsk |-> IF k \in V THEN s.now + tsk[k].period ELSE s.next[k]]
    BY <1>2 DEF Releasing, Schedule
  <1>8. m.next \in [DOMAIN tsk -> Nat] /\ md.next \in [DOMAIN tsk -> Nat]
    <2>1. \A k \in U : s.now + tsk[k].period \in Nat
      BY <1>1 DEF DueIn
    <2>2. \A k \in V : s.now + tsk[k].period \in Nat
      BY <2>1
    <2>3. m.next \in [DOMAIN tsk -> Nat]
      BY <1>1, <1>7, <2>1
    <2>4. md.next \in [DOMAIN tsk -> Nat]
      <3>1. \A k \in DOMAIN tsk : (IF k \in V THEN s.now + tsk[k].period ELSE s.next[k]) \in Nat
        BY <1>1, <2>2
      <3> QED BY <1>7, <3>1
    <2> QED BY <2>3, <2>4
  <1> PICK r : r = Requested(tsk, s.next, s.now)
    OBVIOUS
  <1> PICK rd : rd = Requested(tsk, md.next, s.now)
    OBVIOUS
  <1> PICK f : f = ToCome(tsk, s.next, D)
    OBVIOUS
  <1> PICK fd : fd = ToCome(tsk, m.next, D)
    OBVIOUS
  <1>9. Counted(f, loc) /\ Counted(fd, loc)
    BY <1>1, <1>8, ToComeIsNatural
  <1>10. Counted(r, loc) /\ Counted(rd, loc)
    <2>2. ASSUME NEW k \in loc PROVE r[k] \in Nat /\ rd[k] \in Nat
      <3>1. s.next[k] - s.now \in Nat /\ md.next[k] - s.now \in Nat
        <4>1. k \in V => md.next[k] = s.now + tsk[k].period
          BY <1>1, <1>7
        <4>2. k \notin V => md.next[k] = s.next[k]
          BY <1>1, <1>7
        <4> QED BY <1>1, <4>1, <4>2
      <3> PICK p, q : p = (s.next[k] - s.now) \div tsk[k].period
                      /\ q = (md.next[k] - s.now) \div tsk[k].period
        OBVIOUS
      <3>2. p \in Nat /\ q \in Nat
        BY <1>1, <3>1, QuotientBounds
      <3>3. p * tsk[k].wcet \in Nat /\ q * tsk[k].wcet \in Nat
        BY <1>1, <3>2
      <3> QED BY <1>1, <3>3 DEF Requested
    <2>3. IsFiniteSet(loc)
      BY <1>9 DEF Counted
    <2> QED BY <2>2, <2>3 DEF Counted
  <1>11. ASSUME NEW k \in loc PROVE f[k] + r[k] = fd[k] + rd[k]
    <2> PICK T, C, n, t : T = tsk[k].period /\ C = tsk[k].wcet /\ n = s.next[k] /\ t = s.now
      OBVIOUS
    <2>1. T \in Nat \ {0} /\ C \in Nat /\ n \in Nat /\ t \in Nat /\ k \in DOMAIN tsk /\ t <= D
      BY <1>1
    <2>2. /\ f[k] = IF n <= D THEN ((D - n) \div T) * C ELSE 0
          /\ fd[k] = IF m.next[k] <= D THEN ((D - m.next[k]) \div T) * C ELSE 0
          /\ r[k] = ((n - t) \div T) * C /\ rd[k] = ((md.next[k] - t) \div T) * C
      BY <2>1 DEF ToCome, Requested
    <2>3. CASE k \notin U
      <3>1. m.next[k] = n /\ md.next[k] = n
        BY <1>7, <2>1, <2>3
      <3> QED BY <2>2, <3>1
    <2>4. CASE k \in V
      <3>1. m.next[k] = t + T /\ md.next[k] = t + T /\ n = t /\ t + T <= D
        BY <1>7, <2>1, <2>4 DEF DueIn
      <3> PICK e : e = D - (t + T)
        OBVIOUS
      <3>2. e \in Nat /\ D - t = e + T /\ (t + T) - t = T /\ t - t = 0
        BY <2>1, <3>1
      <3>3. (e + T) \div T = (e \div T) + 1 /\ T \div T = 1 /\ 0 \div T = 0
        <4> PICK z : z = 0
          OBVIOUS
        <4>1. (e + T) \div T = (e \div T) + 1
          BY <2>1, <3>2, OnePeriodMore
        <4>2. (z + T) \div T = (z \div T) + 1
          BY <2>1, OnePeriodMore
        <4>3. z \div T = 0 /\ z + T = T
          BY <2>1
        <4> QED BY <4>1, <4>2, <4>3
      <3> PICK p : p = e \div T
        OBVIOUS
      <3>4. p \in Nat
        BY <2>1, <3>2, QuotientBounds
      <3>5. f[k] = (p + 1) * C /\ r[k] = 0 * C
        BY <2>1, <2>2, <3>1, <3>2, <3>3
      <3>6. fd[k] = p * C /\ rd[k] = 1 * C
        BY <2>1, <2>2, <3>1, <3>2, <3>3
      <3>7. (p + 1) * C = p * C + C /\ p * C \in Nat
        BY <2>1, <3>4
      <3> QED BY <2>1, <3>5, <3>6, <3>7
    <2>5. CASE k \in U \ V
      <3>1. m.next[k] = t + T /\ md.next[k] = n /\ n = t /\ ~ (t + T <= D)
        BY <1>7, <2>1, <2>5 DEF DueIn
      <3> PICK e : e = D - t
        OBVIOUS
      <3>2. e \in Nat /\ e < T
        BY <2>1, <3>1
      <3>3. e \div T = 0
        BY <2>1, <3>2
      <3>4. f[k] = 0 * C /\ fd[k] = 0
        BY <2>1, <2>2, <3>1, <3>2, <3>3
      <3>5. rd[k] = r[k] /\ r[k] \in Nat
        BY <1>10, <2>2, <3>1 DEF Counted
      <3> QED BY <2>1, <3>4, <3>5
    <2> QED BY <2>3, <2>4, <2>5
  <1>12. SumOver(f, loc) + SumOver(r, loc) = SumOver(fd, loc) + SumOver(rd, loc)
    BY <1>9, <1>10, <1>11, SumsBalance
  <1>13. WorkToCome(tsk, loc, s.next, D) \in Nat /\ WorkToCome(tsk, loc, m.next, D) \in Nat
    BY <1>1, <1>8, ToComeIsNatural
  <1> PICK a, b, a2, b2, c, e, c2, e2 :
           /\ a = WorkLeft(md.jobs, loc) /\ b = SumOver(r, loc)
           /\ a2 = WorkLeft(sd.jobs, loc) /\ b2 = SumOver(rd, loc)
           /\ c = SumOver(f, loc) /\ c2 = SumOver(fd, loc) /\ e = 0 /\ e2 = 0
    OBVIOUS
  <1>14. /\ a \in Nat /\ b \in Nat /\ a2 \in Nat /\ b2 \in Nat /\ c \in Nat /\ c2 \in Nat
         /\ a + b = a2 + b2 /\ c + b = c2 + b2
    BY <1>5, <1>12, <1>13 DEF WorkSince, WorkToCome
  <1>15. a + c2 = a2 + c
    BY <1>14
  <1> QED BY <1>6, <1>15 DEF WorkToCome

(* Releases keep a schedule timely,                                         *)
LEMMA ReleasingKeepsTimely ==
    ASSUME NEW tsk, NEW loc, Device(tsk, loc), Implied(tsk, loc), NEW s, Timely(tsk, loc, s)
    PROVE  LET m == Releasing(tsk, s, DueIn(loc, s))
           IN Timely(tsk, loc, m) /\ \A k \in loc : m.now <= m.next[k]
  <1> PICK m : m = Releasing(tsk, s, DueIn(loc, s))
    OBVIOUS
  <1>1. Regular(tsk, loc, s) /\ s.now \in Nat
    BY DEF Timely, Regular
  <1>2. /\ Regular(tsk, loc, m) /\ m.now = s.now /\ \A k \in loc : m.now <= m.next[k]
    <2>1. Regular(tsk, loc, m) /\ m.now = s.now
      BY <1>1, ReleasingIsRegular
    <2> QED BY <2>1 DEF Regular
  <1>3. ASSUME NEW D \in Nat, m.now <= D PROVE Fits(tsk, loc, m, D)
    <2>1. s.now <= D
      BY <1>2, <1>3
    <2>2. Fits(tsk, loc, s, D)
      BY <2>1 DEF Timely
    <2>3. WorkLeft(DueBy(m, D).jobs, loc) + WorkToCome(tsk, loc, m.next, D)
             = WorkLeft(DueBy(s, D).jobs, loc) + WorkToCome(tsk, loc, s.next, D)
      BY <1>1, <2>1, ReleasingMovesWork
    <2> QED BY <1>2, <2>2, <2>3 DEF Fits
  <1>4. ASSUME NEW j \in m.jobs PROVE m.now <= j.deadline
    <2>1. m.jobs = s.jobs \cup {JobFor(tsk, s.now, k) : k \in DueIn(loc, s)}
      BY DEF Releasing, Schedule
    <2>2. CASE j \in s.jobs
      BY <1>2, <2>2 DEF Timely
    <2>3. CASE j \notin s.jobs
      <3>1. PICK k \in loc : j = JobFor(tsk, s.now, k)
        BY <2>1, <2>3 DEF DueIn
      <3>2. j.deadline = s.now + tsk[k].period
        BY <3>1 DEF JobFor, Implied
      <3>3. tsk[k].period \in Nat
        BY <1>1, ToComeIsNatural DEF Regular
      <3> QED BY <1>1, <1>2, <3>2, <3>3
    <2> QED BY <2>2, <2>3
  <1> QED BY <1>2, <1>3, <1>4 DEF Timely

(* A run serves the job with the earliest deadline,                         *)
Earliest(jobs, x) == x \in jobs /\ \A j \in jobs : x.deadline <= j.deadline

(* ends before that,                                                        *)
LEMMA ServingMeetsDeadline ==
    ASSUME NEW tsk, NEW loc, Device(tsk, loc), NEW m, Timely(tsk, loc, m),
           NEW s, NEW x, NEW d, Serves(tsk, loc, m, s, x, d)
    PROVE  s.now <= x.deadline
  <1>1. Regular(tsk, loc, m) /\ x \in m.jobs /\ d \in Nat /\ d <= x.remaining /\ s.now = m.now + d
    BY DEF Timely, Serves
  <1> PICK D : D = x.deadline
    OBVIOUS
  <1> PICK md : md = DueBy(m, D)
    OBVIOUS
  <1>2. D \in Nat /\ x.task \in loc /\ x.remaining \in Nat /\ m.now \in Nat
        /\ m.next \in [DOMAIN tsk -> Nat]
    BY <1>1, RegularJobs DEF Regular
  <1>3. WorkLeft(md.jobs, loc) + WorkToCome(tsk, loc, m.next, D) + m.now <= D
    <2>1. m.now <= D
      BY <1>1 DEF Timely
    <2> QED BY <1>2, <2>1 DEF Timely, Fits
  <1>4. IsFiniteSet(md.jobs) /\ md.jobs \in SUBSET OpenJobs(loc) /\ x \in md.jobs
    <2>1. Regular(tsk, loc, md) /\ md.jobs = {j \in m.jobs : j.deadline <= D}
      BY <1>1, DueByIsRegular
    <2> QED BY <1>1, <1>2, <2>1 DEF Regular
  <1> PICK a, b, c : /\ a = WorkLeft(md.jobs, loc) /\ b = WorkLeft(md.jobs \ {x}, loc)
                     /\ c = WorkToCome(tsk, loc, m.next, D)
    OBVIOUS
  <1>5. b \in Nat /\ a = x.remaining + b
    BY <1>2, <1>4, WorkLeftWithout
  <1>6. c \in Nat
    BY <1>2, ToComeIsNatural
  <1>7. a + c + m.now <= D
    BY <1>3
  <1> PICK e, t : e = x.remaining /\ t = m.now
    OBVIOUS
  <1>8. e \in Nat /\ t \in Nat /\ d \in Nat /\ d <= e /\ e + b + c + t <= D
    BY <1>1, <1>2, <1>5, <1>7
  <1>9. t + d <= D
    BY <1>2, <1>5, <1>6, <1>8
  <1> QED BY <1>1, <1>9

(* and keeps the schedule timely.                                           *)
LEMMA ServingKeepsTimely ==
    ASSUME NEW tsk, NEW loc, Device(tsk, loc), Schedulable(tsk, loc), NEW m, Timely(tsk, loc, m),
           NEW s, NEW x, NEW d, Serves(tsk, loc, m, s, x, d), Earliest(m.jobs, x)
    PROVE  Timely(tsk, loc, s)
  <1>1. /\ Regular(tsk, loc, m) /\ x \in m.jobs /\ d \in Nat /\ d <= x.remaining
        /\ s.now = m.now + d /\ s.next = m.next /\ s.jobs = (m.jobs \ {x}) \cup LeftOf(x, d)
        /\ m.now \in Nat
    BY DEF Timely, Serves, Regular
  <1>2. Regular(tsk, loc, s) /\ s.now <= x.deadline /\ s.now \in Nat
        /\ m.next \in [DOMAIN tsk -> Nat] /\ \A k \in loc : s.now <= s.next[k]
    <2>1. Regular(tsk, loc, s)
      BY <1>1, ServingIsRegular
    <2>2. s.now <= x.deadline
      BY ServingMeetsDeadline
    <2> QED BY <1>1, <2>1, <2>2 DEF Regular
  <1>3. /\ x.deadline \in Nat /\ x.task \in loc /\ x \in OpenJobs(loc)
        /\ \A j \in m.jobs : j.deadline \in Nat /\ x.deadline <= j.deadline
    BY <1>1, RegularJobs DEF Earliest
  <1>4. ASSUME NEW y \in LeftOf(x, d)
        PROVE  y = [x EXCEPT !.remaining = @ - d] /\ y.deadline = x.deadline /\ x.remaining # d
    BY <1>3, <1>4 DEF LeftOf, OpenJobs
  <1>5. ASSUME NEW j \in s.jobs PROVE s.now <= j.deadline /\ x.deadline <= j.deadline
    <2>1. CASE j \in m.jobs
      <3>1. x.deadline <= j.deadline /\ j.deadline \in Nat
        BY <1>3, <2>1
      <3> QED BY <1>2, <1>3, <3>1
    <2>2. CASE j \notin m.jobs
      BY <1>1, <1>2, <1>3, <1>4, <2>2
    <2> QED BY <2>1, <2>2
  <1>6. ASSUME NEW D \in Nat, s.now <= D PROVE Fits(tsk, loc, s, D)
    <2> PICK sd : sd = DueBy(s, D)
      OBVIOUS
    <2> PICK md : md = DueBy(m, D)
      OBVIOUS
    <2>1. /\ sd.jobs = {j \in s.jobs : j.deadline <= D} /\ md.jobs = {j \in m.jobs : j.deadline <= D}
          /\ Regular(tsk, loc, md) /\ md.now = m.now /\ md.next = m.next
          /\ sd.now = s.now /\ sd.next = s.next /\ sd.response = s.response
      BY <1>1, DueByIsRegular DEF DueBy
    <2>2. WorkToCome(tsk, loc, m.next, D) \in Nat
      BY <1>2, ToComeIsNatural
    <2>3. CASE x.deadline <= D
      <3>1. x \in md.jobs
        BY <1>1, <2>1, <2>3
      <3>2. sd.jobs = (md.jobs \ {x}) \cup LeftOf(x, d)
        BY <1>1, <1>4, <2>1, <2>3
      <3>3. Serves(tsk, loc, md, sd, x, d)
        <4>1. /\ \A k \in loc : m.now + d <= m.next[k]
              /\ s.response \in [DOMAIN tsk -> Nat]
          BY DEF Serves
        <4> QED BY <1>1, <2>1, <3>1, <3>2, <4>1 DEF Serves
      <3>4. /\ WorkLeft(md.jobs, loc) = WorkLeft(sd.jobs, loc) + d /\ WorkLeft(sd.jobs, loc) \in Nat
        <4>1. /\ WorkLeft(md.jobs, loc) = WorkLeft(sd.jobs, loc) + (IF x.task \in loc THEN d ELSE 0)
              /\ WorkLeft(sd.jobs, loc) \in Nat
          <5>1. Regular(tsk, loc, md)
            BY <2>1
          <5> HIDE DEF Regular, Serves
          <5> QED BY <5>1, <3>3, RunTakesWork
        <4> QED BY <1>3, <4>1
      <3>5. WorkLeft(md.jobs, loc) + WorkToCome(tsk, loc, m.next, D) + m.now <= D
        <4>1. m.now <= D
          BY <1>1, <1>6
        <4> QED BY <4>1 DEF Timely, Fits
      <3> PICK a, b, c, t : /\ a = WorkLeft(md.jobs, loc) /\ b = WorkLeft(sd.jobs, loc) /\ t = m.now
                            /\ c = WorkToCome(tsk, loc, m.next, D)
        OBVIOUS
      <3>6. a = b + d /\ b \in Nat /\ c \in Nat /\ t \in Nat /\ d \in Nat /\ a + c + t <= D
        BY <1>1, <2>2, <3>4, <3>5
      <3>7. b + c + (t + d) <= D
        BY <3>6
      <3> QED BY <1>1, <3>7 DEF Fits
    <2>4. CASE ~ (x.deadline <= D)
      <3>1. sd.jobs = {}
        <4> SUFFICES ASSUME NEW j \in s.jobs PROVE ~ (j.deadline <= D)
          BY <2>1
        <4>1. x.deadline <= j.deadline /\ j.deadline \in Nat
          BY <1>2, <1>5, RegularJobs
        <4> QED BY <1>3, <2>4, <4>1
      <3>2. WorkLeft(sd.jobs, loc) = 0
        <4>1. JobsOf(sd.jobs, loc) = {}
          BY <3>1 DEF JobsOf
        <4> QED BY <4>1, SumOfNone DEF WorkLeft
      <3>3. WorkToCome(tsk, loc, s.next, D) + s.now <= D
        BY <1>1, <1>2, <1>6, ToComeFits
      <3> PICK a, c : a = WorkLeft(sd.jobs, loc) /\ c = WorkToCome(tsk, loc, s.next, D)
        OBVIOUS
      <3>4. c \in Nat /\ a = 0 /\ c + s.now <= D
        BY <1>1, <2>2, <3>2, <3>3
      <3>5. a + c + s.now <= D
        BY <1>2, <3>4
      <3> QED BY <3>5 DEF Fits
    <2> QED BY <2>3, <2>4
  <1> QED BY <1>2, <1>5, <1>6 DEF Timely

(* So does idling, and without jobs a regular schedule is timely.           *)
LEMMA EmptyIsTimely ==
    ASSUME NEW tsk, NEW loc, Device(tsk, loc), Schedulable(tsk, loc), NEW s,
           Regular(tsk, loc, s), s.jobs = {}
    PROVE  Timely(tsk, loc, s)
  <1>1. s.now \in Nat /\ s.next \in [DOMAIN tsk -> Nat] /\ \A k \in loc : s.now <= s.next[k]
    BY DEF Regular
  <1>2. ASSUME NEW D \in Nat, s.now <= D PROVE Fits(tsk, loc, s, D)
    <2> PICK a, c : a = WorkLeft(DueBy(s, D).jobs, loc) /\ c = WorkToCome(tsk, loc, s.next, D)
      OBVIOUS
    <2>1. a = 0
      <3>1. JobsOf(DueBy(s, D).jobs, loc) = {}
        BY DEF JobsOf, DueBy
      <3> QED BY <3>1, SumOfNone DEF WorkLeft
    <2>2. c \in Nat /\ c + s.now <= D
      BY <1>1, <1>2, ToComeIsNatural, ToComeFits
    <2>3. a + c + s.now <= D
      BY <1>1, <2>1, <2>2
    <2> QED BY <2>3 DEF Fits
  <1> QED BY <1>2 DEF Timely

(* The first job under EDF has the earliest deadline.                       *)
LEMMA FirstIsEarliest ==
    ASSUME policy = "Edf", Device(tasks, Local), NEW jobs \in SUBSET OpenJobs(Local),
           NEW x, NoneBefore(jobs, x)
    PROVE  Earliest(jobs, x)
  <1>1. x \in jobs /\ \A j \in jobs : ~ Before(j, x)
    BY DEF NoneBefore
  <1>2. ASSUME NEW j \in jobs PROVE x.deadline <= j.deadline
    <2>1. x \in OpenJobs(Local) /\ j \in OpenJobs(Local) /\ ~ Before(j, x)
      BY <1>1
    <2>2. x.deadline \in Nat /\ j.deadline \in Nat
      BY <2>1, KeysAreNatural
    <2>3. Rank(x) = x.deadline /\ Rank(j) = j.deadline
      BY DEF Rank
    <2> QED BY <2>1, <2>2, <2>3 DEF Before
  <1> QED BY <1>1, <1>2 DEF Earliest

(* What holds of level 1 under EDF with implicit deadlines, up to a         *)
(* utilization of 1.                                                        *)
UpToFullUse == policy = "Edf" /\ Implicit /\ EdfExactBound(LocalTasks)
OnTime == Timely(tasks, Local, Here) /\ now <= Hyperperiod(tasks) /\ OneRuns

(* What is simulated then is a device that is not overloaded.               *)
LEMMA FullUseIsSchedulable ==
    ASSUME tasks \in TaskSets, UpToFullUse
    PROVE  Device(tasks, Local) /\ Implied(tasks, Local) /\ Schedulable(tasks, Local)
  <1>1. tasks \in Seq(TimedTask)
    BY TaskSetsAssumption
  <1>2. Device(tasks, Local)
    BY <1>1 DEF Local, Device
  <1>3. Schedulable(tasks, Local)
    BY <1>1, LoadInFits DEF Schedulable, UpToFullUse
  <1> QED BY <1>2, <1>3 DEF Implied, UpToFullUse, Implicit

(* RunJob keeps it and misses no deadline.                                  *)
LEMMA RunJobIsOnTime ==
    ASSUME tasks \in TaskSets, UpToFullUse, Local # {}, OnTime, level1.misses = 0, RunJob
    PROVE  OnTime' /\ level1'.misses = 0
  <1> PICK m : m = Releasing(tasks, Here, DueIn(Local, Here))
    OBVIOUS
  <1>1. Device(tasks, Local) /\ Implied(tasks, Local) /\ Schedulable(tasks, Local)
    BY FullUseIsSchedulable
  <1>2. Timely(tasks, Local, m)
    BY <1>1, ReleasingKeepsTimely DEF OnTime
  <1>3. PICK s, x, d :
           /\ Here' = s /\ NoneBefore(m.jobs, x) /\ Serves(tasks, Local, m, s, x, d)
           /\ s.now <= Hyperperiod(tasks)
           /\ x \in OpenJobs(Local)
           /\ level1.misses \in Nat => level1'.misses = level1.misses + Late(x, d, s.now)
           /\ OneRuns' /\ Local' = Local /\ tasks' = tasks /\ now' = s.now
    BY <1>1, RunJobServes DEF OnTime, Timely
  <1>4. Earliest(m.jobs, x)
    <2>1. m.jobs \in SUBSET OpenJobs(Local)
      BY <1>2 DEF Timely, Regular
    <2> QED BY <1>1, <1>3, <2>1, FirstIsEarliest DEF UpToFullUse
  <1>5. s.now <= x.deadline /\ Timely(tasks, Local, s)
    BY <1>1, <1>2, <1>3, <1>4, ServingMeetsDeadline, ServingKeepsTimely
  <1>6. Timely(tasks, Local, Here)' <=> Timely(tasks, Local, s)
    BY <1>3
  <1>7. level1'.misses = 0
    <2>1. s.now \in Nat /\ x.deadline \in Nat
      BY <1>3, <1>5 DEF Timely, Regular, OpenJobs
    <2>2. Late(x, d, s.now) = 0
      BY <1>5, <2>1 DEF Late
    <2> QED BY <1>3, <2>2
  <1> QED BY <1>3, <1>5, <1>6, <1>7 DEF OnTime

(* Idle keeps it.                                                           *)
LEMMA IdleIsOnTime ==
    ASSUME tasks \in TaskSets, UpToFullUse, Local # {}, OnTime, Idle
    PROVE  OnTime' /\ level1' = level1
  <1> PICK m : m = Releasing(tasks, Here, DueIn(Local, Here))
    OBVIOUS
  <1>1. Device(tasks, Local) /\ Implied(tasks, Local) /\ Schedulable(tasks, Local)
    BY FullUseIsSchedulable
  <1>2. Regular(tasks, Local, m)
    BY <1>1, ReleasingIsRegular DEF OnTime, Timely
  <1>3. PICK s, d : /\ Here' = s /\ Idles(tasks, Local, m, s, d) /\ s.now <= Hyperperiod(tasks)
                    /\ OneRuns' /\ Local' = Local /\ tasks' = tasks /\ now' = s.now
                    /\ level1' = level1
    BY <1>1, IdleIdles DEF OnTime, Timely
  <1>4. Regular(tasks, Local, s) /\ s.jobs = {}
    BY <1>1, <1>2, <1>3, IdlingIsRegular DEF Idles, Schedule
  <1>5. Timely(tasks, Local, s)
    BY <1>1, <1>4, EmptyIsTimely
  <1>6. Timely(tasks, Local, Here)' <=> Timely(tasks, Local, s)
    BY <1>3
  <1> QED BY <1>3, <1>5, <1>6 DEF OnTime

(* The invariant behind the bound of EDF.                                   *)
EdfIInv ==
    /\ tasks \in TaskSets /\ Local # {} /\ stage \in {"level1", "level2", "done"}
    /\ UpToFullUse => level1.misses = 0 /\ (stage = "level1" => OnTime)

(* The utilization bound is sufficient for EDF, for every task set: with    *)
(* implicit deadlines and a utilization of at most 1, level1.rs misses no   *)
(* deadline over the hyperperiod.                                           *)
THEOREM EdfAlwaysMeetsDeadlines == RefSpec => []EdfMeetsDeadlines
  <1>1. RefInit => EdfIInv
    <2> SUFFICES ASSUME RefInit PROVE EdfIInv
      OBVIOUS
    <2>1. tasks \in TaskSets /\ Local # {} /\ stage = "level1"
      BY DEF RefInit
    <2>2. ASSUME UpToFullUse PROVE level1.misses = 0 /\ OnTime
      <3>1. Device(tasks, Local) /\ Schedulable(tasks, Local)
        BY <2>1, <2>2, FullUseIsSchedulable
      <3>2. /\ Regular(tasks, Local, Here) /\ Here.jobs = {}
            /\ now <= Hyperperiod(tasks) /\ level1.misses = 0 /\ OneRuns
        BY <3>1, RegularAtStart
      <3>3. Timely(tasks, Local, Here)
        BY <3>1, <3>2, EmptyIsTimely
      <3> QED BY <3>2, <3>3 DEF OnTime
    <2> QED BY <2>1, <2>2 DEF EdfIInv
  <1>2. EdfIInv /\ [RefNext]_refVars => EdfIInv'
    <2> SUFFICES ASSUME EdfIInv, [RefNext]_refVars PROVE EdfIInv'
      OBVIOUS
    <2>1. tasks \in TaskSets /\ Local # {} /\ stage \in {"level1", "level2", "done"}
      BY DEF EdfIInv
    <2>2. tasks' = tasks /\ policy' = policy /\ focus' = focus
      BY DEF RefNext, refVars, RunJob, Idle, StartLevel2, Tick, Finish
    <2>3. Local' = Local /\ (UpToFullUse' <=> UpToFullUse)
      BY <2>2 DEF Local, UpToFullUse, Implicit, LocalTasks, Place
    <2>4. stage' \in {"level1", "level2", "done"}
      BY <2>1 DEF RefNext, refVars, RunJob, Idle, StartLevel2, Tick, Finish
    <2>5. SUFFICES ASSUME UpToFullUse
                   PROVE  level1'.misses = 0 /\ (stage' = "level1" => OnTime')
      BY <2>1, <2>2, <2>3, <2>4 DEF EdfIInv
    <2>6. level1.misses = 0 /\ (stage = "level1" => OnTime)
      BY <2>5 DEF EdfIInv
    <2>7. CASE RunJob
      <3>1. stage = "level1"
        BY <2>7 DEF RunJob
      <3> QED BY <2>1, <2>5, <2>6, <2>7, <3>1, RunJobIsOnTime
    <2>8. CASE Idle
      <3>1. stage = "level1"
        BY <2>8 DEF Idle
      <3> QED BY <2>1, <2>5, <2>6, <2>8, <3>1, IdleIsOnTime
    <2>9. CASE StartLevel2
      BY <2>6, <2>9 DEF StartLevel2
    <2>10. CASE Tick \/ Finish
      BY <2>6, <2>10 DEF Tick, Finish
    <2>11. CASE UNCHANGED refVars
      <3>1. /\ stage' = stage /\ level1' = level1 /\ now' = now /\ nextReleases' = nextReleases
            /\ ready' = ready /\ runningJob' = runningJob
        BY <2>11 DEF refVars
      <3>2. Here' = Here /\ (OneRuns <=> OneRuns')
        BY <3>1 DEF Here, OneRuns
      <3>3. Timely(tasks, Local, Here)' <=> Timely(tasks, Local, Here)
        BY <2>2, <2>3, <3>2
      <3> QED BY <2>2, <2>6, <3>1, <3>2, <3>3 DEF OnTime
    <2> QED BY <2>7, <2>8, <2>9, <2>10, <2>11 DEF RefNext
  <1>3. EdfIInv => EdfMeetsDeadlines
    BY DEF EdfIInv, EdfMeetsDeadlines, UpToFullUse, Simulated
  <1> QED BY <1>1, <1>2, <1>3, PTL DEF RefSpec

-----------------------------------------------------------------------------
(* Unit by unit                                                             *)

(* The first job in the order of the simulators under fixed priorities:     *)
(* ties go to the earlier release and then to the lower task.               *)
Leads(tsk, jobs, x) ==
    /\ x \in jobs
    /\ \A j \in jobs :
          \/ j = x
          \/ tsk[x.task].priority < tsk[j.task].priority
          \/ /\ tsk[x.task].priority = tsk[j.task].priority
             /\ x.release < j.release \/ (x.release = j.release /\ x.task < j.task)

(* A schedule and its count of misses, s and c, go on to v and e in d units *)
(* past no release: idle, or with service to the first job.                 *)
Gives(tsk, loc, m, c, v, e, x, d) ==
    /\ Leads(tsk, m.jobs, x) /\ Serves(tsk, loc, m, v, x, d) /\ Answers(tsk, m, v, x, d)
    /\ v = Schedule(v.now, v.next, v.jobs, v.response)
    /\ e = c + Late(x, d, v.now)
Rests(tsk, loc, m, c, v, e, d) == Idles(tsk, loc, m, v, d) /\ e = c
Goes(tsk, loc, m, c, v, e, d) ==
    \/ Rests(tsk, loc, m, c, v, e, d)
    \/ \E x : Gives(tsk, loc, m, c, v, e, x, d)
Moves(tsk, loc, s, c, v, e, d) ==
    /\ Regular(tsk, loc, s) /\ c \in Nat /\ d \in Nat \ {0}
    /\ Goes(tsk, loc, Releasing(tsk, s, DueIn(loc, s)), c, v, e, d)

(* What can be reached from the start, a unit at a time.                    *)
Origin(tsk) == Schedule(0, [k \in DOMAIN tsk |-> 0], {}, [k \in DOMAIN tsk |-> 0])
Trace(tsk, loc, u, w, n) ==
    /\ u[0] = Origin(tsk) /\ w[0] = 0
    /\ \A k \in 0 .. n - 1 : Moves(tsk, loc, u[k], w[k], u[k + 1], w[k + 1], 1)
Reached(tsk, loc, s, c) ==
    /\ s.now \in Nat
    /\ \E u, w : Trace(tsk, loc, u, w, s.now) /\ u[s.now] = s /\ w[s.now] = c

(* One job leads.                                                           *)
LEMMA OneLeads ==
    ASSUME NEW tsk, NEW loc, Device(tsk, loc), NEW jobs \in SUBSET OpenJobs(loc),
           NEW x, Leads(tsk, jobs, x), NEW y, Leads(tsk, jobs, y)
    PROVE  x = y
  <1>1. x \in OpenJobs(loc) /\ y \in OpenJobs(loc) /\ x \in jobs /\ y \in jobs
    BY DEF Leads
  <1>2. \A j \in OpenJobs(loc) : j.release \in Nat /\ j.task \in Nat /\ tsk[j.task].priority \in Nat
    <2> TAKE j \in OpenJobs(loc)
    <2>1. j.task \in loc /\ j.release \in Nat
      BY DEF OpenJobs
    <2>2. tsk \in Seq(TimedTask) /\ j.task \in DOMAIN tsk
      BY <2>1 DEF Device
    <2>3. j.task \in 1 .. Len(tsk) /\ tsk[j.task] \in TimedTask
      BY <2>2, TaskFacts
    <2> QED BY <2>1, <2>3 DEF TimedTask
  <1>3. /\ x.release \in Nat /\ x.task \in Nat /\ tsk[x.task].priority \in Nat
        /\ y.release \in Nat /\ y.task \in Nat /\ tsk[y.task].priority \in Nat
    BY <1>1, <1>2
  <1> PICK p, q : p = tsk[x.task].priority /\ q = tsk[y.task].priority
    OBVIOUS
  <1>4. y = x \/ p < q \/ (p = q /\ (x.release < y.release \/ (x.release = y.release /\ x.task < y.task)))
    BY <1>1 DEF Leads
  <1>5. x = y \/ q < p \/ (q = p /\ (y.release < x.release \/ (y.release = x.release /\ y.task < x.task)))
    BY <1>1 DEF Leads
  <1> QED BY <1>3, <1>4, <1>5

(* So there is one way to go on for a time,                                 *)
LEMMA MovesAreUnique ==
    ASSUME NEW tsk, NEW loc, Device(tsk, loc), NEW s, NEW c, NEW d,
           NEW v, NEW e, Moves(tsk, loc, s, c, v, e, d),
           NEW v2, NEW e2, Moves(tsk, loc, s, c, v2, e2, d)
    PROVE  v = v2 /\ e = e2
  <1> PICK m : m = Releasing(tsk, s, DueIn(loc, s))
    OBVIOUS
  <1>1. Regular(tsk, loc, m) /\ Goes(tsk, loc, m, c, v, e, d) /\ Goes(tsk, loc, m, c, v2, e2, d)
    BY ReleasingIsRegular DEF Moves
  <1>2. m.jobs \in SUBSET OpenJobs(loc) /\ m.response \in [DOMAIN tsk -> Nat] /\ m.now \in Nat
    BY <1>1 DEF Regular
  <1>3. CASE m.jobs = {}
    <2>1. \A x : ~ Leads(tsk, m.jobs, x)
      BY <1>3 DEF Leads
    <2>2. Rests(tsk, loc, m, c, v, e, d) /\ Rests(tsk, loc, m, c, v2, e2, d)
      BY <1>1, <2>1 DEF Goes, Gives
    <2> QED BY <2>2 DEF Rests, Idles
  <1>4. CASE m.jobs # {}
    <2>1. PICK x : Gives(tsk, loc, m, c, v, e, x, d)
      BY <1>1, <1>4 DEF Goes, Rests, Idles
    <2>2. PICK y : Gives(tsk, loc, m, c, v2, e2, y, d)
      BY <1>1, <1>4 DEF Goes, Rests, Idles
    <2>3. x = y
      BY <1>2, <2>1, <2>2, OneLeads DEF Gives
    <2>4. /\ v.now = v2.now /\ v.next = v2.next /\ v.jobs = v2.jobs /\ x \in m.jobs
          /\ v.response \in [DOMAIN tsk -> Nat] /\ v2.response \in [DOMAIN tsk -> Nat]
          /\ v.now = m.now + d /\ d \in Nat
      BY <2>1, <2>2, <2>3 DEF Gives, Serves
    <2>5. x.release \in Nat
      BY <1>2, <2>4 DEF OpenJobs
    <2>6. ASSUME NEW i \in DOMAIN tsk PROVE v.response[i] = v2.response[i]
      <3> PICK a, b, r, t : a = v.response[i] /\ b = v2.response[i] /\ r = m.response[i]
                            /\ t = v.now - x.release
        OBVIOUS
      <3>1. a \in Nat /\ b \in Nat /\ r \in Nat /\ t \in Int
        BY <1>2, <2>4, <2>5
      <3>2. /\ r <= a
            /\ IF x.task = i /\ x.remaining = d THEN t <= a /\ (a = r \/ a = t) ELSE a = r
        BY <2>1 DEF Gives, Answers
      <3>3. /\ r <= b
            /\ IF x.task = i /\ x.remaining = d THEN t <= b /\ (b = r \/ b = t) ELSE b = r
        BY <2>2, <2>3, <2>4 DEF Gives, Answers
      <3> QED BY <3>1, <3>2, <3>3
    <2>7. v.response = v2.response
      BY <2>4, <2>6
    <2> QED BY <2>1, <2>2, <2>3, <2>4, <2>7 DEF Gives
  <1> QED BY <1>3, <1>4

(* which leads to a regular schedule,                                       *)
LEMMA MovesAreRegular ==
    ASSUME NEW tsk, NEW loc, Device(tsk, loc), NEW s, NEW c, NEW v, NEW e, NEW d,
           Moves(tsk, loc, s, c, v, e, d)
    PROVE  Regular(tsk, loc, v) /\ s.now \in Nat /\ v.now = s.now + d /\ c \in Nat /\ e \in Nat
  <1> PICK m : m = Releasing(tsk, s, DueIn(loc, s))
    OBVIOUS
  <1>1. Regular(tsk, loc, m) /\ Goes(tsk, loc, m, c, v, e, d) /\ m.now = s.now /\ c \in Nat
    BY ReleasingIsRegular DEF Moves
  <1>2. CASE Rests(tsk, loc, m, c, v, e, d)
    <2>1. Idles(tsk, loc, m, v, d)
      BY <1>2 DEF Rests
    <2>2. v.now = m.now + d /\ e = c
      BY <1>2, <2>1 DEF Rests, Idles, Schedule
    <2> QED BY <1>1, <2>1, <2>2, IdlingIsRegular DEF Regular
  <1>3. CASE \E x : Gives(tsk, loc, m, c, v, e, x, d)
    <2>1. PICK x : Serves(tsk, loc, m, v, x, d) /\ e = c + Late(x, d, v.now)
      BY <1>3 DEF Gives
    <2>2. v.now = m.now + d /\ e \in Nat
      <3>1. Late(x, d, v.now) \in Nat
        BY DEF Late
      <3> QED BY <1>1, <2>1, <3>1 DEF Serves
    <2> QED BY <1>1, <2>1, <2>2, ServingIsRegular DEF Regular
  <1> QED BY <1>1, <1>2, <1>3 DEF Goes

(* and the first unit of it can be taken by itself.                         *)
LEMMA MovesSplit ==
    ASSUME NEW tsk, NEW loc, Device(tsk, loc), NEW s, NEW c, NEW v, NEW e, NEW d \in Nat,
           d # 0, Moves(tsk, loc, s, c, v, e, d + 1)
    PROVE  \E w : Moves(tsk, loc, s, c, w, c, 1) /\ Moves(tsk, loc, w, c, v, e, d)
  <1> PICK m : m = Releasing(tsk, s, DueIn(loc, s))
    OBVIOUS
  <1>1. /\ Regular(tsk, loc, m) /\ Regular(tsk, loc, s) /\ \A k \in loc : m.now < m.next[k]
        /\ Goes(tsk, loc, m, c, v, e, d + 1) /\ c \in Nat
    BY ReleasingIsRegular DEF Moves
  <1>2. /\ m.now \in Nat /\ m.next \in [DOMAIN tsk -> Nat] /\ m.response \in [DOMAIN tsk -> Nat]
        /\ m.jobs \in SUBSET OpenJobs(loc) /\ \A k \in loc : m.next[k] \in Nat
        /\ \A j, k \in m.jobs : j.task = k.task /\ j.release = k.release => j = k
    BY <1>1 DEF Regular, Device
  (* a schedule on the way has no release *)
  <1>3. ASSUME NEW w, Regular(tsk, loc, w), w.now = m.now + 1, w.next = m.next,
               w = Schedule(w.now, w.next, w.jobs, w.response),
               \A k \in loc : m.now + (d + 1) <= m.next[k]
        PROVE  Releasing(tsk, w, DueIn(loc, w)) = w
    <2>1. DueIn(loc, w) = {}
      <3> SUFFICES ASSUME NEW k \in loc PROVE w.next[k] # w.now
        BY DEF DueIn
      <3>1. m.now + (d + 1) <= m.next[k] /\ m.next[k] \in Nat
        BY <1>2, <1>3
      <3> QED BY <1>2, <1>3, <3>1
    <2>2. [k \in DOMAIN tsk |-> IF k \in {} THEN w.now + tsk[k].period ELSE w.next[k]] = w.next
      BY <1>2, <1>3
    <2>3. w.jobs \cup {JobFor(tsk, w.now, k) : k \in {}} = w.jobs
      OBVIOUS
    <2> QED BY <1>3, <2>1, <2>2, <2>3 DEF Releasing
  <1>4. CASE Rests(tsk, loc, m, c, v, e, d + 1)
    <2>1. /\ m.jobs = {} /\ e = c /\ \A k \in loc : m.now + (d + 1) <= m.next[k]
          /\ v = Schedule(m.now + (d + 1), m.next, {}, m.response)
      BY <1>4 DEF Rests, Idles
    <2> PICK w : w = Schedule(m.now + 1, m.next, {}, m.response)
      OBVIOUS
    <2>2. w.now = m.now + 1 /\ w.next = m.next /\ w.jobs = {} /\ w.response = m.response
      BY DEF Schedule
    <2>3. \A k \in loc : m.now + 1 <= m.next[k]
      BY <1>1, <1>2
    <2>4. Idles(tsk, loc, m, w, 1)
      BY <2>1, <2>3 DEF Idles
    <2>5. Moves(tsk, loc, s, c, w, c, 1)
      BY <1>1, <2>4 DEF Moves, Goes, Rests
    <2>6. Regular(tsk, loc, w)
      BY <2>5, MovesAreRegular
    <2>7. Releasing(tsk, w, DueIn(loc, w)) = w
      BY <1>3, <2>1, <2>2, <2>6
    <2>8. Idles(tsk, loc, w, v, d)
      <3>1. w.now + d = m.now + (d + 1)
        BY <1>2, <2>2
      <3> QED BY <2>1, <2>2, <3>1 DEF Idles
    <2>9. Moves(tsk, loc, w, c, v, e, d)
      BY <1>1, <2>1, <2>6, <2>7, <2>8 DEF Moves, Goes, Rests
    <2> QED BY <2>5, <2>9
  <1>5. CASE \E x : Gives(tsk, loc, m, c, v, e, x, d + 1)
    <2>1. PICK x : Gives(tsk, loc, m, c, v, e, x, d + 1)
      BY <1>5
    <2>2. /\ Leads(tsk, m.jobs, x) /\ Serves(tsk, loc, m, v, x, d + 1)
          /\ Answers(tsk, m, v, x, d + 1) /\ v = Schedule(v.now, v.next, v.jobs, v.response)
          /\ e = c + Late(x, d + 1, v.now)
      BY <2>1 DEF Gives
    <2>3. /\ x \in m.jobs /\ d + 1 <= x.remaining /\ \A k \in loc : m.now + (d + 1) <= m.next[k]
          /\ v.now = m.now + (d + 1) /\ v.next = m.next
          /\ v.jobs = (m.jobs \ {x}) \cup LeftOf(x, d + 1) /\ v.response \in [DOMAIN tsk -> Nat]
      BY <2>2 DEF Serves
    <2>4. x \in OpenJobs(loc) /\ x.remaining \in Nat
      BY <1>2, <2>3 DEF OpenJobs
    <2> PICK y : y = [x EXCEPT !.remaining = @ - 1]
      OBVIOUS
    <2>5. /\ y.task = x.task /\ y.release = x.release /\ y.deadline = x.deadline
          /\ y.remaining = x.remaining - 1
          /\ [y EXCEPT !.remaining = @ - d] = [x EXCEPT !.remaining = @ - (d + 1)]
      <3>1. /\ y.task = x.task /\ y.release = x.release /\ y.deadline = x.deadline
            /\ y.remaining = x.remaining - 1
        BY <2>4 DEF OpenJobs
      <3>2. (x.remaining - 1) - d = x.remaining - (d + 1)
        BY <2>4
      <3> QED BY <2>4, <3>1, <3>2 DEF OpenJobs
    <2> PICK rest : rest = m.jobs \ {x}
      OBVIOUS
    <2> PICK w : w = Schedule(m.now + 1, m.next, rest \cup {y}, m.response)
      OBVIOUS
    <2>6. w.now = m.now + 1 /\ w.next = m.next /\ w.jobs = rest \cup {y} /\ w.response = m.response
      BY DEF Schedule
    <2>7. LeftOf(x, 1) = {y} /\ x.remaining # 1
      BY <2>3, <2>4 DEF LeftOf
    <2>8. Gives(tsk, loc, m, c, w, c, x, 1)
      <3>1. \A k \in loc : m.now + 1 <= m.next[k]
        BY <1>1, <1>2
      <3>2. 1 <= x.remaining
        BY <2>3, <2>4
      <3>3. Serves(tsk, loc, m, w, x, 1)
        BY <1>2, <2>3, <2>6, <2>7, <3>1, <3>2 DEF Serves
      <3>4. Answers(tsk, m, w, x, 1)
        BY <1>2, <2>6, <2>7 DEF Answers
      <3>5. c = c + Late(x, 1, w.now)
        <4>1. Late(x, 1, w.now) = 0
          BY <2>7 DEF Late
        <4> QED BY <1>1, <4>1
      <3> QED BY <2>2, <2>6, <3>3, <3>4, <3>5 DEF Gives
    <2>9. Moves(tsk, loc, s, c, w, c, 1)
      <3>1. Goes(tsk, loc, m, c, w, c, 1)
        BY <2>8 DEF Goes
      <3> QED BY <1>1, <3>1 DEF Moves
    <2>10. Regular(tsk, loc, w)
      BY <2>9, MovesAreRegular
    <2>11. Releasing(tsk, w, DueIn(loc, w)) = w
      BY <1>3, <2>3, <2>6, <2>10
    <2>12. y \notin rest
      <3> SUFFICES ASSUME y \in rest PROVE FALSE
        OBVIOUS
      <3>1. y = x
        BY <1>2, <2>3, <2>5
      <3> QED BY <3>1
    <2>13. Leads(tsk, w.jobs, y)
      <3>1. ASSUME NEW j \in w.jobs, j # y
            PROVE  \/ tsk[y.task].priority < tsk[j.task].priority
                   \/ /\ tsk[y.task].priority = tsk[j.task].priority
                      /\ y.release < j.release \/ (y.release = j.release /\ y.task < j.task)
        <4>1. j \in m.jobs /\ j # x
          BY <2>6, <3>1
        <4> QED BY <2>2, <2>5, <4>1 DEF Leads
      <3> QED BY <2>6, <3>1 DEF Leads
    <2>14. y.remaining = d <=> x.remaining = d + 1
      BY <2>4, <2>5
    <2>15. Serves(tsk, loc, w, v, y, d)
      <3>1. LeftOf(y, d) = LeftOf(x, d + 1)
        BY <2>5, <2>14 DEF LeftOf
      <3>2. w.jobs \ {y} = rest
        BY <2>6, <2>12
      <3>3. w.now + d = m.now + (d + 1) /\ d <= y.remaining
        BY <1>2, <2>3, <2>4, <2>5, <2>6
      <3> QED BY <2>3, <2>6, <3>1, <3>2, <3>3 DEF Serves
    <2>16. Answers(tsk, w, v, y, d)
      BY <2>2, <2>5, <2>6, <2>14 DEF Answers
    <2>17. Late(y, d, v.now) = Late(x, d + 1, v.now)
      BY <2>5, <2>14 DEF Late
    <2>18. Gives(tsk, loc, w, c, v, e, y, d)
      BY <2>2, <2>13, <2>15, <2>16, <2>17 DEF Gives
    <2>19. Moves(tsk, loc, w, c, v, e, d)
      <3>1. Goes(tsk, loc, w, c, v, e, d)
        BY <2>18 DEF Goes
      <3> QED BY <1>1, <2>10, <2>11, <3>1 DEF Moves
    <2> QED BY <2>9, <2>19
  <1> QED BY <1>1, <1>4, <1>5 DEF Goes

(* So what can be reached goes on to what moves lead to,                    *)
LEMMA ReachedOne ==
    ASSUME NEW tsk, NEW loc, Device(tsk, loc), NEW s, NEW c, Reached(tsk, loc, s, c),
           NEW v, NEW e, Moves(tsk, loc, s, c, v, e, 1)
    PROVE  Reached(tsk, loc, v, e)
  <1>1. s.now \in Nat /\ v.now = s.now + 1
    BY MovesAreRegular
  <1> PICK n : n = s.now
    OBVIOUS
  <1>2. PICK u, w : Trace(tsk, loc, u, w, n) /\ u[n] = s /\ w[n] = c
    BY DEF Reached
  <1> PICK u2 : u2 = [k \in 0 .. n + 1 |-> IF k = n + 1 THEN v ELSE u[k]]
    OBVIOUS
  <1> PICK w2 : w2 = [k \in 0 .. n + 1 |-> IF k = n + 1 THEN e ELSE w[k]]
    OBVIOUS
  <1>3. /\ n \in Nat /\ u2[n + 1] = v /\ w2[n + 1] = e
        /\ \A k \in 0 .. n : u2[k] = u[k] /\ w2[k] = w[k]
    <2>1. n \in Nat
      BY <1>1
    <2>2. n + 1 \in 0 .. n + 1 /\ \A k \in 0 .. n : k \in 0 .. n + 1 /\ k # n + 1
      BY <2>1
    <2> QED BY <2>1, <2>2
  <1>4. ASSUME NEW k \in 0 .. n PROVE Moves(tsk, loc, u2[k], w2[k], u2[k + 1], w2[k + 1], 1)
    <2>1. CASE k = n
      BY <1>2, <1>3, <2>1
    <2>2. CASE k # n
      <3>1. k \in 0 .. n - 1 /\ k + 1 \in 0 .. n
        BY <1>3, <2>2
      <3>2. Moves(tsk, loc, u[k], w[k], u[k + 1], w[k + 1], 1)
        BY <1>2, <3>1 DEF Trace
      <3> QED BY <1>3, <3>1, <3>2
    <2> QED BY <2>1, <2>2
  <1>5. Trace(tsk, loc, u2, w2, n + 1)
    <2>1. 0 \in 0 .. n /\ (n + 1) - 1 = n
      BY <1>3
    <2>2. u2[0] = Origin(tsk) /\ w2[0] = 0
      BY <1>2, <1>3, <2>1 DEF Trace
    <2> QED BY <1>4, <2>1, <2>2 DEF Trace
  <1>6. v.now = n + 1 /\ n + 1 \in Nat
    BY <1>1
  <1> QED BY <1>3, <1>5, <1>6 DEF Reached

(* however long they are,                                                   *)
LEMMA ReachedOn ==
    ASSUME NEW tsk, NEW loc, Device(tsk, loc), NEW s, NEW c, Reached(tsk, loc, s, c),
           NEW v, NEW e, NEW d, Moves(tsk, loc, s, c, v, e, d)
    PROVE  Reached(tsk, loc, v, e)
  <1> DEFINE bad == {n \in Nat \ {0} : \E s1, c1, v1, e1 :
                        /\ Reached(tsk, loc, s1, c1) /\ Moves(tsk, loc, s1, c1, v1, e1, n)
                        /\ ~ Reached(tsk, loc, v1, e1)}
  <1>1. d \in Nat \ {0}
    BY DEF Moves
  <1> SUFFICES ASSUME bad # {} PROVE FALSE
    BY <1>1
  <1>2. PICK n \in bad : \A k \in bad : n <= k
    <2>1. bad \in SUBSET Nat
      OBVIOUS
    <2> HIDE DEF bad
    <2> QED BY <2>1, LeastNatural
  <1>3. PICK s1, c1, v1, e1 : /\ Reached(tsk, loc, s1, c1) /\ Moves(tsk, loc, s1, c1, v1, e1, n)
                              /\ ~ Reached(tsk, loc, v1, e1)
    OBVIOUS
  <1>4. n \in Nat \ {0}
    OBVIOUS
  <1>5. CASE n = 1
    BY <1>3, <1>5, ReachedOne
  <1>6. CASE n # 1
    <2> PICK k : k = n - 1
      OBVIOUS
    <2>1. k \in Nat \ {0} /\ n = k + 1 /\ ~ (n <= k)
      BY <1>4, <1>6
    <2>2. PICK w : Moves(tsk, loc, s1, c1, w, c1, 1) /\ Moves(tsk, loc, w, c1, v1, e1, k)
      BY <1>3, <2>1, MovesSplit
    <2>3. Reached(tsk, loc, w, c1)
      BY <1>3, <2>2, ReachedOne
    <2>4. k \in bad
      BY <1>3, <2>1, <2>2, <2>3
    <2> HIDE DEF bad
    <2> QED BY <1>2, <2>1, <2>4
  <1> QED BY <1>5, <1>6

(* and at any time there is one schedule that can be reached.               *)
LEMMA ReachedIsUnique ==
    ASSUME NEW tsk, NEW loc, Device(tsk, loc), NEW s, NEW c, Reached(tsk, loc, s, c),
           NEW v, NEW e, Reached(tsk, loc, v, e), v.now = s.now
    PROVE  v = s /\ e = c
  <1> PICK n : n = s.now
    OBVIOUS
  <1>1. PICK u, w : Trace(tsk, loc, u, w, n) /\ u[n] = s /\ w[n] = c
    BY DEF Reached
  <1>2. PICK u2, w2 : Trace(tsk, loc, u2, w2, n) /\ u2[n] = v /\ w2[n] = e
    BY DEF Reached
  <1>3. n \in Nat
    BY DEF Reached
  <1> DEFINE bad == {k \in 0 .. n : ~ (u[k] = u2[k] /\ w[k] = w2[k])}
  <1>4. bad = {}
    <2> SUFFICES ASSUME bad # {} PROVE FALSE
      OBVIOUS
    <2>1. bad \in SUBSET Nat
      BY <1>3
    <2>2. PICK k \in bad : \A j \in bad : k <= j
      <3> HIDE DEF bad
      <3> QED BY <2>1, LeastNatural
    <2>3. k # 0
      BY <1>1, <1>2 DEF Trace
    <2> PICK j : j = k - 1
      OBVIOUS
    <2>4. j \in 0 .. n - 1 /\ j \in 0 .. n /\ k = j + 1 /\ ~ (k <= j)
      BY <1>3, <2>3
    <2>5. j \notin bad
      <3> HIDE DEF bad
      <3> QED BY <2>2, <2>4
    <2>6. u[j] = u2[j] /\ w[j] = w2[j]
      BY <2>4, <2>5
    <2>7. /\ Moves(tsk, loc, u[j], w[j], u[k], w[k], 1)
          /\ Moves(tsk, loc, u2[j], w2[j], u2[k], w2[k], 1)
      BY <1>1, <1>2, <2>4 DEF Trace
    <2>8. u[k] = u2[k] /\ w[k] = w2[k]
      BY <2>6, <2>7, MovesAreUnique
    <2> QED BY <2>8
  <1>5. n \in 0 .. n
    BY <1>3
  <1>6. u[n] = u2[n] /\ w[n] = w2[n]
    BY <1>4, <1>5
  <1> QED BY <1>1, <1>2, <1>6

(* A schedule that can be reached is regular, but for the start perhaps.    *)
LEMMA ReachedAtStart ==
    ASSUME NEW tsk, NEW loc
    PROVE  Reached(tsk, loc, Origin(tsk), 0)
  <1> PICK s : s = Origin(tsk)
    OBVIOUS
  <1>1. s.now = 0
    BY DEF Origin, Schedule
  <1> PICK u, w : u = [k \in {0} |-> s] /\ w = [k \in {0} |-> 0]
    OBVIOUS
  <1>2. u[0] = s /\ w[0] = 0 /\ 0 .. 0 - 1 = {}
    OBVIOUS
  <1>3. Trace(tsk, loc, u, w, 0)
    BY <1>2 DEF Trace
  <1> QED BY <1>1, <1>2, <1>3 DEF Reached

-----------------------------------------------------------------------------
(* Level 1 goes along                                                       *)

(* The job level 1 runs under fixed priorities leads.                       *)
LEMMA FirstLeads ==
    ASSUME policy = "FixedPriority", Device(tasks, Local), NEW jobs \in SUBSET OpenJobs(Local),
           \A j, k \in jobs : j.task = k.task /\ j.release = k.release => j = k,
           NEW x, NoneBefore(jobs, x)
    PROVE  Leads(tasks, jobs, x)
  <1>1. x \in jobs /\ \A j \in jobs : ~ Before(j, x)
    BY DEF NoneBefore
  <1>2. ASSUME NEW j \in jobs, j # x
        PROVE  \/ tasks[x.task].priority < tasks[j.task].priority
               \/ /\ tasks[x.task].priority = tasks[j.task].priority
                  /\ x.release < j.release \/ (x.release = j.release /\ x.task < j.task)
    <2>1. /\ tasks[x.task].priority \in Nat /\ x.release \in Nat /\ x.task \in Nat
          /\ tasks[j.task].priority \in Nat /\ j.release \in Nat /\ j.task \in Nat
      BY <1>1, KeysAreNatural
    <2>2. x.task # j.task \/ x.release # j.release
      BY <1>1, <1>2
    <2>3. ~ Before(j, x) /\ Rank(j) = tasks[j.task].priority /\ Rank(x) = tasks[x.task].priority
      BY <1>1 DEF Rank
    <2> QED BY <2>1, <2>2, <2>3 DEF Before
  <1> QED BY <1>1, <1>2 DEF Leads

(* What holds of level 1 as it goes along.                                  *)
Working == policy = "FixedPriority" /\ Local # {} /\ \A k \in Local : tasks[k].wcet # 0
Along ==
    /\ Reached(tasks, Local, Here, level1.misses) /\ Regular(tasks, Local, Here)
    /\ level1.misses \in Nat /\ now <= Hyperperiod(tasks) /\ OneRuns

(* RunJob moves on,                                                         *)
LEMMA RunJobMoves ==
    ASSUME Working, Device(tasks, Local), Along, RunJob
    PROVE  Along'
  <1> PICK m : m = Releasing(tasks, Here, DueIn(Local, Here))
    OBVIOUS
  <1>1. /\ Regular(tasks, Local, Here) /\ level1.misses \in Nat /\ now <= Hyperperiod(tasks) /\ OneRuns
        /\ policy = "FixedPriority" /\ Local # {} /\ \A k \in Local : tasks[k].wcet # 0
    BY DEF Along, Working
  <1>2. Regular(tasks, Local, m)
    BY <1>1, ReleasingIsRegular
  <1>3. PICK s, x, d :
           /\ Here' = s /\ NoneBefore(m.jobs, x) /\ x \in OpenJobs(Local)
           /\ Serves(tasks, Local, m, s, x, d) /\ Answers(tasks, m, s, x, d)
           /\ x.remaining # 0 => d # 0
           /\ s.now <= Hyperperiod(tasks)
           /\ s = Schedule(s.now, s.next, s.jobs, s.response)
           /\ level1.misses \in Nat => level1'.misses = level1.misses + Late(x, d, s.now)
           /\ OneRuns' /\ Local' = Local /\ tasks' = tasks /\ now' = s.now
    BY <1>1, RunJobServes
  <1>4. /\ m.jobs \in SUBSET OpenJobs(Local)
        /\ \A j, k \in m.jobs : j.task = k.task /\ j.release = k.release => j = k
    BY <1>2 DEF Regular
  <1>5. Leads(tasks, m.jobs, x) /\ x \in m.jobs
    BY <1>1, <1>3, <1>4, FirstLeads DEF Leads
  <1>6. d \in Nat \ {0}
    <2>1. x.remaining # 0
      BY <1>1, <1>2, <1>5, RegularJobs
    <2> QED BY <1>3, <2>1 DEF Serves
  <1> PICK e : e = level1'.misses
    OBVIOUS
  <1>7. Moves(tasks, Local, Here, level1.misses, s, e, d)
    <2>1. Gives(tasks, Local, m, level1.misses, s, e, x, d)
      BY <1>1, <1>3, <1>5 DEF Gives
    <2>2. Goes(tasks, Local, m, level1.misses, s, e, d)
      BY <2>1 DEF Goes
    <2> QED BY <1>1, <1>6, <2>2 DEF Moves
  <1>8. Reached(tasks, Local, s, e) /\ Regular(tasks, Local, s) /\ e \in Nat
    BY <1>7, ReachedOn, MovesAreRegular DEF Along
  <1>9. Reached(tasks, Local, Here, level1.misses)' /\ Regular(tasks, Local, Here)'
    BY <1>3, <1>8
  <1> QED BY <1>3, <1>8, <1>9 DEF Along

(* and so does Idle.                                                        *)
LEMMA IdleMoves ==
    ASSUME Working, Device(tasks, Local), Along, Idle
    PROVE  Along'
  <1> PICK m : m = Releasing(tasks, Here, DueIn(Local, Here))
    OBVIOUS
  <1>1. /\ Regular(tasks, Local, Here) /\ level1.misses \in Nat /\ now <= Hyperperiod(tasks) /\ OneRuns
        /\ Local # {}
    BY DEF Along, Working
  <1>2. PICK s, d : /\ Here' = s /\ Idles(tasks, Local, m, s, d) /\ s.now <= Hyperperiod(tasks)
                    /\ OneRuns' /\ Local' = Local /\ tasks' = tasks /\ now' = s.now
                    /\ level1' = level1
    BY <1>1, IdleIdles
  <1> PICK c : c = level1.misses
    OBVIOUS
  <1>3. Moves(tasks, Local, Here, c, s, c, d)
    <2>1. Goes(tasks, Local, m, c, s, c, d) /\ d \in Nat \ {0}
      BY <1>2 DEF Goes, Rests, Idles
    <2> QED BY <1>1, <2>1 DEF Moves
  <1>4. Reached(tasks, Local, s, c) /\ Regular(tasks, Local, s)
    BY <1>3, ReachedOn, MovesAreRegular DEF Along
  <1>5. Reached(tasks, Local, Here, level1.misses)' /\ Regular(tasks, Local, Here)'
    BY <1>2, <1>4
  <1> QED BY <1>1, <1>2, <1>5 DEF Along

(* What level 1 leaves is what is reached at the end of the hyperperiod:    *)
(* when it stops early nothing is left to do until then.                    *)
Left(v) == /\ Reached(tasks, Local, v, level1.misses) /\ v.now = Horizon
           /\ v.response = level1.response
LEMMA WhatIsLeft ==
    ASSUME Working, Device(tasks, Local), Along, StartLevel2
    PROVE  \E v : Left(v)
  <1> PICK m : m = Releasing(tasks, Here, DueIn(Local, Here))
    OBVIOUS
  <1>1. /\ Regular(tasks, Local, Here) /\ level1.misses \in Nat /\ now <= Hyperperiod(tasks) /\ OneRuns
        /\ Local # {} /\ Reached(tasks, Local, Here, level1.misses)
    BY DEF Along, Working
  <1>2. /\ Regular(tasks, Local, m) /\ Here.now = now
        /\ m.now = now /\ m.response = level1.response
        /\ m.jobs = Waiting \cup runningJob /\ m.jobs \in SUBSET OpenJobs(Local)
        /\ now \in Nat
        /\ NextRelease \in Nat /\ now < NextRelease /\ \A k \in Local : NextRelease <= m.next[k]
        /\ Horizon = Hyperperiod(tasks) /\ Horizon \in Nat /\ now <= Horizon
    BY <1>1, StepReleases
  <1>3. CASE now >= Horizon
    <2>1. now = Horizon /\ Here.response = level1.response
      BY <1>2, <1>3 DEF Here, Schedule
    <2> QED BY <1>1, <1>2, <2>1 DEF Left
  <1>4. CASE now < Horizon
    <2>1. ContextSwitch(Waiting) = {} /\ NextRelease >= Horizon
      BY <1>2, <1>4 DEF StartLevel2
    <2>2. m.jobs = {}
      BY <1>1, <1>2, <2>1, ContextSwitchIsFirst
    <2> PICK d : d = Horizon - now
      OBVIOUS
    <2>3. d \in Nat \ {0} /\ m.now + d = Horizon
      BY <1>2, <1>4
    <2> PICK v : v = Schedule(m.now + d, m.next, {}, m.response)
      OBVIOUS
    <2>4. v.now = Horizon /\ v.response = level1.response
      BY <1>2, <2>3 DEF Schedule
    <2>5. \A k \in Local : m.now + d <= m.next[k]
      <3> SUFFICES ASSUME NEW k \in Local PROVE Horizon <= m.next[k]
        BY <2>3
      <3>1. m.next[k] \in Nat
        BY <1>2 DEF Regular, Device
      <3> QED BY <1>2, <2>1, <3>1
    <2>6. Moves(tasks, Local, Here, level1.misses, v, level1.misses, d)
      <3>1. Goes(tasks, Local, m, level1.misses, v, level1.misses, d)
        BY <2>2, <2>3, <2>5 DEF Goes, Rests, Idles
      <3> QED BY <1>1, <2>3, <3>1 DEF Moves
    <2>7. Reached(tasks, Local, v, level1.misses)
      BY <1>1, <2>6, ReachedOn
    <2> QED BY <2>4, <2>7 DEF Left
  <1> QED BY <1>2, <1>3, <1>4

(* Level 1 starts where all starts.                                         *)
LEMMA AlongAtStart ==
    ASSUME Device(tasks, Local), RefInit
    PROVE  Along
  <1>1. /\ Regular(tasks, Local, Here) /\ now <= Hyperperiod(tasks) /\ level1.misses = 0 /\ OneRuns
    BY RegularAtStart
  <1>2. Here = Origin(tasks)
    BY DEF Here, Schedule, Origin, RefInit, NoResponses, Summary
  <1> QED BY <1>1, <1>2, ReachedAtStart DEF Along

-----------------------------------------------------------------------------
(* Folds over sets                                                          *)

(* The equation of a fold that takes the elements of a set in an order.     *)
FoldsWith(h, N, pick, base, op) ==
    h = [S \in SUBSET N |-> IF S = {} THEN base ELSE op[<<pick[S], h[S \ {pick[S]}]>>]]

(* It has a solution.                                                       *)
LEMMA FoldExists ==
    ASSUME NEW N, IsFiniteSet(N), NEW pick, \A S \in SUBSET N : S # {} => pick[S] \in S,
           NEW V, NEW base \in V, NEW op \in [N \X V -> V]
    PROVE  \E h : FoldsWith(h, N, pick, base, op) /\ \A S \in SUBSET N : h[S] \in V
  <1> DEFINE D == SUBSET N
             R == {st \in D \X D : st[1] # {} /\ st[2] = st[1] \ {pick[st[1]]}}
             F == [g \in [D -> V] |->
                     [S \in D |-> IF S = {} THEN base ELSE op[<<pick[S], g[S \ {pick[S]}]>>]]]
  <1>1. IsFiniteSet(D) /\ \A S \in D : IsFiniteSet(S)
    BY FS_SUBSET, FS_Subset
  <1>2. EndsIn(D, R)
    <2> SUFFICES ASSUME NEW K \in SUBSET D, K # {}
                 PROVE  \E S \in K : \A T \in K : <<S, T>> \notin R
      BY DEF EndsIn
    <2>1. PICK S \in K : \A T \in K : Cardinality(S) <= Cardinality(T)
      BY <1>1, SmallestSet
    <2>2. ASSUME NEW T \in K, <<S, T>> \in R PROVE FALSE
      <3>1. S # {} /\ T = S \ {pick[S]}
        BY <2>2
      <3>2. pick[S] \in S /\ IsFiniteSet(S)
        BY <1>1, <3>1
      <3>3. Cardinality(T) < Cardinality(S) /\ Cardinality(T) \in Nat /\ Cardinality(S) \in Nat
        BY <3>1, <3>2, OneLess
      <3> QED BY <2>1, <3>3
    <2> QED BY <2>2
  <1>3. ASSUME NEW g \in [D -> V], NEW S \in D
        PROVE  (IF S = {} THEN base ELSE op[<<pick[S], g[S \ {pick[S]}]>>]) \in V
    <2>1. CASE S = {}
      BY <2>1
    <2>2. CASE S # {}
      <3>1. S \ {pick[S]} \in D /\ pick[S] \in N
        BY <2>2
      <3>2. g[S \ {pick[S]}] \in V
        BY <3>1
      <3>3. <<pick[S], g[S \ {pick[S]}]>> \in N \X V
        BY <3>1, <3>2
      <3> QED BY <2>2, <3>3
    <2> QED BY <2>1, <2>2
  <1>4. F \in [[D -> V] -> [D -> V]]
    <2> HIDE DEF D
    <2>1. \A g \in [D -> V] :
             [S \in D |-> IF S = {} THEN base ELSE op[<<pick[S], g[S \ {pick[S]}]>>]] \in [D -> V]
      BY <1>3
    <2> QED BY <2>1
  <1>5. ASSUME NEW g \in [D -> V], NEW h \in [D -> V], NEW S \in D,
               \A T \in D : <<S, T>> \in R => g[T] = h[T]
        PROVE  F[g][S] = F[h][S]
    <2>1. CASE S = {}
      BY <2>1
    <2>2. CASE S # {}
      <3>1. S \ {pick[S]} \in D /\ <<S, S \ {pick[S]}>> \in R
        BY <2>2
      <3>2. g[S \ {pick[S]}] = h[S \ {pick[S]}]
        BY <1>5, <3>1
      <3> QED BY <3>2
    <2> QED BY <2>1, <2>2
  <1>6. HasSolution(F, D, V)
    <2> HIDE DEF D, F, R
    <2>1. DependsAlong(F, D, V, R)
      BY <1>4, <1>5 DEF DependsAlong
    <2> QED BY <1>1, <1>2, <2>1, RecursionHasASolution
  <1>7. PICK h \in [D -> V] : h = F[h]
    BY <1>6 DEF HasSolution
  <1>8. FoldsWith(h, N, pick, base, op)
    BY <1>7 DEF FoldsWith
  <1>9. \A S \in SUBSET N : h[S] \in V
    OBVIOUS
  <1> QED BY <1>8, <1>9

-----------------------------------------------------------------------------
(* The vector of level 2                                                    *)

(* The jobs of the tasks of the device in a vector, which are at places of  *)
(* their own.                                                               *)
AllJobs == OpenJobs(DOMAIN tasks)
LocalJobs(jobs) == {jobs[k] : k \in OnDevice(jobs, focus)}
Apart(jobs) ==
    \A a, b \in OnDevice(jobs, focus) :
        jobs[a].task = jobs[b].task /\ jobs[a].release = jobs[b].release => a = b

LEMMA OnFocus ==
    ASSUME NEW jobs \in Seq(AllJobs)
    PROVE  /\ OnDevice(jobs, focus) = {k \in 1 .. Len(jobs) : jobs[k].task \in Local}
           /\ \A k \in 1 .. Len(jobs) : jobs[k] \in AllJobs
           /\ DOMAIN jobs = 1 .. Len(jobs) /\ Len(jobs) \in Nat
           /\ LocalJobs(jobs) \in SUBSET OpenJobs(Local)
  <1>1. \A k \in 1 .. Len(jobs) : jobs[k] \in AllJobs
    OBVIOUS
  <1>2. \A j \in AllJobs : j.task \in DOMAIN tasks
    BY DEF AllJobs, OpenJobs
  <1>3. OnDevice(jobs, focus) = {k \in 1 .. Len(jobs) : jobs[k].task \in Local}
    BY <1>1, <1>2 DEF OnDevice, Local
  <1>4. \A j \in AllJobs : j.task \in Local => j \in OpenJobs(Local)
    BY DEF AllJobs, OpenJobs
  <1>5. LocalJobs(jobs) \in SUBSET OpenJobs(Local)
    BY <1>1, <1>3, <1>4 DEF LocalJobs
  <1> QED BY <1>1, <1>3, <1>5

(* Two functions take the same values.                                      *)
LEMMA SameValues ==
    ASSUME NEW f, NEW A, NEW g, NEW B, \A m \in A : \E o \in B : f[m] = g[o],
           \A o \in B : \E m \in A : f[m] = g[o]
    PROVE  {f[m] : m \in A} = {g[o] : o \in B}
  OBVIOUS

(* One more job at the end.                                                 *)
LEMMA AppendLocal ==
    ASSUME NEW s \in Seq(AllJobs), NEW j \in AllJobs, NEW t, t = Append(s, j), Apart(s)
    PROVE  /\ t \in Seq(AllJobs)
           /\ LocalJobs(t) = LocalJobs(s) \cup (IF j.task \in Local THEN {j} ELSE {})
           /\ (\A k \in LocalJobs(s) : k.task # j.task \/ k.release # j.release) => Apart(t)
  <1> PICK n : n = Len(s)
    OBVIOUS
  <1>1. /\ t \in Seq(AllJobs) /\ Len(t) = n + 1 /\ t[n + 1] = j /\ n \in Nat
        /\ \A k \in 1 .. n : t[k] = s[k]
    OBVIOUS
  <1>2. /\ OnDevice(s, focus) = {k \in 1 .. n : s[k].task \in Local}
        /\ OnDevice(t, focus) = {k \in 1 .. n + 1 : t[k].task \in Local}
    BY <1>1, OnFocus
  <1>3. \A k : k \in 1 .. n + 1 <=> k \in 1 .. n \/ k = n + 1
    BY <1>1
  <1>4. LocalJobs(t) = LocalJobs(s) \cup (IF j.task \in Local THEN {j} ELSE {})
    BY <1>1, <1>2, <1>3 DEF LocalJobs
  <1>5. ASSUME \A k \in LocalJobs(s) : k.task # j.task \/ k.release # j.release,
               NEW a \in OnDevice(t, focus), NEW b \in OnDevice(t, focus),
               t[a].task = t[b].task, t[a].release = t[b].release
        PROVE  a = b
    <2>1. \A k \in OnDevice(t, focus) : k = n + 1 \/ (k \in OnDevice(s, focus) /\ t[k] = s[k])
      BY <1>1, <1>2, <1>3
    <2>2. \A k \in OnDevice(s, focus) : s[k].task # j.task \/ s[k].release # j.release
      BY <1>5 DEF LocalJobs
    <2> QED BY <1>1, <1>5, <2>1, <2>2 DEF Apart
  <1> QED BY <1>1, <1>4, <1>5 DEF Apart

(* So places stay of their own when the job is a new one.                   *)
LEMMA AppendNew ==
    ASSUME NEW s \in Seq(AllJobs), NEW j \in AllJobs, Apart(s),
           \A k \in LocalJobs(s) : k.task # j.task \/ k.release # j.release
    PROVE  /\ Append(s, j) \in Seq(AllJobs) /\ Apart(Append(s, j))
           /\ LocalJobs(Append(s, j)) = LocalJobs(s) \cup (IF j.task \in Local THEN {j} ELSE {})
  <1> PICK t : t = Append(s, j)
    OBVIOUS
  <1>1. /\ t \in Seq(AllJobs) /\ Apart(t)
        /\ LocalJobs(t) = LocalJobs(s) \cup (IF j.task \in Local THEN {j} ELSE {})
    BY AppendLocal
  <1> QED BY <1>1

(* A job served at its place,                                               *)
Updates(s, k, j, t) ==
    /\ s \in Seq(AllJobs) /\ Apart(s) /\ k \in 1 .. Len(s) /\ j \in AllJobs
    /\ j.task = s[k].task /\ j.release = s[k].release
    /\ t \in Seq(AllJobs) /\ Len(t) = Len(s) /\ t[k] = j
    /\ \A m \in 1 .. Len(s) : m # k => t[m] = s[m]
Updated(s, k, j, t) ==
    /\ Apart(t) /\ \A m \in 1 .. k - 1 : t[m] = s[m]
    /\ LocalJobs(t) = IF j.task \in Local THEN (LocalJobs(s) \ {s[k]}) \cup {j} ELSE LocalJobs(s)
LEMMA UpdateLocal ==
    ASSUME NEW s, NEW k, NEW j, NEW t, Updates(s, k, j, t)
    PROVE  Updated(s, k, j, t)
  <1> PICK n : n = Len(s)
    OBVIOUS
  <1>1. /\ s \in Seq(AllJobs) /\ Apart(s) /\ k \in 1 .. n /\ j \in AllJobs
        /\ j.task = s[k].task /\ j.release = s[k].release
        /\ t \in Seq(AllJobs) /\ Len(t) = n /\ n \in Nat /\ t[k] = j
        /\ \A m \in 1 .. n : m # k => t[m] = s[m]
    BY DEF Updates
  <1>2. /\ OnDevice(s, focus) = {m \in 1 .. n : s[m].task \in Local}
        /\ OnDevice(t, focus) = {m \in 1 .. n : t[m].task \in Local}
    BY <1>1, OnFocus
  <1>3. OnDevice(t, focus) = OnDevice(s, focus)
    BY <1>1, <1>2
  <1>4. \A m \in 1 .. n : t[m].task = s[m].task /\ t[m].release = s[m].release
    BY <1>1
  <1>5. Apart(t)
    BY <1>1, <1>2, <1>3, <1>4 DEF Apart
  <1>6. \A m \in 1 .. k - 1 : t[m] = s[m]
    BY <1>1
  <1>7. LocalJobs(t) = IF j.task \in Local THEN (LocalJobs(s) \ {s[k]}) \cup {j} ELSE LocalJobs(s)
    <2>1. CASE j.task \notin Local
      <3>1. k \notin OnDevice(s, focus)
        BY <1>1, <1>2, <2>1
      <3>2. \A m \in OnDevice(s, focus) : t[m] = s[m]
        BY <1>1, <1>2, <3>1
      <3> QED BY <1>3, <2>1, <3>2 DEF LocalJobs
    <2>2. CASE j.task \in Local
      <3>1. k \in OnDevice(s, focus)
        BY <1>1, <1>2, <2>2
      <3>2. \A m \in OnDevice(s, focus) : m # k => t[m] = s[m] /\ s[m] # s[k]
        BY <1>1, <1>2, <3>1 DEF Apart
      <3> QED BY <1>1, <1>3, <2>2, <3>1, <3>2 DEF LocalJobs
    <2> QED BY <2>1, <2>2
  <1> QED BY <1>5, <1>6, <1>7 DEF Updated

(* and one that leaves, whose place the last one takes.                     *)
LEMMA SwapRemoveLocal ==
    ASSUME NEW s \in Seq(AllJobs), Apart(s), NEW k \in 1 .. Len(s), NEW t, t = SwapRemove(s, k)
    PROVE  /\ t \in Seq(AllJobs) /\ Len(t) = Len(s) - 1 /\ Apart(t)
           /\ \A m \in 1 .. k - 1 : m \in 1 .. Len(t) /\ t[m] = s[m]
           /\ LocalJobs(t) = IF s[k].task \in Local THEN LocalJobs(s) \ {s[k]} ELSE LocalJobs(s)
  <1> PICK n : n = Len(s)
    OBVIOUS
  <1>1. n \in Nat \ {0} /\ n - 1 \in Nat /\ k \in 1 .. n /\ \A m \in 1 .. n : s[m] \in AllJobs
    OBVIOUS
  <1>2. t = [m \in 1 .. n - 1 |-> IF m = k THEN s[n] ELSE s[m]]
    BY DEF SwapRemove
  <1>3. \A m \in 1 .. n - 1 : t[m] = (IF m = k THEN s[n] ELSE s[m]) /\ m \in 1 .. n
    BY <1>1, <1>2
  <1>4. t \in Seq(AllJobs) /\ Len(t) = n - 1
    <2>1. t \in [1 .. n - 1 -> AllJobs]
      BY <1>1, <1>2, <1>3
    <2> QED BY <1>1, <1>2, <2>1
  <1>5. \A m \in 1 .. k - 1 : m \in 1 .. n - 1 /\ t[m] = s[m]
    BY <1>1, <1>3
  <1>6. /\ OnDevice(s, focus) = {m \in 1 .. n : s[m].task \in Local}
        /\ OnDevice(t, focus) = {m \in 1 .. n - 1 : t[m].task \in Local}
    BY <1>4, OnFocus
  (* where the jobs of t were in s *)
  <1> PICK from : from = [m \in 1 .. n - 1 |-> IF m = k THEN n ELSE m]
    OBVIOUS
  <1>7. \A m \in 1 .. n - 1 : from[m] \in 1 .. n /\ from[m] # k /\ t[m] = s[from[m]]
    BY <1>1, <1>3
  <1>8. \A m, o \in 1 .. n - 1 : from[m] = from[o] => m = o
    BY <1>1
  <1>9. \A o \in 1 .. n : o # k => \E m \in 1 .. n - 1 : from[m] = o
    <2> SUFFICES ASSUME NEW o \in 1 .. n, o # k PROVE \E m \in 1 .. n - 1 : from[m] = o
      OBVIOUS
    <2>1. CASE o = n
      <3>1. k \in 1 .. n - 1 /\ from[k] = n
        BY <1>1, <2>1
      <3> QED BY <2>1, <3>1
    <2>2. CASE o # n
      <3>1. o \in 1 .. n - 1 /\ from[o] = o
        BY <1>1, <2>2
      <3> QED BY <3>1
    <2> QED BY <2>1, <2>2
  <1>10. \A m \in OnDevice(t, focus) : m \in 1 .. n - 1 /\ from[m] \in OnDevice(s, focus)
    BY <1>6, <1>7
  <1>11. Apart(t)
    <2> SUFFICES ASSUME NEW a \in OnDevice(t, focus), NEW b \in OnDevice(t, focus),
                        t[a].task = t[b].task, t[a].release = t[b].release
                 PROVE  a = b
      BY DEF Apart
    <2> PICK p, q : p = from[a] /\ q = from[b]
      OBVIOUS
    <2>1. p \in OnDevice(s, focus) /\ q \in OnDevice(s, focus) /\ t[a] = s[p] /\ t[b] = s[q]
      BY <1>7, <1>10
    <2>2. s[p].task = s[q].task /\ s[p].release = s[q].release
      BY <2>1
    <2>3. p = q
      BY <2>1, <2>2 DEF Apart
    <2> QED BY <1>8, <1>10, <2>3
  <1>12. LocalJobs(t) = {s[o] : o \in OnDevice(s, focus) \ {k}}
    <2>1. \A m \in OnDevice(t, focus) : from[m] \in OnDevice(s, focus) \ {k} /\ t[m] = s[from[m]]
      BY <1>7, <1>10
    <2>2. ASSUME NEW o \in OnDevice(s, focus) \ {k}
          PROVE  \E m \in OnDevice(t, focus) : t[m] = s[o]
      <3>1. PICK m \in 1 .. n - 1 : from[m] = o
        BY <1>6, <1>9
      <3>2. t[m] = s[o] /\ s[o].task \in Local
        BY <1>6, <1>7, <3>1
      <3> QED BY <1>6, <3>2
    <2> PICK here, there : here = OnDevice(t, focus) /\ there = OnDevice(s, focus) \ {k}
      OBVIOUS
    <2>3. \A m \in here : from[m] \in there /\ t[m] = s[from[m]]
      BY <2>1
    <2>4. \A o \in there : \E m \in here : t[m] = s[o]
      BY <2>2
    <2>5. {t[m] : m \in here} = {s[o] : o \in there}
      <3>1. \A m \in here : \E o \in there : t[m] = s[o]
        BY <2>3
      <3> QED BY <2>4, <3>1, SameValues
    <2> QED BY <2>5 DEF LocalJobs
  <1>13. CASE s[k].task \in Local
    <2>1. k \in OnDevice(s, focus)
      BY <1>1, <1>6, <1>13
    <2>2. \A o \in OnDevice(s, focus) \ {k} : s[o] # s[k]
      BY <2>1 DEF Apart
    <2> QED BY <1>4, <1>5, <1>11, <1>12, <1>13, <2>1, <2>2 DEF LocalJobs
  <1>14. CASE s[k].task \notin Local
    <2>1. k \notin OnDevice(s, focus)
      BY <1>6, <1>14
    <2> QED BY <1>4, <1>5, <1>11, <1>12, <1>14, <2>1 DEF LocalJobs
  <1> QED BY <1>13, <1>14

(* The jobs released join the vector.                                       *)
ReleasesInto(h) ==
    h = [S \in SUBSET Due(DOMAIN tasks) |->
            IF S = {} THEN ready ELSE Append(h[S \ {Max(S)}], Released(Max(S)))]
LEMMA ReadyLocal ==
    ASSUME tasks \in Seq(TimedTask), now \in Nat, ready \in Seq(AllJobs), Apart(ready),
           \A i \in Due(Local) : \A k \in LocalJobs(ready) : k.task # i \/ k.release # now
    PROVE  /\ Ready2 \in Seq(AllJobs) /\ Apart(Ready2)
           /\ LocalJobs(Ready2) = LocalJobs(ready) \cup {Released(i) : i \in Due(Local)}
  <1> PICK N : N = Due(DOMAIN tasks)
    OBVIOUS
  <1>1. /\ IsFiniteSet(N) /\ N \in SUBSET Nat /\ \A i \in N : i \in DOMAIN tasks
        /\ Due(Local) = N \cap Local
    <2>1. DOMAIN tasks = 1 .. Len(tasks) /\ IsFiniteSet(DOMAIN tasks) /\ Len(tasks) \in Nat
      BY TaskFacts
    <2>2. N \in SUBSET DOMAIN tasks
      BY DEF Due
    <2>3. IsFiniteSet(N)
      BY <2>1, <2>2, FS_Subset
    <2>4. Due(Local) = N \cap Local
      BY DEF Due, Local
    <2>5. N \in SUBSET Nat
      BY <2>1, <2>2
    <2> QED BY <2>2, <2>3, <2>4, <2>5
  <1>2. \A i \in N : Released(i) \in AllJobs /\ Released(i).task = i /\ Released(i).release = now
    <2> TAKE i \in N
    <2>1. tasks[i] \in TimedTask
      BY <1>1, TaskFacts
    <2>2. tasks[i].deadline \in Nat /\ tasks[i].wcet \in Nat
      BY <2>1 DEF TimedTask
    <2> QED BY <1>1, <2>2 DEF Released, AllJobs, OpenJobs
  <1>3. \A S \in SUBSET N : IsFiniteSet(S) /\ (S # {} => Max(S) \in S)
    <2> TAKE S \in SUBSET N
    <2>1. S \in SUBSET Int
      BY <1>1
    <2>2. IsFiniteSet(S)
      BY <1>1, FS_Subset
    <2> QED BY <2>1, <2>2, Greatest
  <1>4. \E h : ReleasesInto(h)
    <2> PICK V : V = Seq(AllJobs)
      OBVIOUS
    <2> PICK pick : pick = [S \in SUBSET N |-> Max(S)]
      OBVIOUS
    <2> PICK op : op = [a \in N \X V |-> Append(a[2], Released(a[1]))]
      OBVIOUS
    <2>1. op \in [N \X V -> V]
      <3>1. \A a \in N \X V : Append(a[2], Released(a[1])) \in V
        <4> SUFFICES ASSUME NEW a \in N \X V PROVE Append(a[2], Released(a[1])) \in V
          OBVIOUS
        <4>1. a[2] \in Seq(AllJobs) /\ Released(a[1]) \in AllJobs
          BY <1>2
        <4> QED BY <4>1
      <3> QED BY <3>1
    <2>2. \A S \in SUBSET N : S # {} => pick[S] \in S
      BY <1>3
    <2>3. PICK h : FoldsWith(h, N, pick, ready, op) /\ \A S \in SUBSET N : h[S] \in V
      <3>1. ready \in V /\ IsFiniteSet(N)
        BY <1>1
      <3> QED BY <2>1, <2>2, <3>1, FoldExists
    <2>4. ASSUME NEW S \in SUBSET N, S # {}
          PROVE  op[<<pick[S], h[S \ {pick[S]}]>>] = Append(h[S \ {Max(S)}], Released(Max(S)))
      <3>1. pick[S] = Max(S) /\ Max(S) \in N /\ S \ {Max(S)} \in SUBSET N
        BY <1>3, <2>4
      <3>2. <<Max(S), h[S \ {Max(S)}]>> \in N \X V
        BY <2>3, <3>1
      <3> QED BY <3>1, <3>2
    <2>5. h = [S \in SUBSET N |-> IF S = {} THEN ready
                                  ELSE Append(h[S \ {Max(S)}], Released(Max(S)))]
      BY <2>3, <2>4 DEF FoldsWith
    <2> QED BY <2>5 DEF ReleasesInto
  <1>5. ASSUME NEW h, ReleasesInto(h)
        PROVE  /\ h[N] \in Seq(AllJobs) /\ Apart(h[N])
               /\ LocalJobs(h[N]) = LocalJobs(ready) \cup {Released(i) : i \in N \cap Local}
    <2> DEFINE good(S) == /\ h[S] \in Seq(AllJobs) /\ Apart(h[S])
                          /\ LocalJobs(h[S]) = LocalJobs(ready) \cup {Released(i) : i \in S \cap Local}
               bad == {S \in SUBSET N : ~ good(S)}
    <2> SUFFICES ASSUME bad # {} PROVE FALSE
      OBVIOUS
    <2>1. PICK S \in bad : \A T \in bad : Cardinality(S) <= Cardinality(T)
      <3>1. \A T \in bad : IsFiniteSet(T)
        BY <1>3
      <3> HIDE DEF bad
      <3> QED BY <3>1, SmallestSet
    <2>2. S \in SUBSET N /\ ~ good(S)
      OBVIOUS
    <2>3. h[S] = IF S = {} THEN ready ELSE Append(h[S \ {Max(S)}], Released(Max(S)))
      BY <1>5, <2>2 DEF ReleasesInto
    <2>4. CASE S = {}
      <3>1. h[S] = ready /\ {Released(i) : i \in S \cap Local} = {}
        BY <2>3, <2>4
      <3> QED BY <2>2, <3>1
    <2>5. CASE S # {}
      <3> PICK i : i = Max(S)
        OBVIOUS
      <3> PICK T : T = S \ {i}
        OBVIOUS
      <3>1. i \in S /\ IsFiniteSet(S) /\ T \in SUBSET N /\ i \in N
        BY <1>3, <2>2, <2>5
      <3>2. Cardinality(T) < Cardinality(S) /\ Cardinality(T) \in Nat /\ Cardinality(S) \in Nat
        BY <3>1, OneLess
      <3>3. T \notin bad
        <4> HIDE DEF bad
        <4> QED BY <2>1, <3>2
      <3>4. good(T)
        BY <3>1, <3>3
      <3> PICK s, j : s = h[T] /\ j = Released(i)
        OBVIOUS
      <3>5. h[S] = Append(s, j) /\ s \in Seq(AllJobs) /\ Apart(s) /\ j \in AllJobs /\ j.task = i
            /\ j.release = now
        BY <1>2, <2>3, <2>5, <3>1, <3>4
      <3>6. LocalJobs(s) = LocalJobs(ready) \cup {Released(k) : k \in T \cap Local}
        BY <3>4
      <3>7. \A k \in LocalJobs(s) : k.task # i \/ k.release # now
        <4> SUFFICES ASSUME NEW k \in LocalJobs(s) PROVE k.task # i \/ k.release # now
          OBVIOUS
        <4>1. CASE k \in LocalJobs(ready)
          <5>1. k.task \in Local
            BY <4>1, OnFocus DEF OpenJobs
          <5>2. i \in Local => i \in Due(Local)
            BY <1>1, <3>1
          <5> QED BY <4>1, <5>1, <5>2
        <4>2. CASE k \notin LocalJobs(ready)
          <5>1. PICK l \in T : k = Released(l)
            BY <3>6, <4>2
          <5>2. k.task = l /\ l # i
            BY <1>2, <3>1, <5>1
          <5> QED BY <5>2
        <4> QED BY <4>1, <4>2
      <3>8. /\ h[S] \in Seq(AllJobs) /\ Apart(h[S])
            /\ LocalJobs(h[S]) = LocalJobs(s) \cup (IF j.task \in Local THEN {j} ELSE {})
        <4>1. \A k \in LocalJobs(s) : k.task # j.task \/ k.release # j.release
          BY <3>5, <3>7
        <4>2. s \in Seq(AllJobs) /\ j \in AllJobs /\ Apart(s)
          BY <3>5
        <4> HIDE DEF bad, good
        <4>3. /\ Append(s, j) \in Seq(AllJobs) /\ Apart(Append(s, j))
              /\ LocalJobs(Append(s, j)) = LocalJobs(s) \cup (IF j.task \in Local THEN {j} ELSE {})
          BY <4>1, <4>2, AppendNew
        <4> QED BY <3>5, <4>3
      <3>9. LocalJobs(h[S]) = LocalJobs(ready) \cup {Released(k) : k \in S \cap Local}
        <4>1. CASE i \in Local
          <5>1. S \cap Local = (T \cap Local) \cup {i}
            BY <3>1, <4>1
          <5> QED BY <3>5, <3>6, <3>8, <4>1, <5>1
        <4>2. CASE i \notin Local
          <5>1. S \cap Local = T \cap Local
            BY <3>1, <4>2
          <5> QED BY <3>5, <3>6, <3>8, <4>2, <5>1
        <4> QED BY <4>1, <4>2
      <3> QED BY <2>2, <3>8, <3>9
    <2> QED BY <2>4, <2>5
  <1> DEFINE it == CHOOSE h : ReleasesInto(h)
  <1>6. Ready2 = it[N]
    BY DEF ReleasesInto, Ready2, MapThenFoldSet
  <1>7. ReleasesInto(it)
    BY <1>4
  <1> HIDE DEF it
  <1> QED BY <1>1, <1>5, <1>6, <1>7

(* The jobs being served: the vector and those that have answered, and of   *)
(* these the ones of the device.                                            *)
States == {st \in [jobs : Seq(AllJobs), done : SUBSET AllJobs] : Apart(st.jobs)}
Answered(st) == {j \in st.done : j.task \in Local}
LastOf(y) == IF y.remaining = 1 THEN {[y EXCEPT !.remaining = @ - 1]} ELSE {}

(* A unit of service to a position is one to a job of the device or to none *)
(* of them, and the positions before it keep their jobs.                    *)
ServesAt(st, k, y, u) ==
    /\ u \in States
    /\ \A m \in 1 .. k - 1 : m \in DOMAIN u.jobs /\ u.jobs[m] = st.jobs[m]
    /\ y.task \notin Local => LocalJobs(u.jobs) = LocalJobs(st.jobs) /\ Answered(u) = Answered(st)
    /\ y.task \in Local /\ y.remaining # 0 =>
          /\ LocalJobs(u.jobs) = (LocalJobs(st.jobs) \ {y}) \cup LeftOf(y, 1)
          /\ Answered(u) = Answered(st) \cup LastOf(y)
LEMMA ServeOne ==
    ASSUME tasks \in Seq(TimedTask), NEW st \in States, NEW k \in DOMAIN st.jobs
    PROVE  ServesAt(st, k, st.jobs[k], Serve(st, k))
  <1> PICK y, u : y = st.jobs[k] /\ u = Serve(st, k)
    OBVIOUS
  <1> PICK s : s = st.jobs
    OBVIOUS
  <1> PICK a : a = IF y.remaining = 0 THEN 0 ELSE y.remaining - 1
    OBVIOUS
  <1> PICK j : j = [y EXCEPT !.remaining = a]
    OBVIOUS
  <1>1. /\ s \in Seq(AllJobs) /\ Apart(s) /\ k \in 1 .. Len(s) /\ y = s[k] /\ y \in AllJobs
        /\ Len(s) \in Nat /\ DOMAIN s = 1 .. Len(s) /\ st.done \in SUBSET AllJobs
        /\ st = [jobs |-> s, done |-> st.done]
    <2>1. s \in Seq(AllJobs) /\ Apart(s) /\ st.done \in SUBSET AllJobs
          /\ st = [jobs |-> s, done |-> st.done]
      BY DEF States
    <2>2. k \in 1 .. Len(s) /\ DOMAIN s = 1 .. Len(s) /\ Len(s) \in Nat
      BY <2>1
    <2>3. s[k] \in AllJobs
      BY <2>1, <2>2
    <2> QED BY <2>1, <2>2, <2>3
  <1>2. y.remaining \in Nat /\ a \in Nat
    BY <1>1 DEF AllJobs, OpenJobs
  <1>3. j \in AllJobs /\ j.task = y.task /\ j.release = y.release /\ j.remaining = a
    BY <1>1, <1>2 DEF AllJobs, OpenJobs
  <1>4. u = IF j.remaining = 0 THEN [jobs |-> SwapRemove(s, k), done |-> st.done \cup {j}]
            ELSE [st EXCEPT !.jobs[k] = j]
    <2>1. j = [st.jobs[k] EXCEPT !.remaining = IF @ = 0 THEN 0 ELSE @ - 1]
      BY <1>1
    <2> QED BY <2>1 DEF Serve
  <1>5. CASE a = 0
    <2>1. u = [jobs |-> SwapRemove(s, k), done |-> st.done \cup {j}]
      BY <1>3, <1>4, <1>5
    <2> PICK t : t = SwapRemove(s, k)
      OBVIOUS
    <2>2. /\ t \in Seq(AllJobs) /\ Apart(t)
          /\ \A m \in 1 .. k - 1 : m \in 1 .. Len(t) /\ t[m] = s[m]
          /\ LocalJobs(t) = IF s[k].task \in Local THEN LocalJobs(s) \ {s[k]} ELSE LocalJobs(s)
      BY <1>1, SwapRemoveLocal
    <2>3. u.jobs = t /\ u.done = st.done \cup {j} /\ DOMAIN t = 1 .. Len(t)
      BY <2>1, <2>2
    <2>4. u \in States
      BY <1>1, <1>3, <2>1, <2>2, <2>3 DEF States
    <2>5. y.task \notin Local => Answered(u) = Answered(st)
      BY <1>3, <2>3 DEF Answered
    <2>6. ASSUME y.task \in Local, y.remaining # 0
          PROVE  LeftOf(y, 1) = {} /\ Answered(u) = Answered(st) \cup LastOf(y)
      <3>1. y.remaining = 1
        BY <1>2, <1>5, <2>6
      <3>2. LeftOf(y, 1) = {}
        BY <3>1 DEF LeftOf
      <3>3. LastOf(y) = {j}
        <4>1. y.remaining - 1 = a
          BY <1>5, <3>1
        <4> QED BY <3>1, <4>1 DEF LastOf
      <3> QED BY <1>3, <2>3, <2>6, <3>2, <3>3 DEF Answered
    <2>7. \A m \in 1 .. k - 1 : m \in DOMAIN u.jobs /\ u.jobs[m] = s[m]
      BY <2>2, <2>3
    <2> QED BY <1>1, <2>2, <2>3, <2>4, <2>5, <2>6, <2>7 DEF ServesAt
  <1>6. CASE a # 0
    <2> PICK t : t = [s EXCEPT ![k] = j]
      OBVIOUS
    <2>1. u.jobs = t /\ u.done = st.done /\ u = [jobs |-> t, done |-> st.done]
      <3>1. u = [st EXCEPT !.jobs[k] = j]
        BY <1>3, <1>4, <1>6
      <3> QED BY <1>1, <3>1
    <2>2. /\ t \in Seq(AllJobs) /\ Len(t) = Len(s) /\ Apart(t)
          /\ \A m \in 1 .. k - 1 : t[m] = s[m]
          /\ LocalJobs(t) = IF j.task \in Local THEN (LocalJobs(s) \ {s[k]}) \cup {j}
                            ELSE LocalJobs(s)
      <3>1. /\ t \in Seq(AllJobs) /\ Len(t) = Len(s) /\ t[k] = j
            /\ \A m \in 1 .. Len(s) : m # k => t[m] = s[m]
        BY <1>1, <1>3
      <3>2. Updates(s, k, j, t)
        BY <1>1, <1>3, <3>1 DEF Updates
      <3>3. Updated(s, k, j, t)
        BY <3>2, UpdateLocal
      <3> QED BY <3>1, <3>3 DEF Updated
    <2>3. \A m \in 1 .. k - 1 : m \in DOMAIN t
      BY <1>1, <2>2
    <2>4. u \in States
      BY <1>1, <2>1, <2>2 DEF States
    <2>5. Answered(u) = Answered(st)
      BY <2>1 DEF Answered
    <2>6. ASSUME y.task \in Local, y.remaining # 0
          PROVE  LeftOf(y, 1) = {j} /\ LastOf(y) = {}
      <3>1. y.remaining # 1 /\ a = y.remaining - 1
        BY <1>2, <1>6, <2>6
      <3> QED BY <3>1 DEF LeftOf, LastOf
    <2> QED BY <1>1, <1>3, <2>1, <2>2, <2>3, <2>4, <2>5, <2>6 DEF ServesAt
  <1> QED BY <1>5, <1>6

(* The selected positions are served from the last to the first.            *)
ServesInto(h, r) ==
    h = [S \in SUBSET Selected(r) |->
            IF S = {} THEN [jobs |-> r, done |-> {}] ELSE Serve(h[S \ {Min(S)}], Min(S))]
LEMMA ServedIs ==
    ASSUME tasks \in Seq(TimedTask), NEW r \in Seq(AllJobs), Apart(r)
    PROVE  \E h : ServesInto(h, r) /\ Served(r) = h[Selected(r)]
  <1> PICK N : N = Selected(r)
    OBVIOUS
  <1> PICK st : st = [jobs |-> r, done |-> {}]
    OBVIOUS
  <1>1. IsFiniteSet(N) /\ N \in SUBSET Nat /\ N \in SUBSET DOMAIN r
    <2>1. DOMAIN r = 1 .. Len(r) /\ Len(r) \in Nat /\ N \in SUBSET DOMAIN r
      BY DEF Selected
    <2>2. IsFiniteSet(1 .. Len(r))
      BY <2>1, FS_Interval
    <2>3. IsFiniteSet(N)
      BY <2>1, <2>2, FS_Subset
    <2>4. N \in SUBSET Nat
      BY <2>1
    <2> QED BY <2>1, <2>3, <2>4
  <1>2. st \in States /\ st.jobs = r /\ st.done = {}
    BY DEF States
  <1>3. \E h : ServesInto(h, r)
    <2> PICK pick : pick = [S \in SUBSET N |-> Min(S)]
      OBVIOUS
    <2> PICK V : V = States
      OBVIOUS
    <2> PICK op : op = [a \in N \X V |-> Serve(a[2], a[1])]
      OBVIOUS
    <2>1. op \in [N \X V -> V]
      <3>1. \A a \in N \X V : Serve(a[2], a[1]) \in V
        <4> SUFFICES ASSUME NEW a \in N \X V PROVE Serve(a[2], a[1]) \in V
          OBVIOUS
        <4> PICK v, k : v = a[2] /\ k = a[1]
          OBVIOUS
        <4>1. v \in States
          OBVIOUS
        <4>2. CASE k \in DOMAIN v.jobs
          <5>1. ServesAt(v, k, v.jobs[k], Serve(v, k))
            BY <4>1, <4>2, ServeOne
          <5> QED BY <5>1 DEF ServesAt
        <4>3. CASE k \notin DOMAIN v.jobs
          <5>1. Serve(v, k) = v
            BY <4>3 DEF Serve
          <5> QED BY <4>1, <5>1
        <4> QED BY <4>2, <4>3
      <3> QED BY <3>1
    <2>2. \A S \in SUBSET N : S # {} => pick[S] = Min(S) /\ Min(S) \in S
      BY <1>1, LeastOfNaturals
    <2>3. PICK h : FoldsWith(h, N, pick, st, op) /\ \A S \in SUBSET N : h[S] \in V
      <3>1. st \in V /\ IsFiniteSet(N) /\ \A S \in SUBSET N : S # {} => pick[S] \in S
        BY <1>1, <1>2, <2>2
      <3> QED BY <2>1, <3>1, FoldExists
    <2>4. ASSUME NEW S \in SUBSET N, S # {}
          PROVE  op[<<pick[S], h[S \ {pick[S]}]>>] = Serve(h[S \ {Min(S)}], Min(S))
      <3>1. pick[S] = Min(S) /\ Min(S) \in N /\ S \ {Min(S)} \in SUBSET N
        BY <2>2, <2>4
      <3>2. <<Min(S), h[S \ {Min(S)}]>> \in N \X V
        BY <2>3, <3>1
      <3> QED BY <3>1, <3>2
    <2>5. h = [S \in SUBSET N |-> IF S = {} THEN st ELSE Serve(h[S \ {Min(S)}], Min(S))]
      BY <2>3, <2>4 DEF FoldsWith
    <2> QED BY <2>5 DEF ServesInto
  <1> DEFINE it == CHOOSE h : ServesInto(h, r)
  <1>4. Served(r) = it[Selected(r)]
    BY DEF ServesInto, Served, MapThenFoldSet
  <1>5. ServesInto(it, r)
    BY <1>3
  <1> HIDE DEF it
  <1> QED BY <1>4, <1>5

(* When at most one of the positions holds a job of the device, that job    *)
(* gets the unit and the other jobs of the device are left alone.           *)
OnlyOne(r, p) == \A k \in Selected(r) : r[k].task \in Local => k = p /\ r[k].remaining # 0
LEMMA ServedFold ==
    ASSUME tasks \in Seq(TimedTask), NEW r \in Seq(AllJobs), Apart(r), NEW h, ServesInto(h, r),
           NEW p, OnlyOne(r, p), NEW v, v = h[Selected(r)]
    PROVE  /\ v \in States
           /\ IF p \in Selected(r) /\ r[p].task \in Local
              THEN /\ LocalJobs(v.jobs) = (LocalJobs(r) \ {r[p]}) \cup LeftOf(r[p], 1)
                   /\ Answered(v) = LastOf(r[p])
              ELSE LocalJobs(v.jobs) = LocalJobs(r) /\ Answered(v) = {}
  <1> PICK N : N = Selected(r)
    OBVIOUS
  <1> DEFINE kept(S) == \A m \in DOMAIN r : (\A o \in S : m < o) =>
                           m \in DOMAIN h[S].jobs /\ h[S].jobs[m] = r[m]
             hit(S) == p \in S /\ r[p].task \in Local
             local(S, L, A) == LocalJobs(h[S].jobs) = L /\ Answered(h[S]) = A
             good(S) ==
                /\ h[S] \in States /\ kept(S)
                /\ hit(S) => local(S, (LocalJobs(r) \ {r[p]}) \cup LeftOf(r[p], 1), LastOf(r[p]))
                /\ ~ hit(S) => local(S, LocalJobs(r), {})
             bad == {S \in SUBSET N : ~ good(S)}
  <1>1. IsFiniteSet(N) /\ N \in SUBSET Nat /\ N \in SUBSET DOMAIN r /\ DOMAIN r \in SUBSET Nat
    <2>1. DOMAIN r = 1 .. Len(r) /\ Len(r) \in Nat /\ N \in SUBSET DOMAIN r
      BY DEF Selected
    <2>2. IsFiniteSet(1 .. Len(r))
      BY <2>1, FS_Interval
    <2>3. IsFiniteSet(N)
      BY <2>1, <2>2, FS_Subset
    <2>4. N \in SUBSET Nat /\ DOMAIN r \in SUBSET Nat
      BY <2>1
    <2> QED BY <2>1, <2>3, <2>4
  <1>2. \A S \in SUBSET N : IsFiniteSet(S) /\ (S # {} => Min(S) \in S /\ \A k \in S : Min(S) <= k)
    BY <1>1, FS_Subset, LeastOfNaturals
  <1>3. bad = {}
    <2> SUFFICES ASSUME bad # {} PROVE FALSE
      OBVIOUS
    <2>1. PICK S \in bad : \A T \in bad : Cardinality(S) <= Cardinality(T)
      <3>1. \A T \in bad : IsFiniteSet(T)
        BY <1>2
      <3> HIDE DEF bad
      <3> QED BY <3>1, SmallestSet
    <2>2. S \in SUBSET N /\ ~ good(S)
      OBVIOUS
    <2>3. h[S] = IF S = {} THEN [jobs |-> r, done |-> {}] ELSE Serve(h[S \ {Min(S)}], Min(S))
      BY <2>2 DEF ServesInto
    <2>4. CASE S = {}
      <3>1. h[S] = [jobs |-> r, done |-> {}] /\ ~ hit(S)
        BY <2>3, <2>4
      <3>2. h[S].jobs = r /\ h[S].done = {}
        BY <3>1
      <3>3. h[S] \in States
        BY <3>1, <3>2 DEF States
      <3>4. local(S, LocalJobs(r), {})
        BY <3>2 DEF Answered
      <3> QED BY <2>2, <3>1, <3>2, <3>3, <3>4
    <2>5. CASE S # {}
      <3> PICK i : i = Min(S)
        OBVIOUS
      <3> PICK T : T = S \ {i}
        OBVIOUS
      <3>1. /\ i \in S /\ IsFiniteSet(S) /\ T \in SUBSET N /\ i \in N /\ i \in DOMAIN r /\ i \in Nat
            /\ \A o \in T : i < o
        <4>1. i \in S /\ IsFiniteSet(S) /\ T \in SUBSET N /\ i \in N /\ \A k \in S : i <= k
          BY <1>2, <2>2, <2>5
        <4>2. i \in DOMAIN r /\ i \in Nat
          BY <1>1, <4>1
        <4>3. ASSUME NEW o \in T PROVE i < o
          <5>1. i <= o /\ o # i /\ o \in Nat
            BY <1>1, <4>1
          <5> QED BY <4>2, <5>1
        <4> QED BY <4>1, <4>2, <4>3
      <3>2. Cardinality(T) < Cardinality(S) /\ Cardinality(T) \in Nat /\ Cardinality(S) \in Nat
        BY <3>1, OneLess
      <3>3. T \notin bad
        <4> HIDE DEF bad
        <4> QED BY <2>1, <3>2
      <3>4. good(T)
        BY <3>1, <3>3
      <3> PICK st, u, y : st = h[T] /\ u = h[S] /\ y = r[i]
        OBVIOUS
      <3>5. /\ st \in States /\ u = Serve(st, i) /\ i \in DOMAIN st.jobs /\ y = st.jobs[i]
        <4>1. h[S] = Serve(h[T], i)
          BY <2>3, <2>5
        <4>2. kept(T)
          BY <3>4
        <4>3. i \in DOMAIN h[T].jobs /\ h[T].jobs[i] = r[i]
          BY <3>1, <4>2
        <4> QED BY <3>4, <4>1, <4>3
      <3>6. /\ u \in States
            /\ \A m \in 1 .. i - 1 : m \in DOMAIN u.jobs /\ u.jobs[m] = st.jobs[m]
            /\ y.task \notin Local => LocalJobs(u.jobs) = LocalJobs(st.jobs) /\ Answered(u) = Answered(st)
            /\ y.task \in Local /\ y.remaining # 0 =>
                  /\ LocalJobs(u.jobs) = (LocalJobs(st.jobs) \ {y}) \cup LeftOf(y, 1)
                  /\ Answered(u) = Answered(st) \cup LastOf(y)
        <4> HIDE DEF bad, good
        <4>1. ServesAt(st, i, y, u)
          BY <3>5, ServeOne
        <4> QED BY <4>1 DEF ServesAt
      <3>7. kept(S)
        <4> SUFFICES ASSUME NEW m \in DOMAIN r, \A o \in S : m < o
                     PROVE  m \in DOMAIN h[S].jobs /\ h[S].jobs[m] = r[m]
          OBVIOUS
        <4>1. m < i /\ \A o \in T : m < o
          BY <3>1
        <4>2. m \in DOMAIN st.jobs /\ st.jobs[m] = r[m]
          <5>1. kept(T)
            BY <3>4
          <5> QED BY <4>1, <5>1
        <4>3. m \in 1 .. i - 1
          <5>1. DOMAIN r = 1 .. Len(r)
            OBVIOUS
          <5> HIDE DEF bad, good
          <5> QED BY <3>1, <4>1, <5>1
        <4> QED BY <3>6, <4>2, <4>3
      <3>8. y.task \in Local => i = p /\ y.remaining # 0
        BY <3>1 DEF OnlyOne
      <3>9. CASE y.task \in Local
        <4>1. i = p /\ y.remaining # 0 /\ ~ hit(T) /\ hit(S)
          BY <3>1, <3>8, <3>9
        <4>2. LocalJobs(st.jobs) = LocalJobs(r) /\ Answered(st) = {}
          BY <3>4, <4>1
        <4>3. local(S, (LocalJobs(r) \ {r[p]}) \cup LeftOf(r[p], 1), LastOf(r[p]))
          BY <3>6, <3>9, <4>1, <4>2
        <4> QED BY <2>2, <3>6, <3>7, <4>1, <4>3
      <3>10. CASE y.task \notin Local
        <4>1. (hit(S) <=> hit(T)) /\ LocalJobs(u.jobs) = LocalJobs(st.jobs) /\ Answered(u) = Answered(st)
          BY <3>1, <3>6, <3>10
        <4>2. /\ hit(S) => local(S, (LocalJobs(r) \ {r[p]}) \cup LeftOf(r[p], 1), LastOf(r[p]))
              /\ ~ hit(S) => local(S, LocalJobs(r), {})
          BY <3>4, <4>1
        <4> QED BY <2>2, <3>6, <3>7, <4>2
      <3> QED BY <3>9, <3>10
    <2> QED BY <2>4, <2>5
  <1>4. good(N)
    BY <1>3
  <1> QED BY <1>4

(* So of the jobs of the device the first gets a unit, if there are any.    *)
LEMMA ServedLocal ==
    ASSUME policy = "FixedPriority", Device(tasks, Local), NEW r \in Seq(AllJobs), Apart(r),
           \A j \in LocalJobs(r) : j.remaining # 0, NEW u, u = Served(r)
    PROVE  /\ u \in States
           /\ LocalJobs(r) = {} => LocalJobs(u.jobs) = {} /\ Answered(u) = {}
           /\ LocalJobs(r) # {} =>
                \E x : /\ Leads(tasks, LocalJobs(r), x)
                       /\ LocalJobs(u.jobs) = (LocalJobs(r) \ {x}) \cup LeftOf(x, 1)
                       /\ Answered(u) = LastOf(x)
  <1>1. PICK h : ServesInto(h, r) /\ u = h[Selected(r)]
    BY ServedIs DEF Device
  <1> PICK S, there : S = LocalJobs(r) /\ there = OnDevice(r, focus)
    OBVIOUS
  <1>2. /\ tasks \in Seq(TimedTask) /\ S \in SUBSET OpenJobs(Local)
        /\ there = {k \in DOMAIN r : r[k].task \in Local} /\ S = {r[k] : k \in there}
        /\ \A a, b \in there : r[a].task = r[b].task /\ r[a].release = r[b].release => a = b
    <2>1. there = {k \in 1 .. Len(r) : r[k].task \in Local} /\ DOMAIN r = 1 .. Len(r)
          /\ S \in SUBSET OpenJobs(Local)
      BY OnFocus
    <2> QED BY <2>1 DEF Device, LocalJobs, Apart
  (* the selected positions of jobs of the device *)
  <1>3. \A k \in there : k \in Selected(r) <=> r[k] \in First(S, policy)
    <2> SUFFICES ASSUME NEW k \in there PROVE k \in Selected(r) <=> r[k] \in First(S, policy)
      OBVIOUS
    <2>1. k \in DOMAIN r /\ tasks[r[k].task].device = focus
      BY DEF OnDevice
    <2>2. {r[m] : m \in OnDevice(r, tasks[r[k].task].device)} = S
      BY <2>1 DEF LocalJobs
    <2> QED BY <2>1, <2>2 DEF Selected
  <1>4. \A j, k \in S : j.task = k.task /\ j.release = k.release => j = k
    BY <1>2
  <1>5. \A j \in First(S, policy) : Leads(tasks, S, j) /\ j \in S
    <2> SUFFICES ASSUME NEW j \in First(S, policy) PROVE Leads(tasks, S, j)
      BY DEF First
    <2>1. NoneBefore(S, j)
      BY <1>2, FirstIsLeast
    <2> QED BY <1>2, <1>4, <2>1, FirstLeads
  <1>6. CASE S = {}
    <2>1. there = {}
      <3> SUFFICES ASSUME NEW k \in there PROVE FALSE
        OBVIOUS
      <3>1. r[k] \in S
        BY <1>2
      <3> QED BY <1>6, <3>1
    <2> PICK p : p = 0
      OBVIOUS
    <2>2. \A k \in Selected(r) : r[k].task \notin Local
      BY <1>2, <2>1 DEF Selected
    <2>3. ~ (p \in Selected(r) /\ r[p].task \in Local) /\ OnlyOne(r, p)
      BY <2>2 DEF OnlyOne
    <2>4. u \in States /\ LocalJobs(u.jobs) = S /\ Answered(u) = {}
      BY <1>1, <1>2, <2>3, ServedFold
    <2> QED BY <1>6, <2>4
  <1>7. CASE S # {}
    <2>1. First(S, policy) # {}
      BY <1>2, <1>7, FirstIsLeast
    <2>2. PICK x : x \in First(S, policy)
      BY <2>1
    <2>3. Leads(tasks, S, x) /\ x \in S
      BY <1>5, <2>2
    <2>4. PICK p \in there : x = r[p]
      BY <1>2, <2>3
    <2>5. p \in Selected(r) /\ r[p].task \in Local
      BY <1>2, <1>3, <2>2, <2>4
    <2>6. OnlyOne(r, p)
      <3> SUFFICES ASSUME NEW k \in Selected(r), r[k].task \in Local
                   PROVE  k = p /\ r[k].remaining # 0
        BY DEF OnlyOne
      <3>1. k \in there /\ r[k] \in S
        BY <1>2 DEF Selected
      <3>2. r[k] = x
        BY <1>2, <1>3, <1>5, <2>3, <3>1, OneLeads
      <3>3. k = p
        BY <1>2, <2>4, <3>1, <3>2
      <3> QED BY <3>1, <3>3
    <2>7. /\ u \in States
          /\ LocalJobs(u.jobs) = (S \ {r[p]}) \cup LeftOf(r[p], 1)
          /\ Answered(u) = LastOf(r[p])
      <3> PICK z : z = r[p]
        OBVIOUS
      <3>1. u \in States /\ LocalJobs(u.jobs) = (LocalJobs(r) \ {r[p]}) \cup LeftOf(r[p], 1)
            /\ Answered(u) = LastOf(r[p])
        <4>1. tasks \in Seq(TimedTask)
          BY <1>2
        <4> QED BY <1>1, <2>5, <2>6, <4>1, ServedFold
      <3> QED BY <3>1
    <2> QED BY <1>7, <2>3, <2>4, <2>7
  <1> QED BY <1>6, <1>7

-----------------------------------------------------------------------------
(* Level 2 goes along too                                                   *)

(* What level 2 keeps of the tasks of the device.                           *)
Masked(f) == [i \in DOMAIN tasks |-> IF i \in Local THEN f[i] ELSE 0]
View == Schedule(now, Masked(nextReleases), LocalJobs(ready), Masked(level2.response))

(* The start is regular.                                                    *)
LEMMA StartIsRegular ==
    ASSUME NEW tsk, NEW loc, Device(tsk, loc)
    PROVE  Regular(tsk, loc, Origin(tsk))
  <1> PICK s : s = Origin(tsk)
    OBVIOUS
  <1>1. /\ s.now = 0 /\ s.next = [i \in DOMAIN tsk |-> 0] /\ s.jobs = {}
        /\ s.response = [i \in DOMAIN tsk |-> 0]
    BY DEF Origin, Schedule
  <1>2. \A k \in loc : /\ k \in DOMAIN tsk /\ tsk[k].period \in Nat \ {0}
                       /\ s.next[k] = 0 /\ Divides(tsk[k].period, 0)
    <2> SUFFICES ASSUME NEW k \in loc
                 PROVE  /\ k \in DOMAIN tsk /\ tsk[k].period \in Nat \ {0}
                        /\ s.next[k] = 0 /\ Divides(tsk[k].period, 0)
      OBVIOUS
    <2>1. k \in DOMAIN tsk /\ tsk[k].period \in Nat \ {0}
      <3>1. k \in DOMAIN tsk /\ tsk \in Seq(TimedTask)
        BY DEF Device
      <3>2. tsk[k] \in TimedTask
        BY <3>1, TaskFacts
      <3> QED BY <3>1, <3>2 DEF TimedTask
    <2>2. 0 = tsk[k].period * 0
      BY <2>1
    <2> QED BY <1>1, <2>1, <2>2 DEF Divides
  <1>3. IsFiniteSet({})
    BY FS_EmptySet
  <1> QED BY <1>1, <1>2, <1>3 DEF Regular

(* The responses of the tasks of the device come from its jobs alone.       *)
LEMMA MaskedCompleted ==
    ASSUME NEW sum, NEW st, NEW t
    PROVE  Masked(Completed(sum, st.done, t).response) =
              Completed(Summary(Masked(sum.response), 0), Answered(st), t).response
  <1> PICK f, g : f = sum.response /\ g = Masked(sum.response)
    OBVIOUS
  <1> PICK S, L : S = st.done /\ L = Answered(st)
    OBVIOUS
  <1>0. L = {j \in S : j.task \in Local}
    BY DEF Answered
  <1>1. Completed(sum, S, t).response =
           [i \in DOMAIN tasks |-> Max({f[i]} \cup {t - j.release : j \in {k \in S : k.task = i}})]
    BY DEF Completed
  <1>2. Completed(Summary(g, 0), L, t).response =
           [i \in DOMAIN tasks |-> Max({g[i]} \cup {t - j.release : j \in {k \in L : k.task = i}})]
    BY DEF Completed, Summary
  <1>3. ASSUME NEW i \in DOMAIN tasks
        PROVE  (IF i \in Local
                THEN Max({f[i]} \cup {t - j.release : j \in {k \in S : k.task = i}}) ELSE 0) =
                  Max({g[i]} \cup {t - j.release : j \in {k \in L : k.task = i}})
    <2>1. CASE i \in Local
      <3>1. g[i] = f[i]
        BY <2>1 DEF Masked
      <3>2. {k \in S : k.task = i} = {k \in L : k.task = i}
        BY <1>0, <2>1
      <3> QED BY <2>1, <3>1, <3>2
    <2>2. CASE i \notin Local
      <3>1. g[i] = 0
        BY <2>2 DEF Masked
      <3>2. {k \in L : k.task = i} = {}
        BY <1>0, <2>2
      <3>3. {g[i]} \cup {t - j.release : j \in {k \in L : k.task = i}} = {0, 0}
        BY <3>1, <3>2
      <3>4. Max({0, 0}) = 0
        BY GreaterOfTwo
      <3> QED BY <2>2, <3>3, <3>4
    <2> QED BY <2>1, <2>2
  <1>4. Masked(Completed(sum, S, t).response) =
           [i \in DOMAIN tasks |->
              IF i \in Local THEN Completed(sum, S, t).response[i] ELSE 0]
    BY DEF Masked
  <1>5. Masked(Completed(sum, S, t).response) =
           [i \in DOMAIN tasks |->
              IF i \in Local
              THEN Max({f[i]} \cup {t - j.release : j \in {k \in S : k.task = i}}) ELSE 0]
    BY <1>1, <1>4
  <1> QED BY <1>2, <1>3, <1>5

(* The last unit of a job is its answer,                                    *)
LEMMA LastAnswers ==
    ASSUME NEW m, m.response \in [DOMAIN tasks -> Nat], NEW x \in OpenJobs(Local),
           x.remaining # 0, NEW v, v.now \in Nat, x.release <= v.now,
           v.response = Completed(Summary(m.response, 0), LastOf(x), v.now).response
    PROVE  /\ Answers(tasks, m, v, x, 1) /\ v.response \in [DOMAIN tasks -> Nat]
           /\ Cardinality({j \in LastOf(x) : v.now > j.deadline}) = Late(x, 1, v.now)
  <1>01. PICK y, t : y = [x EXCEPT !.remaining = @ - 1] /\ t = v.now
    OBVIOUS
  <1>02. PICK S, sum : S = LastOf(x) /\ sum = Summary(m.response, 0)
    OBVIOUS
  <1>03. PICK c : c = v.response
    OBVIOUS
  <1>04. sum.response = m.response /\ c = Completed(sum, S, t).response /\ t \in Nat
    BY <1>01, <1>02, <1>03 DEF Summary
  <1>1. x.remaining \in Nat /\ x.release \in Nat /\ x.deadline \in Nat
    BY DEF OpenJobs
  <1>2. y.task = x.task /\ y.release = x.release /\ y.deadline = x.deadline
    BY <1>01 DEF OpenJobs
  <1>3. S = IF x.remaining = 1 THEN {y} ELSE {}
    BY <1>01, <1>02 DEF LastOf
  <1>4. (S = {} \/ S = {y}) /\ (S = {y} <=> x.remaining = 1) /\ y.release \in Nat /\ y.release <= t
    BY <1>01, <1>1, <1>2, <1>3
  <1>5. /\ c \in [DOMAIN tasks -> Nat]
        /\ \A i \in DOMAIN tasks :
              /\ sum.response[i] <= c[i]
              /\ IF S = {y} /\ y.task = i
                 THEN t - y.release <= c[i] /\ (c[i] = sum.response[i] \/ c[i] = t - y.release)
                 ELSE c[i] = sum.response[i]
    <2>1. sum.response \in [DOMAIN tasks -> Nat] /\ t \in Nat
      BY <1>04
    <2>2. /\ Completed(sum, S, t).response \in [DOMAIN tasks -> Nat]
          /\ \A i \in DOMAIN tasks :
                /\ sum.response[i] <= Completed(sum, S, t).response[i]
                /\ IF S = {y} /\ y.task = i
                   THEN /\ t - y.release <= Completed(sum, S, t).response[i]
                        /\ \/ Completed(sum, S, t).response[i] = sum.response[i]
                           \/ Completed(sum, S, t).response[i] = t - y.release
                   ELSE Completed(sum, S, t).response[i] = sum.response[i]
      BY <1>4, <2>1, CompletedOne
    <2> QED BY <1>04, <2>2
  <1>6. Cardinality({j \in S : t > j.deadline}) = Late(x, 1, t)
    <2>1. Cardinality({}) = 0 /\ Cardinality({y}) = 1
      BY FS_EmptySet, FS_Singleton
    <2>2. CASE x.remaining = 1 /\ x.deadline < t
      <3>1. {j \in S : t > j.deadline} = {y}
        BY <1>1, <1>2, <1>04, <1>4, <2>2
      <3> QED BY <2>1, <2>2, <3>1 DEF Late
    <2>3. CASE ~ (x.remaining = 1 /\ x.deadline < t)
      <3>1. {j \in S : t > j.deadline} = {}
        BY <1>1, <1>2, <1>04, <1>4, <2>3
      <3> QED BY <2>1, <2>3, <3>1 DEF Late
    <2> QED BY <2>2, <2>3
  <1>7. Answers(tasks, m, v, x, 1)
    <2>1. t = v.now /\ v.response = c /\ sum.response = m.response
      BY <1>01, <1>03, <1>04
    <2> QED BY <1>2, <1>4, <1>5, <2>1 DEF Answers
  <1> QED BY <1>01, <1>02, <1>03, <1>5, <1>6, <1>7

(* and without a job nothing answers.                                       *)
LEMMA NoneAnswers ==
    ASSUME NEW sum, sum.response \in [DOMAIN tasks -> Nat], NEW t
    PROVE  Completed(sum, {}, t).response = sum.response
  <1> PICK f, c : f = sum.response /\ c = Completed(sum, {}, t).response
    OBVIOUS
  <1>1. c = [i \in DOMAIN tasks |->
                Max({f[i]} \cup {t - j.release : j \in {k \in {} : k.task = i}})]
    BY DEF Completed
  <1>2. ASSUME NEW i \in DOMAIN tasks PROVE c[i] = f[i]
    <2>1. {f[i]} \cup {t - j.release : j \in {k \in {} : k.task = i}} = {f[i], f[i]}
      OBVIOUS
    <2> PICK a : a = f[i]
      OBVIOUS
    <2>2. a \in Nat /\ c[i] = Max({a, a})
      BY <1>1, <2>1
    <2> QED BY <2>2, GreaterOfTwo
  <1> QED BY <1>1, <1>2

(* Level 2 keeps in step with what can be reached: its vector has jobs at   *)
(* places of their own, and with one device it has counted their misses.    *)
Tallied(c) == c \in Nat /\ (Local = DOMAIN tasks => c = level2.misses)
InStep ==
    /\ ready \in Seq(AllJobs) /\ Apart(ready) /\ Regular(tasks, Local, View)
    /\ \E c : Tallied(c) /\ Reached(tasks, Local, View, c)

(* It starts where level 1 did.                                             *)
LEMMA InStepAtStart ==
    ASSUME Device(tasks, Local), level2 = NoResponses, StartLevel2
    PROVE  InStep'
  <1>1. /\ tasks' = tasks /\ Local' = Local /\ focus' = focus /\ level2' = NoResponses
        /\ now' = 0 /\ nextReleases' = [i \in DOMAIN tasks |-> 0] /\ ready' = <<>>
    BY DEF StartLevel2, Local
  <1>2. level2'.response = [i \in DOMAIN tasks |-> 0] /\ level2'.misses = 0
    BY <1>1 DEF NoResponses, Summary
  <1> PICK r : r = <<>>
    OBVIOUS
  <1>3. r \in Seq(AllJobs) /\ DOMAIN r = {}
    OBVIOUS
  <1>4. LocalJobs(r) = {} /\ Apart(r)
    <2>1. OnDevice(r, focus) = {}
      BY <1>3 DEF OnDevice
    <2> QED BY <2>1 DEF LocalJobs, Apart
  <1>5. /\ LocalJobs(ready)' = LocalJobs(r) /\ Apart(ready)' = Apart(r)
        /\ AllJobs' = AllJobs /\ ready' = r
    BY <1>1 DEF LocalJobs, Apart, OnDevice, AllJobs
  <1>6. Masked(nextReleases)' = [i \in DOMAIN tasks |-> 0]
    BY <1>1 DEF Masked
  <1>7. Masked(level2.response)' = [i \in DOMAIN tasks |-> 0]
    BY <1>1, <1>2 DEF Masked
  <1>8. View' = Origin(tasks)
    BY <1>1, <1>4, <1>5, <1>6, <1>7 DEF View, Origin
  <1>9. Regular(tasks, Local, View)'
    BY <1>1, <1>8, StartIsRegular
  <1>10. Reached(tasks, Local, View, 0)'
    BY <1>1, <1>8, ReachedAtStart
  <1>11. Tallied(0)'
    BY <1>1, <1>2 DEF Tallied
  <1> QED BY <1>3, <1>4, <1>5, <1>9, <1>10, <1>11 DEF InStep

(* The releases of a tick are those of the schedule of the device.          *)
LEMMA TickReleases ==
    ASSUME Working, Device(tasks, Local), InStep, NEW m,
           m = Releasing(tasks, View, DueIn(Local, View))
    PROVE  /\ Ready2 \in Seq(AllJobs) /\ Apart(Ready2) /\ m.jobs = LocalJobs(Ready2)
           /\ m.now = now /\ m.next = Masked(ReleasesAfter(DOMAIN tasks))
           /\ m.response = Masked(level2.response)
           /\ Regular(tasks, Local, m) /\ now \in Nat /\ \A k \in Local : now + 1 <= m.next[k]
           /\ \A j \in m.jobs : j \in OpenJobs(Local) /\ j.remaining # 0 /\ j.release <= now
  <1> PICK s : s = View
    OBVIOUS
  <1>1. /\ s.now = now /\ s.next = Masked(nextReleases) /\ s.jobs = LocalJobs(ready)
        /\ s.response = Masked(level2.response)
    BY DEF View, Schedule
  <1>2. Regular(tasks, Local, s) /\ ready \in Seq(AllJobs) /\ Apart(ready)
    BY DEF InStep
  <1>3. /\ Regular(tasks, Local, m) /\ m.now = s.now /\ m.response = s.response
        /\ \A k \in Local : m.now < m.next[k]
    BY <1>2, ReleasingIsRegular
  <1>4. /\ Local \in SUBSET DOMAIN tasks /\ tasks \in Seq(TimedTask) /\ now \in Nat
        /\ \A k \in Local : m.next[k] \in Nat
    BY <1>1, <1>2, <1>3 DEF Device, Regular
  <1>5. DueIn(Local, s) = Due(Local)
    <2>1. \A k \in Local : s.next[k] = nextReleases[k]
      BY <1>1, <1>4 DEF Masked
    <2> QED BY <1>1, <2>1 DEF DueIn, Due
  <1>6. m = Schedule(now, [k \in DOMAIN tasks |-> IF k \in Due(Local) THEN now + tasks[k].period
                                                  ELSE s.next[k]],
                     s.jobs \cup {JobFor(tasks, now, k) : k \in Due(Local)}, s.response)
    BY <1>1, <1>5 DEF Releasing
  <1>7. m.next = Masked(ReleasesAfter(DOMAIN tasks))
    <2>1. m.next = [k \in DOMAIN tasks |-> IF k \in Due(Local) THEN now + tasks[k].period
                                           ELSE s.next[k]]
      BY <1>6 DEF Schedule
    <2>2. ReleasesAfter(DOMAIN tasks) =
             [k \in DOMAIN tasks |-> IF k \in Due(DOMAIN tasks) THEN now + tasks[k].period
                                     ELSE nextReleases[k]]
      BY DEF ReleasesAfter
    <2>3. Masked(ReleasesAfter(DOMAIN tasks)) =
             [k \in DOMAIN tasks |->
                IF k \in Local
                THEN IF k \in Due(DOMAIN tasks) THEN now + tasks[k].period ELSE nextReleases[k]
                ELSE 0]
      BY <2>2 DEF Masked
    <2>4. s.next = [k \in DOMAIN tasks |-> IF k \in Local THEN nextReleases[k] ELSE 0]
      BY <1>1 DEF Masked
    <2>5. \A k \in DOMAIN tasks : k \in Due(Local) <=> k \in Local /\ k \in Due(DOMAIN tasks)
      BY <1>4 DEF Due
    <2> QED BY <2>1, <2>3, <2>4, <2>5
  <1>8. \A i \in Due(Local) : \A k \in LocalJobs(ready) : k.task # i \/ k.release # now
    <2> SUFFICES ASSUME NEW i \in Due(Local), NEW k \in LocalJobs(ready), k.task = i
                 PROVE  k.release # now
      OBVIOUS
    <2>1. k \in s.jobs
      BY <1>1
    <2>2. k.release < s.next[k.task] /\ k.release \in Nat
      BY <1>2, <2>1, RegularJobs
    <2>3. s.next[i] = now
      BY <1>1, <1>5 DEF DueIn
    <2> QED BY <1>4, <2>2, <2>3
  <1>9. /\ Ready2 \in Seq(AllJobs) /\ Apart(Ready2)
        /\ LocalJobs(Ready2) = LocalJobs(ready) \cup {Released(i) : i \in Due(Local)}
    BY <1>2, <1>4, <1>8, ReadyLocal
  <1>10. m.jobs = LocalJobs(Ready2)
    <2>1. m.jobs = s.jobs \cup {JobFor(tasks, now, k) : k \in Due(Local)}
      BY <1>6 DEF Schedule
    <2>2. \A k : JobFor(tasks, now, k) = Released(k)
      BY DEF JobFor, Released
    <2>3. {JobFor(tasks, now, k) : k \in Due(Local)} = {Released(k) : k \in Due(Local)}
      BY <2>2
    <2> QED BY <1>1, <1>9, <2>1, <2>3
  <1>11. \A k \in Local : now + 1 <= m.next[k]
    BY <1>1, <1>3, <1>4
  <1>12. \A j \in m.jobs : j \in OpenJobs(Local) /\ j.remaining # 0 /\ j.release <= now
    <2> SUFFICES ASSUME NEW j \in m.jobs
                 PROVE  j \in OpenJobs(Local) /\ j.remaining # 0 /\ j.release <= now
      OBVIOUS
    <2>1. /\ j \in OpenJobs(Local) /\ j.task \in Local /\ (tasks[j.task].wcet # 0 => j.remaining # 0)
          /\ j.release <= m.now
      BY <1>3, RegularJobs
    <2> QED BY <1>1, <1>3, <2>1 DEF Working
  <1> QED BY <1>1, <1>3, <1>4, <1>7, <1>9, <1>10, <1>11, <1>12

(* A tick takes the schedule of the device a unit on.                       *)
LEMMA TickMoves ==
    ASSUME Working, Device(tasks, Local), InStep, Tick
    PROVE  InStep'
  <1> PICK m, u : m = Releasing(tasks, View, DueIn(Local, View)) /\ u = Served(Ready2)
    OBVIOUS
  <1>1. /\ Ready2 \in Seq(AllJobs) /\ Apart(Ready2) /\ m.jobs = LocalJobs(Ready2)
        /\ m.now = now /\ m.next = Masked(ReleasesAfter(DOMAIN tasks))
        /\ m.response = Masked(level2.response)
        /\ Regular(tasks, Local, m) /\ now \in Nat /\ \A k \in Local : now + 1 <= m.next[k]
        /\ \A j \in m.jobs : j \in OpenJobs(Local) /\ j.remaining # 0 /\ j.release <= now
    BY TickReleases
  <1>2. PICK c : Tallied(c) /\ Reached(tasks, Local, View, c)
    BY DEF InStep
  <1>3. /\ ready' = u.jobs /\ level2' = Completed(level2, u.done, now + 1) /\ now' = now + 1
        /\ nextReleases' = ReleasesAfter(DOMAIN tasks)
        /\ tasks' = tasks /\ focus' = focus /\ Local' = Local
    BY DEF Tick, Local
  <1>4. /\ u \in States
        /\ m.jobs = {} => LocalJobs(u.jobs) = {} /\ Answered(u) = {}
        /\ m.jobs # {} =>
             \E x : /\ Leads(tasks, m.jobs, x)
                    /\ LocalJobs(u.jobs) = (m.jobs \ {x}) \cup LeftOf(x, 1)
                    /\ Answered(u) = LastOf(x)
    BY <1>1, ServedLocal DEF Working
  <1>5. u.jobs \in Seq(AllJobs) /\ Apart(u.jobs) /\ u.done \in SUBSET AllJobs
    BY <1>4 DEF States
  <1> PICK resp : resp = Completed(Summary(Masked(level2.response), 0), Answered(u), now + 1).response
    OBVIOUS
  <1> PICK v : v = Schedule(now + 1, m.next, LocalJobs(u.jobs), resp)
    OBVIOUS
  <1>6. v.now = now + 1 /\ v.next = m.next /\ v.jobs = LocalJobs(u.jobs) /\ v.response = resp
    BY DEF Schedule
  <1>7. View' = v
    <2>1. Masked(level2'.response) = resp
      <3> PICK t : t = now + 1
        OBVIOUS
      <3>1. Masked(Completed(level2, u.done, t).response) =
               Completed(Summary(Masked(level2.response), 0), Answered(u), t).response
        BY MaskedCompleted
      <3> QED BY <1>3, <3>1
    <2>2. /\ Masked(level2.response)' = Masked(level2'.response)
          /\ Masked(nextReleases)' = Masked(ReleasesAfter(DOMAIN tasks))
      BY <1>3 DEF Masked
    <2>3. LocalJobs(ready)' = LocalJobs(u.jobs)
      BY <1>3 DEF LocalJobs, OnDevice
    <2> QED BY <1>1, <1>3, <2>1, <2>2, <2>3 DEF View
  <1>8. /\ m.response \in [DOMAIN tasks -> Nat] /\ c \in Nat /\ now + 1 \in Nat
        /\ Regular(tasks, Local, View)
    BY <1>1, <1>2 DEF Regular, Tallied, InStep
  <1> PICK sum : sum = Summary(Masked(level2.response), 0)
    OBVIOUS
  <1>9. sum.response = m.response /\ resp = Completed(sum, Answered(u), now + 1).response
    BY <1>1 DEF Summary
  (* with one device all jobs that answer are counted *)
  <1>10. Local = DOMAIN tasks =>
            level2'.misses = level2.misses + Cardinality({j \in Answered(u) : now + 1 > j.deadline})
    <2> SUFFICES ASSUME Local = DOMAIN tasks
                 PROVE  level2'.misses = level2.misses
                                         + Cardinality({j \in Answered(u) : now + 1 > j.deadline})
      OBVIOUS
    <2>1. Answered(u) = u.done
      BY <1>5 DEF Answered, AllJobs, OpenJobs
    <2> QED BY <1>3, <2>1 DEF Completed
  <1>11. \E e : Tallied(e)' /\ Moves(tasks, Local, View, c, v, e, 1)
    <2>1. CASE m.jobs = {}
      <3>3. resp = m.response
        BY <1>4, <1>8, <1>9, <2>1, NoneAnswers
      <3>4. Idles(tasks, Local, m, v, 1)
        <4>1. v = Schedule(m.now + 1, m.next, {}, m.response)
          BY <1>1, <1>4, <2>1, <3>3
        <4>2. \A k \in Local : m.now + 1 <= m.next[k]
          BY <1>1
        <4> QED BY <2>1, <4>1, <4>2 DEF Idles
      <3>5. Moves(tasks, Local, View, c, v, c, 1)
        <4>1. Goes(tasks, Local, m, c, v, c, 1)
          BY <3>4 DEF Goes, Rests
        <4> QED BY <1>8, <4>1 DEF Moves
      <3>6. Tallied(c)'
        <4>1. Local = DOMAIN tasks => level2'.misses = level2.misses + 0 /\ c = level2.misses
          <5>1. {j \in Answered(u) : now + 1 > j.deadline} = {}
            BY <1>4, <2>1
          <5> QED BY <1>2, <1>10, <5>1, FS_EmptySet DEF Tallied
        <4> QED BY <1>3, <1>8, <4>1 DEF Tallied
      <3> QED BY <3>5, <3>6
    <2>2. CASE m.jobs # {}
      <3>1. PICK x : /\ Leads(tasks, m.jobs, x)
                     /\ LocalJobs(u.jobs) = (m.jobs \ {x}) \cup LeftOf(x, 1)
                     /\ Answered(u) = LastOf(x)
        BY <1>4, <2>2
      <3>2. /\ x \in m.jobs /\ x \in OpenJobs(Local) /\ x.remaining # 0 /\ x.release <= now
            /\ x.remaining \in Nat /\ x.release \in Nat /\ x.deadline \in Nat
        <4>1. x \in m.jobs
          BY <3>1 DEF Leads
        <4>2. x \in OpenJobs(Local) /\ x.remaining # 0 /\ x.release <= now
          BY <1>1, <4>1
        <4> QED BY <4>1, <4>2 DEF OpenJobs
      <3>4. /\ Answers(tasks, m, v, x, 1) /\ v.response \in [DOMAIN tasks -> Nat]
            /\ Cardinality({j \in LastOf(x) : v.now > j.deadline}) = Late(x, 1, v.now)
        <4>1. v.now \in Nat /\ x.release <= v.now
          BY <1>1, <1>6, <1>8, <3>2
        <4>2. v.response = Completed(Summary(m.response, 0), LastOf(x), v.now).response
          BY <1>1, <1>6, <3>1
        <4> QED BY <1>8, <3>2, <4>1, <4>2, LastAnswers
      <3>6. Serves(tasks, Local, m, v, x, 1)
        <4>1. 1 <= x.remaining
          BY <3>2
        <4> QED BY <1>1, <1>6, <3>1, <3>2, <3>4, <4>1 DEF Serves
      <3> PICK e : e = c + Late(x, 1, v.now)
        OBVIOUS
      <3>7. Moves(tasks, Local, View, c, v, e, 1)
        <4>1. v = Schedule(v.now, v.next, v.jobs, v.response)
          BY <1>6
        <4>2. Gives(tasks, Local, m, c, v, e, x, 1)
          BY <3>1, <3>4, <3>6, <4>1 DEF Gives
        <4>3. Goes(tasks, Local, m, c, v, e, 1)
          BY <4>2 DEF Goes
        <4> QED BY <1>8, <4>3 DEF Moves
      <3>9. Tallied(e)'
        <4>1. Local = DOMAIN tasks => level2'.misses = e
          BY <1>2, <1>6, <1>10, <3>1, <3>4 DEF Tallied
        <4>2. e \in Nat
          BY <1>8 DEF Late
        <4> QED BY <1>3, <4>1, <4>2 DEF Tallied
      <3> QED BY <3>7, <3>9
    <2> QED BY <2>1, <2>2
  <1>12. PICK e : Tallied(e)' /\ Moves(tasks, Local, View, c, v, e, 1)
    BY <1>11
  <1>13. Reached(tasks, Local, v, e) /\ Regular(tasks, Local, v)
    BY <1>2, <1>12, ReachedOne, MovesAreRegular
  <1>14. Reached(tasks, Local, View, e)' /\ Regular(tasks, Local, View)'
    BY <1>3, <1>7, <1>13
  <1>15. ready' \in Seq(AllJobs') /\ Apart(ready)'
    <2>1. AllJobs' = AllJobs /\ (Apart(ready)' <=> Apart(u.jobs))
      BY <1>3 DEF AllJobs, Apart, OnDevice
    <2> QED BY <1>3, <1>5, <2>1
  <1> QED BY <1>12, <1>14, <1>15 DEF InStep

(* At the end both simulators have reached the same schedule.               *)
AgreeIInv ==
    /\ tasks \in TaskSets /\ Local # {} /\ stage \in {"level1", "level2", "done"}
    /\ policy = "FixedPriority" =>
          /\ stage = "level1" => Along /\ level2 = NoResponses
          /\ stage # "level1" => InStep /\ \E v : Left(v)
          /\ stage = "done" => now = Horizon

(* The device simulated has work to do.                                     *)
LEMMA FocusWorks ==
    ASSUME PositiveWcets, tasks \in TaskSets, Local # {}
    PROVE  Device(tasks, Local) /\ (policy = "FixedPriority" => Working)
  <1>1. tasks \in Seq(TimedTask)
    BY TaskSetsAssumption
  <1>2. Local \in SUBSET DOMAIN tasks
    BY DEF Local
  <1>3. \A k \in Local : tasks[k].wcet # 0
    BY <1>2 DEF PositiveWcets
  <1> QED BY <1>1, <1>2, <1>3 DEF Device, Working

(* What level 1 has left and what level 2 is in step with is the same.      *)
LEMMA SameAtTheEnd ==
    ASSUME Device(tasks, Local), InStep, now = Horizon, NEW v, Left(v)
    PROVE  /\ \A i \in Local : level1.response[i] = level2.response[i]
           /\ Local = DOMAIN tasks => level1.misses = level2.misses
  <1>1. PICK c : Tallied(c) /\ Reached(tasks, Local, View, c)
    BY DEF InStep
  <1>2. Reached(tasks, Local, v, level1.misses) /\ v.now = Horizon /\ v.response = level1.response
    BY DEF Left
  <1> PICK s, e : s = View /\ e = level1.misses
    OBVIOUS
  <1>3. s.now = now /\ s.response = Masked(level2.response)
    BY DEF View, Schedule
  <1>4. v = s /\ e = c
    <2>1. Reached(tasks, Local, s, c) /\ Reached(tasks, Local, v, e) /\ v.now = s.now
      BY <1>1, <1>2, <1>3
    <2> QED BY <2>1, ReachedIsUnique
  <1>5. level1.response = Masked(level2.response)
    BY <1>2, <1>3, <1>4
  <1>6. \A i \in Local : Masked(level2.response)[i] = level2.response[i]
    BY DEF Masked, Device
  <1> QED BY <1>1, <1>4, <1>5, <1>6 DEF Tallied

(* The event-driven and the unit-step simulator agree, for every task set   *)
(* with work to do: level1.rs and level2.rs produce the same responses of   *)
(* the tasks of a device, and with one device the same misses.              *)
THEOREM SimulatorsAlwaysAgree ==
    PositiveWcets => (RefSpec => []SimulatorsAgree)
  <1> SUFFICES ASSUME PositiveWcets PROVE RefSpec => []SimulatorsAgree
    OBVIOUS
  <1>1. RefInit => AgreeIInv
    <2> SUFFICES ASSUME RefInit PROVE AgreeIInv
      OBVIOUS
    <2>1. tasks \in TaskSets /\ Local # {} /\ stage = "level1" /\ level2 = NoResponses
      BY DEF RefInit
    <2>2. Along
      BY <2>1, FocusWorks, AlongAtStart
    <2> QED BY <2>1, <2>2 DEF AgreeIInv
  <1>2. AgreeIInv /\ [RefNext]_refVars => AgreeIInv'
    <2> SUFFICES ASSUME AgreeIInv, [RefNext]_refVars PROVE AgreeIInv'
      OBVIOUS
    <2>1. tasks \in TaskSets /\ Local # {} /\ stage \in {"level1", "level2", "done"}
      BY DEF AgreeIInv
    <2>2. /\ tasks' = tasks /\ policy' = policy /\ focus' = focus
          /\ stage' \in {"level1", "level2", "done"}
      BY <2>1 DEF RefNext, refVars, RunJob, Idle, StartLevel2, Tick, Finish
    <2>3. Local' = Local /\ Horizon' = Horizon /\ NoResponses' = NoResponses
      BY <2>2 DEF Local, Horizon, NoResponses
    <2>4. SUFFICES ASSUME policy = "FixedPriority"
                   PROVE  /\ stage' = "level1" => Along' /\ level2' = NoResponses
                          /\ stage' # "level1" => InStep' /\ \E v : Left(v)'
                          /\ stage' = "done" => now' = Horizon
      BY <2>1, <2>2, <2>3 DEF AgreeIInv
    <2>5. /\ stage = "level1" => Along /\ level2 = NoResponses
          /\ stage # "level1" => InStep /\ \E v : Left(v)
          /\ stage = "done" => now = Horizon
      BY <2>4 DEF AgreeIInv
    <2>6. Device(tasks, Local) /\ Working
      BY <2>1, <2>4, FocusWorks
    <2>7. level1' = level1 => \A v : Left(v)' <=> Left(v)
      BY <2>2, <2>3 DEF Left
    <2>8. ASSUME RunJob PROVE stage' = "level1" /\ Along' /\ level2' = NoResponses
      <3>1. stage = "level1" /\ stage' = "level1" /\ level2' = level2
        BY <2>8 DEF RunJob
      <3> QED BY <2>5, <2>6, <2>8, <3>1, RunJobMoves
    <2>9. ASSUME Idle PROVE stage' = "level1" /\ Along' /\ level2' = NoResponses
      <3>1. stage = "level1" /\ stage' = "level1" /\ level2' = level2
        BY <2>9 DEF Idle
      <3> QED BY <2>5, <2>6, <2>9, <3>1, IdleMoves
    <2>10. ASSUME StartLevel2
           PROVE  stage' = "level2" /\ InStep' /\ \E v : Left(v)'
      <3>1. stage = "level1" /\ stage' = "level2" /\ level1' = level1
        BY <2>10 DEF StartLevel2
      <3>2. InStep'
        BY <2>5, <2>6, <2>10, <3>1, InStepAtStart
      <3>3. \E v : Left(v)
        BY <2>5, <2>6, <2>10, <3>1, WhatIsLeft
      <3> QED BY <2>7, <3>1, <3>2, <3>3
    <2>11. ASSUME Tick PROVE stage' = "level2" /\ InStep' /\ \E v : Left(v)'
      <3>1. stage = "level2" /\ stage' = "level2" /\ level1' = level1
        BY <2>11 DEF Tick
      <3>2. InStep'
        BY <2>5, <2>6, <2>11, <3>1, TickMoves
      <3> QED BY <2>5, <2>7, <3>1, <3>2
    <2>12. InStep /\ ready' = ready /\ now' = now /\ nextReleases' = nextReleases
              /\ level2' = level2 => InStep'
      BY <2>2, <2>3 DEF InStep, View, Tallied, Masked, Apart, LocalJobs, OnDevice, AllJobs
    <2>13. ASSUME Finish
           PROVE  stage' = "done" /\ InStep' /\ (\E v : Left(v)') /\ now' = Horizon
      <3>1. /\ stage = "level2" /\ stage' = "done" /\ level1' = level1 /\ now = Horizon
            /\ now' = now /\ nextReleases' = nextReleases /\ ready' = ready /\ level2' = level2
        BY <2>13 DEF Finish
      <3> QED BY <2>5, <2>7, <2>12, <3>1
    <2>14. CASE UNCHANGED refVars
      <3>1. /\ stage' = stage /\ level1' = level1 /\ level2' = level2 /\ now' = now
            /\ nextReleases' = nextReleases /\ ready' = ready /\ runningJob' = runningJob
        BY <2>14 DEF refVars
      <3>2. Here' = Here /\ (OneRuns' <=> OneRuns)
        BY <3>1 DEF Here, OneRuns
      <3>3. Along' <=> Along
        BY <2>2, <2>3, <3>1, <3>2 DEF Along
      <3> QED BY <2>5, <2>7, <2>12, <3>1, <3>3
    <2> QED BY <2>8, <2>9, <2>10, <2>11, <2>13, <2>14 DEF RefNext
  <1>3. AgreeIInv => SimulatorsAgree
    <2> SUFFICES ASSUME AgreeIInv, stage = "done", policy = "FixedPriority"
                 PROVE  /\ \A i \in Local : level1.response[i] = level2.response[i]
                        /\ Local = DOMAIN tasks => level1.misses = level2.misses
      BY DEF SimulatorsAgree
    <2>1. /\ tasks \in TaskSets /\ Local # {} /\ InStep /\ now = Horizon /\ \E v : Left(v)
      BY DEF AgreeIInv
    <2> QED BY <2>1, FocusWorks, SameAtTheEnd
  <1> QED BY <1>1, <1>2, <1>3, PTL DEF RefSpec
=============================================================================
