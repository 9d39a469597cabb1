-------------------------- MODULE EngineAccounting --------------------------
(***************************************************************************)
(* Two books are kept of what a device does: the jobs' executed_ns, in     *)
(* work, and the device's busy time, in wall time.  Completion,            *)
(* preemption, drop and deadline miss each write both, in code of their    *)
(* own.                                                                    *)
(***************************************************************************)
EXTENDS Engine, FiniteSetsExt

(* The work the jobs of a device are credited with is no more than the      *)
(* device can have done while it was busy: over any number of preemptions   *)
(* and resumptions no stretch of time is credited twice.                    *)
CreditedOn(d) == MapThenSumSet(LAMBDA j : jobs[j].exec, {j \in JobIds : jobs[j].dev = d})
WorkWithinBusyTime == \A d \in DeviceIds : CreditedOn(d) <= WallToWork(busy[d], d)
=============================================================================
