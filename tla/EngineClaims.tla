---------------------------- MODULE EngineClaims ----------------------------
(***************************************************************************)
(* What comments of the repository say of the engine and the engine does   *)
(* not do.  Each is refuted by a run of its own, driven by the             *)
(* fixed-priority scheduler.                                               *)
(***************************************************************************)
EXTENDS EnginePolicies

(* job.rs: "Any state with deadline miss -> DeadlineMissed".  An arrived    *)
(* job that is late is caught: the check of its deadline is still to come.  *)
LateJobsAreCaught ==
    Polling => \A j \in JobIds : HasMissedDeadline(j, now) =>
        \E e \in events : e.kind = "DeadlineCheck" /\ e.job = j

(* event.rs: "Budget overrun detected (MC: job exceeded wcet_lo)".  The     *)
(* system leaves LO mode only when a running job's demand exceeds its LO    *)
(* budget.                                                                  *)
SwitchesOnOverrun ==
    level # level' => \E j \in JobIds :
        /\ jobs[j].state = "Running"
        /\ \E b \in LoWcet(jobs[j].task) : jobs[j].actual > b
OnlyOverrunsSwitch == [][SwitchesOnOverrun]_vars

(* transfer_manager.rs: "Starts the next pending transfer on the bus if one *)
(* exists (work-conserving)".  A waiting transfer always has one in         *)
(* progress on its bus that will complete, deadline misses included.        *)
NoTransferIsStranded ==
    \A p \in pending : \E a \in active : a.bus = p.bus /\ LiveTransfers(a.job) # {}

(* scheduler.rs: "Preempt the victim job, replacing it with the new job":   *)
(* no job is suspended in favour of one that cannot run.                    *)
ReplacedByALiveJob ==
    \A j \in JobIds : jobs[j].state = "Running" /\ jobs'[j].state = "Suspended" =>
        ~IsTerminal(act'.job)
PreemptionReplaces == [][ReplacedByALiveJob]_vars
=============================================================================
