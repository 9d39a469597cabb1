---------------------------- MODULE DeviceManager ----------------------------
(***************************************************************************)
(* The ready queues of DeviceManager and the view of them it keeps for the *)
(* schedulers: per device a map from priorities to FIFO buckets, a dirty   *)
(* flag, and a list of the queued jobs that is rebuilt only if the flag is *)
(* set.  The running slots are those of Engine.  The calls come in any     *)
(* order, a job may be in several queues or twice in one, and the data a   *)
(* view shows of a job does not change while it is queued (the engine sets *)
(* effective_priority, release and deadline once, when it makes the job).  *)
(***************************************************************************)
EXTENDS Naturals, Sequences, FiniteSetsExt, Folds

CONSTANTS
    Devices, JobIds,
    Priority,       \* JobId -> effective_priority
    NoJob,
    MaxQueued       \* bound: jobs in all the queues together

ASSUME DeviceManagerAssumption == Priority \in [JobIds -> Nat] /\ NoJob \notin JobIds

VARIABLES
    readyQueues,    \* ready_queues: device -> (priority -> sequence of jobs)
    queueDirty,     \* queue_dirty
    viewQueues,     \* view_queues: device -> sequence of jobs
    dequeued        \* what dequeue returned last

dmVars == <<readyQueues, queueDirty, viewQueues, dequeued>>

(* A BTreeMap: its keys in ascending order, and the values in that order.   *)
NoBuckets == [p \in {} |-> <<>>]
Filled(map) == {p \in DOMAIN map : map[p] # <<>>}
RetainFilled(map) == [p \in Filled(map) |-> map[p]]
Listing(map) ==
    MapThenFoldSet(LAMBDA bucket, later : bucket \o later, <<>>,
                   LAMBDA p : map[p], Min, DOMAIN map)

Holding(map, j) == {p \in DOMAIN map : \E k \in DOMAIN map[p] : map[p][k] = j}

-----------------------------------------------------------------------------
(* Faulty variant: jobs of equal priority are served last in, first out.     *)
PushFront(map, p, j) ==
    [key \in DOMAIN map \cup {p} |->
        IF key # p THEN map[key]
        ELSE <<j>> \o (IF p \in DOMAIN map THEN map[p] ELSE <<>>)]
PushBack(map, p, j) ==
    [key \in DOMAIN map \cup {p} |->
        IF key # p THEN map[key]
        ELSE Append(IF p \in DOMAIN map THEN map[p] ELSE <<>>, j)]

enqueue(d, j) ==
    /\ readyQueues' = [readyQueues EXCEPT ![d] = PushBack(@, Priority[j], j)]
    /\ queueDirty' = [queueDirty EXCEPT ![d] = TRUE]
    /\ UNCHANGED <<viewQueues, dequeued>>

(* The loop discards the empty buckets it meets before the first job.       *)
FromFirst(map) ==
    LET first == Min(Filled(map))
        left == {p \in DOMAIN map : p > first \/ (p = first /\ Len(map[p]) > 1)}
    IN [p \in left |-> IF p = first THEN Tail(map[p]) ELSE map[p]]

dequeue(d) ==
    /\ UNCHANGED viewQueues
    /\ \/ /\ Filled(readyQueues[d]) = {}
          /\ dequeued' = NoJob
          /\ readyQueues' = [readyQueues EXCEPT ![d] = NoBuckets]
          /\ UNCHANGED queueDirty
       \/ /\ Filled(readyQueues[d]) # {}
          /\ dequeued' = Head(readyQueues[d][Min(Filled(readyQueues[d]))])
          /\ readyQueues' = [readyQueues EXCEPT ![d] = FromFirst(@)]
          /\ queueDirty' = [queueDirty EXCEPT ![d] = TRUE]

(* Later elements move up from the first occurrence of j on.                *)
WithoutFirst(s, j) ==
    [i \in 1 .. Len(s) - 1 |-> IF \E k \in 1 .. i : s[k] = j THEN s[i + 1] ELSE s[i]]

(* The first occurrence of j goes, and then every empty bucket.             *)
WithoutJob(map, j) ==
    RetainFilled([p \in DOMAIN map |->
        IF p \in Holding(map, j) /\ p = Min(Holding(map, j)) THEN WithoutFirst(map[p], j)
        ELSE map[p]])

(* Faulty variant: only the first device that holds the job is marked.      *)
MarkFirst(j) ==
    LET holders == {d \in Devices : Holding(readyQueues[d], j) # {}}
    IN [d \in Devices |-> queueDirty[d] \/ (d \in holders /\ d = Min(holders))]
MarkHolders(j) ==
    [d \in Devices |-> queueDirty[d] \/ Holding(readyQueues[d], j) # {}]

remove_from_queue(d, j) ==
    /\ Holding(readyQueues[d], j) # {}
    /\ readyQueues' = [readyQueues EXCEPT ![d] = WithoutJob(@, j)]
    /\ queueDirty' = [queueDirty EXCEPT ![d] = TRUE]
    /\ UNCHANGED <<viewQueues, dequeued>>

remove_job_from_all_queues(j) ==
    /\ readyQueues' = [d \in Devices |-> WithoutJob(readyQueues[d], j)]
    /\ queueDirty' = MarkHolders(j)
    /\ UNCHANGED <<viewQueues, dequeued>>

rebuild_view_data ==
    /\ viewQueues' = [d \in Devices |-> IF queueDirty[d] THEN Listing(readyQueues[d])
                                        ELSE viewQueues[d]]
    /\ queueDirty' = [d \in Devices |-> FALSE]
    /\ UNCHANGED <<readyQueues, dequeued>>

-----------------------------------------------------------------------------
DmInit ==
    /\ readyQueues = [d \in Devices |-> NoBuckets]
    /\ queueDirty = [d \in Devices |-> TRUE]
    /\ viewQueues = [d \in Devices |-> <<>>]
    /\ dequeued = NoJob

QueuedJobs == FoldSet(LAMBDA d, sum : sum + Len(Listing(readyQueues[d])), 0, Devices)

DmNext ==
    \/ \E d \in Devices, j \in JobIds : QueuedJobs < MaxQueued /\ enqueue(d, j)
    \/ \E d \in Devices : dequeue(d)
    \/ \E d \in Devices, j \in JobIds : remove_from_queue(d, j)
    \/ \E j \in JobIds : remove_job_from_all_queues(j)
    \/ rebuild_view_data

DmSpec == DmInit /\ [][DmNext]_dmVars

-----------------------------------------------------------------------------
(* A clean queue is shown as it is: whatever enqueues, removals and         *)
(* rebuilds came between, no scheduler is shown a job that is gone from a   *)
(* queue or an order that is no longer the queue's.  No bucket is empty.    *)
ViewIsCurrent ==
    \A d \in Devices :
        /\ ~queueDirty[d] => viewQueues[d] = Listing(readyQueues[d])
        /\ \A p \in DOMAIN readyQueues[d] : readyQueues[d][p] # <<>>

(* The buckets and the flags together are priority queues with a view that  *)
(* is never out of date when it is rebuilt.                                 *)
Promised == INSTANCE ReadyQueues WITH
    QueueDevices <- Devices, QueueJobs <- JobIds, QueuePriority <- Priority,
    NoQueueJob <- NoJob,
    queues <- [d \in Devices |-> Listing(readyQueues[d])],
    shown <- viewQueues, taken <- dequeued
ImplementsReadyQueues == Promised!QueuesSpec
=============================================================================
