----------------------------- MODULE ReadyQueues -----------------------------
(* What the device manager promises: per device one queue in the order of    *)
(* priority, first come first served among equals, and a view that shows the *)
(* queues as they are whenever it is rebuilt.                                *)
EXTENDS Naturals, Sequences, SequencesExt

CONSTANTS QueueDevices, QueueJobs, QueuePriority, NoQueueJob

VARIABLES queues, shown, taken

(* Behind every job that is not less urgent, in front of every other.        *)
Places(q, j) ==
    {k \in 1 .. Len(q) + 1 :
        \A i \in 1 .. Len(q) : i < k <=> QueuePriority[q[i]] <= QueuePriority[j]}

Add == \E d \in QueueDevices, j \in QueueJobs : \E k \in Places(queues[d], j) :
    /\ queues' = [queues EXCEPT ![d] = InsertAt(@, k, j)]
    /\ UNCHANGED <<shown, taken>>

Take == \E d \in QueueDevices :
    /\ queues[d] # <<>>
    /\ taken' = Head(queues[d])
    /\ queues' = [queues EXCEPT ![d] = Tail(@)]
    /\ UNCHANGED shown
TakeNothing ==
    /\ \E d \in QueueDevices : queues[d] = <<>>
    /\ taken' = NoQueueJob /\ UNCHANGED <<queues, shown>>

(* From one queue or from all; a job enqueued twice in one loses its first   *)
(* place only.                                                               *)
Withdraw == \E D \in {{d} : d \in QueueDevices} \cup {QueueDevices}, j \in QueueJobs :
    /\ queues' = [d \in QueueDevices |->
                     IF d \in D THEN RemoveFirst(queues[d], j) ELSE queues[d]]
    /\ UNCHANGED <<shown, taken>>

Show == shown' = queues /\ UNCHANGED <<queues, taken>>

QueuesInit ==
    /\ queues = [d \in QueueDevices |-> <<>>]
    /\ shown = queues /\ taken = NoQueueJob
QueuesNext == Add \/ Take \/ TakeNothing \/ Withdraw \/ Show
QueuesSpec == QueuesInit /\ [][QueuesNext]_<<queues, shown, taken>>
=============================================================================
