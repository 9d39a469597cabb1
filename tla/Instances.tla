----------------------------- MODULE Instances -----------------------------
(* Platforms, task sets and replay traces for TLC.                           *)
EXTENDS Platform, TLC

Det(w) == [kind |-> "Deterministic", lo |-> w, hi |-> w]
MC(lo, hi) == [kind |-> "MixedCriticality", lo |-> lo, hi |-> hi]
Stoch(b, w) == [kind |-> "Stochastic", lo |-> b, hi |-> w]
On(type, m) == [type |-> type, model |-> m]

MkTask(prio, period, deadline, crit, models, types, size) ==
    [priority |-> prio, period |-> period, deadline |-> deadline, criticality |-> crit,
     execTimes |-> models, affinity |-> types, dataSize |-> size]

Cpu(ctx) == [type |-> "Cpu", preemption |-> "Fully", interval |-> 0, overhead |-> 0,
             contextSwitch |-> ctx, num |-> 1, den |-> 1]
Gpu(gran) == [type |-> "Gpu", preemption |-> "Limited", interval |-> gran, overhead |-> 0,
              contextSwitch |-> 0, num |-> 2, den |-> 1]
Dsp(dma, isr) == [type |-> "Dsp", preemption |-> "Interrupt", interval |-> dma,
                  overhead |-> isr, contextSwitch |-> 0, num |-> 1, den |-> 1]
Fpga(reconf) == [type |-> "Fpga", preemption |-> "Non", interval |-> 0,
                 overhead |-> reconf, contextSwitch |-> 0, num |-> 1, den |-> 1]

Link(from, to, lat, bus) == [from |-> from, to |-> to, latency |-> lat,
                             num |-> 1, den |-> 1, bus |-> bus]

Job(task, release, deadline, actual) ==
    [task |-> task, release |-> release, deadline |-> deadline, actual |-> actual]

-----------------------------------------------------------------------------
(* A CPU, a GPU and an FPGA behind a priority-arbitrated bus, whose links    *)
(* run in either direction; a periodic LO task on the CPU, a HI task that    *)
(* may overrun its LO budget, three jobs with data for the accelerators, one *)
(* of which can overtake another on the bus and miss its deadline there.     *)
MixedTask == 0 :> MkTask(1, 4, 3, "Lo", <<On("Cpu", Stoch(1, 2))>>, <<"Cpu">>, 0)
          @@ 1 :> MkTask(0, 0, 6, "Hi", <<On("Cpu", MC(2, 4))>>, <<"Cpu">>, 0)
          @@ 2 :> MkTask(2, 0, 6, "Lo", <<On("Gpu", Det(4))>>, <<"Gpu">>, 2)
          @@ 3 :> MkTask(3, 0, 9, "Lo", <<On("Fpga", Det(1))>>, <<"Fpga">>, 1)
MixedDevice == 0 :> Cpu(0) @@ 1 :> Gpu(1) @@ 2 :> Fpga(1)
NoLinks == <<>>

MixedLinks == <<Link(0, 1, 1, 0), Link(2, 0, 1, 0)>>
MixedReplay == <<Job(1, 1, 7, 3), Job(2, 0, 9, Unset), Job(3, 0, 8, Unset), Job(2, 1, 4, Unset)>>

-----------------------------------------------------------------------------
(* One device of each model that restricts preemption; the GPU runs at twice *)
(* the CPU's speed, the DSP preempts with an ISR penalty; one job's task has *)
(* no execution-time model.                                                  *)
DevicesTask == 0 :> MkTask(1, 0, 9, "Hi", <<On("Dsp", Det(3))>>, <<"Dsp", "Fpga">>, 0)
            @@ 1 :> MkTask(0, 0, 9, "Hi", <<On("Gpu", Stoch(4, 5))>>, <<"Gpu", "Dsp">>, 0)
            @@ 2 :> MkTask(0, 0, 9, "Hi", <<>>, <<"Fpga">>, 0)
DevicesDevice == 0 :> Dsp(2, 1) @@ 1 :> Fpga(1) @@ 2 :> Gpu(1)
DevicesReplay == <<Job(0, 0, 9, Unset), Job(0, 1, 12, Unset), Job(1, 1, 3, Unset), Job(2, 0, 9, Unset)>>

-----------------------------------------------------------------------------
(* A CPU and two accelerators on one priority-arbitrated bus; a transfer is  *)
(* late while another waits for the bus.                                     *)
BusTask == 0 :> MkTask(1, 0, 20, "Hi", <<On("Gpu", Det(2))>>, <<"Gpu">>, 2)
        @@ 1 :> MkTask(0, 0, 20, "Lo", <<On("Fpga", Det(1))>>, <<"Fpga">>, 1)
        @@ 2 :> MkTask(2, 0, 20, "Hi", <<>>, <<"Gpu">>, 1)
BusDevice == 0 :> Cpu(0) @@ 1 :> Gpu(3) @@ 2 :> Fpga(1)
BusLinks == <<Link(0, 1, 1, 0), Link(2, 0, 1, 0)>>
BusLateReplay == <<Job(0, 0, 1, Unset), Job(1, 0, 20, Unset)>>

-----------------------------------------------------------------------------
(* Two CPUs, a GPU with preemption points, a fully preemptive DSP and an     *)
(* FPGA behind one bus, for all schedulers: jobs of two DAG nodes that share *)
(* a device type, jobs that may run on several types, jobs with data that    *)
(* preempt one another, a periodic LO task, a HI task one of whose jobs      *)
(* overruns its LO budget late, and LO jobs that arrive after that.          *)
FullDsp == [Cpu(0) EXCEPT !.type = "Dsp"]
PoliciesTask == 0 :> MkTask(2, 5, 7, "Lo", <<On("Cpu", Stoch(1, 2))>>, <<"Cpu">>, 0)
             @@ 1 :> MkTask(3, 0, 9, "Lo", <<On("Cpu", Det(3)), On("Gpu", Det(2))>>,
                            <<"Gpu", "Cpu">>, 0)
             @@ 2 :> MkTask(0, 0, 9, "Hi", <<On("Cpu", MC(2, 4))>>, <<"Cpu">>, 0)
             @@ 3 :> MkTask(1, 0, 12, "Hi", <<On("Gpu", Stoch(4, 6))>>, <<"Gpu">>, 1)
             @@ 4 :> MkTask(1, 0, 12, "Lo", <<On("Cpu", Det(2))>>, <<"Cpu">>, 0)
             @@ 5 :> MkTask(2, 0, 12, "Lo", <<On("Dsp", Stoch(2, 3))>>, <<"Dsp", "Fpga">>, 1)
             @@ 6 :> MkTask(1, 0, 12, "Hi", <<On("Dsp", Det(2))>>, <<"Dsp">>, 1)
PoliciesDevice == 0 :> Cpu(0) @@ 1 :> Cpu(0) @@ 2 :> Gpu(1) @@ 3 :> FullDsp @@ 4 :> Fpga(1)
PoliciesLinks == <<Link(0, 2, 1, 0), Link(0, 3, 1, 0)>>
PoliciesReplay == <<Job(4, 0, 14, Unset), Job(1, 0, 12, Unset), Job(4, 0, 11, Unset),
                    Job(3, 0, 13, Unset), Job(4, 1, 6, Unset), Job(1, 1, 10, 3),
                    Job(3, 2, 11, Unset), Job(2, 2, 9, 2), Job(2, 6, 14, 3),
                    Job(0, 11, 14, Unset), Job(5, 0, 14, Unset), Job(5, 1, 14, Unset),
                    Job(6, 4, 12, Unset)>>
PoliciesProvenance == [t \in TaskIds |-> CASE t = 1 -> [dag |-> 0, node |-> 2]
                                          [] t = 4 -> [dag |-> 0, node |-> 1]
                                          [] OTHER -> [dag |-> -1, node |-> 0]]
NoProvenance == [t \in TaskIds |-> [dag |-> -1, node |-> 0]]
NoPlan == [k \in {} |-> 0]
PoliciesPlan == <<0, 1>> :> 1 @@ <<0, 2>> :> 2

-----------------------------------------------------------------------------
(* One CPU with a context switch of 1 and one GPU behind a link; job 0 of    *)
(* the CPU is delayed past its deadline, a LO job arrives after the mode     *)
(* switch, a second GPU job arrives while the first runs.                    *)
ClaimsTask == 0 :> MkTask(2, 9, 3, "Hi", <<On("Cpu", Det(2))>>, <<"Cpu">>, 0)
           @@ 1 :> MkTask(1, 0, 9, "Hi", <<On("Cpu", MC(2, 4))>>, <<"Cpu">>, 0)
           @@ 2 :> MkTask(0, 0, 9, "Lo", <<On("Cpu", Det(1))>>, <<"Cpu">>, 0)
           @@ 3 :> MkTask(0, 0, 9, "Hi", <<On("Gpu", Det(4))>>, <<"Gpu">>, 1)
ClaimsDevice == 0 :> Cpu(1) @@ 1 :> Gpu(1)
ClaimsLinks == <<Link(0, 1, 1, NoBus)>>
ClaimsReplay == <<Job(1, 1, 10, 2), Job(2, 5, 14, Unset), Job(3, 0, 12, Unset),
                  Job(3, 3, 12, Unset)>>

-----------------------------------------------------------------------------
(* A diamond 0 -> {1, 2} -> 3 whose second edge carries no data, with a data *)
(* dependency 0 -> 3 that is no edge, on a CPU, a GPU and an FPGA: the       *)
(* accelerators share a bus, the CPU and the GPU have it between them. Two   *)
(* jobs of other tasks use the bus, one more urgent than the DAG.            *)
NodeTask(types) == MkTask(1, 0, 2, "Lo", <<On("Cpu", Det(1))>>, types, 0)
DagTask == 0 :> NodeTask(<<"Cpu">>) @@ 1 :> NodeTask(<<"Gpu", "Cpu">>)
        @@ 2 :> NodeTask(<<"Fpga">>) @@ 3 :> NodeTask(<<"Cpu">>)
DagDevice == BusDevice
DagLinks == <<Link(0, 1, 1, 0), Link(2, 0, 1, 0), Link(1, 2, 0, NoBus)>>
DagEdges == <<<<0, 1>>, <<0, 2>>, <<1, 3>>, <<2, 3>>>>
DagBytes == <<0, 1>> :> 1 @@ <<0, 3>> :> 1 @@ <<1, 3>> :> 2
DagOthers == <<[from |-> 0, to |-> 1, size |-> 1, priority |-> 0],
               [from |-> 0, to |-> 2, size |-> 0, priority |-> 2]>>
=============================================================================
