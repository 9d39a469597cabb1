------------------------------ MODULE Analyses ------------------------------
(***************************************************************************)
(* The offline part of the program: the schedulability tests with the      *)
(* reference simulators, the conditional DAG analysis and the list         *)
(* schedulers.  They share nothing; a behaviour is a call of one of them,  *)
(* the others being in the state an empty input leaves.                    *)
(***************************************************************************)
EXTENDS AnalysisProperties, ConditionalDag, ListSchedules

analysesVars == <<refVars, cdagVars, listVars>>

NoTaskSet ==
    /\ tasks = <<>> /\ policy = "Edf" /\ focus = 1 /\ stage = "done" /\ now = 0
    /\ nextReleases = <<>> /\ ready = <<>> /\ runningJob = {}
    /\ level1 = NoResponses /\ level2 = NoResponses
NoConditionalGraph ==
    /\ CdagStart([wcet |-> <<>>, edges |-> <<>>])
    /\ cstage = "done" /\ outcome = "Ok"
NoTaskGraph ==
    /\ graph = [affinity |-> <<>>, exec |-> <<>>, edges |-> {}, bytes |-> NothingPlaced]
    /\ listStage = "done" /\ planned = NothingPlaced /\ placed = NothingPlaced

AnalysesInit ==
    \/ RefInit /\ NoConditionalGraph /\ NoTaskGraph
    \/ NoTaskSet /\ CdagInit /\ NoTaskGraph
    \/ NoTaskSet /\ NoConditionalGraph /\ ListInit

AnalysesNext ==
    \/ RefNext /\ UNCHANGED <<cdagVars, listVars>>
    \/ CdagNext /\ UNCHANGED <<refVars, listVars>>
    \/ ListNext /\ UNCHANGED <<refVars, cdagVars>>

AnalysesSpec == AnalysesInit /\ [][AnalysesNext]_analysesVars
=============================================================================
