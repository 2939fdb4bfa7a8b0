-------------------------- MODULE SynthesisPipeline --------------------------
(***************************************************************************)
(* Attempts are executed, then published and reconciled.  A session and    *)
(* its bundles are objects of one process that nothing else reads, so no   *)
(* step of an execution interferes with one of a publication and the order *)
(* chosen here loses nothing.  What goes over is the key of an attempt:    *)
(* Reconciliation takes an attempt's completion to be a function of its    *)
(* key, which is what EvidenceReplays says of the execution.               *)
(***************************************************************************)
EXTENDS AttemptExecution, Publication

VARIABLE publishing

pipelineVars == <<executionVars, vars, publishing>>

PipelineInit ==
    /\ ExecutionInit /\ Fresh
    /\ visible = {} /\ job = None /\ left = None /\ failures = 0
    /\ publishing = FALSE

\* The producer is done and its objects are dropped; the workers get their jobs.
HandOver ==
    /\ ~publishing /\ publishing' = TRUE
    /\ Cardinality(bundles) = MaxBundles
    /\ session' = [Opened(CHOOSE a \in Attempts : TRUE) EXCEPT !.state = "poisoned"]
    /\ frozen' = {} /\ identities' = {} /\ answered' = {} /\ bundles' = {}
    /\ \E a \in Assignments :
          /\ job' = a.jobs
          /\ visible' = {Object(v) : v \in a.earlier}
          /\ left' = [w \in Workers |-> a.jobs[w].keys]
          /\ failures' = a.failures
    /\ UNCHANGED <<pending, temps, stage, plan, step, previous, owned, receipts, shard>>

PipelineNext ==
    \/ ~publishing /\ ExecutionNext /\ UNCHANGED <<vars, publishing>>
    \/ HandOver
    \/ publishing /\ Next /\ UNCHANGED <<executionVars, publishing>>

PipelineSpec == PipelineInit /\ [][PipelineNext]_pipelineVars
=============================================================================
