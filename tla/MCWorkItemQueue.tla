-------------------------- MODULE MCWorkItemQueue --------------------------
(* Small instances of WorkItemQueue for TLC. *)
EXTENDS WorkItemQueue, TLC

CONSTANTS dispatch, stage, outbox, p1, daemon1, daemon2, drain, outboxer, w1, w2

MCKindOf     == dispatch :> "operator_dispatch" @@ stage :> "worker_stage" @@ outbox :> "outbox"
MCPipelineOf == dispatch :> p1 @@ stage :> p1 @@ outbox :> NoPipeline
MCDrains     == daemon1 :> "operator_dispatch" @@ daemon2 :> "operator_dispatch"
                  @@ drain :> "worker_stage" @@ outboxer :> "outbox"

KindOfRoots     == [k \in Roots |-> MCKindOf[k]]
PipelineOfRoots == [k \in Roots |-> MCPipelineOf[k]]
DrainsOf        == [c \in Consumers |-> MCDrains[c]]
=============================================================================
