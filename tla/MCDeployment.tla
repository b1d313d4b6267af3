---------------------------- MODULE MCDeployment ----------------------------
\* A rolling deployment of two processes: the handler of the task is in the
\* registry of the new one only.
EXTENDS Deployment, TLC

CONSTANTS old, new, ops, t1, s1

MCHandlers == (old :> {}) @@ (new :> {t1})
MCPlan == <<s1>>
MCKinds == {(old :> o) @@ (new :> n) : o, n \in {"scheduled", "oneshot"}}
  \ {(old :> "oneshot") @@ (new :> "scheduled")}
=============================================================================
