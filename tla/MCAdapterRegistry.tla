-------------------------- MODULE MCAdapterRegistry --------------------------
(* Instances of AdapterRegistry for TLC.                                   *)
EXTENDS AdapterRegistry

CONSTANT probe

(* The tests' probe never says stale; the other manifest has no status    *)
(* for an open circuit, so that its adapter is then degraded.              *)
MCManifests == {[a \in Adapters |-> HealthStatus \ {"stale"}],
                [a \in Adapters |-> {"healthy", "degraded", "stale"}]}
=============================================================================
