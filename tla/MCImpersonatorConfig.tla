------------------------ MODULE MCImpersonatorConfig ------------------------
(* Instances of ImpersonatorConfig for TLC.                                *)
EXTENDS ImpersonatorConfig

Proxy(mode, type, endpoint, annotations) ==
  [valid |-> TRUE, mode |-> mode, type |-> type, endpoint |-> endpoint, annotations |-> annotations]

AllSpecs ==
  { Proxy("disabled", "LoadBalancer", Absent, {}), Proxy("auto", "LoadBalancer", Absent, {}),
    Proxy("enabled", "LoadBalancer", Absent, {"k"}), Proxy("enabled", "ClusterIP", Absent, {}),
    Proxy("enabled", "None", "external", {}),
    [Proxy("enabled", "None", Absent, {}) EXCEPT !.valid = FALSE] }

\* Those with a load balancer: one spec adds an annotation to the other's, or removes it.
WithLoadBalancer == {s \in AllSpecs : s.mode # "disabled" /\ s.type = "LoadBalancer"}
=============================================================================
