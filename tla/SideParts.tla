----------------------------- MODULE SideParts -----------------------------
(* Three parts that keep to themselves: how a release reaches production,  *)
(* how a customer's tenant begins and ends, and which browsers a push      *)
(* delivery goes to.  None writes what another one reads, so a behaviour   *)
(* is one of the three.                                                    *)
EXTENDS StagedRelease, TenantLifecycle, PushSubscriptions

VARIABLE part

SidePartsInit ==
  /\ part \in {"release", "tenant", "push"}
  /\ Init /\ TenantInit /\ PushInit

SidePartsNext ==
  \/ part = "release" /\ Next /\ UNCHANGED <<part, tenantVars, pushVars>>
  \/ part = "tenant" /\ TenantNext /\ UNCHANGED <<part, vars, pushVars>>
  \/ part = "push" /\ PushNext /\ UNCHANGED <<part, vars, tenantVars>>

SidePartsSpec ==
  SidePartsInit /\ [][SidePartsNext]_<<part, vars, tenantVars, pushVars>>
=============================================================================
