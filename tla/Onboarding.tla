----------------------------- MODULE Onboarding -----------------------------
(***************************************************************************)
(* From a database to the first invoices of a tenant: the schema is        *)
(* migrated, the release rolled out, the tenant provisioned; then its      *)
(* stores are listed and invoices issued for them, while the hierarchy of  *)
(* merchants is changed by hand.  The order is that of the apply sequence  *)
(* in PRODUCTION_GO_LIVE.md.                                               *)
(***************************************************************************)
EXTENDS MerchantScope

onboardingVars == <<migrationVars, tenantVars, scopeVars>>

OnboardingTypeOK == MigrationTypeOK /\ ScopeTypeOK

OnboardingInit == MigrationInit /\ TenantInit /\ ScopeInit

OnboardingNext ==
    \/ MigrationNext /\ UNCHANGED <<tenantVars, scopeVars>>
    \/ walk = None /\ CommandNext /\ issued' = None /\ UNCHANGED <<migrationVars, walk>>
    \/ release = "current" /\ ByHand /\ Overtake /\ UNCHANGED migrationVars
    \/ ScopeNext /\ UNCHANGED <<migrationVars, tenantVars>>

OnboardingSafety == OnboardingInit /\ [][OnboardingNext]_onboardingVars

\* The Job starts its pods, a pod goes on, Argo rolls out what is ready, a command goes on, deadlocks
\* are broken, and a lock that comes free again and again is granted.
OnboardingSpec ==
    /\ OnboardingSafety
    /\ \A p \in Pods : WF_onboardingVars(PodStep(p) /\ UNCHANGED <<tenantVars, scopeVars>>)
    /\ WF_onboardingVars(\E p \in Pods : job[p].at = "idle" /\ Start(p)
                                           /\ UNCHANGED <<tenantVars, scopeVars>>)
    /\ WF_onboardingVars(Rollout /\ UNCHANGED <<tenantVars, scopeVars>>)
    /\ \A c \in Terminals :
          /\ SF_onboardingVars(CommandStep(c) /\ issued' = None /\ UNCHANGED <<migrationVars, walk>>)
          /\ WF_onboardingVars(Deadlock(c) /\ issued' = None /\ UNCHANGED <<migrationVars, walk>>)
=============================================================================
