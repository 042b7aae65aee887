------------------------------ MODULE Providers ------------------------------
(***************************************************************************)
(* Which endpoints a run dials.  A profile names a backend, a primary      *)
(* endpoint and one endpoint per agent; requests create, edit and delete   *)
(* endpoints (domain/providers.py) and save profiles through a gate        *)
(* (api/routes/profiles.py) or import them around it; a ticket may         *)
(* override the backend and its configuration; a run reads its profile     *)
(* when it starts, prepares its workspace, and only then resolves the      *)
(* endpoints, gates them again and assigns models (worker/run_one.py); the *)
(* preview tells a human beforehand whether it will (effective_config.py). *)
(*                                                                         *)
(* One profile and one ticket that uses it.  API requests run one at a     *)
(* time.  Credentials never stop a run and are left out.                   *)
(***************************************************************************)
EXTENDS Naturals, FiniteSets

CONSTANTS Endpoints, None,
          Surfaces,   \* what an endpoint may be: [protocol, lock, model]
          Configs,    \* backend_config: [second, agent], see ConfigOK
          Overrides,  \* permission_overrides: [backend, config], each may be None
          MaxEdits    \* bound: requests

Backends == {"claude_sdk", "opencode"}

\* BackendCapability.protocol_kinds and alias_native_protocols.
Speaks(backend) ==
  IF backend = "claude_sdk" THEN {"anthropic", "anthropic_compat"}
  ELSE {"anthropic", "anthropic_compat", "openai", "openai_compat", "openai_codex", "openrouter", "ollama"}
AliasNative(backend) == IF backend = "claude_sdk" THEN {"anthropic"} ELSE {}

\* A static slot's override, a model or None, and one named agent or None.
ConfigOK(c) == c.agent = None \/ c.agent.endpoint \in Endpoints \cup {None}

ProvidersAssumption ==
  /\ None \notin Endpoints
  /\ \A s \in Surfaces : s.protocol \in Speaks("opencode") /\ s.lock \in Backends \cup {None}
  /\ \A c \in Configs : ConfigOK(c)
  /\ [backend |-> None, config |-> None] \in Overrides
  /\ \A o \in Overrides : o.backend \in Backends \cup {None} /\ o.config \in Configs \cup {None}
  /\ MaxEdits \in Nat

VARIABLES
  endpoint,  \* endpoint[e]: a surface, or None
  gone,      \* the ids of deleted endpoints: none is used again
  profile,   \* [backend, primary, config, model], or None
  override,  \* the ticket's
  run,       \* the run of the ticket, see Runs
  edits,
  ungated,   \* what the profile says was not gated against what its endpoints are
  moved      \* an endpoint or the profile was edited since the run read its profile

vars == <<endpoint, gone, profile, override, run, edits, ungated, moved>>

-----------------------------------------------------------------------------
Live(e) == endpoint[e] # None
Profiles == [backend : Backends, primary : Endpoints \cup {None}, config : Configs,
             model : {None, "default"}]
Runs == {None} \cup [step : {"setup", "refused", "launched"}, profile : Profiles,
                     override : Overrides]

TypeOK ==
  /\ endpoint \in [Endpoints -> Surfaces \cup {None}] /\ gone \subseteq Endpoints
  /\ profile \in Profiles \cup {None}
  /\ override \in Overrides
  /\ run = None \/ run.step \in {"setup", "refused", "launched"}
  /\ edits \in 0..MaxEdits
  /\ ungated \in BOOLEAN /\ moved \in BOOLEAN

Init ==
  /\ endpoint = [e \in Endpoints |-> None] /\ gone = {}
  /\ profile = None
  /\ override = [backend |-> None, config |-> None]
  /\ run = None
  /\ edits = 0 /\ ungated = FALSE /\ moved = FALSE

Asks == edits < MaxEdits /\ edits' = edits + 1

-----------------------------------------------------------------------------
(* The gate.                                                               *)

\* endpoint_compatible: the protocol, and the lock if there is one.
Compatible(backend, s) ==
  s.protocol \in Speaks(backend) /\ s.lock \in {None, backend}

AgentEndpoints(config) ==
  IF config.agent = None THEN {} ELSE {config.agent.endpoint} \ {None}

Referenced(p) == ({p.primary} \ {None}) \cup AgentEndpoints(p.config)

\* _validate_profile_compat: every reference exists and is compatible.
GatePrimary(backend, primary, config) ==   \* wrong: the agents ride along
  primary # None => Live(primary) /\ Compatible(backend, endpoint[primary])
Gate(backend, primary, config) ==
  \A e \in ({primary} \ {None}) \cup AgentEndpoints(config) :
    Live(e) /\ Compatible(backend, endpoint[e])

-----------------------------------------------------------------------------
(* Requests.                                                               *)

Uses(e) == profile # None /\ e \in Referenced(profile)

CreateEndpoint(e) ==
  /\ Asks
  /\ ~Live(e) /\ e \notin gone
  /\ \E s \in Surfaces : endpoint' = [endpoint EXCEPT ![e] = s]
  /\ UNCHANGED <<gone, profile, override, run, ungated, moved>>

\* No profile is looked at.
UpdateEndpoint(e) ==
  /\ Asks
  /\ Live(e)
  /\ \E s \in Surfaces : endpoint' = [endpoint EXCEPT ![e] = s]
  /\ ungated' = (ungated \/ Uses(e))
  /\ moved' = TRUE
  /\ UNCHANGED <<gone, profile, override, run>>

\* _profiles_referencing_endpoint: directly, or in the JSON of an agent.
InUseDirectly(e) == profile # None /\ profile.primary = e   \* wrong: not in the JSON
InUse(e) == Uses(e)

\* One endpoint, or a provider with its endpoints.
DeleteEndpoints(S) ==
  /\ Asks
  /\ S # {} /\ \A e \in S : Live(e) /\ ~InUse(e)
  /\ endpoint' = [e \in Endpoints |-> IF e \in S THEN None ELSE endpoint[e]]
  /\ gone' = gone \cup S
  /\ moved' = TRUE
  /\ UNCHANGED <<profile, override, run, ungated>>

\* create, and update with the backend, the endpoint or the configuration.
NeedsGateOnEndpoints(p, new) ==   \* wrong: not when only the backend changes
  p = None \/ p.primary # new.primary \/ p.config # new.config
NeedsGate(p, new) ==
  \/ p = None \/ p.backend # new.backend \/ p.primary # new.primary \/ p.config # new.config
SaveProfile(new) ==
  /\ Asks
  /\ new # profile
  /\ NeedsGate(profile, new) => Gate(new.backend, new.primary, new.config)
  /\ profile' = new
  /\ ungated' = (~Gate(new.backend, new.primary, new.config) /\ ungated)
  /\ moved' = TRUE
  /\ UNCHANGED <<endpoint, gone, override, run>>

\* import_api: no gate; only the primary is a foreign key.
ImportProfile(new) ==
  /\ Asks
  /\ profile = None
  /\ new.primary # None => Live(new.primary)
  /\ profile' = new
  /\ ungated' = TRUE
  /\ UNCHANGED <<endpoint, gone, override, run, moved>>

SetOverride(o) ==
  /\ Asks
  /\ o # override
  /\ override' = o
  /\ UNCHANGED <<endpoint, gone, profile, run, ungated, moved>>

-----------------------------------------------------------------------------
(* A run, and its preview.                                                 *)

\* merge_permissions, its replace keys.
Merged(own, theirs) == IF theirs = None THEN own ELSE theirs
SpecBackend(p, o) == Merged(p.backend, o.backend)
SpecConfig(p, o) == Merged(p.config, o.config)

\* resolve_endpoints_for_profile: the profile's own, whatever the ticket says;
\* a missing one is left out.
Resolved(p) == {e \in Referenced(p) : Live(e)}
Refused(p, o) == \E e \in Resolved(p) : ~Compatible(SpecBackend(p, o), endpoint[e])

DefaultModel(p) ==
  IF p.model # None THEN p.model
  ELSE IF p.primary \in Resolved(p) THEN endpoint[p.primary].model ELSE None

\* slots_for, with one of the static slots besides the primary.
Slots(backend, config) ==
  {"primary", "second"} \cup (IF backend = "opencode" /\ config.agent # None THEN {"agent"} ELSE {})

\* compute_model_assignments: slot -> [endpoint, model], None when unpinned.
Assignments(p, o) ==
  LET backend == SpecBackend(p, o)
      config == SpecConfig(p, o)
      primary == IF p.primary \in Resolved(p) THEN p.primary ELSE None
      default == DefaultModel(p)
      pin == /\ primary # None /\ default # None
             /\ endpoint[primary].protocol \notin AliasNative(backend)
      fixed(slot) == IF slot = "second" THEN config.second ELSE None
      static(slot) ==
        IF primary # None /\ fixed(slot) # None THEN [endpoint |-> primary, model |-> fixed(slot)]
        ELSE IF pin THEN [endpoint |-> primary, model |-> default]
        ELSE None
      agent ==
        LET at == Merged(primary, config.agent.endpoint)
            inherited == IF static("primary") # None THEN static("primary").model ELSE default
            model == Merged(inherited, config.agent.model)
        IN IF at # None /\ model # None THEN [endpoint |-> at, model |-> model] ELSE None
  IN [slot \in Slots(backend, config) |-> IF slot = "agent" THEN agent ELSE static(slot)]

StartRun ==
  /\ profile # None
  /\ run = None
  /\ run' = [step |-> "setup", profile |-> profile, override |-> override]
  /\ moved' = FALSE
  /\ UNCHANGED <<endpoint, gone, profile, override, edits, ungated>>

Dispatch ==
  /\ run # None /\ run.step = "setup"
  /\ run' = [run EXCEPT !.step = IF Refused(run.profile, run.override) THEN "refused" ELSE "launched"]
  /\ UNCHANGED <<endpoint, gone, profile, override, edits, ungated, moved>>

EndRun ==
  /\ run # None /\ run.step # "setup"
  /\ run' = None
  /\ UNCHANGED <<endpoint, gone, profile, override, edits, ungated, moved>>

\* _launch_plan_group: the issues it lists, if it looks at all.
PreviewLooks(p) == p.primary # None
PreviewWarns(p, o) == PreviewLooks(p) /\ \E e \in Resolved(p) : ~Compatible(SpecBackend(p, o), endpoint[e])

-----------------------------------------------------------------------------
Next ==
  \/ \E e \in Endpoints : CreateEndpoint(e) \/ UpdateEndpoint(e)
  \/ \E S \in SUBSET Endpoints : DeleteEndpoints(S)
  \/ \E new \in Profiles : SaveProfile(new) \/ ImportProfile(new)
  \/ \E o \in Overrides : SetOverride(o)
  \/ StartRun \/ Dispatch \/ EndRun

Spec == Init /\ [][Next]_vars

-----------------------------------------------------------------------------
(* Correctness.                                                            *)

\* No request pulls an endpoint from under a profile: what a gated profile
\* refers to, the JSON of its agents included, is there.
ReferencesHold ==
  profile # None /\ ~ungated => \A e \in Referenced(profile) : Live(e)

\* The gate of the run never surprises: a run is refused only if an endpoint or
\* the profile was edited under it, and otherwise only for a profile that was
\* imported, whose endpoints were edited since it was saved, or whose backend
\* the ticket overrides; in all of these the preview says so, if the profile
\* has a primary endpoint.  (Without one the preview does not look.)
RefusalsAreForeseen ==
  run # None /\ run.step = "refused" /\ ~moved =>
    /\ ungated \/ run.override.backend # None
    /\ run.profile.primary # None => PreviewWarns(run.profile, run.override)

\* A run that was launched from a gated profile has resolved every endpoint it
\* assigns to a slot.  (A ticket's own configuration is neither gated nor
\* resolved.)
AssignedIsResolved ==
  run # None /\ run.step = "launched" /\ ~moved /\ ~ungated /\ run.override.config = None =>
    LET a == Assignments(run.profile, run.override)
    IN \A slot \in DOMAIN a : a[slot] # None => a[slot].endpoint \in Resolved(run.profile)
=============================================================================
