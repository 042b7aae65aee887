---------------------------- MODULE ProvidersProofs ----------------------------
(***************************************************************************)
(* Proofs about Providers, for any endpoints, configurations, overrides    *)
(* and number of requests: what a gated profile refers to exists and fits, *)
(* and a run is refused, or dials, as was to be foreseen.                  *)
(***************************************************************************)
EXTENDS Providers, TLAPS

-----------------------------------------------------------------------------
(* The inductive invariant.                                                *)

\* The parts of the state that the actions take apart.
Shapes ==
  /\ endpoint \in [Endpoints -> Surfaces \cup {None}]
  /\ profile \in Profiles \cup {None}
  /\ override \in Overrides
  /\ run \in Runs
  /\ edits \in 0..MaxEdits /\ gone \subseteq Endpoints
  /\ ungated \in BOOLEAN /\ moved \in BOOLEAN

\* What a profile says passes the gate, as long as nobody went around it.
ProfileIsGated ==
  profile # None /\ ~ungated => Gate(profile.backend, profile.primary, profile.config)

\* A run works with the profile as it is, as long as nothing was edited.
RunIsCurrent == run # None /\ ~moved => profile # None /\ run.profile = profile

\* A refusal still has its reason then.
RefusalStands ==
  run # None /\ run.step = "refused" /\ ~moved => Refused(run.profile, run.override)

IInv == Shapes /\ ProfileIsGated /\ RunIsCurrent /\ RefusalStands

-----------------------------------------------------------------------------
(* The gate, seen by a run.                                                *)

\* The references of a profile are endpoints.
LEMMA ReferencesAreEndpoints ==
  ASSUME ProvidersAssumption, NEW p \in Profiles
  PROVE  Referenced(p) \subseteq Endpoints
BY DEF ProvidersAssumption, Profiles, Referenced, AgentEndpoints, ConfigOK

\* Making an endpoint disturbs neither a gate that was passed nor a refusal: those
\* that are there stay as they are.
LEMMA CreationKeeps ==
  ASSUME ProvidersAssumption, Shapes, NEW e \in Endpoints, CreateEndpoint(e)
  PROVE  /\ \A f : Live(f) /\ f \in Endpoints => Live(f)' /\ endpoint'[f] = endpoint[f]
         /\ \A p \in Profiles :
              Gate(p.backend, p.primary, p.config) => Gate(p.backend, p.primary, p.config)'
         /\ \A p \in Profiles : \A o : Refused(p, o) => Refused(p, o)'
<1>1. PICK s \in Surfaces : endpoint' = [endpoint EXCEPT ![e] = s]  BY DEF CreateEndpoint
<1>2. \A f : Live(f) /\ f \in Endpoints => Live(f)' /\ endpoint'[f] = endpoint[f]
  BY <1>1 DEF CreateEndpoint, Live, Shapes
<1>3. ASSUME NEW p \in Profiles, Gate(p.backend, p.primary, p.config)
      PROVE  Gate(p.backend, p.primary, p.config)'
  <2>1. Referenced(p) \subseteq Endpoints  BY ReferencesAreEndpoints
  <2> QED  BY <1>2, <1>3, <2>1 DEF Gate, Referenced
<1>4. ASSUME NEW p \in Profiles, NEW o, Refused(p, o)  PROVE Refused(p, o)'
  <2>1. Referenced(p) \subseteq Endpoints  BY ReferencesAreEndpoints
  <2> QED  BY <1>2, <1>4, <2>1 DEF Refused, Resolved
<1> QED  BY <1>2, <1>3, <1>4

\* The gate of the run finds what the gate of the profile found, if the ticket does
\* not override the backend.
LEMMA GatedIsNotRefused ==
  ASSUME NEW p \in Profiles, NEW o, o.backend = None, Gate(p.backend, p.primary, p.config)
  PROVE  ~Refused(p, o)
BY DEF Gate, Refused, Resolved, Referenced, SpecBackend, Merged

\* And resolves what the profile refers to.
LEMMA GatedIsResolved ==
  ASSUME NEW p \in Profiles, Gate(p.backend, p.primary, p.config)
  PROVE  Resolved(p) = Referenced(p)
BY DEF Gate, Resolved, Referenced

-----------------------------------------------------------------------------
(* The invariant is inductive.                                             *)

LEMMA InitIInv ==
  ASSUME ProvidersAssumption, Init
  PROVE  IInv
<1>1. /\ endpoint \in [Endpoints -> Surfaces \cup {None}] /\ override \in Overrides
      /\ 0 \in 0..MaxEdits /\ run \in Runs
  BY DEF Init, ProvidersAssumption, Runs
<1>2. Shapes  BY <1>1 DEF Init, Shapes
<1> QED  BY <1>2 DEF Init, IInv, ProfileIsGated, RunIsCurrent, RefusalStands

LEMMA SaveStep ==
  ASSUME ProvidersAssumption, IInv, NEW new \in Profiles, SaveProfile(new)
  PROVE  IInv'
<1>1. /\ profile' = new /\ moved' = TRUE
      /\ UNCHANGED <<endpoint, gone, override, run>>
      /\ ungated' = (~Gate(new.backend, new.primary, new.config) /\ ungated)
      /\ NeedsGate(profile, new) => Gate(new.backend, new.primary, new.config)
      /\ edits' \in 0..MaxEdits
  BY DEF SaveProfile, Asks, IInv, Shapes, ProvidersAssumption
<1>2. Shapes'  BY <1>1 DEF IInv, Shapes
<1>3. ProfileIsGated'
  <2> SUFFICES ASSUME ~ungated'  PROVE Gate(new.backend, new.primary, new.config)
    BY <1>1 DEF ProfileIsGated, Gate, Live
  <2>1. CASE NeedsGate(profile, new)  BY <1>1, <2>1
  <2>2. CASE ~NeedsGate(profile, new)
    BY <1>1, <2>2 DEF NeedsGate, IInv, ProfileIsGated
  <2> QED  BY <2>1, <2>2
<1> QED  BY <1>1, <1>2, <1>3 DEF IInv, RunIsCurrent, RefusalStands

LEMMA ImportStep ==
  ASSUME ProvidersAssumption, IInv, NEW new \in Profiles, ImportProfile(new)
  PROVE  IInv'
<1>1. /\ profile = None /\ profile' = new /\ ungated' = TRUE
      /\ UNCHANGED <<endpoint, gone, override, run, moved>>
      /\ edits' \in 0..MaxEdits
  BY DEF ImportProfile, Asks, IInv, Shapes, ProvidersAssumption
<1>2. Shapes'  BY <1>1 DEF IInv, Shapes
<1> QED  BY <1>1, <1>2 DEF IInv, ProfileIsGated, RunIsCurrent, RefusalStands

LEMMA CreateStep ==
  ASSUME ProvidersAssumption, IInv, NEW e \in Endpoints, CreateEndpoint(e)
  PROVE  IInv'
<1>1. /\ UNCHANGED <<gone, profile, override, run, ungated, moved>>
      /\ edits' \in 0..MaxEdits
  BY DEF CreateEndpoint, Asks, IInv, Shapes, ProvidersAssumption
<1>2. Shapes'  BY <1>1 DEF CreateEndpoint, IInv, Shapes
<1>3. ProfileIsGated'
  BY <1>1, CreationKeeps DEF IInv, Shapes, ProfileIsGated
<1>4. RefusalStands'
  BY <1>1, CreationKeeps DEF IInv, Shapes, RefusalStands, Runs
<1> QED  BY <1>1, <1>2, <1>3, <1>4 DEF IInv, RunIsCurrent

\* What no profile refers to may change or go.
LEMMA EditStep ==
  ASSUME ProvidersAssumption, IInv,
         \/ \E e \in Endpoints : UpdateEndpoint(e)
         \/ \E S \in SUBSET Endpoints : DeleteEndpoints(S)
  PROVE  IInv'
<1>1. /\ UNCHANGED <<profile, override, run>> /\ moved' = TRUE
      /\ edits' \in 0..MaxEdits /\ gone' \subseteq Endpoints /\ ungated' \in BOOLEAN
      /\ endpoint' \in [Endpoints -> Surfaces \cup {None}]
  <2>1. \A e \in Endpoints : UpdateEndpoint(e) =>
           endpoint' \in [Endpoints -> Surfaces \cup {None}]
    BY DEF UpdateEndpoint, IInv, Shapes
  <2>2. \A S \in SUBSET Endpoints : DeleteEndpoints(S) =>
           endpoint' \in [Endpoints -> Surfaces \cup {None}]
    BY DEF DeleteEndpoints, IInv, Shapes
  <2>3. Asks  BY DEF UpdateEndpoint, DeleteEndpoints
  <2>4. edits' \in 0..MaxEdits  BY <2>3 DEF Asks, IInv, Shapes, ProvidersAssumption
  <2>5. gone' \subseteq Endpoints /\ ungated' \in BOOLEAN
    BY DEF UpdateEndpoint, DeleteEndpoints, IInv, Shapes
  <2> QED  BY <2>1, <2>2, <2>4, <2>5 DEF UpdateEndpoint, DeleteEndpoints
<1>2. Shapes'  BY <1>1 DEF IInv, Shapes
<1>3. ProfileIsGated'
  <2> SUFFICES ASSUME profile # None, ~ungated'
               PROVE  Gate(profile.backend, profile.primary, profile.config)'
    BY <1>1 DEF ProfileIsGated
  <2>1. ~ungated /\ Gate(profile.backend, profile.primary, profile.config)
    BY DEF UpdateEndpoint, DeleteEndpoints, IInv, Shapes, ProfileIsGated
  <2>2. Referenced(profile) \subseteq Endpoints
    BY ReferencesAreEndpoints DEF IInv, Shapes
  <2>3. \A f \in Referenced(profile) : endpoint'[f] = endpoint[f]
    BY <2>2 DEF UpdateEndpoint, DeleteEndpoints, IInv, Shapes, InUse, Uses
  <2> QED  BY <1>1, <2>1, <2>3 DEF Gate, Referenced, Live
<1> QED  BY <1>1, <1>2, <1>3 DEF IInv, RunIsCurrent, RefusalStands

LEMMA RunStep ==
  ASSUME ProvidersAssumption, IInv, StartRun \/ Dispatch \/ EndRun
  PROVE  IInv'
<1>1. UNCHANGED <<endpoint, gone, profile, override, edits, ungated>>
  BY DEF StartRun, Dispatch, EndRun
<1>2. ProfileIsGated'  BY <1>1 DEF IInv, ProfileIsGated, Gate, Live
<1>3. CASE StartRun
  <2>1. /\ run' \in Runs /\ run'.step = "setup" /\ run'.profile = profile /\ profile # None
        /\ moved' = FALSE
    BY <1>3 DEF StartRun, IInv, Shapes, Runs
  <2> QED  BY <1>1, <1>2, <2>1 DEF IInv, Shapes, RunIsCurrent, RefusalStands
<1>4. CASE Dispatch
  <2>1. /\ run # None /\ run' \in Runs /\ run'.profile = run.profile
        /\ run'.override = run.override /\ moved' = moved
        /\ run'.step = "refused" => Refused(run.profile, run.override)
    BY <1>4 DEF Dispatch, IInv, Shapes, Runs
  <2>2. \A p, o : Refused(p, o) => Refused(p, o)'
    BY <1>1 DEF Refused, Resolved, Live
  <2> QED  BY <1>1, <1>2, <2>1, <2>2 DEF IInv, Shapes, RunIsCurrent, RefusalStands
<1>5. CASE EndRun
  BY <1>1, <1>2, <1>5 DEF EndRun, IInv, Shapes, Runs, RunIsCurrent, RefusalStands
<1> QED  BY <1>3, <1>4, <1>5

LEMMA NextIInv ==
  ASSUME ProvidersAssumption, IInv, [Next]_vars
  PROVE  IInv'
<1>1. ASSUME NEW o \in Overrides, SetOverride(o)  PROVE IInv'
  <2>1. /\ UNCHANGED <<endpoint, gone, profile, run, ungated, moved>> /\ override' \in Overrides
        /\ edits' \in 0..MaxEdits
    BY <1>1 DEF SetOverride, Asks, IInv, Shapes, ProvidersAssumption
  <2> QED
    BY <2>1 DEF IInv, Shapes, ProfileIsGated, Gate, Live, RunIsCurrent, RefusalStands, Refused,
                Resolved
<1>2. ASSUME UNCHANGED vars  PROVE IInv'
  BY <1>2 DEF vars, IInv, Shapes, ProfileIsGated, Gate, Live, RunIsCurrent, RefusalStands,
              Refused, Resolved
<1> QED  BY <1>1, <1>2, CreateStep, EditStep, SaveStep, ImportStep, RunStep DEF Next

-----------------------------------------------------------------------------
(* The theorems.                                                           *)

\* Profiles that were gated stay compatible with their endpoints, and runs that
\* nothing was edited under work with them.
THEOREM Inductive == ProvidersAssumption => (Spec => []IInv)
<1> SUFFICES ASSUME ProvidersAssumption  PROVE Spec => []IInv  OBVIOUS
<1>1. Init => IInv  BY InitIInv
<1>2. IInv /\ [Next]_vars => IInv'  BY NextIInv
<1> QED  BY <1>1, <1>2, PTL DEF Spec

\* No request pulls an endpoint from under a profile that was gated.
THEOREM EndpointsStay == ProvidersAssumption => (Spec => []ReferencesHold)
<1> SUFFICES ASSUME ProvidersAssumption  PROVE Spec => []ReferencesHold  OBVIOUS
<1>1. IInv => ReferencesHold
  BY DEF IInv, ProfileIsGated, Gate, ReferencesHold, Referenced
<1> QED  BY <1>1, Inductive, PTL

\* A run is refused only for what the preview shows, or what was edited under it.
THEOREM NoRefusalSurprises == ProvidersAssumption => (Spec => []RefusalsAreForeseen)
<1> SUFFICES ASSUME ProvidersAssumption  PROVE Spec => []RefusalsAreForeseen  OBVIOUS
<1>1. IInv => RefusalsAreForeseen
  <2> SUFFICES ASSUME IInv, run # None, run.step = "refused", ~moved
               PROVE  /\ ungated \/ run.override.backend # None
                      /\ run.profile.primary # None => PreviewWarns(run.profile, run.override)
    BY DEF RefusalsAreForeseen
  <2>1. Refused(run.profile, run.override)  BY DEF IInv, RefusalStands
  <2>2. profile \in Profiles /\ profile # None /\ run.profile = profile
    BY DEF IInv, Shapes, RunIsCurrent
  <2>3. ungated \/ run.override.backend # None
    BY <2>1, <2>2, GatedIsNotRefused DEF IInv, ProfileIsGated
  <2> QED  BY <2>1, <2>3 DEF Refused, PreviewWarns, PreviewLooks
<1> QED  BY <1>1, Inductive, PTL

\* Whatever a launched run assigns to a slot, it has resolved.
THEOREM RunsDialWhatTheyResolved == ProvidersAssumption => (Spec => []AssignedIsResolved)
<1> SUFFICES ASSUME ProvidersAssumption  PROVE Spec => []AssignedIsResolved  OBVIOUS
<1>1. IInv => AssignedIsResolved
  <2> SUFFICES ASSUME IInv, run # None, ~moved, ~ungated, run.override.config = None,
                      NEW slot \in DOMAIN Assignments(run.profile, run.override),
                      Assignments(run.profile, run.override)[slot] # None
               PROVE  Assignments(run.profile, run.override)[slot].endpoint \in Resolved(run.profile)
    BY DEF AssignedIsResolved
  <2> DEFINE p == run.profile
  <2>1. p = profile /\ p \in Profiles /\ Gate(p.backend, p.primary, p.config)
    BY DEF IInv, Shapes, RunIsCurrent, ProfileIsGated
  <2>2. Resolved(p) = Referenced(p)  BY <2>1, GatedIsResolved
  <2>3. SpecConfig(p, run.override) = p.config  BY DEF SpecConfig, Merged
  <2> HIDE DEF p
  <2>4. slot = "agent" => p.config.agent # None
    BY <2>3 DEF Assignments, Slots, p
  <2> QED  BY <2>2, <2>3, <2>4 DEF Assignments, Merged, Referenced, AgentEndpoints, p
<1> QED  BY <1>1, Inductive, PTL

=============================================================================
