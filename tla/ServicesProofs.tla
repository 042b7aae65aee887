---------------------------- MODULE ServicesProofs -----------------------------
(***************************************************************************)
(* Proofs about MCServices.  A behaviour is that of one service, for       *)
(* `service' never changes: what is proved of a module holds of the        *)
(* behaviours of its service.  What the services take for granted of their *)
(* constants is what MCServices assumes.                                   *)
(***************************************************************************)
EXTENDS MCServices, TLAPS

-----------------------------------------------------------------------------
(* PodRuns.  v1 is its run process, v2 the row of the run, v7 the pod, v8  *)
(* the agent in it, v9 what the sidecar reported, v10 the pass of the      *)
(* reconciler.  The heart of its invariant, Inv, is that the record of a   *)
(* run stays open while the run process waits for a pod that is not over.  *)

\* The reconciler records a kind that the record of a run may have.
LEMMA PodLostIsAKind == "pod_lost" \in {o.kind : o \in Pod!Outcomes}
<1>1. /\ Pod!Outcome("worker_crash", "pod_lost") \in Pod!Outcomes
      /\ Pod!Outcome("worker_crash", "pod_lost").kind = "pod_lost"
  BY DEF Pod!Outcome, Pod!Outcomes
<1> QED  BY <1>1

\* Whatever the run process saw of its pod, and whatever was reported, it records
\* an outcome.
LEMMA MapGivesOutcome ==
  ASSUME NEW saw, NEW rep \in {None, "success", "failed"}
  PROVE  Pod!MapResult(saw, rep) \in Pod!Outcomes
<1>1. Pod!ByPhase(saw) \in Pod!Outcomes  BY DEF Pod!ByPhase, Pod!Outcome, Pod!Outcomes
<1> QED  BY <1>1 DEF Pod!MapResult, Pod!Outcome, Pod!Outcomes

\* Before the first run there is no pod, no record and no pass.
LEMMA PodBegins == Pod!Init => Pod!Inv
<1> SUFFICES ASSUME Pod!Init PROVE Pod!Inv  OBVIOUS
<1>0. None \in {o.kind : o \in Pod!Outcomes}
  <2>1. /\ Pod!Outcome("success", None) \in Pod!Outcomes
        /\ Pod!Outcome("success", None).kind = None
    BY DEF Pod!Outcome, Pod!Outcomes
  <2> QED  BY <2>1
<1>1. Pod!RunShape  BY DEF Pod!Init, Pod!RunShape, Pod!RunRecords, Pod!Hosts, Pod!Seen
<1>2. Pod!RowShape  BY <1>0 DEF Pod!Init, Pod!RowShape, Pod!RowRecords
<1>3. Pod!PodShape  BY DEF Pod!Init, Pod!PodShape, Pod!PodRecords, Pod!PodStates
<1>4. Pod!AgentShape  BY DEF Pod!Init, Pod!AgentShape, Pod!AgentRecords
<1>5. Pod!PassShape  BY DEF Pod!Init, Pod!PassShape
<1>6. Pod!InPod  BY DEF Pod!Init, Pod!InPod
<1>7. Pod!HasResult /\ Pod!NotYet /\ Pod!ClosedIsOver /\ Pod!PassStands
  BY DEF Pod!Init, Pod!HasResult, Pod!NotYet, Pod!Before, Pod!ClosedIsOver, Pod!After,
         Pod!PassStands
<1> QED  BY <1>1, <1>2, <1>3, <1>4, <1>5, <1>6, <1>7 DEF Pod!Inv, Pod!Shapes

\* Every step of the run process, the cluster, the runner and the daemon keeps it.
LEMMA PodKeeps == ASSUME Pod!Inv, [Pod!Next]_(Pod!vars)  PROVE Pod!Inv'
<1> USE DEF Pod!Inv, Pod!Shapes
<1>1. ASSUME NEW r \in Pods, Pod!Begin(r)  PROVE Pod!Inv'
  <2>1. Pod!Shapes'
    BY <1>1 DEF Pod!Begin, Pod!Goto, Pod!RunShape, Pod!RunRecords, Pod!Hosts,
                Pod!RowShape, Pod!RowRecords, Pod!PodShape, Pod!AgentShape,
                Pod!PassShape
  <2>2. Pod!InPod' /\ Pod!HasResult' /\ Pod!NotYet' /\ Pod!ClosedIsOver' /\ Pod!PassStands'
    BY <1>1 DEF Pod!Begin, Pod!Goto, Pod!InPod, Pod!HasResult, Pod!NotYet, Pod!Before,
                Pod!RunShape, Pod!RunRecords, Pod!PodShape, Pod!PodRecords,
                Pod!AgentShape, Pod!AgentRecords, Pod!Terminal, Pod!ClosedIsOver,
                Pod!After, Pod!PassStands, Pod!IsOver, Pod!RowShape, Pod!RowRecords,
                Pod!PassShape, Pod!PassRecords
  <2> QED  BY <2>1, <2>2
<1>2. ASSUME NEW r \in Pods, Pod!PreflightFails(r)  PROVE Pod!Inv'
  <2>1. Pod!Shapes'
    BY <1>2 DEF Pod!PreflightFails, Pod!Goto, Pod!RunShape, Pod!RunRecords, Pod!Hosts,
                Pod!RowShape, Pod!RowRecords, Pod!PodShape, Pod!AgentShape,
                Pod!PassShape
  <2>2. Pod!InPod' /\ Pod!HasResult' /\ Pod!NotYet' /\ Pod!ClosedIsOver' /\ Pod!PassStands'
    BY <1>2 DEF Pod!PreflightFails, Pod!Goto, Pod!InPod, Pod!HasResult, Pod!NotYet,
                Pod!Before, Pod!RunShape, Pod!RunRecords, Pod!PodShape, Pod!PodRecords,
                Pod!AgentShape, Pod!AgentRecords, Pod!Terminal, Pod!ClosedIsOver,
                Pod!After, Pod!PassStands, Pod!IsOver, Pod!RowShape, Pod!RowRecords,
                Pod!PassShape, Pod!PassRecords
  <2> QED  BY <2>1, <2>2
<1>3. ASSUME NEW r \in Pods, Pod!CreateSecret(r)  PROVE Pod!Inv'
  <2>1. Pod!Shapes'
    BY <1>3 DEF Pod!CreateSecret, Pod!Goto, Pod!RunShape, Pod!RunRecords, Pod!Hosts,
                Pod!RowShape, Pod!PodShape, Pod!AgentShape, Pod!PassShape
  <2>2. Pod!InPod' /\ Pod!HasResult' /\ Pod!NotYet' /\ Pod!ClosedIsOver' /\ Pod!PassStands'
    BY <1>3 DEF Pod!CreateSecret, Pod!Goto, Pod!InPod, Pod!HasResult, Pod!NotYet,
                Pod!Before, Pod!RunShape, Pod!RunRecords, Pod!PodShape, Pod!PodRecords,
                Pod!AgentShape, Pod!AgentRecords, Pod!Terminal, Pod!ClosedIsOver,
                Pod!After, Pod!PassStands, Pod!IsOver, Pod!RowShape, Pod!RowRecords,
                Pod!PassShape, Pod!PassRecords
  <2> QED  BY <2>1, <2>2
<1>4. ASSUME NEW r \in Pods, Pod!CreatePod(r)  PROVE Pod!Inv'
  <2>1. Pod!Shapes'
    BY <1>4 DEF Pod!CreatePod, Pod!Goto, Pod!RunShape, Pod!RunRecords, Pod!Hosts,
                Pod!PodShape, Pod!PodRecords, Pod!PodStates, Pod!Terminal, Pod!RowShape,
                Pod!AgentShape, Pod!PassShape
  <2>2. Pod!InPod' /\ Pod!HasResult' /\ Pod!NotYet' /\ Pod!ClosedIsOver' /\ Pod!PassStands'
    BY <1>4 DEF Pod!CreatePod, Pod!Goto, Pod!InPod, Pod!HasResult, Pod!NotYet,
                Pod!Before, Pod!RunShape, Pod!RunRecords, Pod!PodShape, Pod!PodRecords,
                Pod!AgentShape, Pod!AgentRecords, Pod!Terminal, Pod!ClosedIsOver,
                Pod!After, Pod!PassStands, Pod!IsOver, Pod!RowShape, Pod!RowRecords,
                Pod!PassShape, Pod!PassRecords
  <2> QED  BY <2>1, <2>2
<1>5. ASSUME NEW r \in Pods, Pod!CallFails(r)  PROVE Pod!Inv'
  <2>1. Pod!Outcome("failed", "provision_error") \in Pod!Outcomes
    BY DEF Pod!Outcome, Pod!Outcomes
  <2>2. Pod!Shapes'
    BY <2>1, <1>5 DEF Pod!CallFails, Pod!RunShape, Pod!RunRecords, Pod!Hosts,
         Pod!RowShape, Pod!PodShape, Pod!AgentShape, Pod!PassShape
  <2>3. Pod!InPod' /\ Pod!HasResult' /\ Pod!NotYet' /\ Pod!ClosedIsOver' /\ Pod!PassStands'
    BY <2>1, <1>5 DEF Pod!CallFails, Pod!InPod, Pod!HasResult, Pod!NotYet, Pod!Before,
         Pod!RunShape, Pod!RunRecords, Pod!PodShape, Pod!PodRecords, Pod!AgentShape,
         Pod!AgentRecords, Pod!Terminal, Pod!ClosedIsOver, Pod!After, Pod!PassStands,
         Pod!IsOver, Pod!RowShape, Pod!RowRecords, Pod!PassShape, Pod!PassRecords
  <2> QED  BY <2>2, <2>3
<1>6. ASSUME NEW r \in Pods, Pod!Watch(r)  PROVE Pod!Inv'
  <2>1. Pod!RunShape'
    BY <1>6 DEF Pod!Watch, Pod!Saw, Pod!Deleted, Pod!Seen, Pod!RunShape, Pod!RunRecords,
                Pod!Hosts
  <2>2. Pod!PodShape'
    BY <1>6 DEF Pod!Watch, Pod!Saw, Pod!Deleted, Pod!Seen, Pod!PodShape, Pod!PodRecords,
                Pod!PodStates, Pod!Terminal
  <2>3. Pod!RowShape' /\ Pod!AgentShape' /\ Pod!PassShape'
    BY <1>6 DEF Pod!Watch, Pod!Saw, Pod!Deleted, Pod!Seen, Pod!RowShape, Pod!AgentShape,
                Pod!PassShape
  <2>4. \A q \in Pods : v7'[q].state = v7[q].state
    BY <1>6 DEF Pod!Watch, Pod!Saw, Pod!Deleted, Pod!Seen, Pod!PodShape, Pod!PodRecords,
                Pod!PassShape, Pod!PassRecords
  <2>5. /\ v1[r].pc = "watch" /\ v1'[r].pc = "map" /\ v1'[r].result = v1[r].result
        /\ \A q \in Pods : q # r => v1'[q] = v1[q]
    BY <1>6 DEF Pod!Watch, Pod!Saw, Pod!Deleted, Pod!Seen, Pod!RunShape,
                Pod!RunRecords
  <2>6. UNCHANGED <<v2, v8, v10>>  BY <1>6 DEF Pod!Watch
  <2>7. Pod!InPod' /\ Pod!HasResult' /\ Pod!NotYet' /\ Pod!ClosedIsOver' /\ Pod!PassStands'
    BY <2>4, <2>5, <2>6 DEF Pod!InPod, Pod!HasResult, Pod!NotYet, Pod!Before,
         Pod!ClosedIsOver, Pod!After, Pod!PassStands, Pod!IsOver, Pod!PassShape,
         Pod!PassRecords
  <2> QED  BY <2>1, <2>2, <2>3, <2>4, <2>5, <2>6, <2>7
<1>7. ASSUME NEW r \in Pods, Pod!Map(r)  PROVE Pod!Inv'
  <2>1. Pod!MapResult(v1[r].saw, v9[r]) \in Pod!Outcomes
    BY MapGivesOutcome DEF Pod!AgentShape
  <2>2. Pod!Shapes'
    BY <2>1, <1>7 DEF Pod!Map, Pod!RunShape, Pod!RunRecords, Pod!Hosts, Pod!RowShape,
         Pod!PodShape, Pod!AgentShape, Pod!PassShape
  <2>3. Pod!InPod' /\ Pod!HasResult' /\ Pod!NotYet' /\ Pod!ClosedIsOver' /\ Pod!PassStands'
    BY <2>1, <1>7 DEF Pod!Map, Pod!InPod, Pod!HasResult, Pod!NotYet, Pod!Before,
         Pod!RunShape, Pod!RunRecords, Pod!PodShape, Pod!PodRecords, Pod!AgentShape,
         Pod!AgentRecords, Pod!Terminal, Pod!ClosedIsOver, Pod!After, Pod!PassStands,
         Pod!IsOver, Pod!RowShape, Pod!RowRecords, Pod!PassShape, Pod!PassRecords
  <2> QED  BY <2>2, <2>3
<1>8. ASSUME NEW r \in Pods, Pod!DeletePod(r)  PROVE Pod!Inv'
  <2>1. Pod!RunShape'
    BY <1>8 DEF Pod!DeletePod, Pod!Goto, Pod!Deleted, Pod!RunShape, Pod!RunRecords,
                Pod!Hosts
  <2>2. Pod!PodShape'
    BY <1>8 DEF Pod!DeletePod, Pod!Goto, Pod!Deleted, Pod!PodShape, Pod!PodRecords,
                Pod!PodStates, Pod!Terminal
  <2>3. Pod!RowShape' /\ Pod!AgentShape' /\ Pod!PassShape'
    BY <1>8 DEF Pod!DeletePod, Pod!Goto, Pod!Deleted, Pod!RowShape, Pod!AgentShape,
                Pod!PassShape
  <2>4. \A q \in Pods : v7'[q].state = v7[q].state
    BY <1>8 DEF Pod!DeletePod, Pod!Goto, Pod!Deleted, Pod!PodShape, Pod!PodRecords,
                Pod!PassShape, Pod!PassRecords
  <2>5. /\ v1[r].pc = "deletePod" /\ v1'[r].pc = "deleteSecret" /\ v1'[r].result = v1[r].result
        /\ \A q \in Pods : q # r => v1'[q] = v1[q]
    BY <1>8 DEF Pod!DeletePod, Pod!Goto, Pod!Deleted, Pod!RunShape,
                Pod!RunRecords
  <2>6. UNCHANGED <<v2, v8, v10>>  BY <1>8 DEF Pod!DeletePod
  <2>7. Pod!InPod' /\ Pod!HasResult' /\ Pod!NotYet' /\ Pod!ClosedIsOver' /\ Pod!PassStands'
    BY <2>4, <2>5, <2>6 DEF Pod!InPod, Pod!HasResult, Pod!NotYet, Pod!Before,
         Pod!ClosedIsOver, Pod!After, Pod!PassStands, Pod!IsOver, Pod!PassShape,
         Pod!PassRecords
  <2> QED  BY <2>1, <2>2, <2>3, <2>4, <2>5, <2>6, <2>7
<1>9. ASSUME NEW r \in Pods, Pod!DeleteSecret(r)  PROVE Pod!Inv'
  <2>1. Pod!Shapes'
    BY <1>9 DEF Pod!DeleteSecret, Pod!Goto, Pod!RunShape, Pod!RunRecords, Pod!Hosts,
                Pod!RowShape, Pod!PodShape, Pod!AgentShape, Pod!PassShape
  <2>2. Pod!InPod' /\ Pod!HasResult' /\ Pod!NotYet' /\ Pod!ClosedIsOver' /\ Pod!PassStands'
    BY <1>9 DEF Pod!DeleteSecret, Pod!Goto, Pod!InPod, Pod!HasResult, Pod!NotYet,
                Pod!Before, Pod!RunShape, Pod!RunRecords, Pod!PodShape, Pod!PodRecords,
                Pod!AgentShape, Pod!AgentRecords, Pod!Terminal, Pod!ClosedIsOver,
                Pod!After, Pod!PassStands, Pod!IsOver, Pod!RowShape, Pod!RowRecords,
                Pod!PassShape, Pod!PassRecords
  <2> QED  BY <2>1, <2>2
<1>10. ASSUME NEW r \in Pods, Pod!Finish(r)  PROVE Pod!Inv'
  <2>1. v1[r].result.exit \in {"success", "failed", "cancelled", "worker_crash"}
    BY <1>10 DEF Pod!Finish, Pod!Goto, Pod!HasResult, Pod!Outcomes
  <2>2. Pod!Shapes'
    BY <1>10, <2>1 DEF Pod!Finish, Pod!Goto, Pod!RunShape, Pod!RunRecords, Pod!Hosts,
         Pod!RowShape, Pod!RowRecords, Pod!PodShape, Pod!AgentShape, Pod!PassShape
  <2>3. Pod!InPod' /\ Pod!HasResult' /\ Pod!NotYet' /\ Pod!ClosedIsOver' /\ Pod!PassStands'
    BY <2>1, <1>10 DEF Pod!Finish, Pod!Goto, Pod!InPod, Pod!HasResult, Pod!NotYet,
         Pod!Before, Pod!RunShape, Pod!RunRecords, Pod!PodShape, Pod!PodRecords,
         Pod!AgentShape, Pod!AgentRecords, Pod!Terminal, Pod!ClosedIsOver, Pod!After,
         Pod!PassStands, Pod!IsOver, Pod!RowShape, Pod!RowRecords, Pod!PassShape,
         Pod!PassRecords
  <2> QED  BY <2>2, <2>3
<1>11. ASSUME NEW r \in Pods, Pod!Tag(r)  PROVE Pod!Inv'
  <2>1. v1[r].result.kind \in {o.kind : o \in Pod!Outcomes}
    BY <1>11 DEF Pod!Tag, Pod!Goto, Pod!HasResult
  <2>2. Pod!Shapes'
    BY <1>11, <2>1 DEF Pod!Tag, Pod!Goto, Pod!RunShape, Pod!RunRecords, Pod!Hosts,
         Pod!RowShape, Pod!RowRecords, Pod!PodShape, Pod!AgentShape, Pod!PassShape
  <2>3. Pod!InPod' /\ Pod!HasResult' /\ Pod!NotYet' /\ Pod!ClosedIsOver' /\ Pod!PassStands'
    BY <2>1, <1>11 DEF Pod!Tag, Pod!Goto, Pod!InPod, Pod!HasResult, Pod!NotYet,
         Pod!Before, Pod!RunShape, Pod!RunRecords, Pod!PodShape, Pod!PodRecords,
         Pod!AgentShape, Pod!AgentRecords, Pod!Terminal, Pod!ClosedIsOver, Pod!After,
         Pod!PassStands, Pod!IsOver, Pod!RowShape, Pod!RowRecords, Pod!PassShape,
         Pod!PassRecords
  <2> QED  BY <2>2, <2>3
<1>12. ASSUME NEW r \in Pods, Pod!Leave(r)  PROVE Pod!Inv'
  <2>1. Pod!Shapes'
    BY <1>12 DEF Pod!Leave, Pod!Goto, Pod!RunShape, Pod!RunRecords, Pod!Hosts,
         Pod!RowShape, Pod!PodShape, Pod!AgentShape, Pod!PassShape
  <2>2. Pod!InPod' /\ Pod!HasResult' /\ Pod!NotYet' /\ Pod!ClosedIsOver' /\ Pod!PassStands'
    BY <1>12 DEF Pod!Leave, Pod!Goto, Pod!InPod, Pod!HasResult, Pod!NotYet, Pod!Before,
         Pod!RunShape, Pod!RunRecords, Pod!PodShape, Pod!PodRecords, Pod!AgentShape,
         Pod!AgentRecords, Pod!Terminal, Pod!ClosedIsOver, Pod!After, Pod!PassStands,
         Pod!IsOver, Pod!RowShape, Pod!RowRecords, Pod!PassShape, Pod!PassRecords
  <2> QED  BY <2>1, <2>2
<1>13. ASSUME NEW r \in Pods, Pod!Kill(r)  PROVE Pod!Inv'
  <2>1. Pod!Shapes'
    BY <1>13 DEF Pod!Kill, Pod!RunShape, Pod!RunRecords, Pod!Hosts, Pod!RowShape,
         Pod!PodShape, Pod!AgentShape, Pod!PassShape
  <2>2. Pod!InPod' /\ Pod!HasResult' /\ Pod!NotYet' /\ Pod!ClosedIsOver' /\ Pod!PassStands'
    BY <1>13 DEF Pod!Kill, Pod!InPod, Pod!HasResult, Pod!NotYet, Pod!Before,
         Pod!RunShape, Pod!RunRecords, Pod!PodShape, Pod!PodRecords, Pod!AgentShape,
         Pod!AgentRecords, Pod!Terminal, Pod!ClosedIsOver, Pod!After, Pod!PassStands,
         Pod!IsOver, Pod!RowShape, Pod!RowRecords, Pod!PassShape, Pod!PassRecords
  <2> QED  BY <2>1, <2>2
<1>14. ASSUME NEW r \in Pods, Pod!PodStarts(r)  PROVE Pod!Inv'
  <2>1. Pod!Shapes'
    BY <1>14 DEF Pod!PodStarts, Pod!PodShape, Pod!PodRecords, Pod!PodStates,
         Pod!Terminal, Pod!AgentShape, Pod!AgentRecords, Pod!RunShape, Pod!RowShape,
         Pod!PassShape
  <2>2. Pod!InPod' /\ Pod!HasResult' /\ Pod!NotYet' /\ Pod!ClosedIsOver' /\ Pod!PassStands'
    BY <1>14 DEF Pod!PodStarts, Pod!InPod, Pod!HasResult, Pod!NotYet, Pod!Before,
         Pod!RunShape, Pod!RunRecords, Pod!PodShape, Pod!PodRecords, Pod!AgentShape,
         Pod!AgentRecords, Pod!Terminal, Pod!ClosedIsOver, Pod!After, Pod!PassStands,
         Pod!IsOver, Pod!RowShape, Pod!RowRecords, Pod!PassShape, Pod!PassRecords
  <2> QED  BY <2>1, <2>2
<1>15. ASSUME NEW r \in Pods, NEW how \in {"oom", "deadline", "evicted"}, Pod!PodDies(r, how)
       PROVE  Pod!Inv'
  <2>1. Pod!Shapes'
    BY <1>15 DEF Pod!PodDies, Pod!Working, Pod!PodShape, Pod!PodRecords, Pod!PodStates,
         Pod!Terminal, Pod!AgentShape, Pod!AgentRecords, Pod!RunShape, Pod!RowShape,
         Pod!PassShape
  <2>2. Pod!InPod' /\ Pod!HasResult' /\ Pod!NotYet' /\ Pod!ClosedIsOver' /\ Pod!PassStands'
    BY <1>15 DEF Pod!PodDies, Pod!Working, Pod!InPod, Pod!HasResult, Pod!NotYet,
         Pod!Before, Pod!RunShape, Pod!RunRecords, Pod!PodShape, Pod!PodRecords,
         Pod!AgentShape, Pod!AgentRecords, Pod!Terminal, Pod!ClosedIsOver, Pod!After,
         Pod!PassStands, Pod!IsOver, Pod!RowShape, Pod!RowRecords, Pod!PassShape,
         Pod!PassRecords
  <2> QED  BY <2>1, <2>2
<1>16. ASSUME NEW r \in Pods, Pod!PodVanishes(r)  PROVE Pod!Inv'
  <2>1. Pod!Shapes'
    BY <1>16 DEF Pod!PodVanishes, Pod!PodShape, Pod!PodRecords, Pod!PodStates,
         Pod!Terminal, Pod!AgentShape, Pod!AgentRecords, Pod!RunShape, Pod!RowShape,
         Pod!PassShape
  <2>2. Pod!InPod' /\ Pod!HasResult' /\ Pod!NotYet' /\ Pod!ClosedIsOver' /\ Pod!PassStands'
    BY <1>16 DEF Pod!PodVanishes, Pod!InPod, Pod!HasResult, Pod!NotYet, Pod!Before,
         Pod!RunShape, Pod!RunRecords, Pod!PodShape, Pod!PodRecords, Pod!AgentShape,
         Pod!AgentRecords, Pod!Terminal, Pod!ClosedIsOver, Pod!After, Pod!PassStands,
         Pod!IsOver, Pod!RowShape, Pod!RowRecords, Pod!PassShape, Pod!PassRecords
  <2> QED  BY <2>1, <2>2
<1>17. ASSUME NEW r \in Pods, NEW from \in {"clone", "agent"}, NEW to \in {"agent", "report"},
              NEW v \in Pod!Verdicts \cup {None}, Pod!Ends(r, from, to, v)
       PROVE  Pod!Inv'
  <2>1. Pod!Shapes'
    BY <1>17 DEF Pod!Ends, Pod!Working, Pod!AgentShape, Pod!AgentRecords, Pod!RunShape,
         Pod!RowShape, Pod!PodShape, Pod!PassShape
  <2>2. Pod!InPod' /\ Pod!HasResult' /\ Pod!NotYet' /\ Pod!ClosedIsOver' /\ Pod!PassStands'
    BY <1>17 DEF Pod!Ends, Pod!Working, Pod!InPod, Pod!HasResult, Pod!NotYet,
         Pod!Before, Pod!RunShape, Pod!RunRecords, Pod!PodShape, Pod!PodRecords,
         Pod!AgentShape, Pod!AgentRecords, Pod!Terminal, Pod!ClosedIsOver, Pod!After,
         Pod!PassStands, Pod!IsOver, Pod!RowShape, Pod!RowRecords, Pod!PassShape,
         Pod!PassRecords
  <2> QED  BY <2>1, <2>2
<1>18. ASSUME NEW r \in Pods, Pod!Report(r)  PROVE Pod!Inv'
  <2>1. Pod!Shapes'
    BY <1>18 DEF Pod!Report, Pod!Working, Pod!AgentShape, Pod!AgentRecords,
         Pod!RunShape, Pod!RowShape, Pod!PodShape, Pod!PassShape
  <2>2. Pod!InPod' /\ Pod!HasResult' /\ Pod!NotYet' /\ Pod!ClosedIsOver' /\ Pod!PassStands'
    BY <1>18 DEF Pod!Report, Pod!Working, Pod!InPod, Pod!HasResult, Pod!NotYet,
         Pod!Before, Pod!RunShape, Pod!RunRecords, Pod!PodShape, Pod!PodRecords,
         Pod!AgentShape, Pod!AgentRecords, Pod!Terminal, Pod!ClosedIsOver, Pod!After,
         Pod!PassStands, Pod!IsOver, Pod!RowShape, Pod!RowRecords, Pod!PassShape,
         Pod!PassRecords
  <2> QED  BY <2>1, <2>2
<1>19. ASSUME NEW r \in Pods, Pod!Exit(r)  PROVE Pod!Inv'
  <2>1. Pod!Shapes'
    BY <1>19 DEF Pod!Exit, Pod!Working, Pod!PodShape, Pod!PodRecords, Pod!PodStates,
         Pod!Terminal, Pod!AgentShape, Pod!AgentRecords, Pod!RunShape, Pod!RowShape,
         Pod!PassShape
  <2>2. Pod!InPod' /\ Pod!HasResult' /\ Pod!NotYet' /\ Pod!ClosedIsOver' /\ Pod!PassStands'
    BY <1>19 DEF Pod!Exit, Pod!Working, Pod!InPod, Pod!HasResult, Pod!NotYet,
         Pod!Before, Pod!RunShape, Pod!RunRecords, Pod!PodShape, Pod!PodRecords,
         Pod!AgentShape, Pod!AgentRecords, Pod!Terminal, Pod!ClosedIsOver, Pod!After,
         Pod!PassStands, Pod!IsOver, Pod!RowShape, Pod!RowRecords, Pod!PassShape,
         Pod!PassRecords
  <2> QED  BY <2>1, <2>2
<1>20. ASSUME NEW r \in Pods, Pod!Cancel(r) \/ Pod!Supervise(r)  PROVE Pod!Inv'
  <2>1. Pod!Shapes'
    BY <1>20 DEF Pod!Cancel, Pod!Supervise, Pod!RunShape, Pod!RowShape, Pod!PodShape,
         Pod!AgentShape, Pod!PassShape
  <2>2. Pod!InPod' /\ Pod!HasResult' /\ Pod!NotYet' /\ Pod!ClosedIsOver' /\ Pod!PassStands'
    BY <1>20 DEF Pod!Cancel, Pod!Supervise, Pod!InPod, Pod!HasResult, Pod!NotYet,
         Pod!Before, Pod!RunShape, Pod!RunRecords, Pod!PodShape, Pod!PodRecords,
         Pod!AgentShape, Pod!AgentRecords, Pod!Terminal, Pod!ClosedIsOver, Pod!After,
         Pod!PassStands, Pod!IsOver, Pod!RowShape, Pod!RowRecords, Pod!PassShape,
         Pod!PassRecords
  <2> QED  BY <2>1, <2>2
<1>21. ASSUME NEW r \in Pods, Pod!SweepDead(r)  PROVE Pod!Inv'
  <2>1. Pod!Shapes'
    BY <1>21 DEF Pod!SweepDead, Pod!DeadOnBoard, Pod!RowShape, Pod!RowRecords,
         Pod!RunShape, Pod!PodShape, Pod!AgentShape, Pod!PassShape
  <2>2. Pod!InPod' /\ Pod!HasResult' /\ Pod!NotYet' /\ Pod!ClosedIsOver' /\ Pod!PassStands'
    BY <1>21 DEF Pod!SweepDead, Pod!DeadOnBoard, Pod!InPod, Pod!HasResult, Pod!NotYet,
         Pod!Before, Pod!RunShape, Pod!RunRecords, Pod!PodShape, Pod!PodRecords,
         Pod!AgentShape, Pod!AgentRecords, Pod!Terminal, Pod!ClosedIsOver, Pod!After,
         Pod!PassStands, Pod!IsOver, Pod!RowShape, Pod!RowRecords, Pod!PassShape,
         Pod!PassRecords
  <2> QED  BY <2>1, <2>2
<1>22. ASSUME Pod!ListPods  PROVE Pod!Inv'
  <2>1. ASSUME NEW q \in v10'
        PROVE  /\ q \in Pod!PassRecords /\ v7[q.run].state # "absent" /\ ~q.read
               /\ q.terminal => v7[q.run].state \in Pod!Terminal
    <3>1. PICK x \in Pods :
            /\ v7[x].state # "absent"
            /\ q = [run |-> x, terminal |-> v7[x].state \in Pod!Terminal,
                    open |-> FALSE, read |-> FALSE]
      BY <1>22 DEF Pod!ListPods
    <3>2. (v7[x].state \in Pod!Terminal) \in BOOLEAN  OBVIOUS
    <3>3. q.run = x /\ q.terminal = (v7[x].state \in Pod!Terminal) /\ q.read = FALSE
      BY <3>1
    <3>4. q \in Pod!PassRecords  BY <3>1, <3>2 DEF Pod!PassRecords
    <3> QED  BY <3>1, <3>3, <3>4
  <2>2. Pod!Shapes'
    BY <2>1, <1>22 DEF Pod!PassShape, Pod!ListPods, Pod!RunShape, Pod!RowShape,
         Pod!PodShape, Pod!AgentShape
  <2>3. Pod!InPod' /\ Pod!HasResult'
    BY <1>22 DEF Pod!ListPods, Pod!InPod, Pod!HasResult
  <2>4. UNCHANGED <<v1, v2, v7>>  BY <1>22 DEF Pod!ListPods
  <2>5. Pod!NotYet' /\ Pod!ClosedIsOver' /\ Pod!PassStands'
    BY <2>1, <2>4 DEF Pod!NotYet, Pod!Before, Pod!ClosedIsOver, Pod!PassStands,
         Pod!IsOver, Pod!PassRecords
  <2> QED  BY <2>2, <2>3, <2>4, <2>5
<1>23. ASSUME Pod!ReconcileFails  PROVE Pod!Inv'
  <2>1. Pod!Shapes'
    BY <1>23 DEF Pod!ReconcileFails, Pod!PassShape, Pod!PassRecords, Pod!RunShape,
         Pod!RowShape, Pod!PodShape, Pod!AgentShape
  <2>2. Pod!InPod' /\ Pod!HasResult' /\ Pod!NotYet' /\ Pod!ClosedIsOver' /\ Pod!PassStands'
    BY <1>23 DEF Pod!ReconcileFails, Pod!InPod, Pod!HasResult, Pod!NotYet, Pod!Before,
         Pod!RunShape, Pod!RunRecords, Pod!PodShape, Pod!PodRecords, Pod!AgentShape,
         Pod!AgentRecords, Pod!Terminal, Pod!ClosedIsOver, Pod!After, Pod!PassStands,
         Pod!IsOver, Pod!RowShape, Pod!RowRecords, Pod!PassShape, Pod!PassRecords
  <2> QED  BY <2>1, <2>2
<1>24. ASSUME v10 # None, NEW p \in v10, Pod!ReadRun(p)  PROVE Pod!Inv'
  <2>1. Pod!Shapes'
    BY <1>24 DEF Pod!ReadRun, Pod!PassShape, Pod!PassRecords, Pod!RunShape,
         Pod!RowShape, Pod!PodShape, Pod!AgentShape
  <2>2. \A q \in v10' : q \in v10 \/ (q.run = p.run /\ q.terminal = p.terminal
                     /\ (~q.open => v2[p.run].exit # "open"))
                       BY <1>24 DEF Pod!ReadRun, Pod!PassShape, Pod!PassRecords
  <2>3. Pod!InPod' /\ Pod!HasResult'  BY <1>24 DEF Pod!ReadRun, Pod!InPod, Pod!HasResult
  <2>4. Pod!NotYet' /\ Pod!ClosedIsOver' /\ Pod!PassStands'
    BY <2>2, <1>24 DEF Pod!ReadRun, Pod!NotYet, Pod!ClosedIsOver, Pod!PassStands,
         Pod!IsOver
  <2> QED  BY <2>1, <2>2, <2>3, <2>4
<1>25. ASSUME v10 # None, NEW p \in v10, Pod!Collect(p)  PROVE Pod!Inv'
  <2>1. Pod!Shapes'
    BY <1>25 DEF Pod!Collect, Pod!Rest, Pod!Deleted, Pod!PodShape, Pod!PodRecords,
         Pod!PodStates, Pod!Terminal, Pod!PassShape, Pod!PassRecords, Pod!RunShape,
         Pod!RowShape, Pod!AgentShape
  <2>2. \A q \in Pods : v7'[q].state = v7[q].state
    BY <1>25 DEF Pod!Collect, Pod!Rest, Pod!Deleted, Pod!PodShape, Pod!PodRecords,
         Pod!PassShape, Pod!PassRecords
  <2>3. Pod!InPod' /\ Pod!HasResult'
    BY <2>2, <1>25 DEF Pod!Collect, Pod!InPod, Pod!HasResult
  <2>4. Pod!NotYet'
    BY <2>2, <1>25 DEF Pod!Collect, Pod!Rest, Pod!NotYet, Pod!Before, Pod!RowShape,
         Pod!RowRecords, Pod!PassShape, Pod!PassRecords
  <2>5. Pod!ClosedIsOver' /\ Pod!PassStands'
    BY <2>2, <1>25 DEF Pod!Collect, Pod!Rest, Pod!ClosedIsOver, Pod!PassStands,
         Pod!IsOver, Pod!RowShape, Pod!RowRecords, Pod!PassShape, Pod!PassRecords
  <2> QED  BY <2>1, <2>2, <2>3, <2>4, <2>5
<1>26. ASSUME v10 # None, NEW p \in v10, Pod!DeclareLost(p)  PROVE Pod!Inv'
  <2>1. "pod_lost" \in {o.kind : o \in Pod!Outcomes}  BY PodLostIsAKind
  <2>2. Pod!Shapes'
    BY <2>1, <1>26 DEF Pod!DeclareLost, Pod!Rest, Pod!Deleted, Pod!RowShape,
         Pod!RowRecords, Pod!PassShape, Pod!PassRecords, Pod!PodShape, Pod!PodRecords,
         Pod!PodStates, Pod!Terminal, Pod!RunShape, Pod!AgentShape
  <2>3. \A q \in Pods : v7'[q].state = v7[q].state
    BY <1>26 DEF Pod!DeclareLost, Pod!Rest, Pod!Deleted, Pod!PodShape, Pod!PodRecords,
         Pod!PassShape, Pod!PassRecords
  <2>4. Pod!InPod' /\ Pod!HasResult'
    BY <2>3, <1>26 DEF Pod!DeclareLost, Pod!InPod, Pod!HasResult
  <2>5. Pod!NotYet'
    BY <2>3, <1>26 DEF Pod!DeclareLost, Pod!Rest, Pod!NotYet, Pod!Before, Pod!RowShape,
         Pod!RowRecords, Pod!PassShape, Pod!PassRecords
  <2>6. Pod!ClosedIsOver' /\ Pod!PassStands'
    BY <2>3, <1>26 DEF Pod!DeclareLost, Pod!Rest, Pod!ClosedIsOver, Pod!PassStands,
         Pod!IsOver, Pod!RowShape, Pod!RowRecords, Pod!PassShape, Pod!PassRecords
  <2> QED  BY <2>2, <2>3, <2>4, <2>5, <2>6
<1>27. ASSUME v10 # None, NEW p \in v10, Pod!Adopt(p)  PROVE Pod!Inv'
  <2>1. Pod!Shapes'
    BY <1>27 DEF Pod!Adopt, Pod!Rest, Pod!PassShape, Pod!PassRecords, Pod!RunShape,
         Pod!RowShape, Pod!PodShape, Pod!AgentShape
  <2>2. Pod!InPod' /\ Pod!HasResult' /\ Pod!NotYet' /\ Pod!ClosedIsOver' /\ Pod!PassStands'
    BY <1>27 DEF Pod!Adopt, Pod!Rest, Pod!InPod, Pod!HasResult, Pod!NotYet, Pod!Before,
         Pod!RunShape, Pod!RunRecords, Pod!PodShape, Pod!PodRecords, Pod!AgentShape,
         Pod!AgentRecords, Pod!Terminal, Pod!ClosedIsOver, Pod!After, Pod!PassStands,
         Pod!IsOver, Pod!RowShape, Pod!RowRecords, Pod!PassShape, Pod!PassRecords
  <2> QED  BY <2>1, <2>2
<1>28. ASSUME UNCHANGED Pod!vars  PROVE Pod!Inv'
  BY <1>28 DEF Pod!vars, Pod!InPod, Pod!HasResult, Pod!NotYet, Pod!ClosedIsOver,
       Pod!PassStands, Pod!IsOver, Pod!RunShape, Pod!RowShape, Pod!PodShape,
       Pod!AgentShape, Pod!PassShape
<1> HIDE DEF Pod!Inv
<1> QED
  BY <1>1, <1>2, <1>3, <1>4, <1>5, <1>6, <1>7, <1>8, <1>9, <1>10, <1>11, <1>12, <1>13,
       <1>14, <1>15, <1>16, <1>17, <1>18, <1>19, <1>20, <1>21, <1>22, <1>23, <1>24,
       <1>25, <1>26, <1>27, <1>28 DEF Pod!Next, Pod!Clone, Pod!RunAgent, Pod!Reconcile,
       Pod!Verdicts

\* Only a pass deletes a pod it does not own.  It collects the pod of a closed row,
\* whose run process no longer waits for it, or declares a pod lost that is over.
LEMMA PodLeavesWork == ASSUME Pod!Inv, Pod!Next  PROVE Pod!LeavesWorkAlone
<1> SUFFICES ASSUME NEW r \in Pods, v10 # None, v10' # v10,
                    v8[r].pc \in {"clone", "agent", "report"},
                    ~v7[r].leaving, v7'[r].leaving
             PROVE  v1[r].pc \in {"dead", "tag", "leave", "done"}
  BY DEF Pod!LeavesWorkAlone
<1> USE DEF Pod!Inv, Pod!Shapes
<1>0. v7[r].state = "running" /\ ~Pod!IsOver(r)
  BY DEF Pod!InPod, Pod!IsOver, Pod!Terminal
<1>1. Pod!Reconcile
  BY DEF Pod!Next, Pod!Begin, Pod!PreflightFails, Pod!CreateSecret, Pod!CreatePod,
         Pod!CallFails, Pod!Watch, Pod!Map, Pod!DeletePod, Pod!DeleteSecret, Pod!Finish,
         Pod!Tag, Pod!Leave, Pod!Kill, Pod!PodStarts, Pod!PodVanishes, Pod!Clone,
         Pod!RunAgent, Pod!Ends, Pod!Report, Pod!Exit, Pod!PodDies, Pod!Cancel,
         Pod!Supervise, Pod!SweepDead, Pod!ListPods, Pod!ReconcileFails
<1>2. PICK p \in v10 :
        Pod!ReadRun(p) \/ Pod!Collect(p) \/ Pod!DeclareLost(p) \/ Pod!Adopt(p)
  BY <1>1 DEF Pod!Reconcile
<1>3. Pod!Collect(p) \/ Pod!DeclareLost(p)  BY <1>2 DEF Pod!ReadRun, Pod!Adopt
<1>4. p.run = r
  BY <1>3 DEF Pod!Collect, Pod!DeclareLost, Pod!Deleted, Pod!PodShape, Pod!PodRecords,
              Pod!PassShape, Pod!PassRecords
<1>5. Pod!Collect(p)  BY <1>0, <1>3, <1>4 DEF Pod!DeclareLost, Pod!PassStands
<1>6. v2[r].exit # "open"  BY <1>4, <1>5 DEF Pod!Collect, Pod!PassStands
<1>7. v1[r].pc \notin Pod!Before  BY <1>0 DEF Pod!NotYet
<1>8. v1[r].pc \notin Pod!After  BY <1>0, <1>6 DEF Pod!ClosedIsOver
<1> QED  BY <1>7, <1>8 DEF Pod!Before, Pod!After, Pod!RunShape, Pod!RunRecords, Pod!Hosts

IsPod == service = "pod"
PodHolds == IsPod => Pod!Inv

\* The reconciler of the daemon never deletes the pod of an agent at work, unless
\* the run process that would have read its result is dead or has given it up.
THEOREM PodsAreLeftAtWork == Spec => WorkIsNotCutOff
<1>1. Init => PodHolds
  BY PodBegins DEF Init, PodHolds, IsPod
<1>2. PodHolds /\ [Next]_vars => PodHolds'
  <2> SUFFICES ASSUME PodHolds, [Next]_vars, service' = "pod"  PROVE Pod!Inv'
    BY DEF PodHolds, IsPod
  <2>1. service = "pod" /\ [Pod!Next]_(Pod!vars)
    BY DEF Next, vars, Pod!vars
  <2> QED  BY <2>1, PodKeeps DEF PodHolds, IsPod
<1>3. PodHolds /\ [Next]_vars => [service = "pod" => Pod!LeavesWorkAlone]_vars
  <2> SUFFICES ASSUME PodHolds, Next, service = "pod"  PROVE Pod!LeavesWorkAlone
    OBVIOUS
  <2>1. Pod!Next  BY DEF Next
  <2> QED  BY <2>1, PodLeavesWork DEF PodHolds, IsPod
<1> QED  BY <1>1, <1>2, <1>3, PTL DEF Spec, WorkIsNotCutOff

-----------------------------------------------------------------------------
(* StagedRuns.                                                             *)

StagedP == INSTANCE StagedRunsProofs WITH
  Texts <- Pair,
  status <- v1, ctx <- v2, prompt <- v3, staged <- v4, current <- v5, convs <- v6, runs <- v7,
  req <- v8, handoff <- v9, used <- v10, told <- v11, wish <- v12, dropped <- v13,
  repeated <- v14, events <- v15

\* The instance with the proofs is the one without.
LEMMA StagedSame ==
  /\ Staged!StagedRunsAssumption => StagedP!StagedRunsAssumption
  /\ Staged!Init => StagedP!Init
  /\ Staged!Next => StagedP!Next
  /\ StagedP!OneFate => Staged!OneFate
  /\ StagedP!RunFollowsRequest => Staged!RunFollowsRequest
<1>1. Staged!StagedRunsAssumption => StagedP!StagedRunsAssumption
  BY DEF Staged!Intents, Staged!Stagings, Staged!Handoffs, Staged!StagedRunsAssumption,
         StagedP!Intents, StagedP!Stagings, StagedP!Handoffs,
         StagedP!StagedRunsAssumption
<1>2. Staged!Init => StagedP!Init
  BY DEF Staged!Init,
         StagedP!Init
<1>3. Staged!Next => StagedP!Next
  BY DEF Staged!Blank, Staged!Gone, Staged!HeldBy, Staged!Unused, Staged!Happens,
         Staged!Resumable, Staged!SetFirst, Staged!AskToContinue, Staged!AskAfresh,
         Staged!StageRun, Staged!QueueRun, Staged!SetContext, Staged!AppendContext,
         Staged!MergeContext, Staged!Requeue, Staged!Unqueue, Staged!ReadHandoff,
         Staged!WriteHandoff, Staged!Dispatch, Staged!NextConversation, Staged!Load,
         Staged!LeftContext, Staged!LeftStaging, Staged!Clear, Staged!Tell, Staged!Land,
         Staged!Finish, Staged!SetupFails, Staged!Killed, Staged!Next,
         StagedP!Blank, StagedP!Gone, StagedP!HeldBy, StagedP!Unused, StagedP!Happens,
         StagedP!Resumable, StagedP!SetFirst, StagedP!AskToContinue, StagedP!AskAfresh,
         StagedP!StageRun, StagedP!QueueRun, StagedP!SetContext, StagedP!AppendContext,
         StagedP!MergeContext, StagedP!Requeue, StagedP!Unqueue, StagedP!ReadHandoff,
         StagedP!WriteHandoff, StagedP!Dispatch, StagedP!NextConversation, StagedP!Load,
         StagedP!LeftContext, StagedP!LeftStaging, StagedP!Clear, StagedP!Tell,
         StagedP!Land, StagedP!Finish, StagedP!SetupFails, StagedP!Killed, StagedP!Next
<1>4. StagedP!OneFate => Staged!OneFate
  <2>1. \A S : Staged!Cardinality(S) = StagedP!Cardinality(S)
    BY DEF Staged!Cardinality, StagedP!Cardinality
  <2>2. \A t : Staged!Fates(t) = StagedP!Fates(t)
    BY <2>1 DEF Staged!Fates, StagedP!Fates
  <2>3. Staged!Written = StagedP!Written  BY DEF Staged!Written, StagedP!Written
  <2> QED  BY <2>2, <2>3 DEF Staged!OneFate, StagedP!OneFate
<1>5. StagedP!RunFollowsRequest => Staged!RunFollowsRequest
  BY DEF Staged!Told, Staged!HeldBy, Staged!RunFollowsRequest,
         StagedP!Told, StagedP!HeldBy, StagedP!RunFollowsRequest
<1> QED  BY <1>1, <1>2, <1>3, <1>4, <1>5

IsStaged == service = "staged"

\* A behaviour of this service is one of its module.
LEMMA StagedBehaves == Spec => (IsStaged => StagedP!Spec)
<1>1. Init /\ IsStaged => StagedP!Init
  BY StagedSame DEF Init, IsStaged
<1>2. IsStaged /\ [Next]_vars => IsStaged'
  BY DEF Next, vars, IsStaged
<1>3. IsStaged /\ [Next]_vars => [StagedP!Next]_(StagedP!vars)
  BY StagedSame DEF Next, vars, StagedP!vars, IsStaged
<1> QED  BY <1>1, <1>2, <1>3, PTL DEF Spec, StagedP!Spec

\* One of another service stays one.
LEMMA StagedElse == Spec => (~IsStaged => [](~IsStaged))
<1>1. ~IsStaged /\ [Next]_vars => ~IsStaged'
  BY DEF Next, vars, IsStaged
<1> QED  BY <1>1, PTL DEF Spec

\* No text left for the next run is lost, or told twice, without a record of it
\* (staged contexts, hand-offs and prompts of a ticket).
THEOREM StagedTextsHaveOneFate == Spec => []OneFate
<1>1. StagedP!StagedRunsAssumption
  BY ServicesAssumption, StagedSame DEF ServicesAssumption
<1>2. StagedP!Spec => []StagedP!OneFate  BY <1>1, StagedP!TextsHaveOneFate
<1>3. StagedP!OneFate => OneFate  BY StagedSame DEF OneFate
<1>4. ~IsStaged => OneFate  BY DEF OneFate, IsStaged
<1> QED  BY <1>2, <1>3, <1>4, StagedBehaves, StagedElse, PTL

\* A run does what the last accepted request asked for, in the conversation it
\* asked for.
THEOREM StagedRunsFollow == Spec => []RunFollowsRequest
<1>1. StagedP!StagedRunsAssumption
  BY ServicesAssumption, StagedSame DEF ServicesAssumption
<1>2. StagedP!Spec => []StagedP!RunFollowsRequest  BY <1>1, StagedP!RunsFollowRequests
<1>3. StagedP!RunFollowsRequest => RunFollowsRequest  BY StagedSame DEF RunFollowsRequest
<1>4. ~IsStaged => RunFollowsRequest  BY DEF RunFollowsRequest, IsStaged
<1> QED  BY <1>2, <1>3, <1>4, StagedBehaves, StagedElse, PTL

-----------------------------------------------------------------------------
(* Providers.                                                              *)

DialP == INSTANCE ProvidersProofs WITH
  Surfaces <- Kinds, Configs <- Files, Overrides <- Ovs,
  endpoint <- v1, gone <- v2, profile <- v3, override <- v4, run <- v5, edits <- v6,
  ungated <- v7, moved <- v8

\* The instance with the proofs is the one without.
LEMMA DialSame ==
  /\ Dial!ProvidersAssumption => DialP!ProvidersAssumption
  /\ Dial!Init => DialP!Init
  /\ Dial!Next => DialP!Next
  /\ DialP!ReferencesHold => Dial!ReferencesHold
  /\ DialP!RefusalsAreForeseen => Dial!RefusalsAreForeseen
  /\ DialP!AssignedIsResolved => Dial!AssignedIsResolved
<1>1. Dial!ProvidersAssumption => DialP!ProvidersAssumption
  BY DEF Dial!Backends, Dial!Speaks, Dial!ConfigOK, Dial!ProvidersAssumption,
         DialP!Backends, DialP!Speaks, DialP!ConfigOK, DialP!ProvidersAssumption
<1>2. Dial!Init => DialP!Init
  BY DEF Dial!Init,
         DialP!Init
<1>3. Dial!Next => DialP!Next
  BY DEF Dial!Backends, Dial!Speaks, Dial!Live, Dial!Profiles, Dial!Asks,
         Dial!Compatible, Dial!AgentEndpoints, Dial!Referenced, Dial!Gate, Dial!Uses,
         Dial!CreateEndpoint, Dial!UpdateEndpoint, Dial!InUse, Dial!DeleteEndpoints,
         Dial!NeedsGate, Dial!SaveProfile, Dial!ImportProfile, Dial!SetOverride,
         Dial!Merged, Dial!SpecBackend, Dial!Resolved, Dial!Refused, Dial!StartRun,
         Dial!Dispatch, Dial!EndRun, Dial!Next,
         DialP!Backends, DialP!Speaks, DialP!Live, DialP!Profiles, DialP!Asks,
         DialP!Compatible, DialP!AgentEndpoints, DialP!Referenced, DialP!Gate,
         DialP!Uses, DialP!CreateEndpoint, DialP!UpdateEndpoint, DialP!InUse,
         DialP!DeleteEndpoints, DialP!NeedsGate, DialP!SaveProfile, DialP!ImportProfile,
         DialP!SetOverride, DialP!Merged, DialP!SpecBackend, DialP!Resolved,
         DialP!Refused, DialP!StartRun, DialP!Dispatch, DialP!EndRun, DialP!Next
<1>4. DialP!ReferencesHold => Dial!ReferencesHold
  BY DEF Dial!Live, Dial!AgentEndpoints, Dial!Referenced, Dial!ReferencesHold,
         DialP!Live, DialP!AgentEndpoints, DialP!Referenced, DialP!ReferencesHold
<1>5. DialP!RefusalsAreForeseen => Dial!RefusalsAreForeseen
  BY DEF Dial!Speaks, Dial!Live, Dial!Compatible, Dial!AgentEndpoints, Dial!Referenced,
         Dial!Merged, Dial!SpecBackend, Dial!Resolved, Dial!PreviewLooks,
         Dial!PreviewWarns, Dial!RefusalsAreForeseen,
         DialP!Speaks, DialP!Live, DialP!Compatible, DialP!AgentEndpoints,
         DialP!Referenced, DialP!Merged, DialP!SpecBackend, DialP!Resolved,
         DialP!PreviewLooks, DialP!PreviewWarns, DialP!RefusalsAreForeseen
<1>6. DialP!AssignedIsResolved => Dial!AssignedIsResolved
  BY DEF Dial!AliasNative, Dial!Live, Dial!AgentEndpoints, Dial!Referenced, Dial!Merged,
         Dial!SpecBackend, Dial!SpecConfig, Dial!Resolved, Dial!DefaultModel,
         Dial!Slots, Dial!Assignments, Dial!AssignedIsResolved,
         DialP!AliasNative, DialP!Live, DialP!AgentEndpoints, DialP!Referenced,
         DialP!Merged, DialP!SpecBackend, DialP!SpecConfig, DialP!Resolved,
         DialP!DefaultModel, DialP!Slots, DialP!Assignments, DialP!AssignedIsResolved
<1> QED  BY <1>1, <1>2, <1>3, <1>4, <1>5, <1>6

IsDial == service = "dial"

\* A behaviour of this service is one of its module.
LEMMA DialBehaves == Spec => (IsDial => DialP!Spec)
<1>1. Init /\ IsDial => DialP!Init
  BY DialSame DEF Init, IsDial
<1>2. IsDial /\ [Next]_vars => IsDial'
  BY DEF Next, vars, IsDial
<1>3. IsDial /\ [Next]_vars => [DialP!Next]_(DialP!vars)
  BY DialSame DEF Next, vars, DialP!vars, IsDial
<1> QED  BY <1>1, <1>2, <1>3, PTL DEF Spec, DialP!Spec

\* One of another service stays one.
LEMMA DialElse == Spec => (~IsDial => [](~IsDial))
<1>1. ~IsDial /\ [Next]_vars => ~IsDial'
  BY DEF Next, vars, IsDial
<1> QED  BY <1>1, PTL DEF Spec

DialHolds ==
  service = "dial" => Dial!ReferencesHold /\ Dial!RefusalsAreForeseen /\ Dial!AssignedIsResolved

\* Profiles refer to endpoints that exist, a run is refused only as the preview
\* said, and dials what it resolved.
LEMMA DialConfiguration == Spec => []DialHolds
<1>1. DialP!ProvidersAssumption
  BY ServicesAssumption, DialSame DEF ServicesAssumption
<1>2. DialP!Spec => []DialP!ReferencesHold  BY <1>1, DialP!EndpointsStay
<1>3. DialP!Spec => []DialP!RefusalsAreForeseen  BY <1>1, DialP!NoRefusalSurprises
<1>4. DialP!Spec => []DialP!AssignedIsResolved  BY <1>1, DialP!RunsDialWhatTheyResolved
<1>5. DialP!ReferencesHold /\ DialP!RefusalsAreForeseen /\ DialP!AssignedIsResolved => DialHolds
  BY DialSame DEF DialHolds
<1>6. ~IsDial => DialHolds  BY DEF DialHolds, IsDial
<1> QED  BY <1>2, <1>3, <1>4, <1>5, <1>6, DialBehaves, DialElse, PTL

-----------------------------------------------------------------------------
(* AccessTokens.                                                           *)

AccessP == INSTANCE AccessTokensProofs WITH
  Agents <- {"k1"}, Runs <- DOMAIN Own, Ticket <- Own, Clients <- {"c1"},
  Wishes <- Minted, Extras <- Added, Calls <- Called,
  Resolution <- 1, RunLife <- TokenTime, MaxTime <- TokenTime, MaxCalls <- MaxUses,
  clock <- v1, api <- v2, run <- v3, call <- v4, granted <- v5, seen <- v6, done <- v7, calls <- v8

\* The instance with the proofs is the one without.
LEMMA AccessSame ==
  /\ Access!AccessTokensAssumption => AccessP!AccessTokensAssumption
  /\ Access!Init => AccessP!Init
  /\ Access!Next => AccessP!Next
  /\ AccessP!CallsAreGranted => Access!CallsAreGranted
  /\ AccessP!RevocationStands => Access!RevocationStands
<1>1. Access!AccessTokensAssumption => AccessP!AccessTokensAssumption
  BY DEF Access!AllScopes, Access!Observer, Access!PmAgent, Access!Bundles,
         Access!SelfScopes, Access!Grantable, Access!Alias, Access!Expanded,
         Access!Holders, Access!Times, Access!ApiRows, Access!RunRows,
         Access!Principals, Access!Requests, Access!AgentGrants, Access!RunGrants,
         Access!AccessTokensAssumption,
         AccessP!AllScopes, AccessP!Observer, AccessP!PmAgent, AccessP!Bundles,
         AccessP!SelfScopes, AccessP!Grantable, AccessP!Alias, AccessP!Expanded,
         AccessP!Holders, AccessP!Times, AccessP!ApiRows, AccessP!RunRows,
         AccessP!Principals, AccessP!Requests, AccessP!AgentGrants, AccessP!RunGrants,
         AccessP!AccessTokensAssumption
<1>2. Access!Init => AccessP!Init
  BY DEF Access!Holders, Access!Init,
         AccessP!Holders, AccessP!Init
<1>3. Access!Next => AccessP!Next
  BY DEF Access!AllScopes, Access!HumanOnly, Access!Observer, Access!PmAgent,
         Access!Bundles, Access!SelfScopes, Access!Grantable, Access!Alias,
         Access!Expanded, Access!Holders, Access!Requested, Access!Expiry,
         Access!Mintable, Access!Mint, Access!RevokeApiToken, Access!DeleteApiToken,
         Access!IssueRunToken, Access!RevokeForRun, Access!Send, Access!Answer,
         Access!Row, Access!Valid, Access!Principal, Access!LastUsed, Access!Touch,
         Access!Unauthorized, Access!Gate, Access!Allowed, Access!Handle, Access!Drop,
         Access!Tick, Access!Next,
         AccessP!AllScopes, AccessP!HumanOnly, AccessP!Observer, AccessP!PmAgent,
         AccessP!Bundles, AccessP!SelfScopes, AccessP!Grantable, AccessP!Alias,
         AccessP!Expanded, AccessP!Holders, AccessP!Requested, AccessP!Expiry,
         AccessP!Mintable, AccessP!Mint, AccessP!RevokeApiToken, AccessP!DeleteApiToken,
         AccessP!IssueRunToken, AccessP!RevokeForRun, AccessP!Send, AccessP!Answer,
         AccessP!Row, AccessP!Valid, AccessP!Principal, AccessP!LastUsed, AccessP!Touch,
         AccessP!Unauthorized, AccessP!Gate, AccessP!Allowed, AccessP!Handle,
         AccessP!Drop, AccessP!Tick, AccessP!Next
<1>4. AccessP!CallsAreGranted => Access!CallsAreGranted
  BY DEF Access!HumanOnly, Access!Observer, Access!PmAgent, Access!Bundles,
         Access!CallsAreGranted,
         AccessP!HumanOnly, AccessP!Observer, AccessP!PmAgent, AccessP!Bundles,
         AccessP!CallsAreGranted
<1>5. AccessP!RevocationStands => Access!RevocationStands
  BY DEF Access!Row, Access!RevocationStands,
         AccessP!Row, AccessP!RevocationStands
<1> QED  BY <1>1, <1>2, <1>3, <1>4, <1>5

IsAccess == service = "access"

\* A behaviour of this service is one of its module.
LEMMA AccessBehaves == Spec => (IsAccess => AccessP!Spec)
<1>1. Init /\ IsAccess => AccessP!Init
  BY AccessSame DEF Init, IsAccess
<1>2. IsAccess /\ [Next]_vars => IsAccess'
  BY DEF Next, vars, IsAccess
<1>3. IsAccess /\ [Next]_vars => [AccessP!Next]_(AccessP!vars)
  BY AccessSame DEF Next, vars, AccessP!vars, IsAccess
<1> QED  BY <1>1, <1>2, <1>3, PTL DEF Spec, AccessP!Spec

\* One of another service stays one.
LEMMA AccessElse == Spec => (~IsAccess => [](~IsAccess))
<1>1. ~IsAccess /\ [Next]_vars => ~IsAccess'
  BY DEF Next, vars, IsAccess
<1> QED  BY <1>1, PTL DEF Spec

AccessHolds == service = "access" => Access!CallsAreGranted /\ Access!RevocationStands

\* A token does what it was given, and not after it was taken back.
LEMMA AccessConfiguration == Spec => []AccessHolds
<1>1. AccessP!AccessTokensAssumption
  BY ServicesAssumption, AccessSame DEF ServicesAssumption
<1>2. AccessP!Spec => []AccessP!CallsAreGranted  BY <1>1, AccessP!DoneIsGranted
<1>3. AccessP!Spec => []AccessP!RevocationStands  BY <1>1, AccessP!RevokedPassesNoGate
<1>4. AccessP!CallsAreGranted /\ AccessP!RevocationStands => AccessHolds
  BY AccessSame DEF AccessHolds
<1>5. ~IsAccess => AccessHolds  BY DEF AccessHolds, IsAccess
<1> QED  BY <1>2, <1>3, <1>4, <1>5, AccessBehaves, AccessElse, PTL

-----------------------------------------------------------------------------
(* EffectiveConfig: v1 is the global row, v2 the project, v3 the profile, v4 *)
(* the draft, v5 the ticket.                                               *)

\* A ticket: its row, linked workspace and settings; only a worktree has a path,
\* once it is made.
Placed(m, b, p, l, c) ==
  [row |-> [mode |-> m, base |-> b, path |-> p], linked |-> l, choice |-> c]
Made(m, p) == p \in {None, "tree"} /\ (p # None => m = "git_worktree")
IsPlaced(t) == \E m, b, p, l, c : t = Placed(m, b, p, l, c) /\ Made(m, p)

TicketIsPlaced == v5 # None => IsPlaced(v5)
IsContext == service = "context"
ContextIsPlaced == IsContext => TicketIsPlaced

\* A new row has no worktree, and Prepare makes that of a git_worktree row.
LEMMA PlacedStep == ASSUME TicketIsPlaced, [Context!Next]_(Context!vars)  PROVE TicketIsPlaced'
<1>1. v5 # None => \E m, b, p, l, c : v5 = Placed(m, b, p, l, c) /\ Made(m, p)
  BY DEF TicketIsPlaced, IsPlaced
<1>2. ASSUME Context!Create  PROVE TicketIsPlaced'
  <2> DEFINE modes == <<v4.mode, v2.mode, "directory">>
             m == modes[Context!Min({i \in 1..3 : modes[i] # None})]
             c == IF v2.tools # {} /\ v4.choice.tools = None
                  THEN [v4.choice EXCEPT !.tools = Context!Captured(v2.tools)] ELSE v4.choice
  <2>1. v5' = Placed(m, v2.base, None, v2.linked, c)
    BY <1>2 DEF Context!Create, Context!WithDefaults, Placed
  <2> HIDE DEF m, c
  <2> QED  BY <2>1 DEF TicketIsPlaced, IsPlaced, Made
<1>3. ASSUME NEW c \in Wants, Context!Change(c)  PROVE TicketIsPlaced'
  <2>1. PICK m, b, p, l, old : v5 = Placed(m, b, p, l, old) /\ Made(m, p)
    BY <1>1, <1>3 DEF Context!Change
  <2>2. v5' = Placed(m, b, p, l, c)  BY <1>3, <2>1 DEF Context!Change, Placed
  <2> QED  BY <2>1, <2>2 DEF TicketIsPlaced, IsPlaced
<1>4. ASSUME NEW m \in Context!Modes, NEW b \in Context!Bases, NEW l \in Context!Accesses,
             Context!Rearrange(m, b, l)
      PROVE  TicketIsPlaced'
  <2>1. PICK m0, b0, p0, l0, c : v5 = Placed(m0, b0, p0, l0, c) /\ Made(m0, p0)
    BY <1>1, <1>4 DEF Context!Rearrange
  <2>2. v5' = Placed(m, b, None, l, c)  BY <1>4, <2>1 DEF Context!Rearrange, Placed
  <2> QED  BY <2>2 DEF TicketIsPlaced, IsPlaced, Made
<1>5. ASSUME Context!Prepare  PROVE TicketIsPlaced'
  <2>1. PICK m, b, p, l, c : v5 = Placed(m, b, p, l, c) /\ Made(m, p)
    BY <1>1, <1>5 DEF Context!Prepare
  <2>2. v5' = Placed(m, b, "tree", l, c) /\ m = "git_worktree"
    BY <1>5, <2>1 DEF Context!Prepare, Placed
  <2> QED  BY <2>2 DEF TicketIsPlaced, IsPlaced, Made
<1>6. ASSUME UNCHANGED v5  PROVE TicketIsPlaced'
  BY <1>6 DEF TicketIsPlaced, IsPlaced
<1>7. CASE Context!Next
  <2>1. ASSUME NEW g \in GlobalRows, Context!SetGlobal(g)  PROVE TicketIsPlaced'
    BY <1>6, <2>1 DEF Context!SetGlobal
  <2>2. ASSUME NEW p \in Desks, Context!SetProject(p)  PROVE TicketIsPlaced'
    BY <1>6, <2>2 DEF Context!SetProject
  <2>3. ASSUME NEW p \in Roles, Context!SetProfile(p)  PROVE TicketIsPlaced'
    BY <1>6, <2>3 DEF Context!SetProfile
  <2>4. ASSUME NEW c \in Wants, NEW m \in Context!Modes \cup {None}, NEW b \in BOOLEAN,
               Context!Fill(m, b, c)
        PROVE  TicketIsPlaced'
    BY <1>6, <2>4 DEF Context!Fill
  <2> QED  BY <1>2, <1>3, <1>4, <1>5, <1>7, <2>1, <2>2, <2>3, <2>4 DEF Context!Next
<1> QED  BY <1>6, <1>7 DEF Context!vars

\* The values that layers show are those of all of them.
LEMMA LayersShowAll ==
  ASSUME NEW n \in Nat, NEW g, DOMAIN g = 1..n
  PROVE  DOMAIN Context!Layered(g) = UNION {g[i].values : i \in 1..n}
BY DEF Context!Layered

LEMMA OneLayer == ASSUME NEW a  PROVE DOMAIN Context!Layered(<<a>>) = a.values
<1> DEFINE g == <<a>>
<1>1. DOMAIN g = 1..1 /\ g[1] = a  OBVIOUS
<1> HIDE DEF g
<1>2. DOMAIN Context!Layered(g) = UNION {g[i].values : i \in 1..1}  BY <1>1, LayersShowAll
<1>3. 1..1 = {1}  OBVIOUS
<1> QED  BY <1>1, <1>2, <1>3 DEF g

LEMMA TwoLayers ==
  ASSUME NEW a, NEW b  PROVE DOMAIN Context!Layered(<<a, b>>) = a.values \cup b.values
<1> DEFINE g == <<a, b>>
<1>1. DOMAIN g = 1..2 /\ g[1] = a /\ g[2] = b  OBVIOUS
<1> HIDE DEF g
<1>2. DOMAIN Context!Layered(g) = UNION {g[i].values : i \in 1..2}  BY <1>1, LayersShowAll
<1>3. 1..2 = {1, 2}  OBVIOUS
<1>4. DOMAIN Context!Layered(g) = a.values \cup b.values  BY <1>1, <1>2, <1>3
<1> QED  BY <1>4 DEF g

LEMMA FourLayers ==
  ASSUME NEW a, NEW b, NEW c, NEW d
  PROVE  DOMAIN Context!Layered(<<a, b, c, d>>)
           = a.values \cup b.values \cup c.values \cup d.values
<1> DEFINE g == <<a, b, c, d>>
<1>1. DOMAIN g = 1..4 /\ g[1] = a /\ g[2] = b /\ g[3] = c /\ g[4] = d  OBVIOUS
<1> HIDE DEF g
<1>2. DOMAIN Context!Layered(g) = UNION {g[i].values : i \in 1..4}  BY <1>1, LayersShowAll
<1>3. 1..4 = {1, 2, 3, 4}  OBVIOUS
<1>4. DOMAIN Context!Layered(g) = a.values \cup b.values \cup c.values \cup d.values
  BY <1>1, <1>2, <1>3
<1> QED  BY <1>4 DEF g

LEMMA FiveLayers ==
  ASSUME NEW a, NEW b, NEW c, NEW d, NEW e
  PROVE  DOMAIN Context!Layered(<<a, b, c, d, e>>)
           = a.values \cup b.values \cup c.values \cup d.values \cup e.values
<1> DEFINE g == <<a, b, c, d, e>>
<1>1. DOMAIN g = 1..5 /\ g[1] = a /\ g[2] = b /\ g[3] = c /\ g[4] = d /\ g[5] = e  OBVIOUS
<1> HIDE DEF g
<1>2. DOMAIN Context!Layered(g) = UNION {g[i].values : i \in 1..5}  BY <1>1, LayersShowAll
<1>3. 1..5 = {1, 2, 3, 4, 5}  OBVIOUS
<1>4. DOMAIN Context!Layered(g) = a.values \cup b.values \cup c.values \cup d.values \cup e.values
  BY <1>1, <1>2, <1>3
<1> QED  BY <1>4 DEF g

\* What the preview of a ticket may differ in from its run: the place of a worktree
\* that is not there yet, and a git directory that the run may read.
Except(t) ==
  (IF t.row.mode = "git_worktree" /\ t.row.path = None THEN {"repo", "tree"} ELSE {})
    \cup ({"meta"} \cap Context!FsRead(t))

\* The paths a run may write are those the preview shows: the lists, the workspace,
\* and the git directory of a worktree unless the run names that as readable.
LEMMA WritesAreShown ==
  ASSUME NEW t, IsPlaced(t)
  PROVE  DOMAIN Context!ShownWrites(t) \ Except(t) = Context!Writable(t) \ Except(t)
<1>1. DOMAIN Context!ShownWrites(t)
        = v3.writes \cup t.choice.writes \cup Context!Shared(t, "read_write")
            \cup {Context!Reach(t)} \cup Context!Meta(t)
  <2>1. Context!Dir(t, "read_write") \subseteq Context!Shared(t, "read_write")
    BY DEF Context!Dir, Context!Shared
  <2> QED  BY <2>1, FiveLayers DEF Context!ShownWrites, Context!From
<1>2. Context!FsWrite(t)
        = v3.writes \cup t.choice.writes \cup Context!Shared(t, "read_write")
            \cup {Context!Workspace(t)}
  BY DEF Context!FsWrite
<1>3. Context!Reach(t) = Context!Workspace(t)
        \/ {Context!Reach(t), Context!Workspace(t)} \subseteq Except(t)
  <2>1. PICK m, b, p, l, c : t = Placed(m, b, p, l, c) /\ Made(m, p)  BY DEF IsPlaced
  <2>2. t.row.mode = m /\ t.row.path = p  BY <2>1 DEF Placed
  <2> QED  BY <2>1, <2>2 DEF Made, Except, Context!Reach, Context!Workspace
<1>4. \A x \in Context!FsWrite(t) \cup Context!Meta(t) :
        x \notin Context!Writable(t) => x \in Except(t)
  BY DEF Context!Meta, Context!Writable, Except
<1>5. /\ Context!FsWrite(t) \subseteq Context!Writable(t)
      /\ Context!Writable(t) \subseteq Context!FsWrite(t) \cup Context!Meta(t)
  BY DEF Context!Meta, Context!Writable
<1> QED  BY <1>1, <1>2, <1>3, <1>4, <1>5

\* What the preview shows of a ticket is what its run gets.
LEMMA PreviewTellsRun == TicketIsPlaced => Context!PreviewIsRun
<1> SUFFICES ASSUME NEW t, t = v5, IsPlaced(t)
             PROVE  /\ DOMAIN Context!Preview(t).reads = Context!FsRead(t)
                    /\ DOMAIN Context!Preview(t).writes \ Except(t) = Context!Writable(t) \ Except(t)
                    /\ Context!Preview(t).level.values = Context!Level(t)
                    /\ DOMAIN Context!Preview(t).denied = Context!Denied(t)
                    /\ DOMAIN Context!Preview(t).tools = Context!Selected(t)
                    /\ Context!Workspace(t) = "repo" \/ Context!Selected(t) \cap {Uv} = {} =>
                         Context!Preview(t).paths = Context!ToolPaths(t, Context!Workspace(t))
                    /\ t.row.base # None /\ Context!Preview(t).base # None =>
                         Context!Preview(t).base.values = t.row.base
                    /\ Context!Selected(t) \ v1.presets \subseteq Context!Preview(t).issues
  BY DEF TicketIsPlaced, Context!PreviewIsRun, Except
<1>1. /\ Context!Preview(t).reads = Context!ShownReads(t)
      /\ Context!Preview(t).writes = Context!ShownWrites(t)
      /\ Context!Preview(t).level = Context!ShownLevel(t)
      /\ Context!Preview(t).denied = Context!ShownDenied(t)
      /\ Context!Preview(t).tools = Context!ShownTools(t)
      /\ Context!Preview(t).paths = Context!ToolPaths(t, "repo")
      /\ Context!Preview(t).base
           = IF t.row.mode = "git_worktree" THEN Context!ShownBase(t) ELSE None
      /\ Context!Preview(t).issues = Context!Issues(t)
  BY DEF Context!Preview
<1>2. DOMAIN Context!ShownReads(t) = Context!FsRead(t)
  <2>1. Context!Dir(t, "read_only") \subseteq Context!Shared(t, "read_only")
    BY DEF Context!Dir, Context!Shared
  <2> QED  BY <2>1, FourLayers DEF Context!ShownReads, Context!FsRead, Context!From
<1>3. DOMAIN Context!ShownWrites(t) \ Except(t) = Context!Writable(t) \ Except(t)
  BY WritesAreShown
<1>4. Context!ShownLevel(t).values = Context!Level(t)
  BY DEF Context!ShownLevel, Context!Level, Context!From
<1>5. DOMAIN Context!ShownDenied(t) = Context!Denied(t)
  BY OneLayer DEF Context!ShownDenied, Context!Denied, Context!From
<1>6. DOMAIN Context!ShownTools(t) = Context!Selected(t)
  BY TwoLayers DEF Context!ShownTools, Context!Selected, Context!From
<1>7. Context!Workspace(t) = "repo" \/ Context!Selected(t) \cap {Uv} = {} =>
        Context!ToolPaths(t, "repo") = Context!ToolPaths(t, Context!Workspace(t))
  BY DEF Context!ToolPaths, Context!Place
<1>8. t.row.base # None => Context!ShownBase(t).values = t.row.base
  BY DEF Context!ShownBase, Context!From
<1>9. Context!Selected(t) \ v1.presets \subseteq Context!Issues(t)
  BY DEF Context!Selected, Context!Issues
<1> QED  BY <1>1, <1>2, <1>3, <1>4, <1>5, <1>6, <1>7, <1>8, <1>9

\* A draft that would be refused has an issue, or no profile.
LEMMA DraftsAreTold == Context!DraftIsTold
BY DEF Context!DraftIsTold, Context!Drafted, Context!Refused, Context!Issues

ContextHolds == service = "context" => Context!DraftIsTold /\ Context!PreviewIsRun

\* The preview of a draft is that of its ticket, and that of a ticket what its run
\* gets.
LEMMA ContextConfiguration == Spec => []ContextHolds
<1>1. Init => ContextIsPlaced
  BY DEF Init, Context!Init, ContextIsPlaced, IsContext, TicketIsPlaced
<1>2. ContextIsPlaced /\ [Next]_vars => ContextIsPlaced'
  <2> SUFFICES ASSUME ContextIsPlaced, [Next]_vars, service' = "context"  PROVE TicketIsPlaced'
    BY DEF ContextIsPlaced, IsContext
  <2>1. service = "context" /\ [Context!Next]_(Context!vars)
    BY DEF Next, vars, Context!vars
  <2> QED  BY <2>1, PlacedStep DEF ContextIsPlaced, IsContext
<1>3. ContextIsPlaced => ContextHolds
  BY PreviewTellsRun, DraftsAreTold DEF ContextIsPlaced, IsContext, ContextHolds
<1> QED  BY <1>1, <1>2, <1>3, PTL DEF Spec

-----------------------------------------------------------------------------
(* The configuration of runs.                                              *)

\* Profiles refer to endpoints that exist, a run is refused only as the preview
\* said, and dials what it resolved; the preview of a ticket is what its run gets;
\* a token does what it was given, and not after it was taken back.
THEOREM ConfigurationStands == Spec => []ConfigurationHolds
<1>1. DialHolds /\ AccessHolds /\ ContextHolds => ConfigurationHolds
  BY DEF DialHolds, AccessHolds, ContextHolds, ConfigurationHolds
<1> QED  BY <1>1, DialConfiguration, AccessConfiguration, ContextConfiguration, PTL

=============================================================================
