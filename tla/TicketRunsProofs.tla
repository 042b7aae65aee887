--------------------------- MODULE TicketRunsProofs ---------------------------
(***************************************************************************)
(* Proofs about TicketRuns, for any number of tickets and run processes,   *)
(* any bound on requests and crashes: invariants of both values of         *)
(* Serializable, then that with Serializable it implements TicketBoard.    *)
(***************************************************************************)
EXTENDS TicketRuns, TLAPS

\* The variables of the specification, for steps that leave them all alone.
LEMMA FramedVars ==
  ASSUME UNCHANGED vars
  PROVE  UNCHANGED <<status, runNow, curRun, row, pc, ticketOf, sawNow, sig, crowded,
                     dpc, deadRows, stuck, runless, linked, picks, launched,
                     pending, subprocs, waiters, req, events>>
BY DEF vars, boardVars, procVars, tickVars, childVars

\* A handler under way writes a status of the board and a Boolean flag.
LEMMA HandlersType ==
  ASSUME NEW t \in Tickets, NEW s \in Statuses, NEW now \in BOOLEAN,
         NEW r \in Handlers(t, s, now)
  PROVE  r \in Requests
<1>1. {"archived", "queued"} \subseteq Statuses  BY DEF Statuses, Board!Statuses
<1>2. {~now, IF now THEN FALSE ELSE None, IF now THEN None ELSE TRUE, None}
        \subseteq BOOLEAN \cup {None}
  OBVIOUS
<1> QED  BY <1>1, <1>2 DEF Handlers, Requests

\* The initial states are well typed.
LEMMA InitType == Init => TypeOK
BY TicketRunsAssumption DEF Init, TypeOK, Statuses, Board!Statuses

-----------------------------------------------------------------------------
(***************************************************************************)
(* Type correctness, one step per action.                                  *)
(***************************************************************************)
LEMMA RequestType ==
  ASSUME TypeOK, CommitRequest \/ \E t \in Tickets : OpenRequest(t)
  PROVE  TypeOK'
<1>1. CASE CommitRequest
  BY <1>1 DEF CommitRequest, TypeOK, Requests, boardVars, procVars, tickVars, childVars
<1>2. ASSUME NEW t \in Tickets, OpenRequest(t) PROVE TypeOK'
  <2>1. req' \in Requests  BY <1>2, HandlersType DEF OpenRequest, TypeOK
  <2>2. events' \in 0..MaxEvents  BY <1>2, TicketRunsAssumption DEF OpenRequest, TypeOK
  <2> QED  BY <1>2, <2>1, <2>2 DEF OpenRequest, TypeOK, boardVars, procVars, tickVars, childVars
<1> QED  BY <1>1, <1>2

LEMMA RunType ==
  ASSUME TypeOK, NEW p \in Procs,
         \/ Boot(p) \/ ForceRunning(p) \/ StartRun(p) \/ BootFails(p)
         \/ ConsumeStaging(p) \/ SetupFails(p) \/ SeeCancel(p) \/ Finish(p)
         \/ Conclude(p) \/ Land(p) \/ Continue(p) \/ Kill(p)
  PROVE  TypeOK'
<1> USE DEF TypeOK, boardVars, procVars, tickVars, childVars, Step, Return, Flights,
            Statuses, Board!Statuses, Verdicts
<1>1. CASE Boot(p)            BY <1>1 DEF Boot
<1>2. CASE ForceRunning(p)           BY <1>2 DEF ForceRunning
<1>3. CASE StartRun(p)        BY <1>3 DEF StartRun, NewRun
<1>4. CASE BootFails(p)       BY <1>4 DEF BootFails, FailRun
<1>5. CASE ConsumeStaging(p)  BY <1>5 DEF ConsumeStaging
<1>6. CASE SetupFails(p)      BY <1>6 DEF SetupFails, FailRun
<1>7. CASE SeeCancel(p)       BY <1>7 DEF SeeCancel
<1>8. CASE Finish(p)          BY <1>8 DEF Finish
<1>9. CASE Conclude(p)            BY <1>9 DEF Conclude
<1>10. CASE Land(p)           BY <1>10 DEF Land
<1>11. CASE Continue(p)
  <2>1. \E to \in {"gone", "landing"} : Step(p, "continuing", to)
    BY <1>11 DEF Continue
  <2>2. /\ pc' \in [Procs -> Flights \cup {"free", "gone", "killed"}]
        /\ \A q \in Procs : pc'[q] # "free" => ticketOf'[q] \in Tickets
    BY <1>11, <2>1 DEF Continue
  <2>3. status' \in [Tickets -> Statuses] /\ runNow' \in [Tickets -> BOOLEAN]
    <3> DEFINE t == ticketOf[p]
    <3>1. CASE UNCHANGED <<status, runNow>>  BY <3>1
    <3>2. CASE /\ status' = [status EXCEPT ![t] = "queued"]
               /\ runNow' = [runNow EXCEPT ![t] = TRUE]
      <4>1. status' \in [Tickets -> Statuses]  BY <3>2
      <4>2. runNow' \in [Tickets -> BOOLEAN]  BY <3>2
      <4> QED  BY <4>1, <4>2
    <3> QED  BY <1>11, <3>1, <3>2 DEF Continue
  <2> QED  BY <1>11, <2>2, <2>3 DEF Continue
<1>12. CASE Kill(p)           BY <1>12, TicketRunsAssumption DEF Kill, Live
<1> HIDE DEF TypeOK
<1> QED  BY <1>1, <1>2, <1>3, <1>4, <1>5, <1>6, <1>7, <1>8, <1>9, <1>10, <1>11, <1>12

LEMMA DaemonType ==
  ASSUME TypeOK,
         \/ DaemonStarts \/ BeginTick \/ CommitCrashed \/ SweepRunless
         \/ CommitRunless \/ Pick \/ EndTick \/ DaemonDies \/ DaemonStops
         \/ \E t \in Tickets : Dispatch(t) \/ SpawnFails(t)
         \/ \E p \in Procs : Reap(p)
         \/ \E p \in Procs, t \in Tickets : Spawn(p, t)
  PROVE  TypeOK'
<1> USE DEF TypeOK, boardVars, procVars, tickVars, childVars, Flights,
            Statuses, Board!Statuses, Verdicts
<1>1. CASE DaemonStarts   BY <1>1 DEF DaemonStarts
<1>2. CASE BeginTick      BY <1>2 DEF BeginTick
<1>3. CASE CommitCrashed  BY <1>3 DEF CommitCrashed
<1>4. CASE SweepRunless   BY <1>4 DEF SweepRunless, Linked, Runless
<1>5. CASE CommitRunless  BY <1>5 DEF CommitRunless
<1>6. CASE Pick           BY <1>6 DEF Pick
<1>7. CASE EndTick        BY <1>7 DEF EndTick, Terminate
<1>8. CASE DaemonDies     BY <1>8, TicketRunsAssumption DEF DaemonDies, Forget, Terminate
<1>9. CASE DaemonStops    BY <1>9, TicketRunsAssumption DEF DaemonStops, Forget, Terminate
<1>10. ASSUME NEW t \in Tickets, Dispatch(t) \/ SpawnFails(t) PROVE TypeOK'
  BY <1>10 DEF Dispatch, SpawnFails
<1>11. ASSUME NEW p \in Procs, Reap(p) PROVE TypeOK'
  BY <1>11 DEF Reap
<1>12. ASSUME NEW p \in Procs, NEW t \in Tickets, Spawn(p, t) PROVE TypeOK'
  BY <1>12 DEF Spawn
<1> HIDE DEF TypeOK
<1> QED  BY <1>1, <1>2, <1>3, <1>4, <1>5, <1>6, <1>7, <1>8, <1>9, <1>10, <1>11, <1>12

\* Every step keeps the types.
LEMMA NextType == TypeOK /\ [Next]_vars => TypeOK'
<1>1. ASSUME TypeOK, Next PROVE TypeOK'
  BY <1>1, RequestType, RunType, DaemonType DEF Next, Commits, Crashes, Others
<1>2. ASSUME TypeOK, UNCHANGED vars PROVE TypeOK'
  BY <1>2, FramedVars DEF TypeOK
<1> QED  BY <1>1, <1>2

\* Type correctness of the work queue.
THEOREM TypeCorrect == Spec => []TypeOK
BY InitType, NextType, PTL DEF Spec

-----------------------------------------------------------------------------
(***************************************************************************)
(* The safety invariants rest on four facts about run processes.           *)
(***************************************************************************)

\* A process that was never spawned has no row, so no row of it can have been
\* declared crashed before it lives.
UnusedHasNoRow == \A p \in Procs : pc[p] = "free" => row[p] = "none"

\* What pass 1 has found dead stays dead until it commits.
SnapshotIsDead == \A p \in deadRows : pc[p] = "killed"

\* current_run_id of a ticket names a run of that ticket.
CurrentRunIsOwn ==
  \A t \in Tickets :
    curRun[t] # None => pc[curRun[t]] # "free" /\ ticketOf[curRun[t]] = t

\* Two live processes of the same ticket are both on record as crowded.
CrowdIsRecorded ==
  \A p, q \in Procs :
    p # q /\ Live(p) /\ Live(q) /\ ticketOf[p] = ticketOf[q] => p \in crowded

IndInv ==
  /\ TypeOK
  /\ UnusedHasNoRow
  /\ SnapshotIsDead
  /\ CurrentRunIsOwn
  /\ CrowdIsRecorded
  /\ CrashVerdictSound
  /\ OnlyKilledRunsLeak
  /\ SoleRunIsCounted

\* The parts of IndInv depend on these variables only.
LEMMA IndInvFrame ==
  ASSUME IndInv, TypeOK', UNCHANGED <<row, pc, ticketOf, curRun, deadRows, crowded>>
  PROVE  IndInv'
BY DEF IndInv, UnusedHasNoRow, SnapshotIsDead, CurrentRunIsOwn, CrowdIsRecorded,
       CrashVerdictSound, OnlyKilledRunsLeak, SoleRunIsCounted, Live

\* A live process moves on, or dies, without touching a row.
LEMMA IndInvMove ==
  ASSUME IndInv, TypeOK', NEW p \in Procs, Live(p), pc[p] # "free",
         row[p] # "open" \/ pc'[p] \in {"setup", "exec", "killed"},
         pc'[p] \in {"setup", "exec"} => row[p] = "open",
         pc'[p] # "free",
         pc' = [pc EXCEPT ![p] = pc'[p]],
         UNCHANGED <<row, ticketOf, curRun, deadRows, crowded>>
  PROVE  IndInv'
<1> USE DEF IndInv, TypeOK, Live, Flights
<1>1. UnusedHasNoRow'       BY DEF UnusedHasNoRow
<1>2. SnapshotIsDead'       BY DEF SnapshotIsDead
<1>3. CurrentRunIsOwn'      BY DEF CurrentRunIsOwn
<1>4. CrowdIsRecorded'      BY DEF CrowdIsRecorded
<1>5. CrashVerdictSound'    BY DEF CrashVerdictSound
<1>6. OnlyKilledRunsLeak'   BY DEF OnlyKilledRunsLeak
<1>7. SoleRunIsCounted'     BY DEF SoleRunIsCounted
<1> QED  BY <1>1, <1>2, <1>3, <1>4, <1>5, <1>6, <1>7

\* start_run: the row and the link are created together.
LEMMA IndInvStartRun ==
  ASSUME IndInv, TypeOK', NEW p \in Procs, StartRun(p)
  PROVE  IndInv'
<1> USE DEF IndInv, TypeOK, Live, Flights
<1>1. /\ pc[p] = "loading" /\ pc' = [pc EXCEPT ![p] = "setup"]
      /\ row' = [row EXCEPT ![p] = "open"]
      /\ curRun' = [curRun EXCEPT ![ticketOf[p]] = p]
      /\ UNCHANGED <<ticketOf, deadRows, crowded>>
  BY DEF StartRun, Step, NewRun, tickVars
<1>2. UnusedHasNoRow'       BY <1>1 DEF UnusedHasNoRow
<1>3. SnapshotIsDead'       BY <1>1 DEF SnapshotIsDead
<1>4. CurrentRunIsOwn'      BY <1>1 DEF CurrentRunIsOwn
<1>5. CrowdIsRecorded'      BY <1>1 DEF CrowdIsRecorded
<1>6. CrashVerdictSound'    BY <1>1 DEF CrashVerdictSound
<1>7. OnlyKilledRunsLeak'   BY <1>1 DEF OnlyKilledRunsLeak
<1>8. SoleRunIsCounted'     BY <1>1 DEF SoleRunIsCounted
<1> QED  BY <1>2, <1>3, <1>4, <1>5, <1>6, <1>7, <1>8

\* A process whose setup failed closes the run its ticket names.  When that run
\* belongs to another live process the two share the ticket, and are crowded.
LEMMA IndInvBootFails ==
  ASSUME IndInv, TypeOK', NEW p \in Procs, BootFails(p)
  PROVE  IndInv'
<1> DEFINE q == curRun[ticketOf[p]]
<1> USE DEF IndInv, TypeOK, Live, Flights
<1>1. /\ pc[p] = "loading" /\ pc' = [pc EXCEPT ![p] = "closed"]
      /\ row' = IF q # None /\ q \in OpenRows
                THEN [row EXCEPT ![q] = "setup_error"] ELSE row
      /\ UNCHANGED <<curRun, ticketOf, deadRows, crowded>>
  BY DEF BootFails, Step, FailRun, boardVars, tickVars
<1>2. ASSUME NEW r \in Procs, row[r] = "open", row'[r] # "open",
             pc[r] \in {"setup", "exec"}
      PROVE  r \in crowded
  <2>1. r = q /\ q # None  BY <1>1, <1>2
  <2>2. ticketOf[p] \in Tickets  BY <1>1
  <2>3. ticketOf[r] = ticketOf[p]  BY <2>1, <2>2 DEF CurrentRunIsOwn
  <2>4. r # p /\ Live(r) /\ Live(p)  BY <1>1, <1>2
  <2> QED  BY <2>3, <2>4 DEF CrowdIsRecorded
<1>3. \A r \in Procs : row'[r] = row[r] \/ (row[r] = "open" /\ row'[r] = "setup_error")
  BY <1>1 DEF OpenRows
<1>4. UnusedHasNoRow'       BY <1>1, <1>3 DEF UnusedHasNoRow
<1>5. SnapshotIsDead'       BY <1>1 DEF SnapshotIsDead
<1>6. CurrentRunIsOwn'      BY <1>1 DEF CurrentRunIsOwn
<1>7. CrowdIsRecorded'      BY <1>1 DEF CrowdIsRecorded
<1>8. CrashVerdictSound'    BY <1>1, <1>3 DEF CrashVerdictSound
<1>9. OnlyKilledRunsLeak'   BY <1>1, <1>3 DEF OnlyKilledRunsLeak
<1>10. SoleRunIsCounted'    BY <1>1, <1>2, <1>3 DEF SoleRunIsCounted
<1> QED  BY <1>4, <1>5, <1>6, <1>7, <1>8, <1>9, <1>10

\* A process in setup or execution closes its own row and nothing else.
LEMMA IndInvReturn ==
  ASSUME IndInv, TypeOK', NEW p \in Procs, SetupFails(p) \/ Finish(p)
  PROVE  IndInv'
<1> USE DEF IndInv, TypeOK, Live, Flights
<1>1. /\ pc[p] \in {"setup", "exec"}
      /\ pc'[p] \in {"closed", "followups"}
      /\ pc' = [pc EXCEPT ![p] = pc'[p]]
      /\ row'[p] \notin {"open", "worker_crash"}
      /\ \A r \in Procs \ {p} : row'[r] = row[r]
      /\ UNCHANGED <<curRun, ticketOf, deadRows, crowded>>
  <2>1. row[p] # "worker_crash" \/ Finish(p)  BY DEF SetupFails, Step, CrashVerdictSound
  <2>2. CASE SetupFails(p)
    BY <2>1, <2>2, TicketRunsAssumption
       DEF SetupFails, Step, FailRun, OpenRows, boardVars, tickVars, CrashVerdictSound
  <2>3. CASE Finish(p)  BY <2>3 DEF Finish, Step, boardVars, tickVars
  <2> QED  BY <2>2, <2>3
<1>2. UnusedHasNoRow'       BY <1>1 DEF UnusedHasNoRow
<1>3. SnapshotIsDead'       BY <1>1 DEF SnapshotIsDead
<1>4. CurrentRunIsOwn'      BY <1>1 DEF CurrentRunIsOwn
<1>5. CrowdIsRecorded'      BY <1>1 DEF CrowdIsRecorded
<1>6. CrashVerdictSound'    BY <1>1 DEF CrashVerdictSound
<1>7. OnlyKilledRunsLeak'   BY <1>1 DEF OnlyKilledRunsLeak
<1>8. SoleRunIsCounted'     BY <1>1 DEF SoleRunIsCounted
<1> QED  BY <1>2, <1>3, <1>4, <1>5, <1>6, <1>7, <1>8

\* The steps of a run process.
LEMMA IndInvRun ==
  ASSUME IndInv, TypeOK', NEW p \in Procs,
         \/ Boot(p) \/ ForceRunning(p) \/ StartRun(p) \/ BootFails(p)
         \/ ConsumeStaging(p) \/ SetupFails(p) \/ SeeCancel(p) \/ Finish(p)
         \/ Conclude(p) \/ Land(p) \/ Continue(p) \/ Kill(p)
  PROVE  IndInv'
<1>1. ASSUME NEW from \in Flights \ {"setup", "exec"},
             NEW to \in (Flights \ {"setup", "exec"}) \cup {"gone"},
             Step(p, from, to),
             UNCHANGED <<row, ticketOf, curRun, deadRows, crowded>>
      PROVE  IndInv'
  <2>1. Live(p) /\ pc[p] # "free" /\ row[p] # "open"
    BY <1>1 DEF Step, Live, Flights, IndInv, OnlyKilledRunsLeak
  <2>2. pc'[p] = to /\ pc' = [pc EXCEPT ![p] = pc'[p]]
    BY <1>1 DEF Step, IndInv, TypeOK
  <2> QED  BY <1>1, <2>1, <2>2, IndInvMove DEF Flights
<1>2. CASE Boot(p)
  BY <1>1, <1>2 DEF Boot, boardVars, tickVars, Flights
<1>3. CASE ForceRunning(p)
  BY <1>1, <1>3 DEF ForceRunning, tickVars, Flights
<1>4. CASE ConsumeStaging(p)
  <2>1. /\ pc[p] = "setup" /\ pc' = [pc EXCEPT ![p] = "exec"]
        /\ UNCHANGED <<row, ticketOf, curRun, deadRows, crowded>>
    BY <1>4 DEF ConsumeStaging, Step, tickVars
  <2>2. p \in crowded \/ row[p] = "open"  BY <2>1 DEF IndInv, SoleRunIsCounted
  <2> USE DEF IndInv, TypeOK, Live, Flights
  <2>3. UnusedHasNoRow'       BY <2>1 DEF UnusedHasNoRow
  <2>4. SnapshotIsDead'       BY <2>1 DEF SnapshotIsDead
  <2>5. CurrentRunIsOwn'      BY <2>1 DEF CurrentRunIsOwn
  <2>6. CrowdIsRecorded'      BY <2>1 DEF CrowdIsRecorded
  <2>7. CrashVerdictSound'    BY <2>1 DEF CrashVerdictSound
  <2>8. OnlyKilledRunsLeak'   BY <2>1 DEF OnlyKilledRunsLeak
  <2>9. SoleRunIsCounted'     BY <2>1, <2>2 DEF SoleRunIsCounted
  <2> QED  BY <2>3, <2>4, <2>5, <2>6, <2>7, <2>8, <2>9
<1>5. CASE SeeCancel(p)
  BY <1>5, IndInvFrame DEF SeeCancel, boardVars, tickVars
<1>6. CASE Conclude(p)
  BY <1>1, <1>6 DEF Conclude, boardVars, tickVars, Flights
<1>7. CASE Land(p)
  BY <1>1, <1>7 DEF Land, tickVars, Flights
<1>8. CASE Continue(p)
  BY <1>1, <1>8 DEF Continue, tickVars, Flights
<1>9. CASE Kill(p)
  <2>1. /\ Live(p) /\ pc' = [pc EXCEPT ![p] = pc'[p]]
        /\ pc'[p] = IF row[p] = "open" THEN "killed" ELSE "gone"
        /\ UNCHANGED <<row, ticketOf, curRun, deadRows, crowded>>
    BY <1>9 DEF Kill, IndInv, TypeOK, boardVars, tickVars
  <2> QED  BY <2>1, IndInvMove DEF Live, Flights
<1>10. CASE StartRun(p)    BY <1>10, IndInvStartRun
<1>11. CASE BootFails(p)   BY <1>11, IndInvBootFails
<1>12. CASE SetupFails(p) \/ Finish(p)  BY <1>12, IndInvReturn
<1> QED  BY <1>2, <1>3, <1>4, <1>5, <1>6, <1>7, <1>8, <1>9, <1>10, <1>11, <1>12

\* SIGTERM removes processes that have no row and sets flags of the others.
LEMMA IndInvTerminate ==
  ASSUME IndInv, TypeOK', NEW STATE S, Terminate(S), deadRows' \subseteq deadRows,
         UNCHANGED <<row, ticketOf, curRun, crowded>>
  PROVE  IndInv'
<1> USE DEF IndInv, TypeOK, Live, Flights
<1>1. \A p \in Procs :
         \/ pc'[p] = pc[p]
         \/ pc[p] \in {"boot", "forcing"} /\ pc'[p] = "gone"
  <2>1. pc' = [p \in Procs |-> IF p \in S /\ pc[p] \in {"boot", "forcing"}
                               THEN "gone" ELSE pc[p]]
    BY ZenonT(10) DEF Terminate
  <2> QED  BY <2>1
<1>2. UnusedHasNoRow'       BY <1>1 DEF UnusedHasNoRow
<1>3. SnapshotIsDead'       BY <1>1 DEF SnapshotIsDead
<1>4. CurrentRunIsOwn'      BY <1>1 DEF CurrentRunIsOwn
<1>5. CrowdIsRecorded'      BY <1>1 DEF CrowdIsRecorded
<1>6. CrashVerdictSound'    BY <1>1 DEF CrashVerdictSound
<1>7. OnlyKilledRunsLeak'   BY <1>1 DEF OnlyKilledRunsLeak
<1>8. SoleRunIsCounted'     BY <1>1 DEF SoleRunIsCounted
<1> QED  BY <1>2, <1>3, <1>4, <1>5, <1>6, <1>7, <1>8

\* A new process: the live ones on its ticket are recorded with it.
LEMMA IndInvSpawn ==
  ASSUME IndInv, TypeOK', NEW p \in Procs, NEW t \in Tickets, Spawn(p, t)
  PROVE  IndInv'
<1> USE DEF IndInv, TypeOK, Live, Flights
<1>1. /\ pc[p] = "free" /\ pc' = [pc EXCEPT ![p] = "boot"]
      /\ ticketOf' = [ticketOf EXCEPT ![p] = t]
      /\ UNCHANGED <<row, curRun, deadRows>>
  BY DEF Spawn, boardVars, tickVars
<1> DEFINE others == {q \in Procs : Live(q) /\ ticketOf[q] = t}
<1>11. crowded' = IF others = {} THEN crowded ELSE crowded \cup others \cup {p}
  BY DEF Spawn
<1>2. crowded \subseteq crowded'
  <2> HIDE DEF others
  <2> QED  BY <1>11
<1>3. ASSUME NEW r \in Procs, Live(r), ticketOf[r] = t
      PROVE  r \in crowded' /\ p \in crowded'
  <2>1. r \in others  BY <1>3
  <2> HIDE DEF others
  <2> QED  BY <1>11, <2>1
<1> HIDE DEF others
<1>4. UnusedHasNoRow'       BY <1>1 DEF UnusedHasNoRow
<1>5. SnapshotIsDead'       BY <1>1 DEF SnapshotIsDead
<1>6. CurrentRunIsOwn'      BY <1>1 DEF CurrentRunIsOwn
<1>7. CrowdIsRecorded'      BY <1>1, <1>2, <1>3 DEF CrowdIsRecorded
<1>8. CrashVerdictSound'    BY <1>1 DEF CrashVerdictSound, UnusedHasNoRow
<1>9. OnlyKilledRunsLeak'   BY <1>1 DEF OnlyKilledRunsLeak, UnusedHasNoRow
<1>10. SoleRunIsCounted'    BY <1>1, <1>2 DEF SoleRunIsCounted
<1> QED  BY <1>4, <1>5, <1>6, <1>7, <1>8, <1>9, <1>10

\* Pass 1 takes its snapshot, and commits it.
LEMMA IndInvCrashPass ==
  ASSUME IndInv, TypeOK', BeginTick \/ CommitCrashed
  PROVE  IndInv'
<1> USE DEF IndInv, TypeOK, Live, Flights
<1>1. CASE BeginTick
  <2>1. /\ \A p \in deadRows' : row[p] = "open" /\ ~Live(p)
        /\ UNCHANGED <<row, pc, ticketOf, curRun, crowded>>
    BY <1>1 DEF BeginTick, Orphaned, boardVars, procVars
  <2>2. SnapshotIsDead'  BY <2>1 DEF SnapshotIsDead, OnlyKilledRunsLeak
  <2> QED
    BY <2>1, <2>2 DEF UnusedHasNoRow, CurrentRunIsOwn, CrowdIsRecorded,
                      CrashVerdictSound, OnlyKilledRunsLeak, SoleRunIsCounted
<1>2. CASE CommitCrashed
  <2>1. /\ row' = [p \in Procs |-> IF p \in deadRows THEN "worker_crash" ELSE row[p]]
        /\ deadRows' = {}
        /\ UNCHANGED <<pc, ticketOf, curRun, crowded>>
    BY <1>2 DEF CommitCrashed
  <2>2. UnusedHasNoRow'       BY <2>1 DEF UnusedHasNoRow, SnapshotIsDead
  <2>3. SnapshotIsDead'       BY <2>1 DEF SnapshotIsDead
  <2>4. CurrentRunIsOwn'      BY <2>1 DEF CurrentRunIsOwn
  <2>5. CrowdIsRecorded'      BY <2>1 DEF CrowdIsRecorded
  <2>6. CrashVerdictSound'    BY <2>1 DEF CrashVerdictSound, SnapshotIsDead
  <2>7. OnlyKilledRunsLeak'   BY <2>1 DEF OnlyKilledRunsLeak
  <2>8. SoleRunIsCounted'     BY <2>1 DEF SoleRunIsCounted, SnapshotIsDead
  <2> QED  BY <2>2, <2>3, <2>4, <2>5, <2>6, <2>7, <2>8
<1> QED  BY <1>1, <1>2

\* Every step of the specification keeps the inductive invariant.
LEMMA IndInvStep == IndInv /\ [Next]_vars => IndInv'
<1> SUFFICES ASSUME IndInv, [Next]_vars PROVE IndInv'
  OBVIOUS
<1>1. TypeOK'  BY NextType DEF IndInv
<1>2. CASE UNCHANGED vars  BY <1>1, <1>2, FramedVars, IndInvFrame
<1>3. ASSUME NEW p \in Procs,
             \/ Boot(p) \/ ForceRunning(p) \/ StartRun(p) \/ BootFails(p)
             \/ ConsumeStaging(p) \/ SetupFails(p) \/ SeeCancel(p) \/ Finish(p)
             \/ Conclude(p) \/ Land(p) \/ Continue(p) \/ Kill(p)
      PROVE  IndInv'
  BY <1>1, <1>3, IndInvRun
<1>4. ASSUME NEW p \in Procs, NEW t \in Tickets, Spawn(p, t) PROVE IndInv'
  BY <1>1, <1>4, IndInvSpawn
<1>5. ASSUME NEW p \in Procs, Reap(p) PROVE IndInv'
  BY <1>1, <1>5, IndInvFrame DEF Reap, boardVars, procVars, tickVars
<1>6. ASSUME NEW t \in Tickets, OpenRequest(t) \/ Dispatch(t) \/ SpawnFails(t)
      PROVE  IndInv'
  BY <1>1, <1>6, IndInvFrame
     DEF OpenRequest, Dispatch, SpawnFails, boardVars, procVars, tickVars
<1>7. CASE CommitRequest
  BY <1>1, <1>7, IndInvFrame DEF CommitRequest, procVars, tickVars
<1>8. CASE BeginTick \/ CommitCrashed  BY <1>1, <1>8, IndInvCrashPass
<1>9. CASE DaemonStarts \/ SweepRunless \/ Pick
  BY <1>1, <1>9, IndInvFrame DEF DaemonStarts, SweepRunless, Pick, boardVars, procVars
<1>10. CASE CommitRunless
  <2>1. /\ curRun' = [t \in Tickets |-> IF t \in linked THEN None ELSE curRun[t]]
        /\ UNCHANGED <<row, pc, ticketOf, deadRows, crowded>>
    BY <1>10 DEF CommitRunless, procVars
  <2> USE DEF IndInv, Live
  <2>2. UnusedHasNoRow' /\ SnapshotIsDead' /\ CrowdIsRecorded' /\ CrashVerdictSound'
    BY <2>1 DEF UnusedHasNoRow, SnapshotIsDead, CrowdIsRecorded, CrashVerdictSound
  <2>3. OnlyKilledRunsLeak' /\ SoleRunIsCounted'
    BY <2>1 DEF OnlyKilledRunsLeak, SoleRunIsCounted
  <2>4. CurrentRunIsOwn'  BY <2>1 DEF CurrentRunIsOwn
  <2> QED  BY <1>1, <2>2, <2>3, <2>4
<1>11. CASE EndTick
  <2>1. PICK S : Terminate(S)  BY <1>11 DEF EndTick
  <2> QED  BY <1>1, <1>11, <2>1, IndInvTerminate DEF EndTick, boardVars
<1>12. CASE DaemonDies \/ DaemonStops
  <2>1. PICK S : Terminate(S)  BY <1>12 DEF DaemonDies, DaemonStops
  <2>2. deadRows' = {} /\ UNCHANGED <<row, ticketOf, curRun, crowded>>
    BY <1>12 DEF DaemonDies, DaemonStops, Forget, boardVars
  <2> QED  BY <1>1, <2>1, <2>2, IndInvTerminate
<1> QED
  BY <1>2, <1>3, <1>4, <1>5, <1>6, <1>7, <1>8, <1>9, <1>10, <1>11, <1>12
     DEF Next, Commits, Crashes, Others

\* The inductive invariant holds initially.
LEMMA IndInvInit == Init => IndInv
<1> SUFFICES ASSUME Init PROVE IndInv  OBVIOUS
<1>1. TypeOK  BY InitType
<1> QED
  BY <1>1 DEF Init, IndInv, UnusedHasNoRow, SnapshotIsDead, CurrentRunIsOwn, CrowdIsRecorded,
              CrashVerdictSound, OnlyKilledRunsLeak, SoleRunIsCounted, Live, Flights

\* The inductive invariant of the work queue: types, the three safety invariants
\* and the four facts they rest on.
THEOREM IndInvHolds == Spec => []IndInv
BY IndInvInit, IndInvStep, PTL DEF Spec

\* The orphan sweep declares only dead processes crashed, however long its
\* snapshot is held and whatever the API and the run processes do meanwhile.
THEOREM CrashVerdictsAreSound == Spec => []CrashVerdictSound
BY IndInvHolds, PTL DEF IndInv

\* Only a killed process leaves an open row behind.
THEOREM OnlyKilledProcessesLeak == Spec => []OnlyKilledRunsLeak
BY IndInvHolds, PTL DEF IndInv

\* A run alone on its ticket holds its slot of the capacity until it returns.
THEOREM SoleRunsAreCounted == Spec => []SoleRunIsCounted
BY IndInvHolds, PTL DEF IndInv

-----------------------------------------------------------------------------
(***************************************************************************)
(* With every handler reading and committing in one transaction, TicketRuns*)
(* implements TicketBoard, and a recorded outcome is never overwritten.    *)
(* Both are false when a handler may decide on a row that has changed since*)
(* it read it (Serializable = FALSE): nothing but the order of the         *)
(* transactions protects them.                                             *)
(***************************************************************************)

\* Where the daemon, and a run process, stand between a read and its commit.
Deciding == {"crashed", "runless", "dispatch"}
Moving   == {"forcing", "landing", "draining"}

\* What a tick has read is gone as soon as it has committed it.
TickLocals ==
  /\ stuck # {} \/ deadRows # {} => dpc = "crashed"
  /\ runless # {} => dpc = "runless"
  /\ picks # {} => dpc = "dispatch"

\* At most one of the actors stands between a read and its commit.
OneWindow ==
  /\ req # None => dpc \notin Deciding
  /\ \A p \in Procs : pc[p] \in Moving =>
       /\ req = None
       /\ dpc \notin Deciding
       /\ \A q \in Procs : pc[q] \in Moving => q = p

\* The request under way was computed from the row as it still is.
RequestIsFresh ==
  req # None => req \in Handlers(req.t, status[req.t], runNow[req.t])

\* So is what a tick is about to write.
SnapshotIsFresh ==
  /\ \A t \in stuck \cup runless : status[t] = "running"
  /\ \A t \in picks : status[t] = "queued"
  /\ deadRows \subseteq OpenRows

\* And so is the move a run process has decided on.
MoveIsFresh ==
  \A p \in Procs :
    /\ pc[p] = "forcing" => "running" \in Board!ValidTransitions(status[ticketOf[p]])
    /\ pc[p] \in {"landing", "draining"} => status[ticketOf[p]] = "running"

\* A process has no row before start_run.
NewHasNoRow ==
  \A p \in Procs : pc[p] \in {"free", "boot", "forcing", "loading"} => row[p] = "none"

SerialInv ==
  /\ IndInv
  /\ TickLocals
  /\ OneWindow
  /\ RequestIsFresh
  /\ SnapshotIsFresh
  /\ MoveIsFresh
  /\ NewHasNoRow

-----------------------------------------------------------------------------
\* Nobody is between a read and its commit.
Settled ==
  /\ req = None
  /\ dpc \notin Deciding
  /\ \A p \in Procs : pc[p] \notin Moving

\* With no window open nothing is left of an earlier read.
LEMMA SettledIsIdle ==
  ASSUME SerialInv, ~WindowOpen
  PROVE  Settled /\ stuck = {} /\ deadRows = {} /\ runless = {} /\ picks = {}
BY DEF SerialInv, TickLocals, WindowOpen, Settled, Deciding, Moving

\* Conversely, a state with no window has nothing to keep fresh.
LEMMA SettledIsFresh ==
  ASSUME Settled, TickLocals
  PROVE  OneWindow /\ RequestIsFresh /\ SnapshotIsFresh /\ MoveIsFresh
BY DEF Settled, TickLocals, OneWindow, RequestIsFresh, SnapshotIsFresh, MoveIsFresh,
       Deciding, Moving

\* A tick forgets what it has read when it has committed it.
LEMMA TickLocalsStep ==
  ASSUME TypeOK, TickLocals, [Next]_vars
  PROVE  TickLocals'
<1> USE DEF TickLocals
<1>1. CASE UNCHANGED <<dpc, deadRows, stuck, runless, picks>>  BY <1>1
<1>2. CASE BeginTick  BY <1>2 DEF BeginTick
<1>3. CASE CommitCrashed  BY <1>3 DEF CommitCrashed
<1>4. CASE SweepRunless  BY <1>4 DEF SweepRunless
<1>5. CASE CommitRunless  BY <1>5 DEF CommitRunless
<1>6. CASE Pick  BY <1>6 DEF Pick
<1>7. CASE EndTick  BY <1>7 DEF EndTick
<1>8. ASSUME NEW t \in Tickets, Dispatch(t) PROVE TickLocals'
  BY <1>8 DEF Dispatch
<1>9. CASE DaemonDies \/ DaemonStops  BY <1>9 DEF DaemonDies, DaemonStops, Forget
<1>10. CASE DaemonStarts  BY <1>10 DEF DaemonStarts
<1>11. CASE UNCHANGED tickVars  BY <1>11, <1>1 DEF tickVars
<1>12. ASSUME NEW p \in Procs,
              \/ Boot(p) \/ ForceRunning(p) \/ StartRun(p) \/ BootFails(p)
              \/ ConsumeStaging(p) \/ SetupFails(p) \/ SeeCancel(p) \/ Finish(p)
              \/ Conclude(p) \/ Land(p) \/ Continue(p) \/ Kill(p) \/ Reap(p)
       PROVE  UNCHANGED tickVars
  BY <1>12 DEF Boot, ForceRunning, StartRun, BootFails, ConsumeStaging, SetupFails,
               SeeCancel, Finish, Conclude, Land, Continue, Kill, Reap
<1>13. ASSUME NEW t \in Tickets, OpenRequest(t) \/ SpawnFails(t) PROVE UNCHANGED tickVars
  BY <1>13 DEF OpenRequest, SpawnFails
<1>14. ASSUME NEW p \in Procs, NEW t \in Tickets, Spawn(p, t) PROVE UNCHANGED tickVars
  BY <1>14 DEF Spawn
<1>15. CASE CommitRequest  BY <1>15, <1>11 DEF CommitRequest
<1>16. CASE UNCHANGED vars  BY <1>16, <1>11 DEF vars
<1> HIDE DEF TickLocals
<1> QED
  BY <1>2, <1>3, <1>4, <1>5, <1>6, <1>7, <1>8, <1>9, <1>10, <1>11, <1>12, <1>13, <1>14,
     <1>15, <1>16 DEF Next, Commits, Crashes, Others

\* A process stays without a row until start_run.
LEMMA NewHasNoRowStep ==
  ASSUME IndInv, NewHasNoRow, [Next]_vars
  PROVE  NewHasNoRow'
<1> USE DEF NewHasNoRow
<1>1. CASE UNCHANGED <<row, pc>>  BY <1>1
<1>2. ASSUME NEW p \in Procs, \/ Boot(p) \/ ForceRunning(p) \/ StartRun(p)
                              \/ ConsumeStaging(p) \/ Conclude(p) \/ Land(p)
                              \/ Continue(p) \/ Kill(p) \/ SetupFails(p) \/ Finish(p)
      PROVE  NewHasNoRow'
  <2> USE DEF IndInv, TypeOK, Step
  <2>1. ASSUME NEW to, Step(p, "boot", to), to \in {"loading", "forcing", "gone"},
               UNCHANGED row
        PROVE  NewHasNoRow'
    BY <2>1
  <2>2. CASE Boot(p)
    <3>1. \E to \in {"loading", "forcing", "gone"} : Step(p, "boot", to)
      BY <2>2 DEF Boot
    <3> QED  BY <2>1, <2>2, <3>1 DEF Boot
  <2>3. CASE ForceRunning(p) \/ ConsumeStaging(p) \/ Conclude(p) \/ Land(p) \/ Continue(p)
    BY <2>3 DEF ForceRunning, ConsumeStaging, Conclude, Land, Continue
  <2>4. CASE StartRun(p)  BY <2>4 DEF StartRun, NewRun
  <2>5. CASE Kill(p)  BY <2>5 DEF Kill
  <2>6. CASE SetupFails(p)  BY <2>6 DEF SetupFails, FailRun
  <2>7. CASE Finish(p)  BY <2>7 DEF Finish
  <2> QED  BY <1>2, <2>2, <2>3, <2>4, <2>5, <2>6, <2>7
<1>3. ASSUME NEW p \in Procs, BootFails(p) PROVE NewHasNoRow'
  BY <1>3 DEF BootFails, Step, FailRun, OpenRows, IndInv, TypeOK
<1>4. ASSUME NEW p \in Procs, SeeCancel(p) \/ Reap(p) PROVE NewHasNoRow'
  BY <1>4, <1>1 DEF SeeCancel, Reap, procVars
<1>5. ASSUME NEW p \in Procs, NEW t \in Tickets, Spawn(p, t) PROVE NewHasNoRow'
  BY <1>5 DEF Spawn, IndInv, TypeOK
<1>6. CASE CommitCrashed
  BY <1>6 DEF CommitCrashed, IndInv, TypeOK, SnapshotIsDead
<1>7. CASE EndTick \/ DaemonDies \/ DaemonStops
  <2>1. PICK S : Terminate(S)  BY <1>7 DEF EndTick, DaemonDies, DaemonStops
  <2>2. UNCHANGED row  BY <1>7 DEF EndTick, DaemonDies, DaemonStops
  <2>3. pc' = [p \in Procs |-> IF p \in S /\ pc[p] \in {"boot", "forcing"}
                               THEN "gone" ELSE pc[p]]
    BY <2>1, ZenonT(10) DEF Terminate
  <2> QED  BY <2>2, <2>3
<1>8. CASE CommitRequest \/ DaemonStarts \/ BeginTick \/ SweepRunless \/ CommitRunless \/ Pick
  BY <1>8, <1>1
     DEF CommitRequest, DaemonStarts, BeginTick, SweepRunless, CommitRunless, Pick, procVars
<1>9. ASSUME NEW t \in Tickets, OpenRequest(t) \/ Dispatch(t) \/ SpawnFails(t)
      PROVE  NewHasNoRow'
  BY <1>9, <1>1 DEF OpenRequest, Dispatch, SpawnFails, procVars
<1>10. CASE UNCHANGED vars  BY <1>10, <1>1, FramedVars
<1> HIDE DEF NewHasNoRow
<1> QED
  BY <1>2, <1>3, <1>4, <1>5, <1>6, <1>7, <1>8, <1>9, <1>10
     DEF Next, Commits, Crashes, Others

-----------------------------------------------------------------------------
(***************************************************************************)
(* The four freshness facts, by the kind of step.                          *)
(***************************************************************************)
Fresh == OneWindow /\ RequestIsFresh /\ SnapshotIsFresh /\ MoveIsFresh

\* What ends a window, or is one of several writes of the same tick, leaves the
\* rest of what the tick read as it was.
LEMMA CommitIsFresh ==
  ASSUME SerialInv, TypeOK', TickLocals', Commits
  PROVE  Fresh'
<1> USE DEF SerialInv, IndInv
<1>1. ASSUME Settled' PROVE Fresh'
  <2>1. (Settled /\ TickLocals => Fresh)'  BY SettledIsFresh, PTL DEF Fresh
  <2> QED  BY <1>1, <2>1
<1>2. CASE CommitRequest
  <2>1. Settled'
    BY <1>2 DEF CommitRequest, OneWindow, Settled, procVars, tickVars, Deciding
  <2> QED  BY <1>1, <2>1
<1>3. ASSUME NEW p \in Procs, ForceRunning(p) \/ Land(p) PROVE Fresh'
  <2>1. /\ pc[p] \in Moving
        /\ pc'[p] \notin Moving
        /\ \A q \in Procs \ {p} : pc'[q] = pc[q]
        /\ UNCHANGED <<req, dpc>>
    BY <1>3 DEF ForceRunning, Land, Step, TypeOK, tickVars, Moving
  <2>2. Settled'  BY <2>1 DEF OneWindow, Settled
  <2> QED  BY <1>1, <2>2
<1>4. CASE CommitCrashed \/ CommitRunless
  <2>1. dpc \in Deciding /\ dpc' \notin Deciding /\ UNCHANGED <<req, pc>>
    BY <1>4 DEF CommitCrashed, CommitRunless, Deciding, procVars
  <2>2. Settled'  BY <2>1 DEF OneWindow, Settled
  <2> QED  BY <1>1, <2>2
<1>5. CASE EndTick
  <2>1. dpc \in Deciding /\ dpc' \notin Deciding /\ UNCHANGED req
    BY <1>5 DEF EndTick, Deciding
  <2>2. PICK S : Terminate(S)  BY <1>5 DEF EndTick
  <2>3. pc' = [p \in Procs |-> IF p \in S /\ pc[p] \in {"boot", "forcing"}
                               THEN "gone" ELSE pc[p]]
    BY <2>2, ZenonT(10) DEF Terminate
  <2>4. \A p \in Procs : pc'[p] \notin Moving
    BY <2>1, <2>3 DEF OneWindow, Moving
  <2>5. Settled'  BY <2>1, <2>4 DEF OneWindow, Settled
  <2> QED  BY <1>1, <2>5
<1>6. ASSUME NEW t \in Tickets, Dispatch(t) PROVE Fresh'
  <2>1. /\ dpc = "dispatch" /\ t \in picks
        /\ status' = [status EXCEPT ![t] = "running"]
        /\ picks' = picks \ {t}
        /\ UNCHANGED <<row, pc, req, dpc, stuck, runless, deadRows>>
    BY <1>6 DEF Dispatch, procVars
  <2>2. /\ req = None
        /\ \A p \in Procs : pc[p] \notin Moving
        /\ stuck = {} /\ runless = {} /\ deadRows = {}
    BY <2>1 DEF OneWindow, TickLocals, Deciding
  <2>3. OneWindow'  BY <2>1, <2>2 DEF OneWindow
  <2>4. RequestIsFresh'  BY <2>1, <2>2 DEF RequestIsFresh
  <2>5. SnapshotIsFresh'  BY <2>1, <2>2 DEF SnapshotIsFresh, TypeOK
  <2>6. MoveIsFresh'  BY <2>1, <2>2 DEF MoveIsFresh, Moving
  <2> QED  BY <2>3, <2>4, <2>5, <2>6 DEF Fresh
<1> QED  BY <1>2, <1>3, <1>4, <1>5, <1>6 DEF Commits

\* A crash ends windows, and opens none.
LEMMA CrashIsFresh ==
  ASSUME SerialInv, TypeOK', TickLocals', Crashes
  PROVE  Fresh'
<1> USE DEF SerialInv, IndInv
<1>1. /\ UNCHANGED <<status, runNow, row, req>>
      /\ \A p \in Procs : pc'[p] \in Moving => pc'[p] = pc[p] /\ ticketOf'[p] = ticketOf[p]
  <2>1. ASSUME NEW p \in Procs, Kill(p)
        PROVE  /\ UNCHANGED <<status, runNow, row, req, ticketOf>>
               /\ \A q \in Procs : pc'[q] \in Moving => pc'[q] = pc[q]
    BY <2>1 DEF Kill, TypeOK, boardVars, Moving
  <2>2. ASSUME DaemonDies \/ DaemonStops
        PROVE  /\ UNCHANGED <<status, runNow, row, req, ticketOf>>
               /\ \A q \in Procs : pc'[q] \in Moving => pc'[q] = pc[q]
    <3>1. UNCHANGED <<status, runNow, row, req, ticketOf>>
      BY <2>2 DEF DaemonDies, DaemonStops, boardVars
    <3>2. PICK S : Terminate(S)  BY <2>2 DEF DaemonDies, DaemonStops
    <3>3. pc' = [p \in Procs |-> IF p \in S /\ pc[p] \in {"boot", "forcing"}
                                 THEN "gone" ELSE pc[p]]
      BY <3>2, ZenonT(10) DEF Terminate
    <3>4. \A q \in Procs : pc'[q] \in Moving => pc'[q] = pc[q]
      BY <3>3 DEF Moving
    <3> QED  BY <3>1, <3>4
  <2> QED  BY <2>1, <2>2 DEF Crashes
<1>2. \/ UNCHANGED <<dpc, stuck, runless, picks, deadRows>>
      \/ dpc' = "down" /\ stuck' = {} /\ runless' = {} /\ picks' = {} /\ deadRows' = {}
  BY DEF Crashes, Kill, DaemonDies, DaemonStops, Forget, tickVars
<1>3. OneWindow'  BY <1>1, <1>2 DEF OneWindow, Deciding
<1>4. RequestIsFresh'  BY <1>1 DEF RequestIsFresh
<1>5. SnapshotIsFresh'  BY <1>1, <1>2 DEF SnapshotIsFresh, OpenRows
<1>6. MoveIsFresh'  BY <1>1 DEF MoveIsFresh, Moving
<1> QED  BY <1>3, <1>4, <1>5, <1>6 DEF Fresh

\* A step of any other kind finds no window open, so that what it opens is
\* computed from the row as it is.
LEMMA OtherIsFresh ==
  ASSUME SerialInv, TypeOK', TickLocals', ~WindowOpen, Others
  PROVE  Fresh'
<1> USE DEF SerialInv, IndInv
<1>1. Settled /\ stuck = {} /\ deadRows = {} /\ runless = {} /\ picks = {}
  BY SettledIsIdle
<1>2. ASSUME Settled' PROVE Fresh'
  <2>1. (Settled /\ TickLocals => Fresh)'  BY SettledIsFresh, PTL DEF Fresh
  <2> QED  BY <1>2, <2>1
<1>3. ASSUME NEW t \in Tickets, OpenRequest(t) PROVE Fresh'
  <2>1. /\ req' \in Handlers(t, status[t], runNow[t])
        /\ UNCHANGED <<status, runNow, row, pc, dpc, stuck, runless, picks, deadRows, ticketOf>>
    BY <1>3 DEF OpenRequest, boardVars, procVars, tickVars
  <2>2. req'.t = t  BY <2>1 DEF Handlers
  <2>3. OneWindow'  BY <1>1, <2>1 DEF OneWindow, Settled
  <2>4. RequestIsFresh'  BY <2>1, <2>2 DEF RequestIsFresh
  <2>5. SnapshotIsFresh'  BY <1>1, <2>1 DEF SnapshotIsFresh
  <2>6. MoveIsFresh'  BY <1>1, <2>1 DEF MoveIsFresh, Settled, Moving
  <2> QED  BY <2>3, <2>4, <2>5, <2>6 DEF Fresh
<1>4. ASSUME NEW p \in Procs, Boot(p) \/ Conclude(p) PROVE Fresh'
  <2>1. /\ pc' = [pc EXCEPT ![p] = pc'[p]]
        /\ pc'[p] = "forcing" => "running" \in Board!ValidTransitions(status[ticketOf[p]])
        /\ pc'[p] \in {"landing", "draining"} => status[ticketOf[p]] = "running"
        /\ UNCHANGED <<status, runNow, row, req, dpc, stuck, runless, picks, deadRows, ticketOf>>
    BY <1>4 DEF Boot, Conclude, Step, TypeOK, boardVars, tickVars
  <2>2. \A q \in Procs : pc'[q] \in Moving => q = p
    BY <1>1, <2>1 DEF Settled, TypeOK
  <2>3. OneWindow'  BY <1>1, <2>1, <2>2 DEF OneWindow, Settled
  <2>4. RequestIsFresh'  BY <1>1, <2>1 DEF RequestIsFresh, Settled
  <2>5. SnapshotIsFresh'  BY <1>1, <2>1 DEF SnapshotIsFresh
  <2>6. MoveIsFresh'  BY <2>1, <2>2 DEF MoveIsFresh, Moving
  <2> QED  BY <2>3, <2>4, <2>5, <2>6 DEF Fresh
<1>5. ASSUME NEW p \in Procs,
             \/ StartRun(p) \/ BootFails(p) \/ ConsumeStaging(p) \/ SetupFails(p)
             \/ SeeCancel(p) \/ Finish(p) \/ Reap(p)
      PROVE  Fresh'
  <2>1. /\ \A q \in Procs : pc'[q] \notin Moving
        /\ UNCHANGED <<req, dpc>>
    BY <1>1, <1>5
       DEF StartRun, BootFails, ConsumeStaging, SetupFails, SeeCancel, Finish, Reap,
           Step, Settled, Moving, TypeOK, tickVars, procVars
  <2>2. Settled'  BY <1>1, <2>1 DEF Settled
  <2> QED  BY <1>2, <2>2
<1>6. ASSUME NEW p \in Procs, Continue(p) PROVE Fresh'
  <2>1. CASE pc'[p] = "landing"
    <3>1. /\ pc' = [pc EXCEPT ![p] = "landing"] /\ status[ticketOf[p]] = "running"
          /\ UNCHANGED <<status, runNow, row, req, dpc, stuck, runless, picks, deadRows,
                         ticketOf>>
      BY <1>6, <2>1 DEF Continue, Step, TypeOK, tickVars
    <3>2. \A q \in Procs : pc'[q] \in Moving => q = p
      BY <1>1, <3>1 DEF Settled, TypeOK
    <3>3. OneWindow'  BY <1>1, <3>1, <3>2 DEF OneWindow, Settled
    <3>4. RequestIsFresh'  BY <1>1, <3>1 DEF RequestIsFresh, Settled
    <3>5. SnapshotIsFresh'  BY <1>1, <3>1 DEF SnapshotIsFresh
    <3>6. MoveIsFresh'  BY <3>1, <3>2 DEF MoveIsFresh, Moving, TypeOK
    <3> QED  BY <3>3, <3>4, <3>5, <3>6 DEF Fresh
  <2>2. CASE pc'[p] # "landing"
    <3>1. pc' = [pc EXCEPT ![p] = "gone"] /\ UNCHANGED <<req, dpc>>
      BY <1>6, <2>2 DEF Continue, Step, TypeOK, tickVars
    <3>2. Settled'  BY <1>1, <3>1 DEF Settled, Moving, TypeOK
    <3> QED  BY <1>2, <3>2
  <2> QED  BY <2>1, <2>2
<1>7. ASSUME NEW p \in Procs, NEW t \in Tickets, Spawn(p, t) PROVE Fresh'
  <2>1. Settled'  BY <1>1, <1>7 DEF Spawn, Settled, Moving, TypeOK, tickVars
  <2> QED  BY <1>2, <2>1
<1>8. ASSUME NEW t \in Tickets, SpawnFails(t) PROVE Fresh'
  <2>1. Settled'  BY <1>1, <1>8 DEF SpawnFails, Settled, procVars, tickVars
  <2> QED  BY <1>2, <2>1
<1>9. CASE BeginTick \/ SweepRunless \/ Pick \/ DaemonStarts
  <2>1. UNCHANGED <<status, runNow, row, pc, req, ticketOf>>
    BY <1>9 DEF BeginTick, SweepRunless, Pick, DaemonStarts, boardVars, procVars
  <2>2. OneWindow'  BY <1>1, <2>1 DEF OneWindow, Settled
  <2>3. RequestIsFresh'  BY <1>1, <2>1 DEF RequestIsFresh, Settled
  <2>4. MoveIsFresh'  BY <1>1, <2>1 DEF MoveIsFresh, Settled, Moving
  <2>5. /\ \A t \in stuck' \cup runless' : status[t] = "running"
        /\ \A t \in picks' : status[t] = "queued"
        /\ deadRows' \subseteq OpenRows
    <3>1. CASE BeginTick
      BY <1>1, <3>1 DEF BeginTick, Orphaned, OpenRows
    <3>2. CASE SweepRunless  BY <1>1, <3>2 DEF SweepRunless, Runless
    <3>3. CASE Pick
      <4>1. PICK P \in SUBSET Tickets, w \in BOOLEAN : Eligible(P, w) /\ picks' = P
        BY <3>3 DEF Pick
      <4>2. \A t \in picks' : status[t] = "queued"
        BY <4>1 DEF Eligible, Forced
      <4> QED  BY <1>1, <3>3, <4>2 DEF Pick
    <3>4. CASE DaemonStarts  BY <1>1, <3>4 DEF DaemonStarts
    <3> QED  BY <1>9, <3>1, <3>2, <3>3, <3>4
  <2>6. SnapshotIsFresh'  BY <2>1, <2>5 DEF SnapshotIsFresh, OpenRows
  <2> QED  BY <2>2, <2>3, <2>4, <2>6 DEF Fresh
<1> QED  BY <1>3, <1>4, <1>5, <1>6, <1>7, <1>8, <1>9 DEF Others

\* The initial states have no window open.
LEMMA SerialInvInit == Init => SerialInv
<1> SUFFICES ASSUME Init PROVE SerialInv  OBVIOUS
<1>1. IndInv  BY IndInvInit
<1>2. Settled /\ TickLocals /\ NewHasNoRow
  BY DEF Init, Settled, TickLocals, NewHasNoRow, Deciding, Moving
<1> QED  BY <1>1, <1>2, SettledIsFresh DEF SerialInv

\* Every step of the serialized specification keeps the invariant.
LEMMA SerialInvStep ==
  ASSUME Serializable, SerialInv, [Next]_vars
  PROVE  SerialInv'
<1>1. IndInv' /\ TickLocals' /\ NewHasNoRow'
  BY IndInvStep, TickLocalsStep, NewHasNoRowStep DEF SerialInv, IndInv
<1>2. TypeOK'  BY <1>1 DEF IndInv
<1>3. CASE Next
  <2>1. Fresh'
    BY <1>1, <1>2, <1>3, CommitIsFresh, CrashIsFresh, OtherIsFresh DEF Next
  <2> QED  BY <1>1, <2>1 DEF Fresh, SerialInv
<1>4. CASE UNCHANGED vars
  BY <1>1, <1>4, FramedVars
     DEF SerialInv, OneWindow, RequestIsFresh, SnapshotIsFresh, MoveIsFresh, OpenRows
<1> QED  BY <1>3, <1>4

\* No handler of the serialized system decides on a row that has changed.
THEOREM WindowsStayFresh ==
  ASSUME Serializable
  PROVE  Spec => []SerialInv
BY SerialInvInit, SerialInvStep, PTL DEF Spec

-----------------------------------------------------------------------------
(***************************************************************************)
(* Final verdicts.                                                         *)
(***************************************************************************)
VerdictsKept == \A p \in Procs : p \notin crowded' /\ row[p] \in Verdicts => row'[p] = row[p]

\* No step overwrites the outcome of a run that was alone on its ticket.
LEMMA VerdictStep ==
  ASSUME SerialInv, [Next]_vars
  PROVE  VerdictsKept
<1> USE DEF SerialInv, IndInv, Verdicts
<1>1. CASE UNCHANGED row  BY <1>1 DEF VerdictsKept
<1>2. ASSUME NEW p \in Procs, StartRun(p) PROVE VerdictsKept
  <2>1. row[p] = "none" /\ row' = [row EXCEPT ![p] = "open"]
    BY <1>2 DEF StartRun, Step, NewRun, NewHasNoRow
  <2> QED  BY <2>1 DEF VerdictsKept, TypeOK
<1>3. ASSUME NEW p \in Procs, BootFails(p) \/ SetupFails(p) PROVE VerdictsKept
  <2>1. \E q \in Procs \cup {None} : FailRun(q)
    BY <1>3 DEF BootFails, SetupFails, TypeOK, Step
  <2> QED  BY <2>1 DEF FailRun, OpenRows, VerdictsKept, TypeOK
<1>4. ASSUME NEW p \in Procs, Finish(p) PROVE VerdictsKept
  <2>1. pc[p] = "exec" /\ row' = [row EXCEPT ![p] = "finished"] /\ crowded' = crowded
    BY <1>4 DEF Finish, Step
  <2>2. p \notin crowded => row[p] = "open"  BY <2>1 DEF SoleRunIsCounted
  <2> QED  BY <2>1, <2>2 DEF VerdictsKept, TypeOK
<1>5. CASE CommitCrashed
  BY <1>5 DEF CommitCrashed, SnapshotIsFresh, OpenRows, VerdictsKept
<1>6. ASSUME NEW p \in Procs,
             \/ Boot(p) \/ ForceRunning(p) \/ ConsumeStaging(p) \/ SeeCancel(p)
             \/ Conclude(p) \/ Land(p) \/ Continue(p) \/ Kill(p) \/ Reap(p)
      PROVE  UNCHANGED row
  BY <1>6 DEF Boot, ForceRunning, ConsumeStaging, SeeCancel, Conclude, Land, Continue,
              Kill, Reap, procVars
<1>7. ASSUME NEW t \in Tickets, OpenRequest(t) \/ SpawnFails(t) \/ Dispatch(t)
      PROVE  UNCHANGED row
  BY <1>7 DEF OpenRequest, SpawnFails, Dispatch, procVars
<1>8. ASSUME NEW p \in Procs, NEW t \in Tickets, Spawn(p, t) PROVE UNCHANGED row
  BY <1>8 DEF Spawn
<1>9. CASE \/ CommitRequest \/ DaemonStarts \/ BeginTick \/ SweepRunless \/ CommitRunless
           \/ Pick \/ EndTick \/ DaemonDies \/ DaemonStops
  BY <1>1, <1>9
     DEF CommitRequest, DaemonStarts, BeginTick, SweepRunless, CommitRunless, Pick,
         EndTick, DaemonDies, DaemonStops, procVars
<1>10. CASE UNCHANGED vars  BY <1>1, <1>10, FramedVars
<1> QED
  BY <1>1, <1>2, <1>3, <1>4, <1>5, <1>6, <1>7, <1>8, <1>9, <1>10
     DEF Next, Commits, Crashes, Others

\* Once recorded, the outcome of a run that never shared its ticket with another
\* live process is not overwritten: not by the orphan sweep, whose snapshot may
\* hold the row, not by the except path of a successor, not by itself.
THEOREM VerdictsAreFinal ==
  ASSUME Serializable
  PROVE  Spec => VerdictFinal
<1>1. SerialInv /\ [Next]_vars =>
        [\A p \in Procs : p \notin crowded' /\ row[p] \in Verdicts => row'[p] = row[p]]_vars
  BY VerdictStep DEF VerdictsKept
<1> QED  BY <1>1, WindowsStayFresh, PTL DEF Spec, VerdictFinal

-----------------------------------------------------------------------------
(***************************************************************************)
(* The refinement.                                                         *)
(***************************************************************************)

\* Writing column "to" to ticket t is a move of the board when the table allows it.
LEMMA WriteIsMove ==
  ASSUME NEW t \in Tickets, NEW to \in Statuses,
         Board!MoveAllowed(t, status[t], to),
         status' = [status EXCEPT ![t] = to]
  PROVE  Board!Next
BY DEF Board!Next, Board!Move, Statuses

\* What a request writes is allowed by the table: archive and run-now, too.
LEMMA HandlersAllowed ==
  ASSUME NEW t \in Tickets, NEW s \in Statuses, NEW now \in BOOLEAN,
         NEW r \in Handlers(t, s, now), r.to # None
  PROVE  r.t = t /\ r.to \in Statuses /\ Board!MoveAllowed(t, s, r.to)
<1> USE DEF Board!MoveAllowed, Board!ValidTransitions, Board!RunnableTargets,
            Statuses, Board!Statuses
<1>1. CASE r \in [t : {t}, now : {None},
                  to : {to \in Statuses : /\ Board!MoveAllowed(t, s, to)
                                          /\ s = "archived" /\ to = "inbox" => t \notin Complete}]
  BY <1>1
<1>2. CASE r.t = t /\ r.to = "archived" /\ s \notin {"running", "archived"}  BY <1>2
<1>3. CASE r.t = t /\ r.to = "queued" /\ s \in RunNowFrom  BY <1>3 DEF RunNowFrom
<1>4. CASE r \in [t : {t}, to : {None}, now : {~now}]  BY <1>4
<1> QED  BY <1>1, <1>2, <1>3, <1>4 DEF Handlers

\* A step of the detailed system is a move, a requeue or a recovery of the
\* board, or leaves the columns alone.
LEMMA BoardStep ==
  ASSUME SerialInv, [Next]_vars
  PROVE  [Board!Next]_status
<1> USE DEF SerialInv, IndInv
<1>1. CASE CommitRequest
  <2>1. CASE req.to = None  BY <1>1, <2>1 DEF CommitRequest
  <2>2. CASE req.to # None
    <3>1. /\ req \in Handlers(req.t, status[req.t], runNow[req.t])
          /\ status' = [status EXCEPT ![req.t] = req.to]
      BY <1>1, <2>2 DEF CommitRequest, RequestIsFresh
    <3>2. /\ req.t \in Tickets /\ status[req.t] \in Statuses
          /\ runNow[req.t] \in BOOLEAN
      BY <1>1 DEF CommitRequest, TypeOK, Requests
    <3>3. req.to \in Statuses /\ Board!MoveAllowed(req.t, status[req.t], req.to)
      BY <2>2, <3>1, <3>2, HandlersAllowed
    <3> QED  BY <3>1, <3>2, <3>3, WriteIsMove
  <2> QED  BY <2>1, <2>2
<1>2. ASSUME NEW p \in Procs, ForceRunning(p) PROVE Board!Next
  <2>1. /\ pc[p] = "forcing" /\ ticketOf[p] \in Tickets
        /\ status' = [status EXCEPT ![ticketOf[p]] = "running"]
    BY <1>2 DEF ForceRunning, Step, TypeOK
  <2>2. status[ticketOf[p]] \in Statuses
        /\ "running" \in Board!ValidTransitions(status[ticketOf[p]])
    BY <2>1 DEF MoveIsFresh, TypeOK
  <2>3. Board!MoveAllowed(ticketOf[p], status[ticketOf[p]], "running")
    BY <2>2 DEF Board!MoveAllowed, Board!ValidTransitions, Statuses, Board!Statuses
  <2> QED  BY <2>1, <2>3, WriteIsMove DEF Statuses, Board!Statuses
<1>3. ASSUME NEW p \in Procs, Land(p) PROVE Board!Next
  <2>1. /\ pc[p] \in {"landing", "draining"} /\ ticketOf[p] \in Tickets
        /\ status' = [status EXCEPT ![ticketOf[p]] = "review"]
    BY <1>3 DEF Land, Step, TypeOK
  <2>2. status[ticketOf[p]] = "running"  BY <2>1 DEF MoveIsFresh
  <2>3. Board!MoveAllowed(ticketOf[p], status[ticketOf[p]], "review")
    BY <2>2 DEF Board!MoveAllowed, Board!ValidTransitions
  <2> QED  BY <2>1, <2>3, WriteIsMove DEF Statuses, Board!Statuses
<1>4. CASE CommitCrashed
  <2>1. /\ \A t \in stuck : status[t] = "running"
        /\ stuck \subseteq Tickets
        /\ status' = [t \in Tickets |-> IF t \in stuck THEN "review" ELSE status[t]]
    BY <1>4 DEF CommitCrashed, SnapshotIsFresh, TypeOK
  <2>2. CASE stuck = {}  BY <2>1, <2>2 DEF TypeOK
  <2>3. CASE stuck # {}
    <3>1. Board!Recover  BY <2>1, <2>3 DEF Board!Recover
    <3> QED  BY <3>1 DEF Board!Next
  <2> QED  BY <2>2, <2>3
<1>5. CASE CommitRunless
  <2>1. /\ \A t \in runless : status[t] = "running"
        /\ runless \subseteq Tickets
        /\ status' = [t \in Tickets |-> IF t \in runless THEN "queued" ELSE status[t]]
    BY <1>5 DEF CommitRunless, SnapshotIsFresh, TypeOK
  <2>2. CASE runless = {}  BY <2>1, <2>2 DEF TypeOK
  <2>3. CASE runless # {}
    <3>1. Board!Requeue  BY <2>1, <2>3 DEF Board!Requeue
    <3> QED  BY <3>1 DEF Board!Next
  <2> QED  BY <2>2, <2>3
<1>6. ASSUME NEW t \in Tickets, Dispatch(t) PROVE Board!Next
  <2>1. status[t] = "queued" /\ status' = [status EXCEPT ![t] = "running"]
    BY <1>6 DEF Dispatch, SnapshotIsFresh
  <2>2. Board!MoveAllowed(t, status[t], "running")
    BY <2>1 DEF Board!MoveAllowed, Board!ValidTransitions
  <2> QED  BY <2>1, <2>2, WriteIsMove DEF Statuses, Board!Statuses
<1>7. ASSUME NEW p \in Procs, Continue(p) PROVE [Board!Next]_status
  <2>1. CASE UNCHANGED status  BY <2>1
  <2>2. CASE /\ status[ticketOf[p]] \in {"review", "archived"}
             /\ status' = [status EXCEPT ![ticketOf[p]] = "queued"]
    <3>1. ticketOf[p] \in Tickets
      <4>1. pc[p] = "continuing"  BY <1>7 DEF Continue, Step
      <4> QED  BY <4>1 DEF TypeOK
    <3>2. Board!MoveAllowed(ticketOf[p], status[ticketOf[p]], "queued")
      BY <2>2 DEF Board!MoveAllowed, Board!ValidTransitions
    <3> QED  BY <2>2, <3>1, <3>2, WriteIsMove DEF Statuses, Board!Statuses
  <2> QED  BY <1>7, <2>1, <2>2 DEF Continue
<1>8. ASSUME NEW p \in Procs,
             \/ Boot(p) \/ StartRun(p) \/ BootFails(p) \/ ConsumeStaging(p)
             \/ SetupFails(p) \/ SeeCancel(p) \/ Finish(p) \/ Conclude(p) \/ Kill(p)
             \/ Reap(p)
      PROVE  UNCHANGED status
  BY <1>8 DEF Boot, StartRun, BootFails, ConsumeStaging, SetupFails, SeeCancel, Finish,
              Conclude, Kill, Reap, boardVars
<1>9. ASSUME NEW t \in Tickets, OpenRequest(t) \/ SpawnFails(t) PROVE UNCHANGED status
  BY <1>9 DEF OpenRequest, SpawnFails, boardVars
<1>10. ASSUME NEW p \in Procs, NEW t \in Tickets, Spawn(p, t) PROVE UNCHANGED status
  BY <1>10 DEF Spawn, boardVars
<1>11. CASE \/ DaemonStarts \/ BeginTick \/ SweepRunless \/ Pick \/ EndTick
            \/ DaemonDies \/ DaemonStops
  BY <1>11 DEF DaemonStarts, BeginTick, SweepRunless, Pick, EndTick, DaemonDies,
               DaemonStops, boardVars
<1>12. CASE UNCHANGED vars  BY <1>12, FramedVars
<1> QED
  BY <1>1, <1>2, <1>3, <1>4, <1>5, <1>6, <1>7, <1>8, <1>9, <1>10, <1>11, <1>12
     DEF Next, Commits, Crashes, Others

\* With handlers that read and commit in one transaction, nightdesk moves its
\* tickets as the board promises, however API requests, run processes, daemon
\* ticks and crashes interleave.
THEOREM ImplementsBoard ==
  ASSUME Serializable
  PROVE  Spec => BoardSpec
<1>1. Init => Board!Init
  BY DEF Init, Board!Init, Board!Statuses
<1>2. SerialInv /\ [Next]_vars => [Board!Next]_status
  BY BoardStep
<1> QED  BY <1>1, <1>2, WindowsStayFresh, PTL DEF Spec, BoardSpec, Board!Spec
=============================================================================
