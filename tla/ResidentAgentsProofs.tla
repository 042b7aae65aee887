-------------------------- MODULE ResidentAgentsProofs --------------------------
(***************************************************************************)
(* Proofs about ResidentAgents, for any number of agents and host          *)
(* processes, any bounds, and both values of Serializable: its types; who  *)
(* owns an agent, and what becomes of its turns.                           *)
(***************************************************************************)
EXTENDS ResidentAgents, TLAPS

\* The variables of the specification, for steps that leave them all alone.
LEMMA FramedVars ==
  ASSUME UNCHANGED vars
  PROVE  UNCHANGED <<status, hostPid, resume, turns, open, host, pipe, sweep, toSpawn,
                     toEvict, tracked, req, older, asks, events, uprooted, botched,
                     robbed, shaky>>
BY DEF vars, rows, daemon, history

States == {"queued", "delivering", "streaming"} \cup Settled

\* What the host and the API write of a turn later is its status.
SameTurn(q, r) ==
  /\ q.kind = r.kind /\ q.ref = r.ref /\ q.force = r.force /\ q.clear = r.clear
  /\ q.behind = r.behind /\ q.since = r.since /\ q.meddled = r.meddled

\* Writing a status keeps an inbox an inbox, and changes nothing else of it.
LEMMA SetTurnsKeeps ==
  ASSUME TypeOK, NEW a \in Agents, NEW S, NEW state \in States
  PROVE  /\ SetTurns(a, S, state) \in [Agents -> Seq(TurnRecords)]
         /\ \A b \in Agents :
              /\ Len(SetTurns(a, S, state)[b]) = Len(turns[b])
              /\ \A i \in 1..Len(turns[b]) :
                   /\ SetTurns(a, S, state)[b][i].st =
                        IF b = a /\ i \in S THEN state ELSE turns[b][i].st
                   /\ SameTurn(SetTurns(a, S, state)[b][i], turns[b][i])
<1> DEFINE write(r) == [r EXCEPT !.st = state]
           one == [i \in DOMAIN turns[a] |-> IF i \in S THEN write(turns[a][i])
                                                        ELSE turns[a][i]]
<1>1. turns \in [Agents -> Seq(TurnRecords)]  BY DEF TypeOK
<1>2. \A i \in DOMAIN turns[a] : turns[a][i] \in TurnRecords  BY <1>1
<1>3. \A r \in TurnRecords :
        write(r) \in TurnRecords /\ write(r).st = state /\ SameTurn(write(r), r)
  BY DEF TurnRecords, States, SameTurn
<1>4. SetTurns(a, S, state) = [turns EXCEPT ![a] = one]  BY DEF SetTurns
<1> HIDE DEF write
<1>5. \A i \in DOMAIN turns[a] :
        one[i] \in TurnRecords /\ one[i].st = (IF i \in S THEN state ELSE turns[a][i].st)
        /\ SameTurn(one[i], turns[a][i])
  <2> TAKE i \in DOMAIN turns[a]
  <2>1. CASE i \in S  BY <1>2, <1>3, <2>1
  <2>2. CASE i \notin S  BY <1>2, <2>2 DEF SameTurn
  <2> QED  BY <2>1, <2>2
<1>6. one \in Seq(TurnRecords) /\ Len(one) = Len(turns[a])  BY <1>1, <1>5
<1>7. \A i \in 1..Len(turns[a]) :
        one[i].st = (IF i \in S THEN state ELSE turns[a][i].st)
        /\ SameTurn(one[i], turns[a][i])
  BY <1>1, <1>5
<1> HIDE DEF one
<1> QED  BY <1>1, <1>4, <1>6, <1>7 DEF SameTurn

-----------------------------------------------------------------------------
(***************************************************************************)
(* What each step writes of a host.                                        *)
(***************************************************************************)
Pcs == Serving \cup {"free", "boot", "exiting", "dead"}

OnlyHost(h) ==
  /\ host' \in [Hosts -> HostRecords]
  /\ \A k \in Hosts \ {h} : host'[k] = host[k]

\* Where host h stands now, and which turns it holds.
Stands(h, pc, turn, ctl) ==
  /\ OnlyHost(h)
  /\ host'[h].agent = host[h].agent
  /\ host'[h].pc = pc /\ host'[h].turn = turn /\ host'[h].ctl = ctl

\* What its inner process executes.
Inner(h, run, ask) == host'[h].run = run /\ host'[h].ask = ask

\* The conversation of that inner, and what it has reported.
Says(h, conv, gen, tc) ==
  host'[h].conv = conv /\ host'[h].gen = gen /\ host'[h].tc = tc

\* Writing a record of the right type to host h touches no other host.
LEMMA WriteHost ==
  ASSUME TypeOK, NEW h \in Hosts, NEW e \in HostRecords, host' = [host EXCEPT ![h] = e]
  PROVE  OnlyHost(h) /\ host'[h] = e
BY DEF TypeOK, OnlyHost

\* The inner parks its turn on the next question.
LEMMA AskEffect ==
  ASSUME TypeOK, NEW h \in Hosts, Ask(h)
  PROVE  /\ Stands(h, host[h].pc, host[h].turn, host[h].ctl)
         /\ Inner(h, host[h].run, asks[host[h].agent] + 1)
         /\ Says(h, host[h].conv, host[h].gen, host[h].tc)
<1> DEFINE e == [host[h] EXCEPT !.ask = asks[host[h].agent] + 1]
<1>1. host[h] \in HostRecords  BY DEF TypeOK
<1>a. host[h].agent \in Agents  BY DEF Ask, TypeOK, Running
<1>0. asks[host[h].agent] + 1 \in 0..MaxAsks
  BY <1>a, ResidentAgentsAssumption DEF Ask, TypeOK
<1>2. /\ e \in HostRecords
      /\ e.pc = host[h].pc
      /\ e.agent = host[h].agent
      /\ e.turn = host[h].turn
      /\ e.ctl = host[h].ctl
      /\ e.run = host[h].run /\ e.ask = asks[host[h].agent] + 1
      /\ e.conv = host[h].conv /\ e.gen = host[h].gen /\ e.tc = host[h].tc
  BY <1>1, <1>0 DEF HostRecords, Pcs
<1>3. host' = [host EXCEPT ![h] = e]  BY <1>1 DEF Ask, TypeOK
<1> HIDE DEF e
<1> QED  BY <1>2, <1>3, WriteHost DEF Stands, Inner, Says

LEMMA EndTurnEffect ==
  ASSUME TypeOK, NEW h \in Hosts, EndTurn(h)
  PROVE  /\ Stands(h, host[h].pc, host[h].turn, host[h].ctl)
         /\ Inner(h, 0, host[h].ask)
         /\ Says(h, host[h].conv, host[h].gen, host[h].tc)
<1> DEFINE e == [host[h] EXCEPT !.run = 0]
<1>1. host[h] \in HostRecords  BY DEF TypeOK
<1>0. 0 \in 0..MaxTurns  BY ResidentAgentsAssumption
<1>2. /\ e \in HostRecords
      /\ e.pc = host[h].pc
      /\ e.agent = host[h].agent
      /\ e.turn = host[h].turn
      /\ e.ctl = host[h].ctl
      /\ e.run = 0 /\ e.ask = host[h].ask
      /\ e.conv = host[h].conv /\ e.gen = host[h].gen /\ e.tc = host[h].tc
  BY <1>1, <1>0 DEF HostRecords, Pcs
<1>3. host' = [host EXCEPT ![h] = e]  BY <1>1 DEF EndTurn, TypeOK
<1> HIDE DEF e
<1> QED  BY <1>2, <1>3, WriteHost DEF Stands, Inner, Says

\* Where a host stands, and nothing else.
LEMMA PcEffect ==
  ASSUME TypeOK, NEW h \in Hosts, NEW pc \in Pcs, host' = [host EXCEPT ![h].pc = pc]
  PROVE  /\ Stands(h, pc, host[h].turn, host[h].ctl)
         /\ Inner(h, host[h].run, host[h].ask)
         /\ Says(h, host[h].conv, host[h].gen, host[h].tc)
<1> DEFINE e == [host[h] EXCEPT !.pc = pc]
<1>1. host[h] \in HostRecords  BY DEF TypeOK
<1>2. /\ e \in HostRecords
      /\ e.pc = pc
      /\ e.agent = host[h].agent
      /\ e.turn = host[h].turn
      /\ e.ctl = host[h].ctl
      /\ e.run = host[h].run /\ e.ask = host[h].ask
      /\ e.conv = host[h].conv /\ e.gen = host[h].gen /\ e.tc = host[h].tc
  BY <1>1 DEF HostRecords, Pcs
<1>3. host' = [host EXCEPT ![h] = e]  BY <1>1
<1> HIDE DEF e
<1> QED  BY <1>2, <1>3, WriteHost DEF Stands, Inner, Says

\* _shutdown alone.
LEMMA ShutEffect ==
  ASSUME TypeOK, NEW h \in Hosts, host' = [host EXCEPT ![h].shut = TRUE]
  PROVE  /\ Stands(h, host[h].pc, host[h].turn, host[h].ctl)
         /\ Inner(h, host[h].run, host[h].ask)
         /\ Says(h, host[h].conv, host[h].gen, host[h].tc)
<1> DEFINE e == [host[h] EXCEPT !.shut = TRUE]
<1>1. host[h] \in HostRecords  BY DEF TypeOK
<1>2. /\ e \in HostRecords
      /\ e.pc = host[h].pc
      /\ e.agent = host[h].agent
      /\ e.turn = host[h].turn
      /\ e.ctl = host[h].ctl
      /\ e.run = host[h].run /\ e.ask = host[h].ask
      /\ e.conv = host[h].conv /\ e.gen = host[h].gen /\ e.tc = host[h].tc
  BY <1>1 DEF HostRecords, Pcs
<1>3. host' = [host EXCEPT ![h] = e]  BY <1>1
<1> HIDE DEF e
<1> QED  BY <1>2, <1>3, WriteHost DEF Stands, Inner, Says

LEMMA StartInnerEffect ==
  ASSUME TypeOK, NEW h \in Hosts, StartInner(h)
  PROVE  /\ Stands(h, "loop", host[h].turn, host[h].ctl)
         /\ Inner(h, host[h].run, host[h].ask)
         /\ Says(h, resume[host[h].agent], host[h].gen, host[h].tc)
<1> DEFINE e == [host[h] EXCEPT !.pc = "loop", !.conv = resume[host[h].agent]]
<1>1. host[h] \in HostRecords  BY DEF TypeOK
<1>0. resume[host[h].agent] \in Conversations
  BY DEF StartInner, At, TypeOK
<1>2. /\ e \in HostRecords
      /\ e.pc = "loop"
      /\ e.agent = host[h].agent
      /\ e.turn = host[h].turn
      /\ e.ctl = host[h].ctl
      /\ e.run = host[h].run /\ e.ask = host[h].ask
      /\ e.conv = resume[host[h].agent] /\ e.gen = host[h].gen /\ e.tc = host[h].tc
  BY <1>1, <1>0 DEF HostRecords, Pcs, Serving, Running
<1>3. host' = [host EXCEPT ![h] = e]  BY <1>1 DEF StartInner, Agent, TypeOK
<1> HIDE DEF e
<1> QED  BY <1>2, <1>3, WriteHost DEF Stands, Inner, Says

\* A user turn is taken from the inbox.
LEMMA ClaimUserEffect ==
  ASSUME TypeOK, NEW h \in Hosts, NEW i \in 0..MaxTurns,
         host' = [host EXCEPT ![h] = [@ EXCEPT !.pc = "user", !.turn = i]]
  PROVE  /\ Stands(h, "user", i, host[h].ctl)
         /\ Inner(h, host[h].run, host[h].ask)
         /\ Says(h, host[h].conv, host[h].gen, host[h].tc)
<1> DEFINE e == [host[h] EXCEPT !.pc = "user", !.turn = i]
<1>1. host[h] \in HostRecords  BY DEF TypeOK
<1>2. /\ e \in HostRecords
      /\ e.pc = "user" /\ e.agent = host[h].agent /\ e.turn = i /\ e.ctl = host[h].ctl
      /\ e.run = host[h].run /\ e.ask = host[h].ask
      /\ e.conv = host[h].conv /\ e.gen = host[h].gen /\ e.tc = host[h].tc
  BY <1>1 DEF HostRecords, Pcs, Serving, Running
<1>3. host' = [host EXCEPT ![h] = e]  BY <1>1
<1> HIDE DEF e
<1> QED  BY <1>2, <1>3, WriteHost DEF Stands, Inner, Says

\* A control is taken from the inbox.
LEMMA ClaimControlEffect ==
  ASSUME TypeOK, NEW h \in Hosts, NEW i \in 0..MaxTurns,
         host' = [host EXCEPT ![h] = [@ EXCEPT !.pc = "control", !.ctl = i]]
  PROVE  /\ Stands(h, "control", host[h].turn, i)
         /\ Inner(h, host[h].run, host[h].ask)
         /\ Says(h, host[h].conv, host[h].gen, host[h].tc)
<1> DEFINE e == [host[h] EXCEPT !.pc = "control", !.ctl = i]
<1>1. host[h] \in HostRecords  BY DEF TypeOK
<1>2. /\ e \in HostRecords
      /\ e.pc = "control" /\ e.agent = host[h].agent /\ e.turn = host[h].turn /\ e.ctl = i
      /\ e.run = host[h].run /\ e.ask = host[h].ask
      /\ e.conv = host[h].conv /\ e.gen = host[h].gen /\ e.tc = host[h].tc
  BY <1>1 DEF HostRecords, Pcs, Serving, Running
<1>3. host' = [host EXCEPT ![h] = e]  BY <1>1
<1> HIDE DEF e
<1> QED  BY <1>2, <1>3, WriteHost DEF Stands, Inner, Says

LEMMA SendEffect ==
  ASSUME TypeOK, NEW h \in Hosts, SendUserTurn(h)
  PROVE  /\ Stands(h, "wait", host[h].turn, host[h].ctl)
         /\ Inner(h, host[h].turn, host[h].ask)
         /\ Says(h, (IF host[h].conv = "none" THEN "new" ELSE host[h].conv), host[h].gen, "no")
<1> DEFINE e == [host[h] EXCEPT !.pc = "wait", !.run = host[h].turn, !.tc = "no",
                                   !.barked = FALSE,
                                   !.conv = IF @ = "none" THEN "new" ELSE @]
<1>1. host[h] \in HostRecords  BY DEF TypeOK
<1>2. /\ e \in HostRecords
      /\ e.pc = "wait"
      /\ e.agent = host[h].agent
      /\ e.turn = host[h].turn
      /\ e.ctl = host[h].ctl
      /\ e.run = host[h].turn /\ e.ask = host[h].ask
      /\ e.conv = (IF host[h].conv = "none" THEN "new" ELSE host[h].conv)
      /\ e.gen = host[h].gen
      /\ e.tc = "no"
  <2>1. PICK c \in Conversations : c = IF host[h].conv = "none" THEN "new" ELSE host[h].conv
    BY <1>1 DEF HostRecords, Conversations
  <2>2. e = [host[h] EXCEPT !.pc = "wait", !.run = host[h].turn, !.tc = "no",
                            !.barked = FALSE, !.conv = c]
    BY <1>1, <2>1 DEF HostRecords
  <2>3. "wait" \in Serving /\ "no" \in Conversations \cup {"no"}  BY DEF Serving, Running
  <2> HIDE DEF e
  <2>4. e \in HostRecords  BY <1>1, <2>2, <2>3 DEF HostRecords
  <2> QED  BY <1>1, <2>1, <2>2, <2>4 DEF HostRecords
<1>3. host' = [host EXCEPT ![h] = e]  BY <1>1 DEF SendUserTurn, TypeOK
<1> HIDE DEF e
<1> QED  BY <1>2, <1>3, WriteHost DEF Stands, Inner, Says

\* The end of a user turn.
LEMMA FinishEffect ==
  ASSUME TypeOK, NEW h \in Hosts, host' = [host EXCEPT ![h].pc = "loop", ![h].turn = 0]
  PROVE  /\ Stands(h, "loop", 0, host[h].ctl)
         /\ Inner(h, host[h].run, host[h].ask)
         /\ Says(h, host[h].conv, host[h].gen, host[h].tc)
<1> DEFINE e == [host[h] EXCEPT !.pc = "loop", !.turn = 0]
<1>1. host[h] \in HostRecords  BY DEF TypeOK
<1>0. 0 \in 0..MaxTurns  BY ResidentAgentsAssumption
<1>2. /\ e \in HostRecords
      /\ e.pc = "loop" /\ e.agent = host[h].agent /\ e.turn = 0 /\ e.ctl = host[h].ctl
      /\ e.run = host[h].run /\ e.ask = host[h].ask
      /\ e.conv = host[h].conv /\ e.gen = host[h].gen /\ e.tc = host[h].tc
  BY <1>1, <1>0 DEF HostRecords, Pcs, Serving, Running
<1>3. host' = [host EXCEPT ![h] = e]  BY <1>1
<1> HIDE DEF e
<1> QED  BY <1>2, <1>3, WriteHost DEF Stands, Inner, Says

LEMMA WatchdogFailEffect ==
  ASSUME TypeOK, NEW h \in Hosts, host' = [host EXCEPT ![h].pc = "loop", ![h].turn = 0, ![h].shut = TRUE]
  PROVE  /\ Stands(h, "loop", 0, host[h].ctl)
         /\ Inner(h, host[h].run, host[h].ask)
         /\ Says(h, host[h].conv, host[h].gen, host[h].tc)
<1> DEFINE e == [host[h] EXCEPT !.pc = "loop", !.turn = 0, !.shut = TRUE]
<1>1. host[h] \in HostRecords  BY DEF TypeOK
<1>0. 0 \in 0..MaxTurns  BY ResidentAgentsAssumption
<1>2. /\ e \in HostRecords
      /\ e.pc = "loop" /\ e.agent = host[h].agent /\ e.turn = 0 /\ e.ctl = host[h].ctl
      /\ e.run = host[h].run /\ e.ask = host[h].ask
      /\ e.conv = host[h].conv /\ e.gen = host[h].gen /\ e.tc = host[h].tc
  BY <1>1, <1>0 DEF HostRecords, Pcs, Serving, Running
<1>3. host' = [host EXCEPT ![h] = e]  BY <1>1
<1> HIDE DEF e
<1> QED  BY <1>2, <1>3, WriteHost DEF Stands, Inner, Says

\* The end of a control.
LEMMA ControlDoneEffect ==
  ASSUME TypeOK, NEW h \in Hosts, NEW pc \in Pcs,
         host' = [host EXCEPT ![h].pc = pc, ![h].ctl = 0]
  PROVE  /\ Stands(h, pc, host[h].turn, 0)
         /\ Inner(h, host[h].run, host[h].ask)
         /\ Says(h, host[h].conv, host[h].gen, host[h].tc)
<1> DEFINE e == [host[h] EXCEPT !.pc = pc, !.ctl = 0]
<1>1. host[h] \in HostRecords  BY DEF TypeOK
<1>0. 0 \in 0..MaxTurns  BY ResidentAgentsAssumption
<1>2. /\ e \in HostRecords
      /\ e.pc = pc /\ e.agent = host[h].agent /\ e.turn = host[h].turn /\ e.ctl = 0
      /\ e.run = host[h].run /\ e.ask = host[h].ask
      /\ e.conv = host[h].conv /\ e.gen = host[h].gen /\ e.tc = host[h].tc
  BY <1>1, <1>0 DEF HostRecords, Pcs
<1>3. host' = [host EXCEPT ![h] = e]  BY <1>1
<1> HIDE DEF e
<1> QED  BY <1>2, <1>3, WriteHost DEF Stands, Inner, Says

\* A parked question is resolved, or nothing is.
LEMMA UnparkEffect ==
  ASSUME TypeOK, NEW h \in Hosts, NEW H \in HostRecords,
         H.agent = host[h].agent, H.ask = host[h].ask, Unpark(h, H)
  PROVE  /\ Stands(h, H.pc, H.turn, H.ctl)
         /\ Inner(h, H.run, 0)
         /\ Says(h, H.conv, H.gen, H.tc)
<1> DEFINE e == [H EXCEPT !.ask = 0]
<1>0. 0 \in 0..MaxAsks  BY ResidentAgentsAssumption
<1>1. /\ e \in HostRecords
      /\ e.pc = H.pc /\ e.agent = H.agent /\ e.turn = H.turn /\ e.ctl = H.ctl
      /\ e.run = H.run /\ e.ask = 0
      /\ e.conv = H.conv /\ e.gen = H.gen /\ e.tc = H.tc
  BY <1>0 DEF HostRecords
<1>2. CASE host[h].ask # 0
  <2>1. host' = [host EXCEPT ![h] = e]  BY <1>2 DEF Unpark
  <2> HIDE DEF e
  <2> QED  BY <1>1, <2>1, WriteHost DEF Stands, Inner, Says
<1>3. CASE host[h].ask = 0
  <2>1. host' = [host EXCEPT ![h] = H]  BY <1>3 DEF Unpark
  <2> QED  BY <1>3, <2>1, WriteHost DEF Stands, Inner, Says
<1> QED  BY <1>2, <1>3

\* A closed inner executes nothing and is parked on nothing.
LEMMA CloseEffect ==
  ASSUME TypeOK, NEW h \in Hosts, NEW H \in HostRecords,
         H.agent = host[h].agent, Close(h, H)
  PROVE  /\ Stands(h, H.pc, H.turn, H.ctl)
         /\ Inner(h, 0, 0)
         /\ Says(h, H.conv, H.gen, H.tc)
<1> DEFINE e == [H EXCEPT !.run = 0, !.ask = 0]
<1>0. 0 \in 0..MaxAsks /\ 0 \in 0..MaxTurns  BY ResidentAgentsAssumption
<1>1. /\ e \in HostRecords
      /\ e.pc = H.pc /\ e.agent = H.agent /\ e.turn = H.turn /\ e.ctl = H.ctl
      /\ e.run = 0 /\ e.ask = 0
      /\ e.conv = H.conv /\ e.gen = H.gen /\ e.tc = H.tc
  BY <1>0 DEF HostRecords
<1>2. host' = [host EXCEPT ![h] = e]  BY DEF Close
<1> HIDE DEF e
<1> QED  BY <1>1, <1>2, WriteHost DEF Stands, Inner, Says

LEMMA TeardownEffect ==
  ASSUME TypeOK, NEW h \in Hosts, Teardown(h)
  PROVE  /\ Stands(h, "teardown", host[h].turn, host[h].ctl)
         /\ Inner(h, 0, 0)
         /\ Says(h, host[h].conv, host[h].gen, host[h].tc)
<1> DEFINE H == [host[h] EXCEPT !.pc = "teardown"]
<1>1. host[h] \in HostRecords  BY DEF TypeOK
<1>2. /\ H \in HostRecords
      /\ H.pc = "teardown" /\ H.agent = host[h].agent
      /\ H.turn = host[h].turn /\ H.ctl = host[h].ctl
      /\ H.conv = host[h].conv /\ H.gen = host[h].gen /\ H.tc = host[h].tc
  BY <1>1 DEF HostRecords, Serving, Running
<1>3. Close(h, H)  BY DEF Teardown
<1> HIDE DEF H
<1> QED  BY <1>2, <1>3, CloseEffect

LEMMA RestartEffect ==
  ASSUME TypeOK, NEW h \in Hosts, RestartInner(h)
  PROVE  /\ Stands(h, Back(h), host[h].turn, 0)
         /\ Inner(h, 0, 0)
         /\ Says(h, Resumed(h), host[h].gen + 1, host[h].tc)
<1> DEFINE H == [host[h] EXCEPT !.pc = Back(h), !.ctl = 0, !.gen = @ + 1, !.conv = Resumed(h)]
           g == host[h].gen + 1
<1>1. host[h] \in HostRecords /\ host[h].agent \in Agents
  BY DEF TypeOK, RestartInner, At
<1>2. /\ g \in Nat
      /\ 0 \in 0..MaxTurns
  BY <1>1, ResidentAgentsAssumption DEF HostRecords
<1>3. Back(h) \in Pcs  BY DEF Back, Pcs, Serving, Running
<1>4. Resumed(h) \in Conversations
  BY <1>1 DEF Resumed, Agent, TypeOK, Conversations
<1>5. H = [host[h] EXCEPT !.pc = Back(h), !.ctl = 0, !.gen = g, !.conv = Resumed(h)]
  OBVIOUS
<1>6. Close(h, H)  BY DEF RestartInner
<1> HIDE DEF H, g
<1>7. /\ H \in HostRecords
      /\ H.pc = Back(h) /\ H.agent = host[h].agent
      /\ H.turn = host[h].turn /\ H.ctl = 0
      /\ H.conv = Resumed(h) /\ H.gen = g /\ H.tc = host[h].tc
  BY <1>1, <1>2, <1>3, <1>4, <1>5 DEF HostRecords, Pcs
<1> QED  BY <1>6, <1>7, CloseEffect DEF g

\* A control that has been delivered.
LEMMA DeliverEffect ==
  ASSUME TypeOK, NEW h \in Hosts, DeliverControl(h)
  PROVE  /\ \E pc \in {Back(h), "restart"} :
              Stands(h, pc, host[h].turn, IF pc = "restart" THEN host[h].ctl ELSE 0)
         /\ \E ask \in {host[h].ask, 0} : Inner(h, host[h].run, ask)
         /\ Says(h, host[h].conv, host[h].gen, host[h].tc)
<1> DEFINE H == [host[h] EXCEPT !.pc = Back(h), !.ctl = 0]
           R == [H EXCEPT !.shut = TRUE]
<1>1. host[h] \in HostRecords  BY DEF TypeOK
<1>2. 0 \in 0..MaxTurns  BY ResidentAgentsAssumption
<1>3. Back(h) \in Pcs /\ Back(h) # "restart"  BY DEF Back, Pcs, Serving, Running
<1>4. /\ H \in HostRecords
      /\ H.pc = Back(h) /\ H.agent = host[h].agent /\ H.turn = host[h].turn /\ H.ctl = 0
      /\ H.run = host[h].run /\ H.ask = host[h].ask
      /\ H.conv = host[h].conv /\ H.gen = host[h].gen /\ H.tc = host[h].tc
  BY <1>1, <1>2, <1>3 DEF HostRecords, Pcs
<1>5. \/ Unpark(h, H)
      \/ host' = [host EXCEPT ![h] = H]
      \/ host' = [host EXCEPT ![h] = R]
      \/ host' = [host EXCEPT ![h].pc = "restart"]
  BY DEF DeliverControl
<1> HIDE DEF H
<1>6. CASE Unpark(h, H)  BY <1>3, <1>4, <1>6, UnparkEffect
<1>7. CASE host' = [host EXCEPT ![h] = H]
  <2>1. /\ Stands(h, H.pc, H.turn, H.ctl) /\ Inner(h, H.run, H.ask)
        /\ Says(h, H.conv, H.gen, H.tc)
    BY <1>4, <1>7, WriteHost DEF Stands, Inner, Says
  <2> QED  BY <1>3, <1>4, <2>1
<1>8. CASE host' = [host EXCEPT ![h] = R]
  <2>1. /\ R \in HostRecords
        /\ R.pc = H.pc /\ R.agent = H.agent /\ R.turn = H.turn /\ R.ctl = H.ctl
        /\ R.run = H.run /\ R.ask = H.ask
        /\ R.conv = H.conv /\ R.gen = H.gen /\ R.tc = H.tc
    BY <1>4 DEF HostRecords
  <2> HIDE DEF R
  <2> QED  BY <1>3, <1>4, <1>8, <2>1, WriteHost DEF Stands, Inner, Says
<1>9. CASE host' = [host EXCEPT ![h].pc = "restart"]
  <2>1. "restart" \in Pcs  BY DEF Pcs, Serving, Running
  <2> QED  BY <1>9, <2>1, PcEffect
<1> QED  BY <1>5, <1>6, <1>7, <1>8, <1>9

LEMMA WatchdogInterruptEffect ==
  ASSUME TypeOK, NEW h \in Hosts, WatchdogInterrupt(h)
  PROVE  /\ Stands(h, host[h].pc, host[h].turn, host[h].ctl)
         /\ Inner(h, host[h].run, 0)
         /\ Says(h, host[h].conv, host[h].gen, host[h].tc)
<1> DEFINE H == [host[h] EXCEPT !.barked = TRUE]
<1>1. host[h] \in HostRecords  BY DEF TypeOK
<1>2. /\ H \in HostRecords
      /\ H.pc = host[h].pc /\ H.agent = host[h].agent
      /\ H.turn = host[h].turn /\ H.ctl = host[h].ctl
      /\ H.run = host[h].run /\ H.ask = host[h].ask
      /\ H.conv = host[h].conv /\ H.gen = host[h].gen /\ H.tc = host[h].tc
  BY <1>1 DEF HostRecords
<1>3. Unpark(h, H)  BY DEF WatchdogInterrupt
<1> HIDE DEF H
<1> QED  BY <1>2, <1>3, UnparkEffect

\* A host that is gone, and one that is not born yet.
LEMMA GoneHosts ==
  LET dead == [NoHost EXCEPT !.pc = "dead"] IN
  /\ NoHost \in HostRecords
  /\ NoHost.pc = "free" /\ NoHost.agent = None /\ NoHost.turn = 0 /\ NoHost.ctl = 0
  /\ NoHost.run = 0 /\ NoHost.ask = 0
  /\ dead \in HostRecords
  /\ dead.pc = "dead" /\ dead.agent = None /\ dead.turn = 0 /\ dead.ctl = 0
  /\ dead.run = 0 /\ dead.ask = 0
  /\ \A a \in Agents :
       LET new == [NoHost EXCEPT !.pc = "boot", !.agent = a] IN
       /\ new \in HostRecords
       /\ new.pc = "boot" /\ new.agent = a /\ new.turn = 0 /\ new.ctl = 0
       /\ new.run = 0 /\ new.ask = 0
<1>1. 0 \in 0..MaxTurns /\ 0 \in 0..MaxAsks /\ 0 \in Nat  BY ResidentAgentsAssumption
<1> QED  BY <1>1 DEF NoHost, HostRecords, Conversations, Serving, Running

\* A host that exits or dies forgets what it was serving.
Leaves(h, pc) ==
  /\ OnlyHost(h)
  /\ host'[h].pc = pc /\ host'[h].turn = 0 /\ host'[h].ctl = 0
  /\ Inner(h, 0, 0)

LEMMA ExitEffect ==
  ASSUME TypeOK, NEW h \in Hosts, Exit(h)
  PROVE  Leaves(h, "free")
BY GoneHosts, WriteHost DEF Exit, Leaves, Inner

LEMMA DieEffect ==
  ASSUME TypeOK, NEW h \in Hosts, Die(h)
  PROVE  Leaves(h, "dead")
<1> DEFINE e == [NoHost EXCEPT !.pc = "dead"]
<1>1. host' = [host EXCEPT ![h] = e]  BY DEF Die
<1>2. /\ e \in HostRecords
      /\ e.pc = "dead" /\ e.turn = 0 /\ e.ctl = 0 /\ e.run = 0 /\ e.ask = 0
  BY GoneHosts
<1> HIDE DEF e
<1> QED  BY <1>1, <1>2, WriteHost DEF Leaves, Inner

LEMMA SpawnEffect ==
  ASSUME TypeOK, NEW h \in Hosts, NEW a \in Agents, SpawnSessionHost(a, h)
  PROVE  Leaves(h, "boot") /\ host'[h].agent = a
<1> DEFINE e == [NoHost EXCEPT !.pc = "boot", !.agent = a]
<1>1. host' = [host EXCEPT ![h] = e]  BY DEF SpawnSessionHost
<1>2. /\ e \in HostRecords /\ e.agent = a
      /\ e.pc = "boot" /\ e.turn = 0 /\ e.ctl = 0 /\ e.run = 0 /\ e.ask = 0
  BY GoneHosts
<1> HIDE DEF e
<1> QED  BY <1>1, <1>2, WriteHost DEF Leaves, Inner

\* Reading an event may note the conversation reported with the turn.
LEMMA ReadEffect ==
  ASSUME TypeOK, NEW h \in Hosts, NEW i \in DOMAIN pipe[h], ReadEvent(h, i)
  PROVE  /\ Stands(h, host[h].pc, host[h].turn, host[h].ctl)
         /\ Inner(h, host[h].run, host[h].ask)
         /\ host'[h].conv = host[h].conv /\ host'[h].gen = host[h].gen
<1> DEFINE c == pipe[h][i].conv
           e == [host[h] EXCEPT !.tc = c]
<1>1. host[h] \in HostRecords  BY DEF TypeOK
<1>2. c \in Conversations
  <2>1. pipe[h][i] \in Events  BY DEF TypeOK
  <2> QED  BY <2>1 DEF Events
<1>3. host' = host \/ host' = [host EXCEPT ![h].tc = c]  BY DEF ReadEvent
<1>4. host' = host \/ host' = [host EXCEPT ![h] = e]  BY <1>3
<1> HIDE DEF c
<1>5. /\ e \in HostRecords
      /\ e.pc = host[h].pc /\ e.agent = host[h].agent
      /\ e.turn = host[h].turn /\ e.ctl = host[h].ctl
      /\ e.run = host[h].run /\ e.ask = host[h].ask
      /\ e.conv = host[h].conv /\ e.gen = host[h].gen
  BY <1>1, <1>2 DEF HostRecords
<1> HIDE DEF e
<1>6. CASE host' = host  BY <1>6 DEF Stands, Inner, OnlyHost, TypeOK
<1>7. CASE host' = [host EXCEPT ![h] = e]
  BY <1>5, <1>7, WriteHost DEF Stands, Inner
<1> QED  BY <1>4, <1>6, <1>7

\* Clearing the context outdates what hosts and pipes say, and nothing else.
LEMMA ClearEffect ==
  ASSUME TypeOK, NEW a \in Agents, NEW force \in BOOLEAN, RequestClear(a, force)
  PROVE  /\ host' \in [Hosts -> HostRecords]
         /\ \A h \in Hosts :
              /\ host'[h].pc = host[h].pc /\ host'[h].agent = host[h].agent
              /\ host'[h].turn = host[h].turn /\ host'[h].ctl = host[h].ctl
              /\ Inner(h, host[h].run, host[h].ask)
              /\ host'[h].gen = host[h].gen
              /\ host'[h].conv = IF host[h].agent = a THEN Outdated(host[h].conv)
                                                     ELSE host[h].conv
<1> DEFINE out(r) == [r EXCEPT !.conv = Outdated(@), !.tc = Outdated(@)]
           upd(h) == IF host[h].agent # a THEN host[h] ELSE out(host[h])
<1>1. host' = [h \in Hosts |-> upd(h)]  BY DEF RequestClear
<1>2. \A h \in Hosts : host[h] \in HostRecords  BY DEF TypeOK
<1>3. \A r \in HostRecords :
        Outdated(r.conv) \in Conversations /\ Outdated(r.tc) \in Conversations \cup {"no"}
  BY DEF HostRecords, Outdated, Conversations
<1>4. \A r \in HostRecords :
        /\ out(r) \in HostRecords
        /\ out(r).pc = r.pc /\ out(r).agent = r.agent
        /\ out(r).turn = r.turn /\ out(r).ctl = r.ctl
        /\ out(r).run = r.run /\ out(r).ask = r.ask
        /\ out(r).conv = Outdated(r.conv) /\ out(r).gen = r.gen
  BY <1>3 DEF HostRecords
<1> HIDE DEF out
<1> QED  BY <1>1, <1>2, <1>4 DEF Inner

-----------------------------------------------------------------------------
(***************************************************************************)
(* Type correctness.  What a host may hold depends on where it stands.     *)
(***************************************************************************)
Shape(r) ==
  /\ r.pc \in {"user", "wait"} => r.turn # 0 /\ r.ctl = 0
  /\ r.pc \in {"control", "restart"} => r.ctl # 0
  /\ r.pc \notin {"user", "wait", "control", "restart"} => r.turn = 0 /\ r.ctl = 0
  /\ r.pc \notin {"loop", "user", "wait", "control", "restart"} => r.run = 0 /\ r.ask = 0
  /\ r.pc \notin {"free", "dead"} => r.agent \in Agents

HostShape == \A h \in Hosts : Shape(host[h])

IType == TypeOK /\ HostShape

\* The types of everything but the hosts.
InboxType ==
  /\ turns \in [Agents -> Seq(TurnRecords)]
  /\ \A a \in Agents : Len(turns[a]) <= MaxTurns

RowType ==
  /\ status \in [Agents -> {"idle", "active", "ended"}]
  /\ hostPid \in [Agents -> Hosts \cup {None}]
  /\ resume \in [Agents -> Conversations]
  /\ open \in [Agents -> 0..MaxAsks]
  /\ older \subseteq Agents \X Agents

RestType ==
  /\ sweep \subseteq Agents \X (Hosts \cup {None})
  /\ toSpawn \subseteq Agents
  /\ toEvict \subseteq Hosts
  /\ tracked \subseteq Agents
  /\ req \in Requests \cup {None}
  /\ asks \in [Agents -> 0..MaxAsks]
  /\ events \in 0..MaxEvents
  /\ uprooted \subseteq Agents
  /\ botched \subseteq Agents
  /\ robbed \subseteq Agents
  /\ shaky \subseteq Agents

HostType == host \in [Hosts -> HostRecords] /\ HostShape

PipeType == pipe \in [Hosts -> Seq(Events)]

LEMMA ITypeParts == IType <=> InboxType /\ RowType /\ RestType /\ HostType /\ PipeType
BY DEF IType, InboxType, RowType, RestType, HostType, PipeType, TypeOK, HostShape, Shape,
       Running

\* A step that writes one host keeps the others as they were.
LEMMA OneHostType ==
  ASSUME IType, NEW h \in Hosts, OnlyHost(h), Shape(host'[h])
  PROVE  HostType'
BY DEF IType, TypeOK, OnlyHost, HostShape, HostType

LEMMA SetTurnsType ==
  ASSUME TypeOK, NEW a \in Agents, NEW S, NEW state \in States,
         turns' = SetTurns(a, S, state)
  PROVE  InboxType'
<1>1. \A b \in Agents : Len(turns[b]) <= MaxTurns  BY DEF TypeOK
<1> QED  BY <1>1, SetTurnsKeeps DEF InboxType

LEMMA TouchType ==
  ASSUME TypeOK, NEW a \in Agents, Touch(a)
  PROVE  older' \subseteq Agents \X Agents
BY DEF TypeOK, Touch

\* A new turn goes to the end of its inbox.
LEMMA EnqueueEffect ==
  ASSUME TypeOK, NEW a \in Agents, NEW turn \in TurnRecords, EnqueueTurn(a, turn)
  PROVE  /\ InboxType' /\ older' \subseteq Agents \X Agents
         /\ \A b \in Agents \ {a} : turns'[b] = turns[b]
         /\ Len(turns'[a]) = Len(turns[a]) + 1
         /\ turns'[a][Len(turns[a]) + 1] = turn
         /\ \A i \in 1..Len(turns[a]) : turns'[a][i] = turns[a][i]
<1>1. turns \in [Agents -> Seq(TurnRecords)] /\ Len(turns[a]) < MaxTurns
      /\ turns' = [turns EXCEPT ![a] = Append(turns[a], turn)] /\ Touch(a)
  BY DEF EnqueueTurn, TypeOK
<1>2. Append(turns[a], turn) \in Seq(TurnRecords)
      /\ Len(Append(turns[a], turn)) = Len(turns[a]) + 1
  BY <1>1
<1>3. turns' \in [Agents -> Seq(TurnRecords)]  BY <1>1, <1>2
<1>4. \A b \in Agents : Len(turns'[b]) <= MaxTurns
  <2> TAKE b \in Agents
  <2>1. Len(turns[b]) <= MaxTurns  BY DEF TypeOK
  <2>2. CASE b = a
    <3>1. Len(turns'[b]) = Len(turns[a]) + 1  BY <1>1, <1>2, <2>2
    <3>2. Len(turns[a]) \in Nat  BY <1>1
    <3> QED  BY <1>1, <3>1, <3>2, ResidentAgentsAssumption
  <2>3. CASE b # a  BY <1>1, <2>1, <2>3
  <2> QED  BY <2>2, <2>3
<1>5. older' \subseteq Agents \X Agents  BY <1>1, TouchType
<1>6. \A b \in Agents \ {a} : turns'[b] = turns[b]  BY <1>1
<1>7. turns'[a] = Append(turns[a], turn)  BY <1>1
<1> QED  BY <1>1, <1>2, <1>3, <1>4, <1>5, <1>6, <1>7 DEF InboxType

\* Turns as enqueue_turn makes them.
QueuedTurns == {r \in TurnRecords : r.st = "queued"}

LEMMA NewTurnType ==
  ASSUME TypeOK, NEW a \in Agents, NEW kind \in Kinds
  PROVE  /\ NewTurn(a, kind) \in QueuedTurns
         /\ \A i \in 0..(MaxTurns + MaxAsks) :
              [NewTurn(a, kind) EXCEPT !.ref = i] \in QueuedTurns
         /\ \A f \in BOOLEAN : [NewTurn(a, kind) EXCEPT !.force = f] \in QueuedTurns
         /\ \A f \in BOOLEAN :
              [NewTurn(a, kind) EXCEPT !.force = f, !.clear = TRUE] \in QueuedTurns
<1>1. 0 \in 0..(MaxTurns + MaxAsks)  BY ResidentAgentsAssumption
<1> DEFINE b == UserTurnsIn(a, {"queued", "delivering"}) # {}
<1>2. b \in BOOLEAN  OBVIOUS
<1>3. NewTurn(a, kind) = [kind |-> kind, st |-> "queued", ref |-> 0, force |-> FALSE,
                          clear |-> FALSE, behind |-> b, since |-> TRUE, meddled |-> FALSE]
  BY DEF NewTurn
<1> HIDE DEF b
<1>4. NewTurn(a, kind) \in QueuedTurns  BY <1>1, <1>2, <1>3 DEF TurnRecords, QueuedTurns
<1>5. ASSUME NEW r \in QueuedTurns
      PROVE  /\ \A i \in 0..(MaxTurns + MaxAsks) : [r EXCEPT !.ref = i] \in QueuedTurns
             /\ \A f \in BOOLEAN : [r EXCEPT !.force = f] \in QueuedTurns
             /\ \A f \in BOOLEAN : [r EXCEPT !.force = f, !.clear = TRUE] \in QueuedTurns
  <2>1. \A i \in 0..(MaxTurns + MaxAsks) : [r EXCEPT !.ref = i] \in QueuedTurns
    BY DEF TurnRecords, QueuedTurns
  <2>2. \A f \in BOOLEAN : [r EXCEPT !.force = f] \in QueuedTurns
    BY DEF TurnRecords, QueuedTurns
  <2>3. \A f \in BOOLEAN : [r EXCEPT !.force = f, !.clear = TRUE] \in QueuedTurns
    BY DEF TurnRecords, QueuedTurns
  <2> QED  BY <2>1, <2>2, <2>3
<1> QED  BY <1>4, <1>5

\* An event of the inner goes to the end of the pipe.
LEMMA EmitType ==
  ASSUME IType, NEW h \in Hosts,
         NEW type \in {"pending_input", "pending_resolved", "turn_complete"}, NEW id,
         IF type = "turn_complete" THEN id \in 0..MaxTurns ELSE id \in 1..MaxAsks,
         Emit(h, type, id)
  PROVE  PipeType'
<1> DEFINE e == [gen |-> host[h].gen, type |-> type, id |-> id, conv |-> host[h].conv]
<1>1. host[h].gen \in Nat /\ host[h].conv \in Conversations
  <2>1. host[h] \in HostRecords  BY DEF IType, TypeOK
  <2> QED  BY <2>1 DEF HostRecords
<1>2. e \in Events  BY <1>1 DEF Events
<1>3. pipe' = [pipe EXCEPT ![h] = Append(pipe[h], e)] /\ pipe \in [Hosts -> Seq(Events)]
  BY DEF Emit, IType, TypeOK
<1> HIDE DEF e
<1> QED  BY <1>2, <1>3 DEF PipeType

LEMMA HappensType ==
  ASSUME TypeOK, Happens
  PROVE  events' \in 0..MaxEvents
BY ResidentAgentsAssumption DEF TypeOK, Happens

\* A request that appends a turn or touches the agent, and nothing else.
Enqueues(a) ==
  \/ PostMessage(a) \/ WakeSession(a) \/ RequestInterrupt(a) \/ RequestReap(a)
  \/ \E force \in BOOLEAN : RequestRestart(a, force)

LEMMA EnqueuesTurn ==
  ASSUME TypeOK, NEW a \in Agents, Enqueues(a)
  PROVE  \/ \E turn \in QueuedTurns : EnqueueTurn(a, turn)
         \/ Touch(a) /\ UNCHANGED turns
<1>1. {"user", "wake", "interrupt", "restart", "reap"} \subseteq Kinds  BY DEF Kinds
<1>2. CASE PostMessage(a)  BY <1>1, <1>2, NewTurnType DEF PostMessage
<1>3. CASE WakeSession(a)  BY <1>1, <1>3, NewTurnType DEF WakeSession
<1>4. CASE RequestInterrupt(a)
  <2>1. PICK i \in Streaming(a) \cup (IF Streaming(a) = {} THEN {0} ELSE {}) :
          EnqueueTurn(a, [NewTurn(a, "interrupt") EXCEPT !.ref = i])
    BY <1>4 DEF RequestInterrupt
  <2>2. i \in 0..(MaxTurns + MaxAsks)
    <3>1. CASE i = 0  BY <3>1, ResidentAgentsAssumption
    <3>2. CASE i \in Streaming(a)
      <4>1. i \in 1..Len(turns[a])  BY <3>2 DEF Streaming, TurnsIn, TypeOK
      <4>2. Len(turns[a]) <= MaxTurns /\ Len(turns[a]) \in Nat  BY DEF TypeOK
      <4> QED  BY <4>1, <4>2, ResidentAgentsAssumption
    <3> QED  BY <3>1, <3>2
  <2> QED  BY <1>1, <2>1, <2>2, NewTurnType
<1>5. CASE RequestReap(a)  BY <1>1, <1>5, NewTurnType DEF RequestReap
<1>6. ASSUME NEW force \in BOOLEAN, RequestRestart(a, force)
      PROVE  \E turn \in QueuedTurns : EnqueueTurn(a, turn)
  BY <1>1, <1>6, NewTurnType DEF RequestRestart
<1> QED  BY <1>2, <1>3, <1>4, <1>5, <1>6 DEF Enqueues

LEMMA EnqueuesFrame ==
  ASSUME NEW a \in Agents, Enqueues(a)
  PROVE  /\ Happens
         /\ UNCHANGED <<status, hostPid, resume, open, host, pipe, sweep, toSpawn, toEvict,
                        tracked, req, asks, uprooted, botched, robbed, shaky>>
BY DEF Enqueues, PostMessage, WakeSession, RequestInterrupt, RequestReap, RequestRestart,
       IdleApi, daemon, history

LEMMA EnqueuesType ==
  ASSUME IType, NEW a \in Agents, Enqueues(a)
  PROVE  IType'
<1> USE DEF IType
<1>1. events' \in 0..MaxEvents  BY HappensType, EnqueuesFrame
<1>2. InboxType' /\ older' \subseteq Agents \X Agents
  <2>1. ASSUME NEW turn \in QueuedTurns, EnqueueTurn(a, turn)
        PROVE  InboxType' /\ older' \subseteq Agents \X Agents
    BY <2>1, EnqueueEffect DEF QueuedTurns
  <2>2. CASE Touch(a) /\ UNCHANGED turns  BY <2>2, TouchType DEF InboxType, TypeOK
  <2> QED  BY <2>1, <2>2, EnqueuesTurn
<1> QED  BY <1>1, <1>2, EnqueuesFrame DEF InboxType, TypeOK, HostShape

\* What clearing the context makes of the inbox.
LEMMA ClearInbox ==
  ASSUME TypeOK, NEW a \in Agents, NEW force \in BOOLEAN, RequestClear(a, force)
  PROVE  /\ InboxType'
         /\ \A b \in Agents \ {a} : turns'[b] = turns[b]
         /\ Len(turns'[a]) = Len(turns[a]) + 1
         /\ turns'[a][Len(turns[a]) + 1] =
              [NewTurn(a, "restart") EXCEPT !.force = force, !.clear = TRUE]
         /\ \A i \in 1..Len(turns[a]) :
              turns'[a][i] = [turns[a][i] EXCEPT !.since = FALSE]
<1> DEFINE new == [NewTurn(a, "restart") EXCEPT !.force = force, !.clear = TRUE]
           unsince(r) == [r EXCEPT !.since = FALSE]
           aged == [i \in DOMAIN turns[a] |-> unsince(turns[a][i])]
<1>1. new \in TurnRecords  BY NewTurnType DEF Kinds, QueuedTurns
<1>2. turns \in [Agents -> Seq(TurnRecords)] /\ Len(turns[a]) < MaxTurns
  BY DEF RequestClear, TypeOK
<1>3. \A r \in TurnRecords : unsince(r) \in TurnRecords  BY DEF TurnRecords
<1>4. turns' = [turns EXCEPT ![a] = Append(aged, new)]  BY DEF RequestClear
<1> HIDE DEF new, unsince
<1>5. /\ aged \in Seq(TurnRecords) /\ Len(aged) = Len(turns[a])
      /\ \A i \in 1..Len(turns[a]) : aged[i] = unsince(turns[a][i])
  BY <1>2, <1>3
<1> HIDE DEF aged
<1>6. /\ Append(aged, new) \in Seq(TurnRecords) /\ Len(Append(aged, new)) = Len(turns[a]) + 1
      /\ Append(aged, new)[Len(turns[a]) + 1] = new
      /\ \A i \in 1..Len(turns[a]) : Append(aged, new)[i] = aged[i]
  BY <1>1, <1>2, <1>5
<1>7. \A b \in Agents : Len(turns'[b]) <= MaxTurns
  <2>1. \A b \in Agents : Len(turns[b]) <= MaxTurns  BY DEF TypeOK
  <2>2. Len(turns[a]) \in Nat  BY <1>2
  <2>3. Len(turns[a]) + 1 <= MaxTurns  BY <1>2, <2>2, ResidentAgentsAssumption
  <2> QED  BY <1>2, <1>4, <1>6, <2>1, <2>3
<1>8. turns'[a] = Append(aged, new)  BY <1>2, <1>4
<1>9. InboxType'  BY <1>2, <1>4, <1>6, <1>7 DEF InboxType
<1>10. \A b \in Agents \ {a} : turns'[b] = turns[b]  BY <1>2, <1>4
<1>11. \A i \in 1..Len(turns[a]) : turns'[a][i] = unsince(turns[a][i])
  BY <1>5, <1>6, <1>8
<1> QED  BY <1>6, <1>8, <1>9, <1>10, <1>11 DEF new, unsince

\* Clearing the context rewrites one field of every turn, host and event.
LEMMA ClearType ==
  ASSUME IType, NEW a \in Agents, NEW force \in BOOLEAN, RequestClear(a, force)
  PROVE  IType'
<1> USE DEF IType
<1>1. events' \in 0..MaxEvents  BY HappensType DEF RequestClear, IdleApi
<1>2. UNCHANGED <<status, hostPid, open, sweep, toSpawn, toEvict, tracked, req, asks,
                  uprooted, robbed, shaky>>
  BY DEF RequestClear, daemon
<1>3. older' \subseteq Agents \X Agents  BY TouchType DEF RequestClear
<1>4. resume' \in [Agents -> Conversations] /\ botched' \subseteq Agents
  BY DEF RequestClear, TypeOK, Conversations
<1>5. InboxType'  BY ClearInbox
<1>6. HostType'
  BY ClearEffect DEF HostType, HostShape, Shape, Inner
<1>7. PipeType'
  <2> DEFINE out(e) == [e EXCEPT !.conv = Outdated(@)]
             aged(h) == [i \in DOMAIN pipe[h] |-> out(pipe[h][i])]
  <2>1. pipe' = [h \in Hosts |-> IF host[h].agent # a THEN pipe[h] ELSE aged(h)]
    BY DEF RequestClear
  <2>2. \A h \in Hosts : pipe[h] \in Seq(Events)  BY DEF TypeOK
  <2>3. \A e \in Events : Outdated(e.conv) \in Conversations
    BY DEF Events, Outdated, Conversations
  <2>4. \A e \in Events : out(e) \in Events
    <3> TAKE e \in Events
    <3>1. CASE e \in [gen : Nat, type : {"pending_input", "pending_resolved"},
                      id : 1..MaxAsks, conv : Conversations]
      BY <2>3, <3>1 DEF Events
    <3>2. CASE e \in [gen : Nat, type : {"turn_complete"}, id : 0..MaxTurns,
                      conv : Conversations]
      BY <2>3, <3>2 DEF Events
    <3> QED  BY <3>1, <3>2 DEF Events
  <2> HIDE DEF out
  <2>5. \A h \in Hosts : aged(h) \in Seq(Events)  BY <2>2, <2>4
  <2> QED  BY <2>1, <2>2, <2>5 DEF PipeType
<1>8. RowType' /\ RestType'
  BY <1>1, <1>2, <1>3, <1>4 DEF RowType, RestType, TypeOK
<1> QED  BY <1>5, <1>6, <1>7, <1>8, ITypeParts, PTL

\* A turn somebody wants to cancel is marked.
LEMMA CancelInbox ==
  ASSUME TypeOK, NEW a \in Agents, NEW i \in DOMAIN turns[a], CancelTurn(a, i)
  PROVE  /\ InboxType'
         /\ \A b \in Agents \ {a} : turns'[b] = turns[b]
         /\ Len(turns'[a]) = Len(turns[a])
         /\ turns'[a][i] = [turns[a][i] EXCEPT !.meddled = TRUE]
         /\ \A j \in 1..Len(turns[a]) : j # i => turns'[a][j] = turns[a][j]
<1> DEFINE marked == [turns[a][i] EXCEPT !.meddled = TRUE]
<1>1. turns \in [Agents -> Seq(TurnRecords)]  BY DEF TypeOK
<1>2. turns[a][i] \in TurnRecords /\ i \in 1..Len(turns[a])  BY <1>1
<1>3. marked \in TurnRecords  BY <1>2 DEF TurnRecords
<1>4. turns' = [turns EXCEPT ![a] = [turns[a] EXCEPT ![i] = marked]]
  BY DEF CancelTurn
<1> HIDE DEF marked
<1>5. [turns[a] EXCEPT ![i] = marked] \in Seq(TurnRecords)
      /\ Len([turns[a] EXCEPT ![i] = marked]) = Len(turns[a])
  BY <1>1, <1>2, <1>3
<1>6. turns'[a] = [turns[a] EXCEPT ![i] = marked]  BY <1>1, <1>4
<1>7. InboxType'
  <2>1. \A b \in Agents : Len(turns[b]) <= MaxTurns  BY DEF TypeOK
  <2> QED  BY <1>1, <1>4, <1>5, <2>1 DEF InboxType
<1>8. turns'[a][i] = marked /\ \A j \in 1..Len(turns[a]) : j # i => turns'[a][j] = turns[a][j]
  BY <1>1, <1>2, <1>6
<1> QED  BY <1>1, <1>4, <1>5, <1>6, <1>7, <1>8 DEF marked

\* The first transaction of a request that takes several.
LEMMA BeginType ==
  ASSUME IType, NEW a \in Agents,
         \/ AnswerPending(a) \/ EndSession(a)
         \/ \E i \in DOMAIN turns[a] : CancelTurn(a, i)
  PROVE  IType'
<1> USE DEF IType
<1>1. events' \in 0..MaxEvents
  BY HappensType DEF AnswerPending, EndSession, CancelTurn, IdleApi
<1>2. UNCHANGED <<status, hostPid, resume, open, host, pipe, sweep, toSpawn, toEvict,
                  tracked, older, asks, uprooted, botched, robbed, shaky>>
  BY DEF AnswerPending, EndSession, CancelTurn, rows, daemon, history
<1>3. CASE AnswerPending(a)
  <2>1. open[a] \in 1..MaxAsks
    BY <1>3, ResidentAgentsAssumption DEF AnswerPending, TypeOK
  <2>2. req' \in Requests /\ UNCHANGED turns
    BY <1>3, <2>1 DEF AnswerPending, Requests, rows
  <2> QED  BY <1>1, <1>2, <2>2 DEF TypeOK, HostShape
<1>4. CASE EndSession(a)
  <2> DEFINE op == IF PidAlive(a) THEN "end turns" ELSE "end row"
  <2>1. 0 \in 0..MaxTurns  BY ResidentAgentsAssumption
  <2>2. req' = [op |-> op, agent |-> a, id |-> 0] /\ UNCHANGED turns
    BY <1>4 DEF EndSession, rows
  <2>3. op \in {"cancel", "end turns", "end asks", "end row"}  OBVIOUS
  <2> HIDE DEF op
  <2>4. req' \in Requests  BY <2>1, <2>2, <2>3 DEF Requests
  <2> QED  BY <1>1, <1>2, <2>2, <2>4 DEF TypeOK, HostShape
<1>5. ASSUME NEW i \in DOMAIN turns[a], CancelTurn(a, i) PROVE IType'
  <2>1. turns \in [Agents -> Seq(TurnRecords)] /\ Len(turns[a]) <= MaxTurns
    BY DEF TypeOK
  <2>2. i \in 1..Len(turns[a])  BY <2>1
  <2>3. InboxType'  BY <1>5, CancelInbox
  <2>4. i \in 0..MaxTurns
    <3>1. Len(turns[a]) \in Nat  BY <2>1
    <3> QED  BY <2>1, <2>2, <3>1, ResidentAgentsAssumption
  <2>5. req' \in Requests  BY <1>5, <2>4 DEF CancelTurn, Requests
  <2> QED  BY <1>1, <1>2, <2>3, <2>5 DEF InboxType, TypeOK, HostShape
<1> QED  BY <1>3, <1>4, <1>5

LEMMA RequestFields ==
  ASSUME TypeOK, req # None
  PROVE  /\ req \in Requests /\ req.agent \in Agents
         /\ req.op = "answer" => req.id \in 1..MaxAsks
         /\ req.op # "answer" =>
              \A op \in {"cancel", "end turns", "end asks", "end row"} :
                [req EXCEPT !.op = op] \in Requests
<1>1. req \in Requests  BY DEF TypeOK
<1>2. CASE req \in [op : {"answer"}, agent : Agents, id : 1..MaxAsks]
  BY <1>1, <1>2
<1>3. CASE req \in [op : {"cancel", "end turns", "end asks", "end row"}, agent : Agents,
                    id : 0..MaxTurns]
  <2>1. \A op \in {"cancel", "end turns", "end asks", "end row"} :
          [req EXCEPT !.op = op] \in [op : {"cancel", "end turns", "end asks", "end row"},
                                      agent : Agents, id : 0..MaxTurns]
    BY <1>3
  <2> QED  BY <1>1, <1>3, <2>1 DEF Requests
<1> QED  BY <1>1, <1>2, <1>3 DEF Requests

\* The transactions that follow, and a crash instead of them.
LEMMA CommitType ==
  ASSUME IType, Commit \/ ApiCrash
  PROVE  IType'
<1> USE DEF IType
<1>1. req # None
  BY DEF Commit, ApiCrash, EnqueueAnswer, WriteCancel, EndTurns, EndAsks, EndRow
<1>2. /\ req \in Requests /\ req.agent \in Agents
      /\ req.op = "answer" => req.id \in 1..MaxAsks
      /\ req.op # "answer" => [req EXCEPT !.op = "end asks"] \in Requests
      /\ req.op # "answer" => [req EXCEPT !.op = "end row"] \in Requests
  BY <1>1, RequestFields
<1>3. UNCHANGED <<hostPid, resume, host, pipe, sweep, toSpawn, toEvict, tracked, asks,
                  uprooted, robbed>>
  BY DEF Commit, ApiCrash, EnqueueAnswer, WriteCancel, EndTurns, EndAsks, EndRow, rows,
         daemon, history
<1>4. CASE EnqueueAnswer
  <2> DEFINE turn == [NewTurn(req.agent, "answer") EXCEPT !.ref = req.id]
  <2>1. req.id \in 0..(MaxTurns + MaxAsks) /\ "answer" \in Kinds
    BY <1>2, <1>4, ResidentAgentsAssumption DEF EnqueueAnswer, Kinds
  <2>2. turn \in TurnRecords  BY <1>2, <2>1, NewTurnType DEF QueuedTurns
  <2>3. EnqueueTurn(req.agent, turn)  BY <1>4 DEF EnqueueAnswer
  <2> HIDE DEF turn
  <2>4. InboxType' /\ older' \subseteq Agents \X Agents
    BY <1>2, <2>2, <2>3, EnqueueEffect
  <2>5. req' = None /\ UNCHANGED <<status, open, events, botched, shaky>>
    BY <1>4 DEF EnqueueAnswer, history
  <2> QED  BY <1>3, <2>4, <2>5 DEF InboxType, TypeOK, HostShape
<1>5. CASE WriteCancel
  <2>1. InboxType'
    BY <1>2, <1>5, SetTurnsType DEF WriteCancel, States, Settled
  <2>2. botched' \subseteq Agents  BY <1>2, <1>5 DEF WriteCancel, Botches, TypeOK
  <2>3. req' = None /\ UNCHANGED <<status, open, events, older, shaky>>
    BY <1>5 DEF WriteCancel
  <2> QED  BY <1>3, <2>1, <2>2, <2>3 DEF InboxType, TypeOK, HostShape
<1>6. CASE EndTurns
  <2>1. InboxType'
    BY <1>2, <1>6, SetTurnsType DEF EndTurns, States, Settled
  <2>2. botched' \subseteq Agents  BY <1>2, <1>6 DEF EndTurns, Botches, TypeOK
  <2>3. req' \in Requests /\ UNCHANGED <<status, open, events, older, shaky>>
    BY <1>2, <1>6 DEF EndTurns
  <2> QED  BY <1>3, <2>1, <2>2, <2>3 DEF InboxType, TypeOK, HostShape
<1>7. CASE EndAsks
  <2>0. 0 \in 0..MaxAsks  BY ResidentAgentsAssumption
  <2>1. open' \in [Agents -> 0..MaxAsks]  BY <1>2, <1>7, <2>0 DEF EndAsks, TypeOK
  <2>2. req' \in Requests /\ UNCHANGED <<status, turns, events, older, botched, shaky>>
    BY <1>2, <1>7 DEF EndAsks, history
  <2> QED  BY <1>3, <2>1, <2>2 DEF TypeOK, HostShape
<1>8. CASE EndRow
  <2>1. status' \in [Agents -> {"idle", "active", "ended"}] /\ shaky' \subseteq Agents
    BY <1>2, <1>8 DEF EndRow, TypeOK
  <2>2. req' = None /\ UNCHANGED <<open, turns, events, older, botched>>
    BY <1>8 DEF EndRow
  <2> QED  BY <1>3, <2>1, <2>2 DEF TypeOK, HostShape
<1>9. CASE ApiCrash
  <2>1. events' \in 0..MaxEvents  BY <1>9, HappensType DEF ApiCrash
  <2>2. req' = None /\ UNCHANGED <<status, open, turns, older, botched, shaky>>
    BY <1>9 DEF ApiCrash, rows, history
  <2> QED  BY <1>3, <2>1, <2>2 DEF TypeOK, HostShape
<1> QED  BY <1>4, <1>5, <1>6, <1>7, <1>8, <1>9 DEF Commit

\* Whatever the inner says when it is unparked or closed.
LEMMA InnerPipeType ==
  ASSUME IType, NEW h \in Hosts, NEW H, Unpark(h, H) \/ Close(h, H)
  PROVE  PipeType' /\ (Close(h, H) => uprooted' \subseteq uprooted \cup {host[h].agent})
<1> USE DEF IType
<1>1. host[h].ask # 0 => host[h].ask \in 1..MaxAsks
  <2>1. host[h] \in HostRecords  BY DEF TypeOK
  <2>2. host[h].ask \in 0..MaxAsks  BY <2>1 DEF HostRecords
  <2> QED  BY <2>2, ResidentAgentsAssumption
<1>2. CASE pipe' = pipe
  BY <1>2 DEF PipeType, TypeOK, Close, Uproots, Emit
<1>3. CASE host[h].ask # 0 /\ Emit(h, "pending_resolved", host[h].ask)
  <2>1. PipeType'  BY <1>1, <1>3, EmitType
  <2> QED  BY <2>1 DEF Close, Uproots
<1>4. (pipe' = pipe) \/ (host[h].ask # 0 /\ Emit(h, "pending_resolved", host[h].ask))
  BY DEF Unpark, Close
<1> QED  BY <1>2, <1>3, <1>4

\* The inner process asks, or ends its turn.
LEMMA InnerType ==
  ASSUME IType, NEW h \in Hosts, Ask(h) \/ EndTurn(h)
  PROVE  IType'
<1> USE DEF IType
<1>1. host[h] \in HostRecords /\ host[h].pc \in Running /\ host[h].agent \in Agents
      /\ host[h].run # 0 /\ Shape(host[h])
  BY DEF TypeOK, HostShape, Ask, EndTurn, Running
<1>2. HostType'
  <2>1. host[h].pc \in {"loop", "user", "wait", "control", "restart"}
    BY <1>1 DEF Shape, Running
  <2>2. CASE Ask(h)
    BY <1>1, <2>1, <2>2, AskEffect, OneHostType DEF Stands, Inner, Shape
  <2>3. CASE EndTurn(h)
    BY <1>1, <2>1, <2>3, EndTurnEffect, OneHostType DEF Stands, Inner, Shape
  <2> QED  BY <2>2, <2>3
<1>3. CASE Ask(h)
  <2>1. asks[host[h].agent] + 1 \in 1..MaxAsks
    BY <1>1, <1>3, ResidentAgentsAssumption DEF Ask, TypeOK
  <2>2. PipeType'  BY <1>3, <2>1, EmitType DEF Ask
  <2>3. asks' \in [Agents -> 0..MaxAsks]
    <3>1. asks' = [asks EXCEPT ![host[h].agent] = asks[host[h].agent] + 1]
      BY <1>3 DEF Ask
    <3>2. asks[host[h].agent] + 1 \in 0..MaxAsks  BY <2>1
    <3> QED  BY <3>1, <3>2 DEF TypeOK
  <2>4. UNCHANGED <<rows, daemon, req, older, events, history>>  BY <1>3 DEF Ask
  <2>5. InboxType' /\ RowType' /\ RestType'
    BY <2>3, <2>4 DEF InboxType, RowType, RestType, TypeOK, rows, daemon, history
  <2> QED  BY <1>2, <2>2, <2>5, ITypeParts, PTL
<1>4. CASE EndTurn(h)
  <2>1. host[h].run \in 0..MaxTurns  BY <1>1 DEF HostRecords
  <2>2. PipeType'  BY <1>4, <2>1, EmitType DEF EndTurn
  <2>3. UNCHANGED <<rows, daemon, req, older, events, history, asks>>  BY <1>4 DEF EndTurn
  <2>4. InboxType' /\ RowType' /\ RestType'
    BY <2>3 DEF InboxType, RowType, RestType, TypeOK, rows, daemon, history
  <2> QED  BY <1>2, <2>2, <2>4, ITypeParts, PTL
<1> QED  BY <1>3, <1>4

\* A host in Serving has an agent.
LEMMA ServingAgent ==
  ASSUME IType, NEW h \in Hosts, host[h].pc \in Serving \cup {"boot", "exiting"}
  PROVE  Agent(h) \in Agents /\ Agent(h) = host[h].agent /\ Shape(host[h])
BY DEF IType, HostShape, Shape, Serving, Running, Agent

\* Claiming the agent, giving it up, and noticing that it is time to.
LEMMA LifeType ==
  ASSUME IType, NEW h \in Hosts,
         \/ ClaimHost(h) \/ StartInner(h) \/ StartUnreadable(h) \/ NoticeEnd(h)
         \/ IdleReap(h) \/ Teardown(h) \/ Release(h) \/ Exit(h)
  PROVE  IType'
<1> USE DEF IType
<1>1. Agent(h) \in Agents /\ Agent(h) = host[h].agent /\ Shape(host[h])
  BY ServingAgent
     DEF ClaimHost, StartInner, StartUnreadable, NoticeEnd, IdleReap, Looping, Teardown,
         Release, Exit, At, Serving, Running
<1>2. HostType'
  <2> USE DEF Stands, Inner, Shape, Leaves
  <2>1. CASE ClaimHost(h)
    <3>1. \E pc \in {"claimed", "exiting"} : host' = [host EXCEPT ![h].pc = pc]
      BY <2>1 DEF ClaimHost
    <3>2. host[h].pc = "boot"  BY <2>1 DEF ClaimHost, At
    <3> QED  BY <1>1, <3>1, <3>2, PcEffect, OneHostType DEF Pcs, Serving
  <2>2. CASE StartInner(h)
    <3>1. host[h].pc = "claimed"  BY <2>2 DEF StartInner, At
    <3> QED  BY <1>1, <2>2, <3>1, StartInnerEffect, OneHostType
  <2>3. CASE StartUnreadable(h) \/ Release(h)
    <3>1. /\ host' = [host EXCEPT ![h].pc = "exiting"]
          /\ host[h].pc \in {"claimed", "teardown"}
      BY <2>3 DEF StartUnreadable, Release, ReleaseHost, At
    <3>2. "exiting" \in Pcs  BY DEF Pcs
    <3>3. Stands(h, "exiting", host[h].turn, host[h].ctl) /\ Inner(h, host[h].run, host[h].ask)
      BY <3>1, <3>2, PcEffect
    <3> QED  BY <1>1, <3>1, <3>3, OneHostType
  <2>4. CASE NoticeEnd(h) \/ IdleReap(h)
    <3>1. host' = [host EXCEPT ![h].shut = TRUE]  BY <2>4 DEF NoticeEnd, IdleReap
    <3>2. Stands(h, host[h].pc, host[h].turn, host[h].ctl)
      BY <3>1, ShutEffect
    <3>3. Inner(h, host[h].run, host[h].ask)  BY <3>1, ShutEffect
    <3>4. OnlyHost(h)  BY <3>2
    <3>5. Shape(host'[h])  BY <1>1, <3>2, <3>3
    <3> QED  BY <3>4, <3>5, OneHostType
  <2>5. CASE Teardown(h)
    <3>1. host[h].pc = "loop"  BY <2>5 DEF Teardown, At
    <3> QED  BY <1>1, <2>5, <3>1, TeardownEffect, OneHostType
  <2>6. CASE Exit(h)  BY <2>6, ExitEffect, OneHostType
  <2> QED  BY <2>1, <2>2, <2>3, <2>4, <2>5, <2>6
<1>3. PipeType'
  <2>1. CASE Teardown(h)
    <3>1. \E H : Close(h, H)  BY <2>1 DEF Teardown
    <3> QED  BY <3>1, InnerPipeType
  <2>2. CASE Release(h)
    <3>1. <<>> \in Seq(Events)  OBVIOUS
    <3> QED  BY <2>2, <3>1 DEF Release, PipeType, TypeOK
  <2>3. CASE UNCHANGED pipe  BY <2>3 DEF PipeType, TypeOK
  <2> QED
    BY <2>1, <2>2, <2>3
       DEF ClaimHost, StartInner, StartUnreadable, NoticeEnd, IdleReap, Exit
<1>4. RowType'
  <2>1. CASE ClaimHost(h)
    <3>1. older' \subseteq Agents \X Agents
      BY <1>1, <2>1, TouchType DEF ClaimHost, TypeOK
    <3>2. /\ status' \in [Agents -> {"idle", "active", "ended"}]
          /\ hostPid' \in [Agents -> Hosts \cup {None}]
          /\ UNCHANGED <<resume, open>>
      <4>1. CASE Claimable(Agent(h))
        <5>1. /\ status' = [status EXCEPT ![Agent(h)] = "active"]
              /\ hostPid' = [hostPid EXCEPT ![Agent(h)] = h]
              /\ UNCHANGED <<resume, open>>
          BY <2>1, <4>1 DEF ClaimHost
        <5>2. status' \in [Agents -> {"idle", "active", "ended"}]  BY <5>1 DEF TypeOK
        <5>3. hostPid' \in [Agents -> Hosts \cup {None}]  BY <5>1 DEF TypeOK
        <5> QED  BY <5>1, <5>2, <5>3
      <4>2. CASE ~Claimable(Agent(h))
        <5>1. UNCHANGED <<status, hostPid, resume, open>>  BY <2>1, <4>2 DEF ClaimHost
        <5> QED  BY <5>1 DEF TypeOK
      <4> QED  BY <4>1, <4>2
    <3> QED  BY <3>1, <3>2 DEF RowType, TypeOK
  <2>2. ASSUME NEW conv \in Conversations, ReleaseHost(h, conv), UNCHANGED <<open, older>>
        PROVE  RowType'
    BY <1>1, <2>2 DEF ReleaseHost, Released, RowType, TypeOK
  <2>3. CASE StartUnreadable(h)
    <3>1. resume[Agent(h)] \in Conversations  BY <1>1 DEF TypeOK
    <3> QED  BY <2>2, <2>3, <3>1 DEF StartUnreadable
  <2>4. CASE Release(h)
    <3>1. PICK conv \in {resume[Agent(h)], host[h].conv} : ReleaseHost(h, conv)
      BY <2>4 DEF Release
    <3>2. host[h] \in HostRecords  BY DEF TypeOK
    <3>3. conv \in Conversations  BY <1>1, <3>1, <3>2 DEF TypeOK, HostRecords
    <3> QED  BY <2>2, <2>4, <3>1, <3>3 DEF Release
  <2>5. CASE UNCHANGED <<status, hostPid, resume, open, older>>
    BY <2>5 DEF RowType, TypeOK
  <2> QED
    BY <2>1, <2>3, <2>4, <2>5
       DEF StartInner, NoticeEnd, IdleReap, Teardown, Exit, rows
<1>5. InboxType'
  <2>1. UNCHANGED turns
    BY DEF ClaimHost, StartInner, StartUnreadable, NoticeEnd, IdleReap, Teardown,
           Release, Exit, rows
  <2> QED  BY <2>1 DEF InboxType, TypeOK
<1>6. RestType'
  <2>1. UNCHANGED <<sweep, toSpawn, toEvict, req, asks, botched, robbed, shaky>>
    BY DEF ClaimHost, StartInner, StartUnreadable, NoticeEnd, IdleReap, Teardown,
           Release, Exit, daemon, history
  <2>2. tracked' \subseteq Agents
    BY DEF ClaimHost, StartInner, StartUnreadable, NoticeEnd, IdleReap, Teardown,
           Release, Exit, daemon, Forgotten, TypeOK
  <2>3. events' \in 0..MaxEvents
    <3>1. CASE StartUnreadable(h)  BY <3>1, HappensType DEF StartUnreadable
    <3>2. CASE UNCHANGED events  BY <3>2 DEF TypeOK
    <3> QED
      BY <3>1, <3>2
         DEF ClaimHost, StartInner, NoticeEnd, IdleReap, Teardown, Release, Exit
  <2>4. uprooted' \subseteq Agents
    <3>1. CASE Teardown(h)
      <4>1. \E H : Close(h, H)  BY <3>1 DEF Teardown
      <4> QED  BY <1>1, <4>1, InnerPipeType DEF TypeOK
    <3>2. CASE Release(h)  BY <1>1, <3>2 DEF Release, Uproots, TypeOK
    <3>3. CASE UNCHANGED uprooted  BY <3>3 DEF TypeOK
    <3> QED
      BY <3>1, <3>2, <3>3
         DEF ClaimHost, StartInner, StartUnreadable, NoticeEnd, IdleReap, Exit, history
  <2> QED  BY <2>1, <2>2, <2>3, <2>4 DEF RestType, TypeOK
<1> QED  BY <1>2, <1>3, <1>4, <1>5, <1>6, ITypeParts, PTL

\* The turn a host holds is in the range of the inbox.
LEMMA HeldRange ==
  ASSUME TypeOK, NEW h \in Hosts
  PROVE  host[h].turn \in 0..MaxTurns /\ host[h].ctl \in 0..MaxTurns
BY DEF TypeOK, HostRecords

\* Delivering turns.
LEMMA DeliveryType ==
  ASSUME IType, NEW h \in Hosts,
         \/ ClaimTurn(h) \/ SendUserTurn(h) \/ DeliverControl(h) \/ RestartInner(h)
         \/ RestartUnreadable(h) \/ FinishTurn(h) \/ AbandonTurn(h)
         \/ WatchdogInterrupt(h) \/ WatchdogFail(h)
  PROVE  IType'
<1> USE DEF IType
<1>1. Agent(h) \in Agents /\ Agent(h) = host[h].agent /\ Shape(host[h])
  BY ServingAgent
     DEF ClaimTurn, SendUserTurn, DeliverControl, RestartInner, RestartUnreadable,
         FinishTurn, AbandonTurn, WatchdogInterrupt, WatchdogFail, Looping, At, Serving,
         Running
<1>2. HostType'
  <2> USE DEF Stands, Inner, Shape
  <2>1. CASE ClaimTurn(h)
    <3>1. host[h].pc \in {"loop", "wait"}  BY <2>1 DEF ClaimTurn, Looping, At
    <3>2. PICK i \in Deliverable(h) :
            host' = [host EXCEPT ![h] =
                       IF turns[Agent(h)][i].kind = "user"
                         THEN [@ EXCEPT !.pc = "user", !.turn = i]
                         ELSE [@ EXCEPT !.pc = "control", !.ctl = i]]
      BY <2>1 DEF ClaimTurn
    <3>3. i \in TurnsIn(Agent(h), {"queued"})
          /\ (host[h].pc = "wait" => turns[Agent(h)][i].kind # "user")
      BY <3>2 DEF Deliverable, Queued, UserTurnsIn
    <3>4. i \in 1..MaxTurns
      <4>1. i \in 1..Len(turns[Agent(h)])  BY <1>1, <3>3 DEF TurnsIn, TypeOK
      <4>2. Len(turns[Agent(h)]) <= MaxTurns /\ Len(turns[Agent(h)]) \in Nat
        BY <1>1 DEF TypeOK
      <4> QED  BY <4>1, <4>2, ResidentAgentsAssumption
    <3>5. i \in 0..MaxTurns /\ i # 0  BY <3>4, ResidentAgentsAssumption
    <3>6. CASE turns[Agent(h)][i].kind = "user"
      <4>1. host' = [host EXCEPT ![h] = [@ EXCEPT !.pc = "user", !.turn = i]]
        BY <3>2, <3>6
      <4>2. Stands(h, "user", i, host[h].ctl) /\ Inner(h, host[h].run, host[h].ask)
        BY <3>5, <4>1, ClaimUserEffect
      <4> QED  BY <1>1, <3>1, <3>3, <3>5, <3>6, <4>2, OneHostType
    <3>7. CASE turns[Agent(h)][i].kind # "user"
      <4>1. host' = [host EXCEPT ![h] = [@ EXCEPT !.pc = "control", !.ctl = i]]
        BY <3>2, <3>7
      <4>2. Stands(h, "control", host[h].turn, i) /\ Inner(h, host[h].run, host[h].ask)
        BY <3>5, <4>1, ClaimControlEffect
      <4> QED  BY <1>1, <3>1, <3>5, <4>2, OneHostType
    <3> QED  BY <3>6, <3>7
  <2>2. CASE SendUserTurn(h)
    <3>1. host[h].pc = "user"  BY <2>2 DEF SendUserTurn, At
    <3> QED  BY <1>1, <2>2, <3>1, SendEffect, OneHostType
  <2>3. CASE DeliverControl(h)
    <3>1. host[h].pc = "control"  BY <2>3 DEF DeliverControl, At
    <3>2. PICK pc \in {Back(h), "restart"} :
            Stands(h, pc, host[h].turn, IF pc = "restart" THEN host[h].ctl ELSE 0)
      BY <2>3, DeliverEffect
    <3>3. Shape(host'[h])  BY <1>1, <3>1, <3>2 DEF Back
    <3> QED  BY <3>2, <3>3, OneHostType
  <2>4. CASE RestartInner(h)
    <3>1. Stands(h, Back(h), host[h].turn, 0)  BY <2>4, RestartEffect
    <3>2. Shape(host'[h])  BY <1>1, <3>1 DEF Back
    <3> QED  BY <3>1, <3>2, OneHostType
  <2>5. CASE RestartUnreadable(h)
    <3>1. Stands(h, Back(h), host[h].turn, 0)
      <4>1. Back(h) \in Pcs  BY DEF Back, Pcs, Serving, Running
      <4>2. host' = [host EXCEPT ![h].pc = Back(h), ![h].ctl = 0]
        BY <2>5 DEF RestartUnreadable
      <4> QED  BY <4>1, <4>2, ControlDoneEffect
    <3>2. Shape(host'[h])  BY <1>1, <3>1 DEF Back
    <3> QED  BY <3>1, <3>2, OneHostType
  <2>6. CASE FinishTurn(h) \/ AbandonTurn(h)
    <3>1. host[h].pc = "wait" /\ host' = [host EXCEPT ![h].pc = "loop", ![h].turn = 0]
      BY <2>6 DEF FinishTurn, AbandonTurn, At
    <3>2. Stands(h, "loop", 0, host[h].ctl)  BY <3>1, FinishEffect
    <3> QED  BY <1>1, <3>1, <3>2, OneHostType
  <2>7. CASE WatchdogFail(h)
    <3>1. /\ host[h].pc = "wait"
          /\ host' = [host EXCEPT ![h].pc = "loop", ![h].turn = 0, ![h].shut = TRUE]
      BY <2>7 DEF WatchdogFail
    <3>2. Stands(h, "loop", 0, host[h].ctl)  BY <3>1, WatchdogFailEffect
    <3> QED  BY <1>1, <3>1, <3>2, OneHostType
  <2>8. CASE WatchdogInterrupt(h)
    <3>1. host[h].pc = "wait"  BY <2>8 DEF WatchdogInterrupt
    <3> QED  BY <1>1, <2>8, <3>1, WatchdogInterruptEffect, OneHostType
  <2> QED  BY <2>1, <2>2, <2>3, <2>4, <2>5, <2>6, <2>7, <2>8
<1>3. PipeType'
  <2>1. CASE UNCHANGED pipe  BY <2>1 DEF PipeType, TypeOK
  <2>2. CASE \E H : Unpark(h, H) \/ Close(h, H)  BY <2>2, InnerPipeType
  <2> QED
    BY <2>1, <2>2
       DEF ClaimTurn, SendUserTurn, DeliverControl, RestartInner, RestartUnreadable,
           FinishTurn, AbandonTurn, WatchdogInterrupt, WatchdogFail
<1>4. InboxType'
  <2>1. CASE UNCHANGED turns  BY <2>1 DEF InboxType, TypeOK
  <2>2. CASE \E S : \E state \in States : turns' = SetTurns(Agent(h), S, state)
    BY <1>1, <2>2, SetTurnsType
  <2>3. {"delivering", "streaming", "done", "interrupted", "failed"} \subseteq States
    BY DEF States, Settled
  <2>4. CASE ClaimTurn(h)
    <3>1. \E i : turns' = SetTurns(Agent(h), {i}, "delivering")  BY <2>4 DEF ClaimTurn
    <3> QED  BY <2>2, <2>3, <3>1
  <2>5. CASE SendUserTurn(h)
    <3>1. turns' = SetTurns(Agent(h), {host[h].turn}, "streaming")
      BY <2>5 DEF SendUserTurn
    <3> QED  BY <2>2, <2>3, <3>1
  <2>6. CASE DeliverControl(h)
    <3>1. turns' = SetTurns(Agent(h), {host[h].ctl}, "done")
      BY <2>6 DEF DeliverControl, FinishControl
    <3> QED  BY <2>2, <2>3, <3>1
  <2>7. CASE FinishTurn(h)
    <3>1. turns' = SetTurns(Agent(h), {host[h].turn}, "done")  BY <2>7 DEF FinishTurn
    <3> QED  BY <2>2, <2>3, <3>1
  <2>8. CASE AbandonTurn(h)
    <3>1. \E S : turns' = SetTurns(Agent(h), S, "interrupted")  BY <2>8 DEF AbandonTurn
    <3> QED  BY <2>2, <2>3, <3>1
  <2>9. CASE WatchdogFail(h)
    <3>1. \E S : turns' = SetTurns(Agent(h), S, "failed")
      BY <2>9 DEF WatchdogFail, Agent
    <3> QED  BY <2>2, <2>3, <3>1
  <2> QED
    BY <2>1, <2>4, <2>5, <2>6, <2>7, <2>8, <2>9
       DEF RestartInner, RestartUnreadable, WatchdogInterrupt, rows
<1>5. RowType'
  <2>1. UNCHANGED <<status, hostPid, open>>
    BY DEF ClaimTurn, SendUserTurn, DeliverControl, RestartInner,
           RestartUnreadable, FinishTurn, AbandonTurn, WatchdogInterrupt, WatchdogFail, rows
  <2>2. older' \subseteq Agents \X Agents
    <3>1. UNCHANGED older \/ Touch(Agent(h))
      BY DEF ClaimTurn, SendUserTurn, DeliverControl, RestartInner,
             RestartUnreadable, FinishTurn, AbandonTurn, WatchdogInterrupt, WatchdogFail
    <3> QED  BY <1>1, <3>1, TouchType DEF TypeOK
  <2>3. resume' \in [Agents -> Conversations]
    <3>1. CASE UNCHANGED resume  BY <3>1 DEF TypeOK
    <3>2. ASSUME NEW c \in Conversations, resume' = [resume EXCEPT ![Agent(h)] = c]
          PROVE  resume' \in [Agents -> Conversations]
      BY <3>2 DEF TypeOK
    <3>3. CASE RestartInner(h) \/ RestartUnreadable(h)
      <4>1. Resumed(h) \in Conversations
        BY <1>1 DEF Resumed, TypeOK, Conversations
      <4> QED  BY <3>2, <3>3, <4>1 DEF RestartInner, RestartUnreadable
    <3>4. CASE FinishTurn(h)
      <4>1. host[h] \in HostRecords  BY DEF TypeOK
      <4>2. host[h].tc \in Conversations
        BY <3>4, <4>1 DEF FinishTurn, HostRecords
      <4> QED  BY <3>2, <3>4, <4>2 DEF FinishTurn
    <3> QED
      BY <3>1, <3>3, <3>4
         DEF ClaimTurn, SendUserTurn, DeliverControl, AbandonTurn, WatchdogInterrupt,
             WatchdogFail, rows
  <2> QED  BY <2>1, <2>2, <2>3 DEF RowType, TypeOK
<1>6. RestType'
  <2>1. UNCHANGED <<sweep, toSpawn, toEvict, tracked, req, asks, robbed, shaky>>
    BY DEF ClaimTurn, SendUserTurn, DeliverControl, RestartInner, RestartUnreadable,
           FinishTurn, AbandonTurn, WatchdogInterrupt, WatchdogFail, daemon, history
  <2>2. events' \in 0..MaxEvents
    <3>1. CASE RestartUnreadable(h)  BY <3>1, HappensType DEF RestartUnreadable
    <3>2. CASE UNCHANGED events  BY <3>2 DEF TypeOK
    <3> QED
      BY <3>1, <3>2
         DEF ClaimTurn, SendUserTurn, DeliverControl, RestartInner, FinishTurn,
             AbandonTurn, WatchdogInterrupt, WatchdogFail
  <2>3. botched' \subseteq Agents
    <3>1. UNCHANGED botched \/ \E c : Botches(Agent(h), c)
      BY DEF ClaimTurn, SendUserTurn, DeliverControl, RestartInner, RestartUnreadable,
             FinishTurn, AbandonTurn, WatchdogInterrupt, WatchdogFail, history
    <3> QED  BY <1>1, <3>1 DEF Botches, TypeOK
  <2>4. uprooted' \subseteq Agents
    <3>1. CASE RestartInner(h)
      <4>1. \E H : Close(h, H)  BY <3>1 DEF RestartInner
      <4> QED  BY <1>1, <4>1, InnerPipeType DEF TypeOK
    <3>2. CASE UNCHANGED uprooted  BY <3>2 DEF TypeOK
    <3> QED
      BY <3>1, <3>2
         DEF ClaimTurn, SendUserTurn, DeliverControl, RestartUnreadable, FinishTurn,
             AbandonTurn, WatchdogInterrupt, WatchdogFail, history
  <2> QED  BY <2>1, <2>2, <2>3, <2>4 DEF RestType, TypeOK
<1> QED  BY <1>2, <1>3, <1>4, <1>5, <1>6, ITypeParts, PTL

\* Reading one event of the pipe.
LEMMA ReadType ==
  ASSUME IType, NEW h \in Hosts, NEW i \in DOMAIN pipe[h], ReadEvent(h, i)
  PROVE  IType'
<1> USE DEF IType
<1> DEFINE e == pipe[h][i]
           Rest == [j \in 1..(Len(pipe[h]) - 1) |-> pipe[h][IF j < i THEN j ELSE j + 1]]
<1>1. Agent(h) \in Agents /\ Agent(h) = host[h].agent /\ Shape(host[h])
  BY ServingAgent DEF ReadEvent, At, Serving
<1>2. e \in Events  BY DEF TypeOK
<1>3. HostType'
  BY <1>1, ReadEffect, OneHostType DEF Stands, Inner, Shape
<1>4. PipeType'
  <2>1. pipe[h] \in Seq(Events) /\ Len(pipe[h]) \in Nat /\ i \in 1..Len(pipe[h])
    BY DEF TypeOK
  <2>2. \A j \in 1..(Len(pipe[h]) - 1) : pipe[h][IF j < i THEN j ELSE j + 1] \in Events
    BY <2>1
  <2>3. Len(pipe[h]) - 1 \in Nat  BY <2>1
  <2>4. Rest \in Seq(Events)  BY <2>2, <2>3
  <2>5. pipe' = [pipe EXCEPT ![h] = Rest]  BY DEF ReadEvent
  <2> HIDE DEF Rest
  <2> QED  BY <2>4, <2>5 DEF PipeType, TypeOK
<1>5. RowType'
  <2>1. open' = [open EXCEPT ![Agent(h)] = OpenAfter(open[Agent(h)], e)]
    BY DEF ReadEvent, TypeOK
  <2>2. OpenAfter(open[Agent(h)], e) \in 0..MaxAsks
    <3>1. open[Agent(h)] \in 0..MaxAsks /\ 0 \in 0..MaxAsks
      BY <1>1, ResidentAgentsAssumption DEF TypeOK
    <3>2. e.type = "pending_input" => e.id \in 0..MaxAsks
      BY <1>2, ResidentAgentsAssumption DEF Events
    <3> HIDE DEF e
    <3> QED  BY <3>1, <3>2 DEF OpenAfter
  <2> HIDE DEF e
  <2>3. open' \in [Agents -> 0..MaxAsks]  BY <2>1, <2>2 DEF TypeOK
  <2>4. older' \subseteq Agents \X Agents
    <3>1. UNCHANGED older \/ Touch(Agent(h))  BY DEF ReadEvent
    <3> QED  BY <1>1, <3>1, TouchType DEF TypeOK
  <2>5. UNCHANGED <<status, hostPid, resume>>  BY DEF ReadEvent
  <2> QED  BY <2>3, <2>4, <2>5 DEF RowType, TypeOK
<1>6. InboxType' /\ RestType'
  <2>1. UNCHANGED <<turns, daemon, req, asks, events, history>>  BY DEF ReadEvent
  <2> QED  BY <2>1 DEF InboxType, RestType, TypeOK, daemon, history
<1> QED  BY <1>3, <1>4, <1>5, <1>6, ITypeParts, PTL

\* A host is killed.
LEMMA DieType ==
  ASSUME IType, NEW h \in Hosts, Die(h), host[h].pc \in Serving \cup {"boot"}
  PROVE  HostType' /\ PipeType' /\ tracked' \subseteq Agents /\ botched' \subseteq Agents
<1> USE DEF IType
<1>1. Agent(h) \in Agents  BY ServingAgent
<1>2. HostType'  BY DieEffect, OneHostType DEF Leaves, Inner, Shape
<1>3. PipeType'
  <2>1. <<>> \in Seq(Events)  OBVIOUS
  <2> QED  BY <2>1 DEF Die, PipeType, TypeOK
<1>4. tracked' \subseteq Agents  BY DEF Die, Forgotten, TypeOK
<1>5. botched' \subseteq Agents  BY <1>1 DEF Die, Botches, TypeOK
<1> QED  BY <1>2, <1>3, <1>4, <1>5

LEMMA KillType ==
  ASSUME IType, NEW h \in Hosts, Kill(h) \/ Evict(h)
  PROVE  IType'
<1> USE DEF IType
<1>1. /\ HostType' /\ PipeType' /\ tracked' \subseteq Agents /\ botched' \subseteq Agents
  <2>1. CASE Die(h) /\ host[h].pc \in Serving \cup {"boot"}  BY <2>1, DieType
  <2>2. CASE /\ host' = [host EXCEPT ![h].shut = TRUE]
             /\ UNCHANGED <<pipe, tracked, botched>>
    <3>1. HostType'
      <4>1. Stands(h, host[h].pc, host[h].turn, host[h].ctl)
            /\ Inner(h, host[h].run, host[h].ask)
        BY <2>2, ShutEffect
      <4>2. Shape(host[h])  BY DEF HostShape
      <4>3. Shape(host'[h])  BY <4>1, <4>2 DEF Stands, Inner, Shape
      <4> QED  BY <4>1, <4>3, OneHostType DEF Stands
    <3> QED  BY <2>2, <3>1 DEF PipeType, TypeOK
  <2>3. CASE UNCHANGED <<host, pipe, tracked, botched>>
    BY <2>3 DEF HostType, HostShape, PipeType, TypeOK
  <2> QED  BY <2>1, <2>2, <2>3 DEF Kill, Evict, At, Serving
<1>2. InboxType' /\ RowType'
  <2>1. UNCHANGED <<status, hostPid, resume, turns, open, older>>  BY DEF Kill, Evict, rows
  <2> QED  BY <2>1 DEF InboxType, RowType, TypeOK
<1>3. RestType'
  <2>1. UNCHANGED <<sweep, toSpawn, req, asks, uprooted, robbed, shaky>>  BY DEF Kill, Evict
  <2>2. toEvict' \subseteq Hosts  BY DEF Kill, Evict, TypeOK
  <2>3. events' \in 0..MaxEvents
    <3>1. CASE Kill(h)  BY <3>1, HappensType DEF Kill
    <3>2. CASE UNCHANGED events  BY <3>2 DEF TypeOK
    <3> QED  BY <3>1, <3>2 DEF Evict
  <2> QED  BY <1>1, <2>1, <2>2, <2>3 DEF RestType, TypeOK
<1> QED  BY <1>1, <1>2, <1>3, ITypeParts, PTL

\* One row of a sweep.
LEMMA SweepType ==
  ASSUME IType, NEW a \in Agents, NEW pid \in Hosts \cup {None}, SweepRow(a, pid)
  PROVE  IType'
<1> USE DEF IType
<1>1. UNCHANGED <<host, pipe, toSpawn, toEvict, tracked, req, asks, older, events,
                  uprooted, shaky, resume>>
  BY DEF SweepRow, rows
<1>2. HostType' /\ PipeType'  BY <1>1 DEF HostType, HostShape, PipeType, TypeOK
<1>3. InboxType'
  <2>1. CASE UNCHANGED turns  BY <2>1 DEF InboxType, TypeOK
  <2>2. CASE turns' = SetTurns(a, InFlight(a), "failed")
    BY <2>2, SetTurnsType DEF States, Settled
  <2> QED  BY <2>1, <2>2 DEF SweepRow, rows
<1>4. RowType'
  <2>1. 0 \in 0..MaxAsks  BY ResidentAgentsAssumption
  <2>2. CASE UNCHANGED rows  BY <1>1, <2>2 DEF rows, RowType, TypeOK
  <2>3. CASE ~UNCHANGED rows
    <3>1. /\ open' = [open EXCEPT ![a] = 0]
          /\ hostPid' = [hostPid EXCEPT ![a] = None]
          /\ status' = [status EXCEPT ![a] = "idle"]
      BY <2>3 DEF SweepRow
    <3>2. open' \in [Agents -> 0..MaxAsks]  BY <2>1, <3>1 DEF TypeOK
    <3>3. hostPid' \in [Agents -> Hosts \cup {None}]  BY <3>1 DEF TypeOK
    <3>4. status' \in [Agents -> {"idle", "active", "ended"}]  BY <3>1 DEF TypeOK
    <3> QED  BY <1>1, <3>2, <3>3, <3>4 DEF RowType, TypeOK
  <2> QED  BY <2>2, <2>3
<1>5. RestType'
  <2>1. sweep' \subseteq Agents \X (Hosts \cup {None})  BY DEF SweepRow, TypeOK
  <2>2. botched' \subseteq Agents /\ robbed' \subseteq Agents
    BY DEF SweepRow, Botches, TypeOK
  <2> QED  BY <1>1, <2>1, <2>2 DEF RestType, TypeOK
<1> QED  BY <1>2, <1>3, <1>4, <1>5, ITypeParts, PTL

\* The supervisor.
LEMMA DaemonType ==
  ASSUME IType, \/ OrphanSweep \/ SupervisorPass \/ DaemonCrash
                \/ \E a \in Agents, h \in Hosts : SpawnSessionHost(a, h)
  PROVE  IType'
<1> USE DEF IType
<1>1. UNCHANGED <<status, hostPid, resume, turns, open, pipe, req, asks, older, uprooted,
                  botched, robbed, shaky>>
  BY DEF OrphanSweep, SupervisorPass, DaemonCrash, SpawnSessionHost, rows, history
<1>2. InboxType' /\ RowType' /\ PipeType'
  BY <1>1 DEF InboxType, RowType, PipeType, TypeOK
<1>3. HostType'
  <2>1. CASE UNCHANGED host  BY <2>1 DEF HostType, HostShape, TypeOK
  <2>2. ASSUME NEW a \in Agents, NEW h \in Hosts, SpawnSessionHost(a, h)
        PROVE  HostType'
    BY <2>2, SpawnEffect, OneHostType DEF Leaves, Inner, Shape
  <2> QED  BY <2>1, <2>2 DEF OrphanSweep, SupervisorPass, DaemonCrash
<1>4. RestType'
  <2>1. CASE OrphanSweep
    <3>1. sweep' = {<<a, hostPid[a]>> : a \in {b \in Agents : status[b] = "active"}}
          /\ UNCHANGED <<toSpawn, toEvict, tracked, events>>
      BY <2>1 DEF OrphanSweep
    <3>2. sweep' \subseteq Agents \X (Hosts \cup {None})  BY <3>1 DEF TypeOK
    <3> QED  BY <1>1, <3>1, <3>2 DEF RestType, TypeOK
  <2>2. CASE SupervisorPass
    <3> DEFINE needing == NeedingHost \ tracked
               E == Evictions(Excess(Cardinality(LiveSessions)))
    <3>1. \E S \in SUBSET needing : toSpawn' = toSpawn \cup S
      BY <2>2 DEF SupervisorPass
    <3>2. toSpawn' \subseteq Agents  BY <3>1 DEF NeedingHost, TypeOK
    <3>3. toEvict' = toEvict \cup {hostPid[a] : a \in E}  BY <2>2 DEF SupervisorPass
    <3>4. \A a \in E : a \in Agents /\ hostPid[a] # None
      BY DEF Evictions, Evictable, LiveSessions, PidAlive
    <3> HIDE DEF E
    <3>5. toEvict' \subseteq Hosts  BY <3>3, <3>4 DEF TypeOK
    <3>6. UNCHANGED <<sweep, tracked, events>>  BY <2>2 DEF SupervisorPass
    <3> QED  BY <1>1, <3>2, <3>5, <3>6 DEF RestType, TypeOK
  <2>3. CASE DaemonCrash
    <3>1. events' \in 0..MaxEvents  BY <2>3, HappensType DEF DaemonCrash
    <3>2. sweep' = {} /\ toSpawn' = {} /\ toEvict' = {} /\ tracked' = {}
      BY <2>3 DEF DaemonCrash
    <3> QED  BY <1>1, <3>1, <3>2 DEF RestType, TypeOK
  <2>4. CASE \E a \in Agents, h \in Hosts : SpawnSessionHost(a, h)
    BY <1>1, <2>4 DEF SpawnSessionHost, RestType, TypeOK
  <2> QED  BY <2>1, <2>2, <2>3, <2>4
<1> QED  BY <1>2, <1>3, <1>4, ITypeParts, PTL

LEMMA ITypeInit == Init => IType
<1> SUFFICES ASSUME Init PROVE IType  OBVIOUS
<1>1. 0 \in 0..MaxTurns /\ 0 \in 0..MaxAsks /\ 0 \in 0..MaxEvents
  BY ResidentAgentsAssumption
<1>2. \A h \in Hosts : host[h] = NoHost  BY DEF Init
<1>3. HostType
  <2>1. Shape(NoHost)  BY GoneHosts DEF Shape
  <2> QED  BY <1>2, <2>1, GoneHosts DEF Init, HostType, HostShape
<1>4. InboxType
  <2>1. <<>> \in Seq(TurnRecords) /\ Len(<<>>) = 0  OBVIOUS
  <2>2. turns = [a \in Agents |-> <<>>]  BY DEF Init
  <2> QED  BY <2>1, <2>2, ResidentAgentsAssumption DEF InboxType
<1>5. PipeType
  <2>1. <<>> \in Seq(Events)  OBVIOUS
  <2> QED  BY <2>1 DEF Init, PipeType
<1>6. RowType /\ RestType  BY <1>1 DEF Init, RowType, RestType, Conversations
<1> QED  BY <1>3, <1>4, <1>5, <1>6, ITypeParts

LEMMA ITypeStep == IType /\ [Next]_vars => IType'
<1> SUFFICES ASSUME IType, [Next]_vars PROVE IType'  OBVIOUS
<1>1. ASSUME NEW a \in Agents, Request(a) PROVE IType'
  BY <1>1, EnqueuesType, ClearType, BeginType DEF Request, Enqueues
<1>2. CASE Commit \/ ApiCrash  BY <1>2, CommitType
<1>3. ASSUME NEW h \in Hosts,
             \/ Ask(h) \/ EndTurn(h)
             \/ HostStep(h) \/ IdleReap(h) \/ WatchdogInterrupt(h) \/ WatchdogFail(h)
             \/ StartUnreadable(h) \/ RestartUnreadable(h) \/ Kill(h)
             \/ \E i \in DOMAIN pipe[h] : ReadEvent(h, i)
             \/ Evict(h)
             \/ \E a \in Agents : SpawnSessionHost(a, h)
      PROVE  IType'
  BY <1>3, InnerType, LifeType, DeliveryType, KillType, ReadType, DaemonType DEF HostStep
<1>4. CASE OrphanSweep \/ SupervisorPass \/ DaemonCrash  BY <1>4, DaemonType
<1>5. ASSUME NEW a \in Agents, NEW pid \in Hosts \cup {None}, SweepRow(a, pid)
      PROVE  IType'
  BY <1>5, SweepType
<1>6. CASE UNCHANGED vars
  <2>1. InboxType /\ RowType /\ RestType /\ HostType /\ PipeType  BY ITypeParts
  <2>2. InboxType' /\ RowType' /\ RestType' /\ HostType' /\ PipeType'
    BY <1>6, <2>1, FramedVars
       DEF InboxType, RowType, RestType, HostType, HostShape, PipeType
  <2> QED  BY <2>2, ITypeParts, PTL
<1> QED  BY <1>1, <1>2, <1>3, <1>4, <1>5, <1>6 DEF Next

\* Everything keeps its type: in particular a host holds a turn exactly while it
\* delivers one, its inner runs nothing and is parked on nothing unless it is up,
\* and a host has an agent from its birth to its exit.
THEOREM TypeCorrect == Spec => []TypeOK
<1>1. IType => TypeOK  BY DEF IType
<1> QED  BY <1>1, ITypeInit, ITypeStep, PTL DEF Spec

-----------------------------------------------------------------------------
(***************************************************************************)
(* Who owns an agent, and what becomes of its turns: proofs about          *)
(* ResidentAgents on top of its type correctness.                          *)
(***************************************************************************)

\* Turn i of agent a is in flight as expected, unless somebody asked to cancel
\* it and the write of that request overtook its delivery.
Delivers(a, i, state) ==
  /\ i \in DOMAIN turns[a]
  /\ turns[a][i].st = state \/ (turns[a][i].meddled /\ turns[a][i].st \in Settled)

\* The turns a host may hold in flight.
Held(h) ==
  {host[h].turn} \cup IF host[h].pc = "control" THEN {host[h].ctl} ELSE {}

\* What the inbox of agent a says of the turns host h holds.
HoldsWell(a, h) ==
  /\ host[h].turn # 0 =>
       Delivers(a, host[h].turn, IF host[h].pc = "user" THEN "delivering" ELSE "streaming")
  /\ host[h].pc = "control" => Delivers(a, host[h].ctl, "delivering")

\* A row names a host that serves its agent, or one that died.
HostPidRefers ==
  \A a \in Agents : hostPid[a] # None =>
     \/ host[hostPid[a]].pc = "dead"
     \/ host[hostPid[a]].pc \in Serving /\ host[hostPid[a]].agent = a

\* What is in flight is held by the host the row names, unless that one died.
FlightHeld(a) ==
  InFlight(a) # {} =>
     /\ hostPid[a] # None
     /\ host[hostPid[a]].pc \in Serving => InFlight(a) \subseteq Held(hostPid[a])

InFlightIsHeld == \A a \in Sound : FlightHeld(a)

HeldTurns == \A a \in Sound : \A h \in HostsOf(a, Running) : HoldsWell(a, h)

\* A turn about to be cancelled is marked.
CancelIsMarked ==
  req # None /\ req.op = "cancel" =>
     req.id \in DOMAIN turns[req.agent] /\ turns[req.agent][req.id].meddled

OwnInv == SoleHost /\ HostPidRefers /\ InFlightIsHeld /\ HeldTurns /\ CancelIsMarked

\* A step that keeps this invariant and settles no turn again.
SettlesOnce ==
  \A a \in Sound : \A i \in TurnsIn(a, Settled) :
     turns[a][i].meddled \/ turns'[a][i].st = turns[a][i].st

OwnStep == OwnInv' /\ SettlesOnce

\* Nobody is on the way to an agent that was ended, unless somebody already was.
EndedIsLeft ==
  \A a \in Agents \ shaky : status[a] = "ended" =>
     ~OnTheWay(a) /\ \A row \in sweep : row[1] # a

-----------------------------------------------------------------------------
(***************************************************************************)
(* Steps that settle nothing and pass no agent on: the inboxes grow at     *)
(* most, and every host serves what it served, or stops.                   *)
(***************************************************************************)
Appends ==
  \A b \in Agents :
    /\ Len(turns[b]) <= Len(turns'[b])
    /\ \A i \in 1..Len(turns[b]) :
         /\ turns'[b][i].st = turns[b][i].st
         /\ turns[b][i].meddled => turns'[b][i].meddled
    /\ \A i \in 1..Len(turns'[b]) : i > Len(turns[b]) => turns'[b][i].st = "queued"

Keeps(h) ==
  /\ host'[h].pc \in Serving =>
       /\ host[h].pc \in Serving
       /\ host'[h].agent = host[h].agent /\ host'[h].turn = host[h].turn
       /\ host'[h].pc = "user" <=> host[h].pc = "user"
       /\ host'[h].pc = "control" <=> host[h].pc = "control"
       /\ host[h].pc = "control" => host'[h].ctl = host[h].ctl
  /\ host'[h].pc \notin Serving => host[h].pc \notin Serving \/ host'[h].pc = "dead"
  /\ host[h].pc = "dead" => host'[h].pc = "dead" \/ \A a \in Agents : hostPid[a] # h

Quiet == Appends /\ (\A h \in Hosts : Keeps(h)) /\ UNCHANGED <<hostPid, robbed>>

LEMMA InboxDomain ==
  ASSUME IType, NEW a \in Agents
  PROVE  /\ DOMAIN turns[a] = 1..Len(turns[a]) /\ Len(turns[a]) \in Nat
         /\ \A i \in DOMAIN turns[a] : turns[a][i] \in TurnRecords
BY DEF IType, TypeOK

LEMMA AppendsKeeps ==
  ASSUME IType, IType', Appends, NEW b \in Agents
  PROVE  /\ InFlight(b)' = InFlight(b)
         /\ \A i, state : Delivers(b, i, state) => Delivers(b, i, state)'
<1>1. DOMAIN turns[b] = 1..Len(turns[b]) /\ Len(turns[b]) \in Nat  BY InboxDomain
<1>2. DOMAIN turns'[b] = 1..Len(turns'[b]) /\ Len(turns'[b]) \in Nat
  BY DEF IType, TypeOK
<1>3. \A i \in DOMAIN turns[b] :
        /\ i \in DOMAIN turns'[b] /\ turns'[b][i].st = turns[b][i].st
        /\ turns[b][i].meddled => turns'[b][i].meddled
  BY <1>1, <1>2 DEF Appends
<1>4. \A i \in DOMAIN turns'[b] : i \in DOMAIN turns[b] \/ turns'[b][i].st = "queued"
  BY <1>1, <1>2 DEF Appends
<1> QED  BY <1>3, <1>4 DEF InFlight, TurnsIn, Delivers

LEMMA AppendsSettle ==
  ASSUME IType, Appends
  PROVE  SettlesOnce
BY InboxDomain DEF SettlesOnce, Appends, TurnsIn, Sound

LEMMA QuietStep ==
  ASSUME IType, IType', OwnInv, Quiet, CancelIsMarked'
  PROVE  OwnStep
<1> USE DEF OwnInv
<1>1. Sound' = Sound  BY DEF Quiet, Sound
<1>2. \A h \in Hosts : Keeps(h)  BY DEF Quiet
<1>3. SoleHost'
  BY <1>1, <1>2 DEF SoleHost, HostsOf, Keeps, Quiet
<1>4. HostPidRefers'
  <2> SUFFICES ASSUME NEW a \in Agents, hostPid'[a] # None
               PROVE  \/ host'[hostPid'[a]].pc = "dead"
                      \/ host'[hostPid'[a]].pc \in Serving /\ host'[hostPid'[a]].agent = a
    BY DEF HostPidRefers
  <2>1. hostPid'[a] = hostPid[a] /\ hostPid[a] \in Hosts  BY DEF Quiet, IType, TypeOK
  <2>2. Keeps(hostPid[a])  BY <1>2, <2>1
  <2> QED  BY <2>1, <2>2 DEF HostPidRefers, Keeps
<1>5. InFlightIsHeld'
  <2> SUFFICES ASSUME NEW a \in Sound, InFlight(a)' # {}
               PROVE  /\ hostPid'[a] # None
                      /\ host'[hostPid'[a]].pc \in Serving
                           => InFlight(a)' \subseteq Held(hostPid[a])'
    BY <1>1 DEF InFlightIsHeld, FlightHeld, Quiet
  <2>1. a \in Agents /\ InFlight(a)' = InFlight(a)  BY AppendsKeeps DEF Quiet, Sound
  <2>2. hostPid'[a] = hostPid[a] /\ hostPid[a] \in Hosts
    BY <2>1 DEF InFlightIsHeld, FlightHeld, Quiet, IType, TypeOK
  <2>3. Keeps(hostPid[a])  BY <1>2, <2>2
  <2>4. host'[hostPid[a]].pc \in Serving => Held(hostPid[a])' = Held(hostPid[a])
    <3>1. SUFFICES ASSUME host'[hostPid[a]].pc \in Serving
                   PROVE  Held(hostPid[a])' = Held(hostPid[a])
      OBVIOUS
    <3>2. CASE host[hostPid[a]].pc = "control"  BY <2>2, <2>3, <3>1, <3>2 DEF Held, Keeps
    <3>3. CASE host[hostPid[a]].pc # "control"  BY <2>2, <2>3, <3>1, <3>3 DEF Held, Keeps
    <3> QED  BY <3>2, <3>3
  <2> QED  BY <2>1, <2>2, <2>3, <2>4 DEF InFlightIsHeld, FlightHeld, Keeps
<1>6. HeldTurns'
  <2> SUFFICES ASSUME NEW a \in Sound, NEW h \in HostsOf(a, Running)'
               PROVE  HoldsWell(a, h)'
    BY <1>1 DEF HeldTurns
  <2>1. a \in Agents /\ h \in Hosts /\ Keeps(h)  BY <1>2 DEF Sound, HostsOf
  <2>2. host[h].pc \in Serving /\ host[h].agent = a
    BY <2>1 DEF Keeps, HostsOf, Serving
  <2>3. CASE host[h].pc \in Running
    <3>1. HoldsWell(a, h)  BY <2>1, <2>2, <2>3 DEF HeldTurns, HostsOf
    <3>2. \A i, state : Delivers(a, i, state) => Delivers(a, i, state)'
      BY <2>1, AppendsKeeps DEF Quiet
    <3>3. /\ host'[h].turn = host[h].turn
          /\ host'[h].pc = "user" <=> host[h].pc = "user"
          /\ host'[h].pc = "control" <=> host[h].pc = "control"
          /\ host[h].pc = "control" => host'[h].ctl = host[h].ctl
      BY <2>1 DEF Keeps, HostsOf, Serving
    <3> QED  BY <3>1, <3>2, <3>3 DEF HoldsWell
  <2>4. CASE host[h].pc = "claimed"
    <3>1. host[h].turn = 0  BY <2>1, <2>4 DEF IType, HostShape, Shape
    <3>2. host'[h].turn = 0 /\ host'[h].pc # "control"
      BY <2>1, <2>4, <3>1 DEF Keeps, HostsOf, Serving
    <3> QED  BY <3>2 DEF HoldsWell
  <2> QED  BY <2>2, <2>3, <2>4 DEF Serving
<1>7. SettlesOnce  BY AppendsSettle DEF Quiet
<1> QED  BY <1>3, <1>4, <1>5, <1>6, <1>7 DEF OwnStep

\* Requests are quiet.
LEMMA SameInbox ==
  ASSUME IType, UNCHANGED turns
  PROVE  Appends
BY InboxDomain DEF Appends

LEMMA AppendedTurn ==
  ASSUME IType, NEW a \in Agents, NEW turn \in QueuedTurns, EnqueueTurn(a, turn)
  PROVE  Appends
<1>1. /\ \A b \in Agents \ {a} : turns'[b] = turns[b]
      /\ Len(turns'[a]) = Len(turns[a]) + 1
      /\ turns'[a][Len(turns[a]) + 1] = turn
      /\ \A i \in 1..Len(turns[a]) : turns'[a][i] = turns[a][i]
  BY EnqueueEffect DEF IType, QueuedTurns
<1>2. turn.st = "queued"  BY DEF QueuedTurns
<1> QED  BY <1>1, <1>2, InboxDomain DEF Appends

LEMMA MarkKept ==
  ASSUME IType, IType', Appends, CancelIsMarked, req' \in {req, None}
  PROVE  CancelIsMarked'
<1> SUFFICES ASSUME req # None, req' = req, req.op = "cancel"
             PROVE  CancelIsMarked'
  BY DEF CancelIsMarked
<1>1. req.agent \in Agents  BY RequestFields DEF IType
<1>2. DOMAIN turns'[req.agent] = 1..Len(turns'[req.agent]) /\ Len(turns'[req.agent]) \in Nat
  BY <1>1 DEF IType, TypeOK
<1> QED  BY <1>1, <1>2, InboxDomain DEF CancelIsMarked, Appends

\* A host nobody writes keeps serving.
LEMMA UntouchedHost ==
  ASSUME NEW h \in Hosts, host'[h] = host[h]
  PROVE  Keeps(h)
BY DEF Keeps

LEMMA RequestQuiet ==
  ASSUME IType, IType', OwnInv, NEW a \in Agents, Request(a)
  PROVE  OwnStep
<1>1. ASSUME Enqueues(a) PROVE Quiet /\ CancelIsMarked'
  <2>1. Appends  BY <1>1, EnqueuesTurn, AppendedTurn, SameInbox DEF IType
  <2>2. \A h \in Hosts : Keeps(h)  BY <1>1, EnqueuesFrame, UntouchedHost
  <2> QED  BY <1>1, <2>1, <2>2, EnqueuesFrame, MarkKept DEF Quiet, OwnInv
<1>2. ASSUME NEW force \in BOOLEAN, RequestClear(a, force) PROVE Quiet /\ CancelIsMarked'
  <2> DEFINE new == [NewTurn(a, "restart") EXCEPT !.force = force, !.clear = TRUE]
  <2>1. /\ \A b \in Agents \ {a} : turns'[b] = turns[b]
        /\ Len(turns'[a]) = Len(turns[a]) + 1
        /\ turns'[a][Len(turns[a]) + 1] = new
        /\ \A i \in 1..Len(turns[a]) : turns'[a][i] = [turns[a][i] EXCEPT !.since = FALSE]
    BY <1>2, ClearInbox DEF IType
  <2>2. new.st = "queued"
    <3>1. new \in QueuedTurns  BY NewTurnType DEF IType, Kinds
    <3> QED  BY <3>1 DEF QueuedTurns
  <2> HIDE DEF new
  <2>3. \A i \in 1..Len(turns[a]) : turns'[a][i].st = turns[a][i].st
                                   /\ turns'[a][i].meddled = turns[a][i].meddled
    <3>1. \A r \in TurnRecords : /\ [r EXCEPT !.since = FALSE].st = r.st
                                 /\ [r EXCEPT !.since = FALSE].meddled = r.meddled
      BY DEF TurnRecords
    <3> QED  BY <2>1, <3>1, InboxDomain
  <2>4. Appends  BY <2>1, <2>2, <2>3, InboxDomain DEF Appends
  <2>5. \A h \in Hosts : Keeps(h)  BY <1>2, ClearEffect DEF Keeps, IType
  <2>6. UNCHANGED <<hostPid, robbed, req>>  BY <1>2 DEF RequestClear
  <2> QED  BY <2>4, <2>5, <2>6, MarkKept DEF Quiet, OwnInv
<1>3. CASE AnswerPending(a) \/ EndSession(a)
  <2>1. UNCHANGED <<turns, host, hostPid, robbed>>
    BY <1>3 DEF AnswerPending, EndSession, rows, history
  <2>2. req'.op \in {"answer", "end turns", "end row"}
    <3>1. CASE AnswerPending(a)  BY <3>1 DEF AnswerPending
    <3>2. CASE EndSession(a)
      <4> DEFINE op == IF PidAlive(a) THEN "end turns" ELSE "end row"
      <4>1. req' = [op |-> op, agent |-> a, id |-> 0]  BY <3>2 DEF EndSession
      <4>2. op \in {"end turns", "end row"}  OBVIOUS
      <4> HIDE DEF op
      <4> QED  BY <4>1, <4>2
    <3> QED  BY <1>3, <3>1, <3>2
  <2>3. Quiet  BY <2>1, SameInbox, UntouchedHost DEF Quiet
  <2> QED  BY <2>2, <2>3, QuietStep DEF CancelIsMarked
<1>4. ASSUME NEW i \in DOMAIN turns[a], CancelTurn(a, i) PROVE Quiet /\ CancelIsMarked'
  <2>1. /\ \A b \in Agents \ {a} : turns'[b] = turns[b]
        /\ Len(turns'[a]) = Len(turns[a])
        /\ turns'[a][i] = [turns[a][i] EXCEPT !.meddled = TRUE]
        /\ \A j \in 1..Len(turns[a]) : j # i => turns'[a][j] = turns[a][j]
    BY <1>4, CancelInbox DEF IType
  <2>2. turns'[a][i].st = turns[a][i].st /\ turns'[a][i].meddled
    <3>1. \A r \in TurnRecords : /\ [r EXCEPT !.meddled = TRUE].st = r.st
                                 /\ [r EXCEPT !.meddled = TRUE].meddled
      BY DEF TurnRecords
    <3> QED  BY <2>1, <3>1, InboxDomain
  <2>3. Appends
    <3>1. \A j \in 1..Len(turns[a]) : /\ turns'[a][j].st = turns[a][j].st
                                      /\ turns[a][j].meddled => turns'[a][j].meddled
      BY <2>1, <2>2
    <3> QED  BY <2>1, <3>1, InboxDomain DEF Appends
  <2>4. UNCHANGED <<host, hostPid, robbed>> /\ req' = [op |-> "cancel", agent |-> a, id |-> i]
    BY <1>4 DEF CancelTurn, history
  <2>5. CancelIsMarked'
    <3>1. DOMAIN turns'[a] = 1..Len(turns'[a])  BY DEF IType, TypeOK
    <3> QED  BY <2>1, <2>2, <2>4, <3>1, InboxDomain DEF CancelIsMarked
  <2> QED  BY <2>3, <2>4, <2>5, UntouchedHost DEF Quiet
<1> QED  BY <1>1, <1>2, <1>3, <1>4, QuietStep DEF Request, Enqueues

-----------------------------------------------------------------------------
(***************************************************************************)
(* Steps that write the status of turns.                                   *)
(***************************************************************************)
LEMMA WrittenTurns ==
  ASSUME IType, IType', NEW a \in Agents, NEW S, NEW state \in States,
         turns' = SetTurns(a, S, state)
  PROVE  /\ \A b \in Agents : DOMAIN turns'[b] = DOMAIN turns[b]
         /\ \A b \in Agents : \A i \in DOMAIN turns[b] :
              /\ b = a /\ i \in S => turns'[b][i].st = state
              /\ b # a \/ i \notin S => turns'[b][i].st = turns[b][i].st
              /\ SameTurn(turns'[b][i], turns[b][i])
<1>1. \A b \in Agents :
        /\ DOMAIN turns[b] = 1..Len(turns[b]) /\ Len(turns[b]) \in Nat
        /\ DOMAIN turns'[b] = 1..Len(turns'[b]) /\ Len(turns'[b]) \in Nat
  BY DEF IType, TypeOK
<1>2. TypeOK  BY DEF IType
<1>3. \A b \in Agents :
        /\ Len(turns'[b]) = Len(turns[b])
        /\ \A i \in 1..Len(turns[b]) :
             /\ turns'[b][i].st = IF b = a /\ i \in S THEN state ELSE turns[b][i].st
             /\ SameTurn(turns'[b][i], turns[b][i])
  BY <1>2, SetTurnsKeeps
<1> QED  BY <1>1, <1>3

LEMMA WrittenFlights ==
  ASSUME IType, IType', NEW a \in Agents, NEW S, NEW state \in States,
         turns' = SetTurns(a, S, state)
  PROVE  /\ \A b \in Agents : \A i, st :
              (b = a => i \notin S) /\ Delivers(b, i, st) => Delivers(b, i, st)'
         /\ \A b \in Agents \ {a} : InFlight(b)' = InFlight(b)
         /\ \A i \in InFlight(a)' :
              \/ i \in InFlight(a) /\ i \notin S
              \/ i \in S /\ state \in {"delivering", "streaming"}
<1>1. /\ \A b \in Agents : DOMAIN turns'[b] = DOMAIN turns[b]
      /\ \A b \in Agents : \A i \in DOMAIN turns[b] :
           /\ b = a /\ i \in S => turns'[b][i].st = state
           /\ b # a \/ i \notin S => turns'[b][i].st = turns[b][i].st
           /\ turns'[b][i].meddled = turns[b][i].meddled
  BY WrittenTurns DEF SameTurn
<1>2. \A b \in Agents : \A i, st :
        (b = a => i \notin S) /\ Delivers(b, i, st) => Delivers(b, i, st)'
  BY <1>1 DEF Delivers
<1>3. \A b \in Agents \ {a} : InFlight(b)' = InFlight(b)
  BY <1>1 DEF InFlight, TurnsIn
<1>4. \A i \in InFlight(a)' :
        \/ i \in InFlight(a) /\ i \notin S
        \/ i \in S /\ state \in {"delivering", "streaming"}
  BY <1>1 DEF InFlight, TurnsIn
<1> QED  BY <1>2, <1>3, <1>4

LEMMA OneTurnWritten ==
  ASSUME IType, IType', NEW a \in Agents, NEW n, n \in DOMAIN turns[a],
         NEW state \in States, turns' = SetTurns(a, {n}, state)
  PROVE  /\ n \in DOMAIN turns'[a] /\ turns'[a][n].st = state
         /\ turns'[a][n].meddled = turns[a][n].meddled
         /\ \A i, st : i # n /\ Delivers(a, i, st) => Delivers(a, i, st)'
         /\ InFlight(a)' \subseteq InFlight(a) \cup {n}
<1>1. PICK S : S = {n}  OBVIOUS
<1>2. turns' = SetTurns(a, S, state) /\ n \in S  BY <1>1
<1>3. turns'[a][n].st = state
  <2>1. TypeOK  BY DEF IType
  <2>2. n \in 1..Len(turns[a])  BY InboxDomain
  <2>3. SetTurns(a, S, state)[a][n].st = IF a = a /\ n \in S THEN state ELSE turns[a][n].st
    BY <2>1, <2>2, SetTurnsKeeps
  <2> QED  BY <1>2, <2>3
<1>4. DOMAIN turns'[a] = DOMAIN turns[a] /\ SameTurn(turns'[a][n], turns[a][n])
  BY <1>2, WrittenTurns
<1>5. \A i, st : i # n /\ Delivers(a, i, st) => Delivers(a, i, st)'
  BY <1>1, <1>2, WrittenFlights
<1>6. InFlight(a)' \subseteq InFlight(a) \cup {n}
  BY <1>1, <1>2, WrittenFlights
<1> QED  BY <1>3, <1>4, <1>5, <1>6 DEF SameTurn

\* The API cancels turns that nobody delivers, or marked ones.
LEMMA ApiWrites ==
  ASSUME IType, IType', OwnInv, NEW a \in Agents, NEW S,
         turns' = SetTurns(a, S, "cancelled"),
         \A i \in S \cap DOMAIN turns[a] :
            turns[a][i].meddled \/ turns[a][i].st = "queued",
         UNCHANGED <<host, hostPid, robbed>>, CancelIsMarked'
  PROVE  OwnStep
<1> USE DEF OwnInv
<1>1. "cancelled" \in States /\ "cancelled" \in Settled  BY DEF States, Settled
<1>2. \A b \in Agents : InFlight(b)' \subseteq InFlight(b)
  BY <1>1, WrittenFlights
<1>3. \A b \in Agents : \A i : \A st \in {"delivering", "streaming"} :
        Delivers(b, i, st) => Delivers(b, i, st)'
  <2> SUFFICES ASSUME NEW b \in Agents, NEW i, NEW st \in {"delivering", "streaming"}
               PROVE  Delivers(b, i, st) => Delivers(b, i, st)'
    OBVIOUS
  <2>1. CASE b # a \/ i \notin S  BY <1>1, <2>1, WrittenFlights
  <2>2. CASE b = a /\ i \in S
    <3>1. ASSUME Delivers(a, i, st) PROVE Delivers(a, i, st)'
      <4>1. i \in DOMAIN turns[a] /\ turns[a][i].meddled
        BY <2>2, <3>1 DEF Delivers, Settled
      <4> QED  BY <1>1, <2>2, <4>1, WrittenTurns DEF Delivers, SameTurn
    <3> QED  BY <2>2, <3>1
  <2> QED  BY <2>1, <2>2
<1>4. Sound' = Sound /\ Sound \subseteq Agents  BY DEF Sound
<1>5. SoleHost' /\ HostPidRefers'  BY <1>4 DEF SoleHost, HostPidRefers, HostsOf
<1>6. InFlightIsHeld'  BY <1>2, <1>4 DEF InFlightIsHeld, FlightHeld, Held
<1>7. HeldTurns'
  <2> SUFFICES ASSUME NEW b \in Sound, NEW h \in HostsOf(b, Running)
               PROVE  HoldsWell(b, h)'
    BY <1>4 DEF HeldTurns, HostsOf
  <2>1. HoldsWell(b, h)  BY DEF HeldTurns
  <2> QED  BY <1>3, <1>4, <2>1 DEF HoldsWell
<1>8. SettlesOnce
  <2>1. \A i \in TurnsIn(a, Settled) : i \in S => turns[a][i].meddled
    BY DEF TurnsIn, Settled
  <2> QED  BY <1>1, <1>4, <2>1, WrittenTurns DEF SettlesOnce, TurnsIn
<1> QED  BY <1>5, <1>6, <1>7, <1>8 DEF OwnStep

LEMMA CommitStep ==
  ASSUME IType, IType', OwnInv, Commit \/ ApiCrash
  PROVE  OwnStep
<1>1. /\ req # None /\ req \in Requests /\ req.agent \in Agents
      /\ req.op = "answer" => req.id \in 1..MaxAsks
  BY RequestFields
     DEF IType, Commit, ApiCrash, EnqueueAnswer, WriteCancel, EndTurns, EndAsks, EndRow
<1>2. UNCHANGED <<host, hostPid, robbed>>
  BY DEF Commit, ApiCrash, EnqueueAnswer, WriteCancel, EndTurns, EndAsks, EndRow, rows,
         history
<1>3. CancelIsMarked'
  <2>1. req' = None \/ req'.op \in {"end asks", "end row"}
    <3>1. req.op # "answer" =>
            \A op \in {"end asks", "end row"} : [req EXCEPT !.op = op].op = op
      BY <1>1 DEF Requests
    <3> QED
      BY <1>1, <3>1
         DEF Commit, ApiCrash, EnqueueAnswer, WriteCancel, EndTurns, EndAsks, EndRow
  <2> QED  BY <2>1 DEF CancelIsMarked
<1>4. ASSUME Appends PROVE OwnStep
  BY <1>2, <1>3, <1>4, QuietStep, UntouchedHost DEF Quiet
<1>5. CASE EnqueueAnswer
  <2> DEFINE turn == [NewTurn(req.agent, "answer") EXCEPT !.ref = req.id]
  <2>1. req.id \in 0..(MaxTurns + MaxAsks) /\ "answer" \in Kinds
    BY <1>1, <1>5, ResidentAgentsAssumption DEF EnqueueAnswer, Kinds
  <2>2. turn \in QueuedTurns  BY <1>1, <2>1, NewTurnType DEF IType
  <2>3. EnqueueTurn(req.agent, turn)  BY <1>5 DEF EnqueueAnswer
  <2> HIDE DEF turn
  <2> QED  BY <1>1, <1>4, <2>2, <2>3, AppendedTurn
<1>6. CASE EndAsks \/ EndRow \/ ApiCrash
  BY <1>4, <1>6, SameInbox DEF EndAsks, EndRow, ApiCrash, rows
<1>7. CASE WriteCancel
  <2>1. turns' = SetTurns(req.agent, {req.id}, "cancelled") /\ req.op = "cancel"
    BY <1>7 DEF WriteCancel
  <2>2. turns[req.agent][req.id].meddled  BY <1>1, <2>1 DEF OwnInv, CancelIsMarked
  <2> QED  BY <1>1, <1>2, <1>3, <2>1, <2>2, ApiWrites
<1>8. CASE EndTurns
  <2>1. turns' = SetTurns(req.agent, Cancellable(req.agent), "cancelled")
    BY <1>8 DEF EndTurns
  <2>2. \A i \in Cancellable(req.agent) : turns[req.agent][i].st = "queued"
    BY DEF Cancellable, Queued, TurnsIn
  <2> QED  BY <1>1, <1>2, <1>3, <2>1, <2>2, ApiWrites
<1> QED  BY <1>5, <1>6, <1>7, <1>8 DEF Commit

-----------------------------------------------------------------------------
(***************************************************************************)
(* Hosts that go on with what they serve, stop or are born.                *)
(***************************************************************************)
LEMMA GoesOn ==
  ASSUME NEW h \in Hosts, NEW pc \in Serving, NEW ctl, host[h].pc \in Serving,
         Stands(h, pc, host[h].turn, ctl),
         pc = "user" <=> host[h].pc = "user", pc = "control" <=> host[h].pc = "control",
         pc = "control" => ctl = host[h].ctl
  PROVE  \A k \in Hosts : Keeps(k)
<1>1. Keeps(h)  BY DEF Stands, Keeps, Serving, Running
<1>2. \A k \in Hosts \ {h} : Keeps(k)  BY UntouchedHost DEF Stands, OnlyHost
<1> QED  BY <1>1, <1>2

LEMMA Stops ==
  ASSUME NEW h \in Hosts, NEW pc, Leaves(h, pc),
         \/ pc = "dead"
         \/ pc \in {"free", "boot"} /\ host[h].pc \notin Serving \cup {"dead"}
         \/ pc \in {"free", "boot"} /\ host[h].pc \notin Serving
            /\ \A a \in Agents : hostPid[a] # h
  PROVE  \A k \in Hosts : Keeps(k)
<1>1. Keeps(h)  BY DEF Leaves, Keeps, Serving, Running
<1>2. \A k \in Hosts \ {h} : Keeps(k)  BY UntouchedHost DEF Leaves, OnlyHost
<1> QED  BY <1>1, <1>2

QuietHost(h) ==
  \/ Ask(h) \/ EndTurn(h) \/ StartInner(h) \/ NoticeEnd(h) \/ IdleReap(h) \/ Teardown(h)
  \/ RestartInner(h) \/ RestartUnreadable(h) \/ WatchdogInterrupt(h)
  \/ Exit(h) \/ Kill(h) \/ Evict(h)
  \/ \E i \in DOMAIN pipe[h] : ReadEvent(h, i)
  \/ \E a \in Agents : SpawnSessionHost(a, h)

LEMMA QuietHostKeeps ==
  ASSUME IType, NEW h \in Hosts, QuietHost(h)
  PROVE  \A k \in Hosts : Keeps(k)
<1> USE DEF IType
<1>1. CASE Ask(h) \/ EndTurn(h)
  <2>1. host[h].pc \in Serving  BY <1>1 DEF Ask, EndTurn, Serving
  <2>2. Stands(h, host[h].pc, host[h].turn, host[h].ctl)
    BY <1>1, AskEffect, EndTurnEffect
  <2> QED  BY <2>1, <2>2, GoesOn
<1>2. CASE StartInner(h)
  <2>1. host[h].pc = "claimed"  BY <1>2 DEF StartInner, At
  <2>2. Stands(h, "loop", host[h].turn, host[h].ctl)  BY <1>2, StartInnerEffect
  <2>3. {"claimed", "loop"} \subseteq Serving  BY DEF Serving, Running
  <2> QED  BY <2>1, <2>2, <2>3, GoesOn
<1>3. CASE NoticeEnd(h) \/ IdleReap(h)
  <2>1. host' = [host EXCEPT ![h].shut = TRUE] /\ host[h].pc \in Serving
    BY <1>3 DEF NoticeEnd, IdleReap, Looping, At, Serving, Running
  <2> QED  BY <2>1, ShutEffect, GoesOn
<1>4. CASE Teardown(h)
  <2>1. host[h].pc = "loop"  BY <1>4 DEF Teardown, At
  <2> QED  BY <1>4, <2>1, TeardownEffect, GoesOn DEF Serving, Running
<1>5. CASE RestartInner(h) \/ RestartUnreadable(h)
  <2>1. host[h].pc = "restart"  BY <1>5 DEF RestartInner, RestartUnreadable, At
  <2>2. Back(h) \in {"loop", "wait"}  BY DEF Back
  <2>3. Stands(h, Back(h), host[h].turn, 0)
    <3>1. CASE RestartInner(h)  BY <3>1, RestartEffect
    <3>2. CASE RestartUnreadable(h)
      <4>1. Back(h) \in Pcs  BY <2>2 DEF Pcs, Serving, Running
      <4> QED  BY <3>2, <4>1, ControlDoneEffect DEF RestartUnreadable
    <3> QED  BY <1>5, <3>1, <3>2
  <2> QED  BY <2>1, <2>2, <2>3, GoesOn DEF Serving, Running
<1>6. CASE WatchdogInterrupt(h)
  <2>1. host[h].pc = "wait"  BY <1>6 DEF WatchdogInterrupt
  <2> QED  BY <1>6, <2>1, WatchdogInterruptEffect, GoesOn DEF Serving, Running
<1>7. CASE Exit(h)
  <2>1. host[h].pc = "exiting"  BY <1>7 DEF Exit, At
  <2> QED  BY <1>7, <2>1, ExitEffect, Stops DEF Serving, Running
<1>8. CASE Kill(h)  BY <1>8, DieEffect, Stops DEF Kill
<1>9. CASE Evict(h)
  <2>1. CASE Die(h)  BY <2>1, DieEffect, Stops
  <2>2. CASE host[h].pc \in Running /\ host' = [host EXCEPT ![h].shut = TRUE]
    BY <2>2, ShutEffect, GoesOn DEF Serving
  <2>3. CASE host' = host  BY <2>3, UntouchedHost
  <2> QED  BY <1>9, <2>1, <2>2, <2>3 DEF Evict
<1>10. ASSUME NEW i \in DOMAIN pipe[h], ReadEvent(h, i) PROVE \A k \in Hosts : Keeps(k)
  <2>1. host[h].pc \in Serving  BY <1>10 DEF ReadEvent, At, Serving
  <2> QED  BY <1>10, <2>1, ReadEffect, GoesOn
<1>11. ASSUME NEW a \in Agents, SpawnSessionHost(a, h) PROVE \A k \in Hosts : Keeps(k)
  <2>1. host[h].pc \in {"free", "dead"} /\ \A b \in Agents : hostPid[b] # h
    BY <1>11 DEF SpawnSessionHost, Unreferenced
  <2> QED  BY <1>11, <2>1, SpawnEffect, Stops DEF Serving, Running
<1> QED  BY <1>1, <1>2, <1>3, <1>4, <1>5, <1>6, <1>7, <1>8, <1>9, <1>10, <1>11 DEF QuietHost

LEMMA QuietHostStep ==
  ASSUME IType, IType', OwnInv, NEW h \in Hosts, QuietHost(h)
  PROVE  OwnStep
<1>1. UNCHANGED <<turns, hostPid, robbed, req>>
  BY DEF QuietHost, Ask, EndTurn, StartInner, NoticeEnd, IdleReap, Teardown, RestartInner,
         RestartUnreadable, WatchdogInterrupt, Exit, Kill, Evict, ReadEvent,
         SpawnSessionHost, rows, history
<1>2. Appends  BY <1>1, SameInbox
<1> QED  BY <1>1, <1>2, QuietHostKeeps, QuietStep, MarkKept DEF Quiet, OwnInv

LEMMA DaemonStep ==
  ASSUME IType, IType', OwnInv,
         \/ OrphanSweep \/ SupervisorPass \/ DaemonCrash
         \/ UNCHANGED vars
  PROVE  OwnStep
<1>1. UNCHANGED <<turns, host, hostPid, robbed, req>>
  <2>1. CASE UNCHANGED vars  BY <2>1, FramedVars
  <2> QED  BY <2>1 DEF OrphanSweep, SupervisorPass, DaemonCrash, rows, history
<1>2. Appends  BY <1>1, SameInbox
<1> QED  BY <1>1, <1>2, UntouchedHost, QuietStep, MarkKept DEF Quiet, OwnInv

-----------------------------------------------------------------------------
(***************************************************************************)
(* Agents change hands.                                                    *)
(***************************************************************************)
LEMMA FlightKept ==
  ASSUME NEW b \in Agents, FlightHeld(b), InFlight(b)' = InFlight(b),
         hostPid'[b] = hostPid[b], host'[hostPid[b]] = host[hostPid[b]]
  PROVE  FlightHeld(b)'
<1>1. Held(hostPid[b])' = Held(hostPid[b])  BY DEF Held
<1> QED  BY <1>1 DEF FlightHeld

LEMMA ClaimStep ==
  ASSUME IType, IType', OwnInv, NEW h \in Hosts, ClaimHost(h)
  PROVE  OwnStep
<1> USE DEF OwnInv
<1> DEFINE a == Agent(h)
<1>1. host[h].pc = "boot" /\ a \in Agents /\ a = host[h].agent
  BY ServingAgent DEF ClaimHost, At
<1>2. UNCHANGED <<turns, robbed, req>> /\ Sound' = Sound
  BY DEF ClaimHost, history, Sound
<1>3. CancelIsMarked'  BY <1>2, SameInbox, MarkKept
<1>4. CASE hostPid[a] # None
  <2>1. host' = [host EXCEPT ![h].pc = "exiting"] /\ UNCHANGED hostPid
    BY <1>4 DEF ClaimHost, Claimable
  <2>2. Stands(h, "exiting", host[h].turn, host[h].ctl)
    BY <2>1, PcEffect DEF Pcs, IType
  <2>3. \A k \in Hosts : Keeps(k)
    <3>1. Keeps(h)  BY <1>1, <2>2 DEF Stands, Keeps, Serving, Running
    <3> QED  BY <2>2, <3>1, UntouchedHost DEF Stands, OnlyHost
  <2> QED  BY <1>2, <1>3, <2>1, <2>3, SameInbox, QuietStep DEF Quiet
<1>5. CASE hostPid[a] = None
  <2>1. /\ host' = [host EXCEPT ![h].pc = "claimed"]
        /\ hostPid' = [hostPid EXCEPT ![a] = h]
    BY <1>5 DEF ClaimHost, Claimable
  <2>2. Stands(h, "claimed", host[h].turn, host[h].ctl)
    BY <2>1, PcEffect DEF Pcs, Serving, IType
  <2> HIDE DEF a
  <2>3. /\ \A k \in Hosts \ {h} : host'[k] = host[k]
        /\ host'[h].pc = "claimed" /\ host'[h].agent = a
    BY <1>1, <2>2 DEF Stands, OnlyHost
  <2>4. hostPid'[a] = h /\ \A b \in Agents \ {a} : hostPid'[b] = hostPid[b]
    BY <1>1, <2>1 DEF IType, TypeOK
  <2>5. \A b \in Agents : hostPid[b] # h
    BY <1>1, ResidentAgentsAssumption DEF HostPidRefers, Serving, Running
  <2>6. SoleHost'
    BY <1>1, <1>2, <1>5, <2>3, <2>4, ResidentAgentsAssumption
       DEF SoleHost, HostsOf, Sound, Serving, Running
  <2>7. HostPidRefers'
    <3> SUFFICES ASSUME NEW b \in Agents, hostPid'[b] # None
                 PROVE  \/ host'[hostPid'[b]].pc = "dead"
                        \/ host'[hostPid'[b]].pc \in Serving /\ host'[hostPid'[b]].agent = b
      BY DEF HostPidRefers
    <3>1. CASE b = a  BY <2>3, <2>4, <3>1 DEF Serving
    <3>2. CASE b # a
      <4>1. hostPid'[b] = hostPid[b] /\ hostPid[b] \in Hosts \ {h}
        BY <2>4, <2>5, <3>2 DEF IType, TypeOK
      <4> QED  BY <2>3, <4>1 DEF HostPidRefers
    <3> QED  BY <3>1, <3>2
  <2>8. \A b \in Agents : InFlight(b)' = InFlight(b)  BY <1>2 DEF InFlight, TurnsIn
  <2>9. InFlightIsHeld'
    <3> SUFFICES ASSUME NEW b \in Sound, InFlight(b) # {} PROVE FlightHeld(b)'
      BY <1>2, <2>8 DEF InFlightIsHeld, FlightHeld, Sound
    <3>1. b # a /\ b \in Agents  BY <1>5 DEF InFlightIsHeld, FlightHeld, Sound
    <3>2. hostPid'[b] = hostPid[b] /\ hostPid[b] \in Hosts \ {h}
      BY <2>4, <2>5, <3>1 DEF InFlightIsHeld, FlightHeld, IType, TypeOK
    <3> QED  BY <2>3, <2>8, <3>1, <3>2, FlightKept DEF InFlightIsHeld
  <2>10. HeldTurns'
    <3> SUFFICES ASSUME NEW b \in Sound, NEW k \in HostsOf(b, Running)'
                 PROVE  HoldsWell(b, k)'
      BY <1>2 DEF HeldTurns
    <3>1. k \in Hosts \ {h}  BY <2>3 DEF HostsOf, Running
    <3> QED  BY <1>2, <2>3, <3>1 DEF HeldTurns, HostsOf, HoldsWell, Delivers
  <2> QED  BY <1>2, <1>3, <2>6, <2>7, <2>9, <2>10, SameInbox, AppendsSettle DEF OwnStep
<1> QED  BY <1>4, <1>5

LEMMA ReleaseStep ==
  ASSUME IType, IType', OwnInv, NEW h \in Hosts, Release(h) \/ StartUnreadable(h)
  PROVE  OwnStep
<1> USE DEF OwnInv
<1> DEFINE a == Agent(h)
<1>1. host[h].pc \in {"claimed", "teardown"} /\ a \in Agents /\ a = host[h].agent
      /\ host[h].turn = 0
  BY ServingAgent DEF Release, StartUnreadable, At, Serving, Running, Shape
<1>2. UNCHANGED <<turns, robbed, req>> /\ Sound' = Sound
  BY DEF Release, StartUnreadable, history, Sound
<1>3. CancelIsMarked'  BY <1>2, SameInbox, MarkKept
<1>4. /\ host' = [host EXCEPT ![h].pc = "exiting"]
      /\ hostPid' = [hostPid EXCEPT ![a] = None]
  BY DEF Release, StartUnreadable, ReleaseHost
<1>5. Stands(h, "exiting", host[h].turn, host[h].ctl)
  BY <1>4, PcEffect DEF Pcs, IType
<1> HIDE DEF a
<1>6. /\ \A k \in Hosts \ {h} : host'[k] = host[k]
      /\ host'[h].pc = "exiting" /\ host'[h].agent = a
  BY <1>1, <1>5 DEF Stands, OnlyHost
<1>7. hostPid'[a] = None /\ \A b \in Agents \ {a} : hostPid'[b] = hostPid[b]
  BY <1>1, <1>4 DEF IType, TypeOK
<1>8. a \in Sound => hostPid[a] = h
  BY <1>1 DEF SoleHost, HostsOf, Serving, Running
<1>9. \A b \in Agents \ {a} : hostPid[b] # h
  BY <1>1, ResidentAgentsAssumption DEF HostPidRefers, Serving, Running
<1>10. SoleHost'
  <2> SUFFICES ASSUME NEW b \in Sound, NEW k \in HostsOf(b, Serving)'
               PROVE  hostPid'[b] = k
    BY <1>2 DEF SoleHost
  <2>1. k \in Hosts \ {h}  BY <1>6 DEF HostsOf, Serving, Running
  <2>2. hostPid[b] = k  BY <1>6, <2>1 DEF SoleHost, HostsOf
  <2>3. b # a  BY <1>8, <2>1, <2>2
  <2> QED  BY <1>7, <2>2, <2>3 DEF Sound
<1>11. HostPidRefers'
  <2> SUFFICES ASSUME NEW b \in Agents, hostPid'[b] # None
               PROVE  \/ host'[hostPid'[b]].pc = "dead"
                      \/ host'[hostPid'[b]].pc \in Serving /\ host'[hostPid'[b]].agent = b
    BY DEF HostPidRefers
  <2>1. b # a /\ hostPid'[b] = hostPid[b] /\ hostPid[b] \in Hosts \ {h}
    BY <1>7, <1>9 DEF IType, TypeOK
  <2> QED  BY <1>6, <2>1 DEF HostPidRefers
<1>12. \A b \in Agents : InFlight(b)' = InFlight(b)  BY <1>2 DEF InFlight, TurnsIn
<1>13. a \in Sound => InFlight(a) = {}
  <2> SUFFICES ASSUME a \in Sound PROVE InFlight(a) = {}  OBVIOUS
  <2>1. InFlight(a) \subseteq {0}
    BY <1>1, <1>8 DEF InFlightIsHeld, FlightHeld, Held, Serving, Running
  <2>2. 0 \notin InFlight(a)  BY <1>1, InboxDomain DEF InFlight, TurnsIn
  <2> QED  BY <2>1, <2>2
<1>14. InFlightIsHeld'
  <2> SUFFICES ASSUME NEW b \in Sound, InFlight(b) # {} PROVE FlightHeld(b)'
    BY <1>2, <1>12 DEF InFlightIsHeld, FlightHeld, Sound
  <2>1. b # a /\ b \in Agents  BY <1>13 DEF Sound
  <2>2. hostPid'[b] = hostPid[b] /\ hostPid[b] \in Hosts \ {h}
    BY <1>7, <1>9, <2>1 DEF InFlightIsHeld, FlightHeld, IType, TypeOK
  <2> QED  BY <1>6, <1>12, <2>1, <2>2, FlightKept DEF InFlightIsHeld
<1>15. HeldTurns'
  <2> SUFFICES ASSUME NEW b \in Sound, NEW k \in HostsOf(b, Running)'
               PROVE  HoldsWell(b, k)'
    BY <1>2 DEF HeldTurns
  <2>1. k \in Hosts \ {h}  BY <1>6 DEF HostsOf, Running
  <2> QED  BY <1>2, <1>6, <2>1 DEF HeldTurns, HostsOf, HoldsWell, Delivers
<1> QED  BY <1>2, <1>3, <1>10, <1>11, <1>14, <1>15, SameInbox, AppendsSettle DEF OwnStep

-----------------------------------------------------------------------------
(***************************************************************************)
(* A host delivers what it holds.                                          *)
(***************************************************************************)
LEMMA Owns ==
  ASSUME IType, OwnInv, NEW h \in Hosts, host[h].pc \in Running, Agent(h) \in Sound
  PROVE  /\ hostPid[Agent(h)] = h
         /\ HoldsWell(Agent(h), h)
         /\ InFlight(Agent(h)) \subseteq Held(h)
<1>1. h \in HostsOf(Agent(h), Running) /\ h \in HostsOf(Agent(h), Serving)
  BY DEF HostsOf, Agent, Serving
<1>2. hostPid[Agent(h)] = h  BY <1>1 DEF OwnInv, SoleHost
<1> QED  BY <1>1, <1>2 DEF OwnInv, HeldTurns, InFlightIsHeld, FlightHeld, Serving

LEMMA DeliveryStep ==
  ASSUME IType, IType', OwnInv, NEW h \in Hosts, NEW S, NEW state \in States,
         NEW a \in Agents, a = host[h].agent, turns' = SetTurns(a, S, state),
         host[h].pc \in Running, host'[h].pc \in Running, OnlyHost(h),
         host'[h].agent = host[h].agent, UNCHANGED <<hostPid, robbed, req>>,
         a \in Sound =>
           /\ InFlight(a)' \subseteq Held(h)'
           /\ HoldsWell(a, h)'
           /\ \A i \in S \cap DOMAIN turns[a] :
                turns[a][i].meddled \/ turns[a][i].st \notin Settled
  PROVE  OwnStep
<1> USE DEF OwnInv
<1>1. host'[h].agent = a  OBVIOUS
<1>2. Sound' = Sound /\ Sound \subseteq Agents  BY DEF Sound
<1>3. \A k \in Hosts \ {h} : host'[k] = host[k]  BY DEF OnlyHost
<1>4. /\ \A b \in Agents \ {a} : InFlight(b)' = InFlight(b)
      /\ \A b \in Agents \ {a} : \A i, st : Delivers(b, i, st) => Delivers(b, i, st)'
  BY WrittenFlights
<1>5. a \in Sound => hostPid[a] = h  BY <1>1 DEF SoleHost, HostsOf, Serving
<1>6. \A b \in Agents \ {a} : hostPid[b] # h
  BY <1>1, ResidentAgentsAssumption DEF HostPidRefers, Serving, Running
<1>7. SoleHost'
  BY <1>1, <1>2, <1>3 DEF SoleHost, HostsOf, Serving
<1>8. HostPidRefers'
  <2> SUFFICES ASSUME NEW b \in Agents, hostPid[b] # None
               PROVE  \/ host'[hostPid[b]].pc = "dead"
                      \/ host'[hostPid[b]].pc \in Serving /\ host'[hostPid[b]].agent = b
    BY DEF HostPidRefers
  <2>1. hostPid[b] \in Hosts  BY DEF IType, TypeOK
  <2>2. CASE hostPid[b] = h
    <3>1. b = a  BY <1>6, <2>2
    <3> QED  BY <1>1, <2>2, <3>1 DEF Serving
  <2>3. CASE hostPid[b] # h  BY <1>3, <2>1, <2>3 DEF HostPidRefers
  <2> QED  BY <2>2, <2>3
<1>9. CancelIsMarked'
  <2> SUFFICES ASSUME req # None, req.op = "cancel" PROVE CancelIsMarked'  BY DEF CancelIsMarked
  <2>1. req.agent \in Agents  BY RequestFields DEF IType
  <2>2. /\ \A b \in Agents : DOMAIN turns'[b] = DOMAIN turns[b]
        /\ \A b \in Agents : \A i \in DOMAIN turns[b] :
             turns'[b][i].meddled = turns[b][i].meddled
    BY <1>1, WrittenTurns DEF SameTurn
  <2> QED  BY <2>1, <2>2 DEF CancelIsMarked
<1>10. InFlightIsHeld'
  <2> SUFFICES ASSUME NEW b \in Sound PROVE FlightHeld(b)'  BY <1>2 DEF InFlightIsHeld
  <2>1. CASE b = a
    <3>1. hostPid'[a] = h /\ h # None  BY <1>5, <2>1, ResidentAgentsAssumption
    <3>2. Held(hostPid[a])' = Held(h)'  BY <3>1 DEF Held
    <3>3. InFlight(a)' \subseteq Held(h)'  BY <2>1
    <3> QED  BY <2>1, <3>1, <3>2, <3>3 DEF FlightHeld
  <2>2. CASE b # a
    <3>1. b \in Agents /\ InFlight(b)' = InFlight(b)  BY <1>2, <1>4, <2>2
    <3>2. CASE InFlight(b) = {}  BY <3>1, <3>2 DEF FlightHeld
    <3>3. CASE InFlight(b) # {}
      <4>1. hostPid[b] \in Hosts \ {h}
        BY <1>6, <2>2, <3>1, <3>3 DEF InFlightIsHeld, FlightHeld, IType, TypeOK
      <4> QED  BY <1>3, <3>1, <4>1, FlightKept DEF InFlightIsHeld
    <3> QED  BY <3>2, <3>3
  <2> QED  BY <2>1, <2>2
<1>11. HeldTurns'
  <2> SUFFICES ASSUME NEW b \in Sound, NEW k \in HostsOf(b, Running)'
               PROVE  HoldsWell(b, k)'
    BY <1>2 DEF HeldTurns
  <2>0. k \in Hosts  BY DEF HostsOf
  <2>1. CASE k = h
    <3>1. b = a  BY <1>1, <2>1 DEF HostsOf
    <3> QED  BY <2>1, <3>1
  <2>2. CASE k # h
    <3>1. k \in HostsOf(b, Running)  BY <1>3, <2>0, <2>2 DEF HostsOf
    <3>2. b # a  BY <1>5, <2>2, <3>1 DEF SoleHost, HostsOf, Serving
    <3> QED  BY <1>2, <1>3, <1>4, <2>0, <2>2, <3>1, <3>2 DEF HeldTurns, HoldsWell
  <2> QED  BY <2>1, <2>2
<1>12. SettlesOnce
  <2>1. a \in Sound => \A i \in TurnsIn(a, Settled) : i \in S => turns[a][i].meddled
    BY DEF TurnsIn
  <2> QED  BY <1>1, <1>2, <2>1, WrittenTurns DEF SettlesOnce, TurnsIn
<1> QED  BY <1>7, <1>8, <1>9, <1>10, <1>11, <1>12 DEF OwnStep

\* The next turn is taken from the inbox.
LEMMA ClaimTurnStep ==
  ASSUME IType, IType', OwnInv, NEW h \in Hosts, ClaimTurn(h)
  PROVE  OwnStep
<1>1. PICK a \in Agents : a = host[h].agent /\ Agent(h) = a /\ Shape(host[h])
  BY ServingAgent DEF ClaimTurn, Looping, At, Serving, Running
<1>2. host[h].pc \in {"loop", "wait"}  BY DEF ClaimTurn, Looping, At
<1>3. PICK i \in Deliverable(h) :
        /\ turns' = SetTurns(Agent(h), {i}, "delivering")
        /\ host' = [host EXCEPT ![h] =
                      IF turns[Agent(h)][i].kind = "user"
                        THEN [@ EXCEPT !.pc = "user", !.turn = i]
                        ELSE [@ EXCEPT !.pc = "control", !.ctl = i]]
  BY DEF ClaimTurn
<1>4. i \in DOMAIN turns[a] /\ turns[a][i].st = "queued"
      /\ (host[h].pc = "wait" => turns[a][i].kind # "user")
  BY <1>1, <1>3 DEF Deliverable, Queued, UserTurnsIn, TurnsIn
<1>5. i \in 0..MaxTurns
  <2>1. i \in 1..Len(turns[a]) /\ Len(turns[a]) <= MaxTurns /\ Len(turns[a]) \in Nat
    BY <1>4 DEF IType, TypeOK
  <2> QED  BY <2>1, ResidentAgentsAssumption
<1>6. UNCHANGED <<hostPid, robbed, req>>  BY DEF ClaimTurn, history
<1>7. "delivering" \in States  BY DEF States
<1>8. /\ Delivers(a, i, "delivering")'
      /\ \A j, st : j # i /\ Delivers(a, j, st) => Delivers(a, j, st)'
      /\ InFlight(a)' \subseteq InFlight(a) \cup {i}
  <2>1. turns' = SetTurns(a, {i}, "delivering")  BY <1>1, <1>3
  <2>2. /\ i \in DOMAIN turns'[a] /\ turns'[a][i].st = "delivering"
        /\ \A j, st : j # i /\ Delivers(a, j, st) => Delivers(a, j, st)'
        /\ InFlight(a)' \subseteq InFlight(a) \cup {i}
    <3>1. i \in DOMAIN turns[a]  BY <1>4
    <3>2. /\ i \in DOMAIN turns'[a] /\ turns'[a][i].st = "delivering"
          /\ turns'[a][i].meddled = turns[a][i].meddled
          /\ \A j, st : j # i /\ Delivers(a, j, st) => Delivers(a, j, st)'
          /\ InFlight(a)' \subseteq InFlight(a) \cup {i}
      BY <1>7, <2>1, <3>1, OneTurnWritten, Zenon
    <3> QED  BY <3>2
  <2> QED  BY <2>2 DEF Delivers
<1>9. turns[a][i].st \notin Settled  BY <1>4 DEF Settled
<1>10. ASSUME a \in Sound
       PROVE  /\ HoldsWell(a, h) /\ InFlight(a) \subseteq {host[h].turn}
              /\ 0 \notin InFlight(a)
  <2>1. HoldsWell(a, h) /\ InFlight(a) \subseteq Held(h)
    BY <1>1, <1>2, <1>10, Owns DEF Running
  <2> QED  BY <1>2, <2>1, InboxDomain DEF Held, InFlight, TurnsIn
<1>11. CASE turns[a][i].kind = "user"
  <2>1. host' = [host EXCEPT ![h] = [@ EXCEPT !.pc = "user", !.turn = i]]
    BY <1>1, <1>3, <1>11
  <2>2. Stands(h, "user", i, host[h].ctl)  BY <1>5, <2>1, ClaimUserEffect DEF IType
  <2>3. host[h].turn = 0  BY <1>1, <1>2, <1>4, <1>11 DEF Shape
  <2>4. a \in Sound => InFlight(a)' \subseteq Held(h)' /\ HoldsWell(a, h)'
    BY <1>8, <1>10, <2>2, <2>3 DEF Stands, Held, HoldsWell
  <2>5. host[h].pc \in Running /\ host'[h].pc \in Running
    BY <1>2, <2>2 DEF Stands, Running
  <2> QED  BY <1>1, <1>3, <1>6, <1>7, <1>9, <2>2, <2>4, <2>5, DeliveryStep DEF Stands
<1>12. CASE turns[a][i].kind # "user"
  <2>1. host' = [host EXCEPT ![h] = [@ EXCEPT !.pc = "control", !.ctl = i]]
    BY <1>1, <1>3, <1>12
  <2>2. Stands(h, "control", host[h].turn, i)  BY <1>5, <2>1, ClaimControlEffect DEF IType
  <2>3. ASSUME a \in Sound PROVE InFlight(a)' \subseteq Held(h)'
    BY <1>8, <1>10, <2>2, <2>3 DEF Stands, Held
  <2>4. ASSUME a \in Sound PROVE HoldsWell(a, h)'
    <3>1. PICK t : t = host[h].turn  OBVIOUS
    <3>2. t # 0 => Delivers(a, t, "streaming")  BY <1>2, <1>10, <2>4, <3>1 DEF HoldsWell
    <3>3. t # 0 => t # i  BY <1>4, <1>9, <3>2 DEF Delivers
    <3>4. t # 0 => Delivers(a, t, "streaming")'  BY <1>8, <3>2, <3>3
    <3> QED  BY <1>8, <2>2, <3>1, <3>4 DEF Stands, HoldsWell
  <2>5. host[h].pc \in Running /\ host'[h].pc \in Running
    BY <1>2, <2>2 DEF Stands, Running
  <2> QED
    BY <1>1, <1>3, <1>6, <1>7, <1>9, <2>2, <2>3, <2>4, <2>5, DeliveryStep DEF Stands
<1> QED  BY <1>11, <1>12

\* A user turn is sent.
LEMMA SendStep ==
  ASSUME IType, IType', OwnInv, NEW h \in Hosts, SendUserTurn(h)
  PROVE  OwnStep
<1>1. PICK a \in Agents : a = host[h].agent /\ Agent(h) = a /\ Shape(host[h])
  BY ServingAgent DEF SendUserTurn, At, Serving, Running
<1>2. host[h].pc = "user" /\ turns' = SetTurns(a, {host[h].turn}, "streaming")
      /\ UNCHANGED <<hostPid, robbed, req>>
  BY <1>1 DEF SendUserTurn, At, history
<1>3. Stands(h, "wait", host[h].turn, host[h].ctl)  BY SendEffect DEF IType
<1>4. "streaming" \in States  BY DEF States
<1>5. ASSUME a \in Sound
      PROVE  /\ InFlight(a)' \subseteq Held(h)' /\ HoldsWell(a, h)'
             /\ \A i \in {host[h].turn} \cap DOMAIN turns[a] :
                  turns[a][i].meddled \/ turns[a][i].st \notin Settled
  <2>1. HoldsWell(a, h) /\ InFlight(a) \subseteq Held(h)
    BY <1>1, <1>2, <1>5, Owns DEF Running
  <2>0. PICK t : t = host[h].turn  OBVIOUS
  <2>2. Delivers(a, t, "delivering")
    BY <1>1, <1>2, <2>0, <2>1 DEF HoldsWell, Shape
  <2>3. InFlight(a)' \subseteq Held(h)'
    BY <1>2, <1>3, <1>4, <2>1, WrittenFlights DEF Stands, Held
  <2>4. Delivers(a, t, "streaming")'
    <3>1. t \in DOMAIN turns[a]  BY <2>2 DEF Delivers
    <3>2. turns' = SetTurns(a, {t}, "streaming")  BY <1>2, <2>0
    <3>3. t \in DOMAIN turns'[a] /\ turns'[a][t].st = "streaming"
      BY <1>4, <3>1, <3>2, OneTurnWritten
    <3> QED  BY <3>3 DEF Delivers
  <2>5. HoldsWell(a, h)'  BY <1>3, <2>0, <2>4 DEF Stands, HoldsWell
  <2> QED  BY <2>0, <2>2, <2>3, <2>5 DEF Delivers, Settled
<1>6. host[h].pc \in Running /\ host'[h].pc \in Running
  BY <1>2, <1>3 DEF Stands, Running
<1> QED  BY <1>1, <1>2, <1>3, <1>4, <1>5, <1>6, DeliveryStep DEF Stands

\* A control is delivered.
LEMMA DeliverStep ==
  ASSUME IType, IType', OwnInv, NEW h \in Hosts, DeliverControl(h)
  PROVE  OwnStep
<1>1. PICK a \in Agents : a = host[h].agent /\ Agent(h) = a /\ Shape(host[h])
  BY ServingAgent DEF DeliverControl, At, Serving, Running
<1>2. host[h].pc = "control" /\ turns' = SetTurns(a, {host[h].ctl}, "done")
      /\ UNCHANGED <<hostPid, robbed, req>>
  BY <1>1 DEF DeliverControl, FinishControl, At, history
<1>3. PICK pc \in {Back(h), "restart"} :
        Stands(h, pc, host[h].turn, IF pc = "restart" THEN host[h].ctl ELSE 0)
  BY DeliverEffect DEF IType
<1>4. pc \in {"loop", "wait", "restart"}  BY DEF Back
<1>5. "done" \in States /\ "done" \in Settled  BY DEF States, Settled
<1>6. ASSUME a \in Sound
      PROVE  /\ InFlight(a)' \subseteq Held(h)' /\ HoldsWell(a, h)'
             /\ \A i \in {host[h].ctl} \cap DOMAIN turns[a] :
                  turns[a][i].meddled \/ turns[a][i].st \notin Settled
  <2>1. HoldsWell(a, h) /\ InFlight(a) \subseteq Held(h)
    BY <1>1, <1>2, <1>6, Owns DEF Running
  <2>2. Delivers(a, host[h].ctl, "delivering")  BY <1>2, <2>1 DEF HoldsWell
  <2>3. PICK t : t = host[h].turn  OBVIOUS
  <2>4. InFlight(a)' \subseteq Held(h)'
    BY <1>2, <1>3, <1>5, <2>1, WrittenFlights DEF Stands, Held
  <2>5. ASSUME t # 0 PROVE Delivers(a, t, "streaming")'
    <3>1. PICK c : c = host[h].ctl  OBVIOUS
    <3>2. turns' = SetTurns(a, {c}, "done") /\ c \in DOMAIN turns[a]
      BY <1>2, <2>2, <3>1 DEF Delivers
    <3>3. Delivers(a, t, "streaming")  BY <1>2, <2>1, <2>3, <2>5 DEF HoldsWell
    <3>4. CASE t # c  BY <1>5, <3>2, <3>3, <3>4, OneTurnWritten
    <3>5. CASE t = c
      <4>1. turns[a][t].meddled  BY <2>2, <3>1, <3>3, <3>5 DEF Delivers
      <4>2. /\ c \in DOMAIN turns'[a] /\ turns'[a][c].st = "done"
            /\ turns'[a][c].meddled = turns[a][c].meddled
        BY <1>5, <3>2, OneTurnWritten
      <4> QED  BY <1>5, <3>5, <4>1, <4>2 DEF Delivers
    <3> QED  BY <3>4, <3>5
  <2>6. HoldsWell(a, h)'  BY <1>3, <1>4, <2>3, <2>5 DEF Stands, HoldsWell
  <2> QED  BY <2>2, <2>4, <2>6 DEF Delivers, Settled
<1>7. host[h].pc \in Running /\ host'[h].pc \in Running
  BY <1>2, <1>3, <1>4 DEF Stands, Running
<1> QED  BY <1>1, <1>2, <1>3, <1>5, <1>6, <1>7, DeliveryStep DEF Stands

\* A user turn ends, one way or another.
LEMMA FinishStep ==
  ASSUME IType, IType', OwnInv, NEW h \in Hosts,
         FinishTurn(h) \/ AbandonTurn(h) \/ WatchdogFail(h)
  PROVE  OwnStep
<1>1. PICK a \in Agents : a = host[h].agent /\ Agent(h) = a /\ Shape(host[h])
  BY ServingAgent DEF FinishTurn, AbandonTurn, WatchdogFail, Looping, At, Serving, Running
<1>2. host[h].pc = "wait" /\ UNCHANGED <<hostPid, robbed, req>>
  BY DEF FinishTurn, AbandonTurn, WatchdogFail, At, history
<1>3. Stands(h, "loop", 0, host[h].ctl)
  BY FinishEffect, WatchdogFailEffect DEF FinishTurn, AbandonTurn, WatchdogFail, IType
<1>4. \E S : \E state \in {"done", "interrupted", "failed"} :
        /\ turns' = SetTurns(a, S, state)
        /\ S \subseteq {host[h].turn}
        /\ {host[h].turn} \cap Streaming(a) \subseteq S
  <2>1. CASE FinishTurn(h)
    <3>1. turns' = SetTurns(a, {host[h].turn}, "done")  BY <1>1, <2>1 DEF FinishTurn
    <3> QED  BY <3>1
  <2>2. CASE AbandonTurn(h)
    <3>1. turns' = SetTurns(a, {host[h].turn} \cap Streaming(a), "interrupted")
      BY <1>1, <2>2 DEF AbandonTurn
    <3> QED  BY <3>1
  <2>3. CASE WatchdogFail(h)
    <3>1. turns' = SetTurns(a, {host[h].turn} \cap TurnsIn(a, {"streaming", "delivering"}),
                           "failed")
      BY <1>1, <2>3 DEF WatchdogFail
    <3>2. Streaming(a) \subseteq TurnsIn(a, {"streaming", "delivering"})
      BY DEF Streaming, TurnsIn
    <3> QED  BY <3>1, <3>2
  <2> QED  BY <2>1, <2>2, <2>3
<1>5. PICK S : \E state \in {"done", "interrupted", "failed"} :
        /\ turns' = SetTurns(a, S, state)
        /\ S \subseteq {host[h].turn}
        /\ {host[h].turn} \cap Streaming(a) \subseteq S
  BY <1>4
<1>6. PICK state \in {"done", "interrupted", "failed"} : turns' = SetTurns(a, S, state)
  BY <1>5
<1>7. state \in States /\ state \notin {"delivering", "streaming"}  BY DEF States, Settled
<1>8. ASSUME a \in Sound
      PROVE  /\ InFlight(a)' \subseteq Held(h)' /\ HoldsWell(a, h)'
             /\ \A i \in S \cap DOMAIN turns[a] :
                  turns[a][i].meddled \/ turns[a][i].st \notin Settled
  <2>1. HoldsWell(a, h) /\ InFlight(a) \subseteq Held(h)
    BY <1>1, <1>2, <1>8, Owns DEF Running
  <2>2. Delivers(a, host[h].turn, "streaming")  BY <1>1, <1>2, <2>1 DEF HoldsWell, Shape
  <2>3. InFlight(a) \subseteq S
    BY <1>2, <1>5, <2>1, <2>2 DEF Held, Delivers, InFlight, Streaming, TurnsIn, Settled
  <2>4. InFlight(a)' = {}  BY <1>6, <1>7, <2>3, WrittenFlights
  <2>5. HoldsWell(a, h)'  BY <1>3 DEF Stands, HoldsWell
  <2> QED  BY <1>5, <2>2, <2>4, <2>5 DEF Delivers, Settled
<1>9. host[h].pc \in Running /\ host'[h].pc \in Running
  BY <1>2, <1>3 DEF Stands, Running
<1> QED  BY <1>1, <1>2, <1>3, <1>6, <1>7, <1>8, <1>9, DeliveryStep DEF Stands

-----------------------------------------------------------------------------
(***************************************************************************)
(* The sweep.                                                              *)
(***************************************************************************)
LEMMA SweepStep ==
  ASSUME IType, IType', OwnInv, NEW a \in Agents, NEW pid \in Hosts \cup {None},
         SweepRow(a, pid)
  PROVE  OwnStep
<1> USE DEF OwnInv
<1>1. UNCHANGED <<host, req>>  BY DEF SweepRow
<1>2. CASE Probe(pid)
  <2>1. UNCHANGED <<turns, hostPid, robbed>>  BY <1>2 DEF SweepRow, rows
  <2> QED  BY <1>1, <2>1, UntouchedHost, SameInbox, MarkKept, QuietStep DEF Quiet
<1>3. CASE ~Probe(pid)
  <2>1. /\ turns' = SetTurns(a, InFlight(a), "failed")
        /\ hostPid' = [hostPid EXCEPT ![a] = None]
        /\ robbed' = IF hostPid[a] # pid THEN robbed \cup {a} ELSE robbed
    BY <1>3 DEF SweepRow
  <2>2. "failed" \in States  BY DEF States, Settled
  <2>3. hostPid'[a] = None /\ \A b \in Agents \ {a} : hostPid'[b] = hostPid[b]
    BY <2>1 DEF IType, TypeOK
  <2>4. Sound' \subseteq Sound /\ Sound \subseteq Agents
    BY <2>1 DEF Sound
  <2>5. a \in Sound' => HostsOf(a, Serving) = {}
    <3>1. a \in Sound' => hostPid[a] = pid  BY <2>1 DEF Sound
    <3> QED  BY <1>3, <2>4, <3>1, ResidentAgentsAssumption
             DEF SoleHost, HostsOf, Probe, Serving, Running
  <2>6. \A b, pcs : HostsOf(b, pcs)' = HostsOf(b, pcs)  BY <1>1 DEF HostsOf
  <2>7. /\ InFlight(a)' = {}
        /\ \A b \in Agents \ {a} : InFlight(b)' = InFlight(b)
        /\ \A b \in Agents \ {a} : \A i, st : Delivers(b, i, st) => Delivers(b, i, st)'
    BY <2>1, <2>2, WrittenFlights
  <2>8. SoleHost'
    <3> SUFFICES ASSUME NEW b \in Sound', NEW k \in HostsOf(b, Serving)
                 PROVE  hostPid'[b] = k
      BY <2>6 DEF SoleHost
    <3>1. b # a  BY <2>5
    <3> QED  BY <2>3, <2>4, <3>1 DEF SoleHost
  <2>9. HostPidRefers'  BY <1>1, <2>3 DEF HostPidRefers
  <2>10. InFlightIsHeld'
    <3> SUFFICES ASSUME NEW b \in Sound' PROVE FlightHeld(b)'  BY DEF InFlightIsHeld
    <3>1. CASE b = a  BY <2>7, <3>1 DEF FlightHeld
    <3>2. CASE b # a
      <4>1. b \in Agents \ {a} /\ FlightHeld(b)  BY <2>4, <3>2 DEF InFlightIsHeld
      <4> QED  BY <1>1, <2>3, <2>7, <4>1, FlightKept
    <3> QED  BY <3>1, <3>2
  <2>11. HeldTurns'
    <3> SUFFICES ASSUME NEW b \in Sound', NEW k \in HostsOf(b, Running)
                 PROVE  HoldsWell(b, k)'
      BY <2>6 DEF HeldTurns
    <3>1. b # a  BY <2>5 DEF HostsOf, Serving
    <3>2. b \in Agents \ {a} /\ HoldsWell(b, k)  BY <2>4, <3>1 DEF HeldTurns
    <3> QED  BY <1>1, <2>7, <3>2 DEF HoldsWell
  <2>12. CancelIsMarked'
    <3> SUFFICES ASSUME req # None, req.op = "cancel" PROVE CancelIsMarked'
      BY <1>1 DEF CancelIsMarked
    <3>1. req.agent \in Agents  BY RequestFields DEF IType
    <3>2. /\ \A b \in Agents : DOMAIN turns'[b] = DOMAIN turns[b]
          /\ \A b \in Agents : \A i \in DOMAIN turns[b] :
               turns'[b][i].meddled = turns[b][i].meddled
      BY <2>1, <2>2, WrittenTurns DEF SameTurn
    <3> QED  BY <1>1, <3>1, <3>2 DEF CancelIsMarked
  <2>13. SettlesOnce
    <3>1. \A i \in TurnsIn(a, Settled) : i \notin InFlight(a)
      BY DEF TurnsIn, InFlight, Settled
    <3> QED  BY <2>1, <2>2, <2>4, <3>1, WrittenTurns DEF SettlesOnce, TurnsIn
  <2> QED  BY <2>8, <2>9, <2>10, <2>11, <2>12, <2>13 DEF OwnStep
<1> QED  BY <1>2, <1>3

-----------------------------------------------------------------------------
(***************************************************************************)
(* Every step.                                                             *)
(***************************************************************************)
LEMMA OwnInvInit == Init => OwnInv
<1> SUFFICES ASSUME Init PROVE OwnInv  OBVIOUS
<1>1. \A h \in Hosts : host[h].pc = "free"  BY DEF Init, NoHost
<1>2. \A a \in Agents : InFlight(a) = {}  BY DEF Init, InFlight, TurnsIn
<1>3. (\A a \in Agents : hostPid[a] = None) /\ req = None  BY DEF Init
<1> QED  BY <1>1, <1>2, <1>3
         DEF OwnInv, SoleHost, HostsOf, Serving, Running, HostPidRefers, InFlightIsHeld,
             FlightHeld, HeldTurns, CancelIsMarked, Sound

LEMMA OwnInvStep ==
  ASSUME IType, IType', OwnInv, [Next]_vars
  PROVE  OwnStep
<1>1. ASSUME NEW a \in Agents, Request(a) PROVE OwnStep  BY <1>1, RequestQuiet
<1>2. CASE Commit \/ ApiCrash  BY <1>2, CommitStep
<1>3. ASSUME NEW h \in Hosts,
             \/ Ask(h) \/ EndTurn(h)
             \/ HostStep(h) \/ IdleReap(h) \/ WatchdogInterrupt(h) \/ WatchdogFail(h)
             \/ StartUnreadable(h) \/ RestartUnreadable(h) \/ Kill(h)
             \/ \E i \in DOMAIN pipe[h] : ReadEvent(h, i)
             \/ Evict(h)
             \/ \E a \in Agents : SpawnSessionHost(a, h)
      PROVE  OwnStep
  <2>1. CASE QuietHost(h)  BY <2>1, QuietHostStep
  <2>2. CASE ClaimHost(h)  BY <2>2, ClaimStep
  <2>3. CASE Release(h) \/ StartUnreadable(h)  BY <2>3, ReleaseStep
  <2>4. CASE ClaimTurn(h)  BY <2>4, ClaimTurnStep
  <2>5. CASE SendUserTurn(h)  BY <2>5, SendStep
  <2>6. CASE DeliverControl(h)  BY <2>6, DeliverStep
  <2>7. CASE FinishTurn(h) \/ AbandonTurn(h) \/ WatchdogFail(h)  BY <2>7, FinishStep
  <2> QED  BY <1>3, <2>1, <2>2, <2>3, <2>4, <2>5, <2>6, <2>7 DEF HostStep, QuietHost
<1>4. ASSUME NEW a \in Agents, NEW pid \in Hosts \cup {None}, SweepRow(a, pid)
      PROVE  OwnStep
  BY <1>4, SweepStep
<1>5. CASE OrphanSweep \/ SupervisorPass \/ DaemonCrash \/ UNCHANGED vars
  BY <1>5, DaemonStep
<1> QED  BY <1>1, <1>2, <1>3, <1>4, <1>5 DEF Next

LEMMA Owned == Spec => [](IType /\ OwnInv) /\ [][SettlesOnce]_vars
<1>1. IType /\ OwnInv /\ [Next]_vars => IType' /\ OwnInv' /\ SettlesOnce
  BY ITypeStep, OwnInvStep DEF OwnStep
<1> QED  BY <1>1, ITypeInit, OwnInvInit, PTL DEF Spec

\* One process at a time serves an agent, and the agent's row names it: the
\* compare-and-set of claim_host, release_host, the sweep of dead hosts and the
\* crash of any process keep it, whatever the number of agents and processes.
THEOREM OneHostPerAgent == Spec => []SoleHost
<1>1. OwnInv => SoleHost  BY DEF OwnInv
<1> QED  BY <1>1, Owned, PTL

\* When nobody hosts an agent, none of its turns is left "delivering" or
\* "streaming" for ever: each way out of the delivery loop, and the sweep for
\* a host that died, settles what was in flight.
THEOREM NothingLeftInFlight == Spec => []NothingInFlightUnhosted
<1>1. OwnInv => NothingInFlightUnhosted
  BY DEF OwnInv, InFlightIsHeld, FlightHeld, NothingInFlightUnhosted, InFlight
<1> QED  BY <1>1, Owned, PTL

\* A turn is settled once: no host, sweep or request writes the outcome of a
\* turn again that is done, failed, cancelled or interrupted, but where the
\* request to cancel it was under way while a host took it.
THEOREM SettledStays == Spec => SettledOnce
BY Owned, PTL DEF SettledOnce, SettlesOnce

-----------------------------------------------------------------------------
(***************************************************************************)
(* Ended agents.                                                           *)
(***************************************************************************)
\* A step that puts nobody on the way to an agent and ends none.
NobodySent ==
  \A k \in Hosts : host'[k].pc = "boot" =>
     host[k].pc = "boot" /\ host'[k].agent = host[k].agent

LeavesEnded ==
  /\ NobodySent
  /\ toSpawn' \subseteq toSpawn /\ sweep' \subseteq sweep /\ shaky' = shaky
  /\ \A a \in Agents : status'[a] = "ended" <=> status[a] = "ended"

EndedStay == \A a \in Agents \ shaky : status[a] = "ended" => status'[a] = "ended"

EndStep == EndedIsLeft' /\ EndedStay

LEMMA LeavingKeeps ==
  ASSUME EndedIsLeft, LeavesEnded
  PROVE  EndStep
BY DEF EndedIsLeft, LeavesEnded, NobodySent, OnTheWay, EndStep, EndedStay

LEMMA RequestSendsNobody ==
  ASSUME IType, EndedIsLeft, NEW a \in Agents, Request(a)
  PROVE  EndStep
<1>1. CASE Enqueues(a)
  BY <1>1, EnqueuesFrame, LeavingKeeps DEF LeavesEnded, NobodySent
<1>2. ASSUME NEW force \in BOOLEAN, RequestClear(a, force) PROVE EndStep
  <2>1. NobodySent  BY <1>2, ClearEffect DEF NobodySent, IType
  <2>2. UNCHANGED <<toSpawn, sweep, shaky, status>>  BY <1>2 DEF RequestClear, daemon
  <2> QED  BY <2>1, <2>2, LeavingKeeps DEF LeavesEnded
<1>3. CASE AnswerPending(a) \/ EndSession(a) \/ \E i \in DOMAIN turns[a] : CancelTurn(a, i)
  <2>1. UNCHANGED <<host, toSpawn, sweep, shaky, status>>
    BY <1>3 DEF AnswerPending, EndSession, CancelTurn, rows, daemon, history
  <2> QED  BY <2>1, LeavingKeeps DEF LeavesEnded, NobodySent
<1> QED  BY <1>1, <1>2, <1>3 DEF Request, Enqueues

\* The end of the row itself looks who is on the way.
LEMMA CommitSendsNobody ==
  ASSUME IType, EndedIsLeft, Commit \/ ApiCrash
  PROVE  EndStep
<1>1. CASE EnqueueAnswer \/ WriteCancel \/ EndTurns \/ EndAsks \/ ApiCrash
  <2>1. UNCHANGED <<host, toSpawn, sweep, shaky, status>>
    BY <1>1 DEF EnqueueAnswer, WriteCancel, EndTurns, EndAsks, ApiCrash, rows, daemon, history
  <2> QED  BY <2>1, LeavingKeeps DEF LeavesEnded, NobodySent
<1>2. CASE EndRow
  <2>1. req.agent \in Agents  BY <1>2, RequestFields DEF EndRow, IType
  <2>2. /\ status'[req.agent] = "ended"
        /\ \A b \in Agents \ {req.agent} : status'[b] = status[b]
    BY <1>2, <2>1 DEF EndRow, IType, TypeOK
  <2>3. UNCHANGED <<host, toSpawn, sweep>>  BY <1>2 DEF EndRow, daemon
  <2>4. EndedIsLeft'
    <3> SUFFICES ASSUME NEW b \in Agents \ shaky', status'[b] = "ended"
                 PROVE  ~OnTheWay(b) /\ \A row \in sweep : row[1] # b
      BY <2>3 DEF EndedIsLeft, OnTheWay
    <3>1. CASE b = req.agent  BY <1>2, <3>1 DEF EndRow
    <3>2. CASE b # req.agent
      <4>1. b \notin shaky  BY <1>2, <3>2 DEF EndRow
      <4> QED  BY <2>2, <3>2, <4>1 DEF EndedIsLeft
    <3> QED  BY <3>1, <3>2
  <2>5. EndedStay  BY <2>2 DEF EndedStay
  <2> QED  BY <2>4, <2>5 DEF EndStep
<1> QED  BY <1>1, <1>2 DEF Commit

\* A host that writes itself sends nobody.
LEMMA HostSendsNobody ==
  ASSUME NEW h \in Hosts, OnlyHost(h), host'[h].pc # "boot"
  PROVE  NobodySent
BY DEF OnlyHost, NobodySent

LEMMA DeliverySendsNobody ==
  ASSUME IType, NEW h \in Hosts,
         \/ ClaimTurn(h) \/ SendUserTurn(h) \/ DeliverControl(h) \/ RestartInner(h)
         \/ RestartUnreadable(h) \/ FinishTurn(h) \/ AbandonTurn(h)
         \/ WatchdogInterrupt(h) \/ WatchdogFail(h)
  PROVE  NobodySent
<1> USE DEF IType, Stands
<1>0. Back(h) \in {"loop", "wait"}  BY DEF Back
<1>1. CASE ClaimTurn(h)
  <2>1. PICK i \in Deliverable(h) :
          host' = [host EXCEPT ![h] =
                     IF turns[Agent(h)][i].kind = "user"
                       THEN [@ EXCEPT !.pc = "user", !.turn = i]
                       ELSE [@ EXCEPT !.pc = "control", !.ctl = i]]
    BY <1>1 DEF ClaimTurn
  <2>2. i \in 0..MaxTurns
    <3>1. Agent(h) \in Agents /\ i \in DOMAIN turns[Agent(h)]
      BY <1>1, <2>1, ServingAgent
         DEF ClaimTurn, Looping, At, Serving, Running, Deliverable, Queued, TurnsIn
    <3>2. Len(turns[Agent(h)]) <= MaxTurns  BY <3>1 DEF TypeOK
    <3> QED  BY <3>1, <3>2, InboxDomain, ResidentAgentsAssumption
  <2>3. CASE turns[Agent(h)][i].kind = "user"
    <3>1. host' = [host EXCEPT ![h] = [@ EXCEPT !.pc = "user", !.turn = i]]
      BY <2>1, <2>3
    <3> QED  BY <2>2, <3>1, ClaimUserEffect, HostSendsNobody
  <2>4. CASE turns[Agent(h)][i].kind # "user"
    <3>1. host' = [host EXCEPT ![h] = [@ EXCEPT !.pc = "control", !.ctl = i]]
      BY <2>1, <2>4
    <3> QED  BY <2>2, <3>1, ClaimControlEffect, HostSendsNobody
  <2> QED  BY <2>3, <2>4
<1>2. CASE SendUserTurn(h)  BY <1>2, SendEffect, HostSendsNobody
<1>3. CASE DeliverControl(h)  BY <1>0, <1>3, DeliverEffect, HostSendsNobody
<1>4. CASE RestartInner(h)  BY <1>0, <1>4, RestartEffect, HostSendsNobody
<1>5. CASE RestartUnreadable(h)
  <2>1. Back(h) \in Pcs  BY <1>0 DEF Pcs, Serving, Running
  <2> QED  BY <1>0, <1>5, <2>1, ControlDoneEffect, HostSendsNobody DEF RestartUnreadable
<1>6. CASE FinishTurn(h) \/ AbandonTurn(h)
  BY <1>6, FinishEffect, HostSendsNobody DEF FinishTurn, AbandonTurn
<1>7. CASE WatchdogInterrupt(h)
  BY <1>7, WatchdogInterruptEffect, HostSendsNobody DEF WatchdogInterrupt
<1>8. CASE WatchdogFail(h)
  BY <1>8, WatchdogFailEffect, HostSendsNobody DEF WatchdogFail
<1> QED  BY <1>1, <1>2, <1>3, <1>4, <1>5, <1>6, <1>7, <1>8

LEMMA HostLeavesEnded ==
  ASSUME IType, EndedIsLeft, NEW h \in Hosts,
         \/ Ask(h) \/ EndTurn(h)
         \/ HostStep(h) \/ IdleReap(h) \/ WatchdogInterrupt(h) \/ WatchdogFail(h)
         \/ StartUnreadable(h) \/ RestartUnreadable(h) \/ Kill(h)
         \/ \E i \in DOMAIN pipe[h] : ReadEvent(h, i)
         \/ Evict(h),
         ~ClaimHost(h)
  PROVE  LeavesEnded
<1> USE DEF IType, Stands, Leaves
<1> DEFINE Delivery ==
      \/ ClaimTurn(h) \/ SendUserTurn(h) \/ DeliverControl(h) \/ RestartInner(h)
      \/ RestartUnreadable(h) \/ FinishTurn(h) \/ AbandonTurn(h)
      \/ WatchdogInterrupt(h) \/ WatchdogFail(h)
<1>1. CASE Delivery
  <2>1. NobodySent  BY <1>1, DeliverySendsNobody
  <2>2. UNCHANGED <<toSpawn, sweep, shaky, status>>
    BY <1>1 DEF ClaimTurn, SendUserTurn, DeliverControl, RestartInner, RestartUnreadable,
                FinishTurn, AbandonTurn, WatchdogInterrupt, WatchdogFail, rows, daemon,
                history
  <2> QED  BY <2>1, <2>2 DEF LeavesEnded
<1>2. CASE \/ Ask(h) \/ EndTurn(h) \/ StartInner(h) \/ NoticeEnd(h) \/ IdleReap(h)
           \/ Teardown(h) \/ \E i \in DOMAIN pipe[h] : ReadEvent(h, i)
  <2>1. host[h].pc # "boot"
    BY <1>2 DEF Ask, EndTurn, StartInner, NoticeEnd, IdleReap, Teardown, ReadEvent, Looping,
                At, Running
  <2>2. \E pc \in {host[h].pc, "loop", "teardown"} :
          \E turn, ctl : Stands(h, pc, turn, ctl)
    <3>1. CASE NoticeEnd(h) \/ IdleReap(h)  BY <3>1, ShutEffect DEF NoticeEnd, IdleReap
    <3>2. CASE \/ Ask(h) \/ EndTurn(h) \/ StartInner(h) \/ Teardown(h)
               \/ \E i \in DOMAIN pipe[h] : ReadEvent(h, i)
      BY <3>2, AskEffect, EndTurnEffect, StartInnerEffect, TeardownEffect, ReadEffect
    <3> QED  BY <1>2, <3>1, <3>2
  <2>3. NobodySent  BY <2>1, <2>2, HostSendsNobody
  <2>4. UNCHANGED <<toSpawn, sweep, shaky, status>>
    BY <1>2 DEF Ask, EndTurn, StartInner, NoticeEnd, IdleReap, Teardown, ReadEvent, rows,
                daemon, history
  <2> QED  BY <2>3, <2>4 DEF LeavesEnded
<1>3. CASE Release(h) \/ StartUnreadable(h)
  <2>1. NobodySent
    <3>1. host' = [host EXCEPT ![h].pc = "exiting"]
      BY <1>3 DEF Release, StartUnreadable, ReleaseHost
    <3>2. "exiting" \in Pcs  BY DEF Pcs
    <3> QED  BY <3>1, <3>2, PcEffect, HostSendsNobody
  <2>2. UNCHANGED <<toSpawn, sweep, shaky>>
    BY <1>3 DEF Release, StartUnreadable, daemon, history
  <2>3. \A a \in Agents : status'[a] = "ended" <=> status[a] = "ended"
    <3>1. status' = [status EXCEPT ![Agent(h)] = Released(@)]
      BY <1>3 DEF Release, StartUnreadable, ReleaseHost
    <3>2. \A s : Released(s) = "ended" <=> s = "ended"  BY DEF Released
    <3>3. DOMAIN status = Agents  BY DEF TypeOK
    <3> QED  BY <3>1, <3>2, <3>3
  <2> QED  BY <2>1, <2>2, <2>3 DEF LeavesEnded
<1>4. CASE Exit(h) \/ Kill(h) \/ Evict(h)
  <2>1. NobodySent
    <3>1. CASE Exit(h)  BY <3>1, ExitEffect, HostSendsNobody
    <3>2. CASE Die(h)  BY <3>2, DieEffect, HostSendsNobody
    <3>3. CASE host[h].pc \in Running /\ host' = [host EXCEPT ![h].shut = TRUE]
      BY <3>3, ShutEffect, HostSendsNobody DEF Running
    <3>4. CASE host' = host  BY <3>4 DEF NobodySent
    <3> QED  BY <1>4, <3>1, <3>2, <3>3, <3>4 DEF Kill, Evict
  <2>2. UNCHANGED <<toSpawn, sweep, shaky, status>>
    BY <1>4 DEF Exit, Kill, Evict, rows, history
  <2> QED  BY <2>1, <2>2 DEF LeavesEnded
<1> QED  BY <1>1, <1>2, <1>3, <1>4 DEF HostStep

LEMMA EndedIsLeftStep ==
  ASSUME IType, EndedIsLeft, [Next]_vars
  PROVE  EndStep
<1>1. ASSUME NEW a \in Agents, Request(a) PROVE EndStep  BY <1>1, RequestSendsNobody
<1>2. CASE Commit \/ ApiCrash  BY <1>2, CommitSendsNobody
<1>3. ASSUME NEW h \in Hosts, ClaimHost(h) PROVE EndStep
  <2>1. host[h].pc = "boot" /\ Agent(h) \in Agents  BY <1>3, ServingAgent DEF ClaimHost, At
  <2>2. \A a \in Agents \ shaky : status[a] = "ended" => a # Agent(h)
    BY <2>1 DEF EndedIsLeft, OnTheWay, Agent
  <2>3. NobodySent
    <3>1. \E pc \in {"claimed", "exiting"} : host' = [host EXCEPT ![h].pc = pc]
      BY <1>3 DEF ClaimHost
    <3>2. {"claimed", "exiting"} \subseteq Pcs  BY DEF Pcs, Serving
    <3> QED  BY <3>1, <3>2, PcEffect, HostSendsNobody DEF Stands, IType
  <2>4. UNCHANGED <<toSpawn, sweep, shaky>>  BY <1>3 DEF ClaimHost, daemon, history
  <2>5. \A a \in Agents : \/ status'[a] = status[a]
                          \/ a = Agent(h) /\ status'[a] # "ended"
    BY <1>3, <2>1 DEF ClaimHost, IType, TypeOK
  <2>6. EndedStay  BY <2>2, <2>5 DEF EndedStay
  <2>7. EndedIsLeft'
    BY <2>3, <2>4, <2>5 DEF EndedIsLeft, NobodySent, OnTheWay
  <2> QED  BY <2>6, <2>7 DEF EndStep
<1>4. ASSUME NEW h \in Hosts, NEW a \in Agents, SpawnSessionHost(a, h) PROVE EndStep
  <2>1. OnlyHost(h) /\ host'[h].agent = a  BY <1>4, SpawnEffect DEF Leaves, IType
  <2>2. a \in toSpawn /\ toSpawn' \subseteq toSpawn /\ UNCHANGED <<sweep, shaky, status>>
    BY <1>4 DEF SpawnSessionHost, rows, history
  <2>3. \A b \in Agents : OnTheWay(b)' => OnTheWay(b)
    BY <2>1, <2>2 DEF OnTheWay, OnlyHost
  <2> QED  BY <2>2, <2>3 DEF EndStep, EndedIsLeft, EndedStay
<1>5. ASSUME NEW h \in Hosts,
             \/ Ask(h) \/ EndTurn(h)
             \/ HostStep(h) \/ IdleReap(h) \/ WatchdogInterrupt(h) \/ WatchdogFail(h)
             \/ StartUnreadable(h) \/ RestartUnreadable(h) \/ Kill(h)
             \/ \E i \in DOMAIN pipe[h] : ReadEvent(h, i)
             \/ Evict(h)
      PROVE  EndStep
  BY <1>3, <1>5, HostLeavesEnded, LeavingKeeps
<1>6. CASE OrphanSweep
  <2>1. UNCHANGED <<host, toSpawn, shaky, status>>  BY <1>6 DEF OrphanSweep, rows, history
  <2>2. \A row \in sweep' : status[row[1]] = "active"  BY <1>6 DEF OrphanSweep
  <2>3. EndedIsLeft'  BY <2>1, <2>2 DEF EndedIsLeft, OnTheWay
  <2> QED  BY <2>1, <2>3 DEF EndStep, EndedStay
<1>7. CASE SupervisorPass
  <2>1. UNCHANGED <<host, sweep, shaky, status>>  BY <1>7 DEF SupervisorPass, rows, history
  <2>2. \A a \in toSpawn' : a \in toSpawn \/ status[a] # "ended"
    BY <1>7 DEF SupervisorPass, NeedingHost
  <2>3. EndedIsLeft'  BY <2>1, <2>2 DEF EndedIsLeft, OnTheWay
  <2> QED  BY <2>1, <2>3 DEF EndStep, EndedStay
<1>8. CASE DaemonCrash \/ UNCHANGED vars
  <2>1. UNCHANGED <<host, shaky, status>> /\ toSpawn' \subseteq toSpawn /\ sweep' \subseteq sweep
    <3>1. CASE UNCHANGED vars  BY <3>1, FramedVars
    <3> QED  BY <1>8, <3>1 DEF DaemonCrash, rows, history
  <2> QED  BY <2>1, LeavingKeeps DEF LeavesEnded, NobodySent
<1>9. ASSUME NEW a \in Agents, NEW pid \in Hosts \cup {None}, SweepRow(a, pid)
      PROVE  EndStep
  <2>1. /\ <<a, pid>> \in sweep /\ sweep' \subseteq sweep
        /\ UNCHANGED <<host, toSpawn, shaky>>
    BY <1>9 DEF SweepRow
  <2>2. \A b \in Agents : \/ status'[b] = status[b]
                          \/ b = a /\ status'[b] = "idle"
    BY <1>9 DEF SweepRow, rows, IType, TypeOK
  <2>3. EndedStay
    <3>1. a \notin shaky => status[a] # "ended"  BY <2>1 DEF EndedIsLeft
    <3> QED  BY <2>2, <3>1 DEF EndedStay
  <2>4. EndedIsLeft'  BY <2>1, <2>2 DEF EndedIsLeft, OnTheWay
  <2> QED  BY <2>3, <2>4 DEF EndStep
<1> QED  BY <1>1, <1>2, <1>3, <1>4, <1>5, <1>6, <1>7, <1>8, <1>9 DEF Next

\* An agent the user ended is not woken again: neither a host that is
\* released, nor one that boots, nor the sweep writes its status, unless they
\* were on their way when it was ended.
THEOREM EndStays == Spec => EndIsFinal
<1>1. Init => EndedIsLeft  BY DEF Init, EndedIsLeft
<1>2. IType /\ EndedIsLeft /\ [Next]_vars =>
        EndedIsLeft' /\ \A a \in Sound \ shaky : status[a] = "ended" => status'[a] = "ended"
  BY EndedIsLeftStep DEF EndStep, EndedStay, Sound
<1> QED  BY <1>1, <1>2, ITypeInit, ITypeStep, PTL DEF Spec, EndIsFinal
-----------------------------------------------------------------------------
(***************************************************************************)
(* How inboxes evolve.  A turn is appended as its request saw the inbox,   *)
(* never is queued again, and keeps what it was enqueued with.             *)
(***************************************************************************)

\* What an inbox looked like to the request that enqueued this turn.
WellBorn(a, turn) ==
  /\ turn.st = "queued" /\ turn.since
  /\ ~turn.behind => UserTurnsIn(a, {"queued", "delivering"}) = {}
  /\ turn.kind = "reap" => Streaming(a) = {}
  /\ turn.kind = "restart" /\ ~turn.force => Streaming(a) = {}
  /\ turn.kind = "interrupt" /\ Streaming(a) # {} => turn.ref \in Streaming(a)

\* From one state to the next turn q becomes r, and its status one of states,
\* if it changes at all.
Lives(q, r, states) ==
  /\ r.kind = q.kind /\ r.ref = q.ref /\ r.force = q.force /\ r.clear = q.clear
  /\ r.behind = q.behind
  /\ q.meddled => r.meddled
  /\ r.st = q.st \/ r.st \in states

Evolves(states) ==
  \A b \in Agents :
    /\ Len(turns'[b]) \in {Len(turns[b]), Len(turns[b]) + 1}
    /\ \A i \in 1..Len(turns[b]) : Lives(turns[b][i], turns'[b][i], states)
    /\ Len(turns'[b]) = Len(turns[b]) + 1 => WellBorn(b, turns'[b][Len(turns'[b])])

\* Turns stay as recent as they were, and none that is new clears the context.
SinceKept ==
  \A b \in Agents :
    /\ \A i \in 1..Len(turns[b]) : turns'[b][i].since = turns[b][i].since
    /\ Len(turns'[b]) = Len(turns[b]) + 1 => ~turns'[b][Len(turns'[b])].clear

LEMMA SameTurns ==
  ASSUME IType, UNCHANGED turns, NEW states
  PROVE  Evolves(states) /\ SinceKept
<1>1. \A b \in Agents : Len(turns[b]) \in Nat  BY InboxDomain
<1> QED  BY <1>1 DEF Evolves, SinceKept, Lives

LEMMA StatusWritten ==
  ASSUME IType, IType', NEW a \in Agents, NEW S, NEW state \in States, NEW states,
         state \in states, turns' = SetTurns(a, S, state)
  PROVE  Evolves(states) /\ SinceKept
<1>1. \A b \in Agents :
        /\ Len(turns[b]) \in Nat
        /\ Len(turns'[b]) = Len(turns[b])
        /\ \A i \in 1..Len(turns[b]) :
             /\ turns'[b][i].st = IF b = a /\ i \in S THEN state ELSE turns[b][i].st
             /\ SameTurn(turns'[b][i], turns[b][i])
  BY SetTurnsKeeps, InboxDomain DEF IType
<1> QED  BY <1>1 DEF Evolves, SinceKept, Lives, SameTurn

\* A turn as its request makes it, given what the request saw.
NewTurns(a, kind) ==
  {r \in QueuedTurns : /\ r.kind = kind /\ r.since /\ r.ref = 0 /\ ~r.force /\ ~r.clear
                       /\ ~r.behind => UserTurnsIn(a, {"queued", "delivering"}) = {}}

LEMMA BornTurns ==
  ASSUME IType, NEW a \in Agents, NEW kind \in Kinds
  PROVE  NewTurn(a, kind) \in NewTurns(a, kind)
<1> DEFINE b == UserTurnsIn(a, {"queued", "delivering"}) # {}
<1>1. NewTurn(a, kind) = [kind |-> kind, st |-> "queued", ref |-> 0, force |-> FALSE,
                          clear |-> FALSE, behind |-> b, since |-> TRUE, meddled |-> FALSE]
  BY DEF NewTurn
<1>2. b \in BOOLEAN /\ (~b => UserTurnsIn(a, {"queued", "delivering"}) = {})  OBVIOUS
<1>3. NewTurn(a, kind) \in QueuedTurns  BY NewTurnType DEF IType
<1> HIDE DEF b
<1> QED  BY <1>1, <1>2, <1>3 DEF NewTurns

Referring(r, i) == [r EXCEPT !.ref = i]
Forcing(r, f) == [r EXCEPT !.force = f]
Clearing(r, f) == [r EXCEPT !.force = f, !.clear = TRUE]

Enqueued(a, kind, e) ==
  /\ e \in QueuedTurns /\ e.st = "queued" /\ e.kind = kind /\ e.since
  /\ ~e.behind => UserTurnsIn(a, {"queued", "delivering"}) = {}

LEMMA FreshTurns ==
  ASSUME NEW a \in Agents, NEW kind \in Kinds, NEW r \in NewTurns(a, kind)
  PROVE  /\ \A i \in 0..(MaxTurns + MaxAsks) :
              /\ Enqueued(a, kind, Referring(r, i))
              /\ Referring(r, i).ref = i /\ ~Referring(r, i).clear
         /\ \A f \in BOOLEAN :
              /\ Enqueued(a, kind, Forcing(r, f))
              /\ Forcing(r, f).force = f /\ ~Forcing(r, f).clear
         /\ \A f \in BOOLEAN :
              /\ Enqueued(a, kind, Clearing(r, f))
              /\ Clearing(r, f).force = f /\ Clearing(r, f).clear
<1>1. /\ r \in TurnRecords /\ r.st = "queued" /\ r.kind = kind /\ r.since /\ ~r.clear
      /\ ~r.behind => UserTurnsIn(a, {"queued", "delivering"}) = {}
  BY DEF NewTurns, QueuedTurns
<1>2. ASSUME NEW e \in TurnRecords, e.st = r.st, e.kind = r.kind, e.since = r.since,
             e.behind = r.behind
      PROVE  Enqueued(a, kind, e)
  BY <1>1, <1>2 DEF Enqueued, QueuedTurns
<1>3. \A i \in 0..(MaxTurns + MaxAsks) :
        LET e == Referring(r, i) IN
        /\ e \in TurnRecords /\ e.st = r.st /\ e.kind = r.kind /\ e.since = r.since
        /\ e.ref = i /\ e.clear = r.clear /\ e.behind = r.behind
  BY <1>1 DEF TurnRecords, Referring
<1>4. \A f \in BOOLEAN :
        LET e == Forcing(r, f) IN
        /\ e \in TurnRecords /\ e.st = r.st /\ e.kind = r.kind /\ e.since = r.since
        /\ e.force = f /\ e.clear = r.clear /\ e.behind = r.behind
  BY <1>1 DEF TurnRecords, Forcing
<1>5. \A f \in BOOLEAN :
        LET e == Clearing(r, f) IN
        /\ e \in TurnRecords /\ e.st = r.st /\ e.kind = r.kind /\ e.since = r.since
        /\ e.force = f /\ e.clear /\ e.behind = r.behind
  BY <1>1 DEF TurnRecords, Clearing
<1> QED  BY <1>1, <1>2, <1>3, <1>4, <1>5

LEMMA AppendedWell ==
  ASSUME IType, NEW a \in Agents, NEW turn \in QueuedTurns, EnqueueTurn(a, turn),
         WellBorn(a, turn), ~turn.clear, NEW states
  PROVE  Evolves(states) /\ SinceKept
<1>1. /\ \A b \in Agents \ {a} : turns'[b] = turns[b]
      /\ Len(turns'[a]) = Len(turns[a]) + 1
      /\ turns'[a][Len(turns[a]) + 1] = turn
      /\ \A i \in 1..Len(turns[a]) : turns'[a][i] = turns[a][i]
  BY EnqueueEffect DEF IType, QueuedTurns
<1>2. \A b \in Agents : Len(turns[b]) \in Nat  BY InboxDomain
<1>3. ASSUME NEW b \in Agents \ {a}
      PROVE  /\ Len(turns'[b]) = Len(turns[b])
             /\ \A i \in 1..Len(turns[b]) : turns'[b][i] = turns[b][i]
  BY <1>1
<1>4. turns'[a][Len(turns'[a])] = turn  BY <1>1
<1>5. ASSUME NEW b \in Agents
      PROVE  /\ Len(turns'[b]) \in {Len(turns[b]), Len(turns[b]) + 1}
             /\ \A i \in 1..Len(turns[b]) : turns'[b][i] = turns[b][i]
             /\ Len(turns'[b]) = Len(turns[b]) + 1 =>
                  WellBorn(b, turns'[b][Len(turns'[b])]) /\ ~turns'[b][Len(turns'[b])].clear
  <2>1. CASE b = a  BY <1>1, <1>4, <2>1
  <2>2. CASE b # a  BY <1>2, <1>3, <2>2
  <2> QED  BY <2>1, <2>2
<1> QED  BY <1>5 DEF Evolves, SinceKept, Lives

LEMMA EnqueuesWell ==
  ASSUME IType, NEW a \in Agents, Enqueues(a), NEW states
  PROVE  Evolves(states) /\ SinceKept
<1> DEFINE Well(turn) == turn \in QueuedTurns /\ WellBorn(a, turn) /\ ~turn.clear
<1>1. \A kind \in Kinds : NewTurn(a, kind) \in NewTurns(a, kind)  BY BornTurns
<1>2. /\ {"user", "wake", "interrupt", "restart", "reap"} \subseteq Kinds
      /\ "interrupt" \in Kinds /\ "restart" \in Kinds
  BY DEF Kinds
<1>3. \A turn : EnqueueTurn(a, turn) /\ Well(turn) => Evolves(states) /\ SinceKept
  BY AppendedWell
<1>4. ASSUME NEW kind \in {"user", "wake", "reap"}, kind = "reap" => Streaming(a) = {}
      PROVE  Well(NewTurn(a, kind))
  <2>1. NewTurn(a, kind) \in NewTurns(a, kind)  BY <1>1, <1>2, <1>4
  <2> QED  BY <1>4, <2>1 DEF NewTurns, WellBorn, QueuedTurns
<1>5. CASE PostMessage(a)  BY <1>3, <1>4, <1>5 DEF PostMessage
<1>6. CASE WakeSession(a)
  <2>1. CASE UNCHANGED turns  BY <2>1, SameTurns
  <2>2. CASE EnqueueTurn(a, NewTurn(a, "wake"))  BY <1>3, <1>4, <2>2
  <2> QED  BY <1>6, <2>1, <2>2 DEF WakeSession
<1>7. CASE RequestReap(a)  BY <1>3, <1>4, <1>7 DEF RequestReap
<1>8. CASE RequestInterrupt(a)
  <2>1. PICK i \in Streaming(a) \cup (IF Streaming(a) = {} THEN {0} ELSE {}) :
          EnqueueTurn(a, [NewTurn(a, "interrupt") EXCEPT !.ref = i])
    BY <1>8 DEF RequestInterrupt
  <2>2. i \in 0..(MaxTurns + MaxAsks)
    <3>1. CASE i = 0  BY <3>1, ResidentAgentsAssumption
    <3>2. CASE i \in Streaming(a)
      <4>1. i \in 1..Len(turns[a]) /\ Len(turns[a]) \in Nat
        BY <3>2, InboxDomain DEF Streaming, TurnsIn
      <4>2. Len(turns[a]) <= MaxTurns  BY DEF IType, TypeOK
      <4> QED  BY <4>1, <4>2, ResidentAgentsAssumption
    <3> QED  BY <3>1, <3>2
  <2>3. Streaming(a) # {} => i \in Streaming(a)  OBVIOUS
  <2>4. PICK r \in NewTurns(a, "interrupt") : r = NewTurn(a, "interrupt")  BY <1>1, <1>2
  <2>0. PICK e : e = Referring(r, i)  OBVIOUS
  <2>5. Enqueued(a, "interrupt", e) /\ e.ref = i /\ ~e.clear
    BY <1>2, <2>2, <2>4, <2>0, FreshTurns
  <2>6. EnqueueTurn(a, e)  BY <2>1, <2>4, <2>0 DEF Referring
  <2>7. Well(e)  BY <2>3, <2>5 DEF WellBorn, Enqueued
  <2> QED  BY <1>3, <2>6, <2>7
<1>9. ASSUME NEW force \in BOOLEAN, RequestRestart(a, force)
      PROVE  Evolves(states) /\ SinceKept
  <2>1. PICK r \in NewTurns(a, "restart") : r = NewTurn(a, "restart")  BY <1>1, <1>2
  <2>0. PICK e : e = Forcing(r, force)  OBVIOUS
  <2>2. Enqueued(a, "restart", e) /\ e.force = force /\ ~e.clear
    BY <1>2, <2>1, <2>0, FreshTurns
  <2>3. EnqueueTurn(a, e) /\ (Streaming(a) # {} => force)
    BY <1>9, <2>1, <2>0 DEF RequestRestart, Forcing
  <2>4. Well(e)  BY <2>2, <2>3 DEF WellBorn, Enqueued
  <2> QED  BY <1>3, <2>3, <2>4
<1> QED  BY <1>5, <1>6, <1>7, <1>8, <1>9 DEF Enqueues

\* Clearing the context makes every turn but its own an old one.
LEMMA ClearsWell ==
  ASSUME IType, NEW a \in Agents, NEW force \in BOOLEAN, RequestClear(a, force), NEW states
  PROVE  /\ Evolves(states)
         /\ Len(turns'[a]) = Len(turns[a]) + 1
         /\ \A i \in 1..Len(turns[a]) : ~turns'[a][i].since
         /\ LET new == turns'[a][Len(turns[a]) + 1]
            IN  new.kind = "restart" /\ new.clear /\ new.since /\ new.st = "queued"
         /\ \A b \in Agents \ {a} : turns'[b] = turns[b]
<1>0. "restart" \in Kinds  BY DEF Kinds
<1>1. PICK r \in NewTurns(a, "restart") : r = NewTurn(a, "restart")  BY <1>0, BornTurns
<1>e. PICK e : e = Clearing(r, force)  OBVIOUS
<1>2. Enqueued(a, "restart", e) /\ e.force = force /\ e.clear
  BY <1>0, <1>1, <1>e, FreshTurns
<1>3. /\ \A b \in Agents \ {a} : turns'[b] = turns[b]
      /\ Len(turns'[a]) = Len(turns[a]) + 1
      /\ turns'[a][Len(turns[a]) + 1] = e
      /\ \A i \in 1..Len(turns[a]) : turns'[a][i] = [turns[a][i] EXCEPT !.since = FALSE]
  BY <1>1, <1>e, ClearInbox DEF IType, Clearing
<1>4. Streaming(a) # {} => force  BY DEF RequestClear
<1>5. WellBorn(a, e)  BY <1>2, <1>4 DEF WellBorn, Enqueued
<1>6. \A b \in Agents : Len(turns[b]) \in Nat  BY InboxDomain
<1>7. \A i \in 1..Len(turns[a]) :
        Lives(turns[a][i], turns'[a][i], states) /\ ~turns'[a][i].since
  <2>1. \A q \in TurnRecords :
          Lives(q, [q EXCEPT !.since = FALSE], states) /\ ~[q EXCEPT !.since = FALSE].since
    BY DEF TurnRecords, Lives
  <2>2. \A i \in 1..Len(turns[a]) : turns[a][i] \in TurnRecords  BY InboxDomain
  <2> QED  BY <1>3, <2>1, <2>2
<1>8. ASSUME NEW b \in Agents
      PROVE  /\ Len(turns'[b]) \in {Len(turns[b]), Len(turns[b]) + 1}
             /\ \A i \in 1..Len(turns[b]) : Lives(turns[b][i], turns'[b][i], states)
             /\ Len(turns'[b]) = Len(turns[b]) + 1 => WellBorn(b, turns'[b][Len(turns'[b])])
  <2>1. CASE b = a  BY <1>3, <1>5, <1>7, <2>1
  <2>2. CASE b # a  BY <1>3, <1>6, <2>2 DEF Lives
  <2> QED  BY <2>1, <2>2
<1> QED  BY <1>2, <1>3, <1>7, <1>8 DEF Evolves, Enqueued

\* What is written of a turn later, and what but for sending it.
Unsent == {"delivering"} \cup Settled
Written == {"streaming"} \cup Unsent

LEMMA RequestEvolves ==
  ASSUME IType, IType', NEW a \in Agents, Request(a), NEW states
  PROVE  Evolves(states) /\ (SinceKept \/ \E force \in BOOLEAN : RequestClear(a, force))
<1>1. CASE Enqueues(a)  BY <1>1, EnqueuesWell
<1>2. ASSUME NEW force \in BOOLEAN, RequestClear(a, force)
      PROVE  Evolves(states)
  BY <1>2, ClearsWell
<1>3. CASE AnswerPending(a) \/ EndSession(a)
  BY <1>3, SameTurns DEF AnswerPending, EndSession, rows
<1>4. ASSUME NEW i \in DOMAIN turns[a], CancelTurn(a, i)
      PROVE  Evolves(states) /\ SinceKept
  <2>1. /\ \A b \in Agents \ {a} : turns'[b] = turns[b]
        /\ Len(turns'[a]) = Len(turns[a])
        /\ turns'[a][i] = [turns[a][i] EXCEPT !.meddled = TRUE]
        /\ \A j \in 1..Len(turns[a]) : j # i => turns'[a][j] = turns[a][j]
    BY <1>4, CancelInbox DEF IType
  <2>2. \A q \in TurnRecords :
          /\ Lives(q, [q EXCEPT !.meddled = TRUE], states) /\ Lives(q, q, states)
          /\ [q EXCEPT !.meddled = TRUE].since = q.since
    BY DEF TurnRecords, Lives
  <2>3. \A j \in 1..Len(turns[a]) :
          Lives(turns[a][j], turns'[a][j], states) /\ turns'[a][j].since = turns[a][j].since
    <3> TAKE j \in 1..Len(turns[a])
    <3>1. turns[a][j] \in TurnRecords  BY InboxDomain
    <3>2. CASE j = i  BY <2>1, <2>2, <3>1, <3>2
    <3>3. CASE j # i  BY <2>1, <2>2, <3>1, <3>3
    <3> QED  BY <3>2, <3>3
  <2>4. \A b \in Agents : Len(turns[b]) \in Nat  BY InboxDomain
  <2> QED  BY <2>1, <2>3, <2>4 DEF Evolves, SinceKept, Lives
<1> QED  BY <1>1, <1>2, <1>3, <1>4 DEF Request, Enqueues

LEMMA CommitEvolves ==
  ASSUME IType, IType', Commit \/ ApiCrash
  PROVE  Evolves(Settled) /\ SinceKept
<1>1. /\ req.agent \in Agents
      /\ req.op = "answer" => req.id \in 1..MaxAsks
  BY RequestFields
     DEF IType, Commit, ApiCrash, EnqueueAnswer, WriteCancel, EndTurns, EndAsks, EndRow
<1>2. CASE EnqueueAnswer
  <2>1. "answer" \in Kinds /\ req.id \in 0..(MaxTurns + MaxAsks)
    BY <1>1, <1>2, ResidentAgentsAssumption DEF EnqueueAnswer, Kinds
  <2>2. PICK r \in NewTurns(req.agent, "answer") : r = NewTurn(req.agent, "answer")
    BY <1>1, <2>1, BornTurns
  <2>3. PICK e : e = Referring(r, req.id)  OBVIOUS
  <2>4. Enqueued(req.agent, "answer", e) /\ ~e.clear  BY <1>1, <2>1, <2>2, <2>3, FreshTurns
  <2>5. EnqueueTurn(req.agent, e)  BY <1>2, <2>2, <2>3 DEF EnqueueAnswer, Referring
  <2>6. WellBorn(req.agent, e) /\ e \in QueuedTurns  BY <2>4 DEF WellBorn, Enqueued
  <2> QED  BY <1>1, <2>4, <2>5, <2>6, AppendedWell
<1>3. CASE WriteCancel \/ EndTurns
  <2>1. \E S : turns' = SetTurns(req.agent, S, "cancelled")
    BY <1>3 DEF WriteCancel, EndTurns
  <2>2. "cancelled" \in States /\ "cancelled" \in Settled  BY DEF States, Settled
  <2> QED  BY <1>1, <2>1, <2>2, StatusWritten
<1>4. CASE EndAsks \/ EndRow \/ ApiCrash
  BY <1>4, SameTurns DEF EndAsks, EndRow, ApiCrash, rows
<1> QED  BY <1>2, <1>3, <1>4 DEF Commit

\* Where the inboxes stay as they are.
QuietStepOf(h) ==
  \/ QuietHost(h) \/ ClaimHost(h) \/ Release(h) \/ StartUnreadable(h)

LEMMA QuietEvolves ==
  ASSUME NEW h \in Hosts, QuietStepOf(h)
  PROVE  UNCHANGED turns
BY DEF QuietStepOf, QuietHost, Ask, EndTurn, StartInner, NoticeEnd, IdleReap, Teardown,
       RestartInner, RestartUnreadable, WatchdogInterrupt, Exit, Kill, Evict, ReadEvent,
       SpawnSessionHost, ClaimHost, Release, StartUnreadable, rows

\* What the delivery of turns writes of them.
LEMMA DeliveryWrites ==
  ASSUME IType, NEW h \in Hosts
  PROVE  /\ ClaimTurn(h) => \E S : turns' = SetTurns(Agent(h), S, "delivering")
         /\ SendUserTurn(h) => turns' = SetTurns(Agent(h), {host[h].turn}, "streaming")
         /\ DeliverControl(h) => turns' = SetTurns(Agent(h), {host[h].ctl}, "done")
         /\ FinishTurn(h) \/ AbandonTurn(h) \/ WatchdogFail(h) =>
              \E S : \E state \in Settled :
                /\ S \subseteq {host[h].turn} /\ turns' = SetTurns(Agent(h), S, state)
<1>1. ClaimTurn(h) => \E S : turns' = SetTurns(Agent(h), S, "delivering")
  BY DEF ClaimTurn
<1>2. SendUserTurn(h) => turns' = SetTurns(Agent(h), {host[h].turn}, "streaming")
  BY DEF SendUserTurn
<1>3. DeliverControl(h) => turns' = SetTurns(Agent(h), {host[h].ctl}, "done")
  BY DEF DeliverControl, FinishControl
<1>4. ASSUME FinishTurn(h) \/ AbandonTurn(h) \/ WatchdogFail(h)
      PROVE  \E S : \E state \in Settled :
               S \subseteq {host[h].turn} /\ turns' = SetTurns(Agent(h), S, state)
  <2>1. CASE FinishTurn(h)
    <3>1. turns' = SetTurns(Agent(h), {host[h].turn}, "done")  BY <2>1 DEF FinishTurn
    <3> QED  BY <3>1 DEF Settled
  <2>2. CASE AbandonTurn(h)
    <3>1. turns' = SetTurns(Agent(h), {host[h].turn} \cap Streaming(Agent(h)), "interrupted")
      BY <2>2 DEF AbandonTurn
    <3> QED  BY <3>1 DEF Settled
  <2>3. CASE WatchdogFail(h)
    <3>1. turns' = SetTurns(Agent(h), {host[h].turn} \cap TurnsIn(Agent(h), {"streaming", "delivering"}),
                            "failed")
      BY <2>3 DEF WatchdogFail
    <3> QED  BY <3>1 DEF Settled
  <2> QED  BY <1>4, <2>1, <2>2, <2>3
<1> QED  BY <1>1, <1>2, <1>3, <1>4

LEMMA DeliveryEvolves ==
  ASSUME IType, IType', NEW h \in Hosts,
         \/ ClaimTurn(h) \/ SendUserTurn(h) \/ DeliverControl(h)
         \/ FinishTurn(h) \/ AbandonTurn(h) \/ WatchdogFail(h)
  PROVE  /\ Evolves(Written) /\ SinceKept
         /\ SendUserTurn(h) \/ Evolves(Unsent)
<1>1. Agent(h) \in Agents
  BY ServingAgent
     DEF ClaimTurn, SendUserTurn, DeliverControl, FinishTurn, AbandonTurn, WatchdogFail,
         Looping, At, Serving, Running
<1>2. /\ Unsent \subseteq Written /\ Written \subseteq States /\ Settled \subseteq Unsent
      /\ "streaming" \in Written /\ "delivering" \in Unsent /\ "done" \in Unsent
  BY DEF Unsent, Written, States, Settled
<1>3. CASE SendUserTurn(h)  BY <1>1, <1>2, <1>3, DeliveryWrites, StatusWritten
<1>4. CASE ~SendUserTurn(h)
  <2>1. \E S : \E state \in Unsent : turns' = SetTurns(Agent(h), S, state)
    BY <1>2, <1>4, DeliveryWrites
  <2> QED  BY <1>1, <1>2, <2>1, StatusWritten
<1> QED  BY <1>3, <1>4

LEMMA SweepEvolves ==
  ASSUME IType, IType', NEW a \in Agents, NEW pid \in Hosts \cup {None}, SweepRow(a, pid)
  PROVE  Evolves(Settled) /\ SinceKept
<1>1. CASE UNCHANGED turns  BY <1>1, SameTurns
<1>2. CASE turns' = SetTurns(a, InFlight(a), "failed")
  <2>1. "failed" \in States /\ "failed" \in Settled  BY DEF States, Settled
  <2> QED  BY <1>2, <2>1, StatusWritten
<1> QED  BY <1>1, <1>2 DEF SweepRow, rows

LEMMA EvolvesMore ==
  ASSUME NEW some, NEW states, some \subseteq states, Evolves(some)
  PROVE  Evolves(states)
BY DEF Evolves, Lives

\* The steps of a host, sorted.
LEMMA HostSteps ==
  ASSUME NEW h \in Hosts,
         \/ Ask(h) \/ EndTurn(h)
         \/ HostStep(h) \/ IdleReap(h) \/ WatchdogInterrupt(h) \/ WatchdogFail(h)
         \/ StartUnreadable(h) \/ RestartUnreadable(h) \/ Kill(h)
         \/ \E i \in DOMAIN pipe[h] : ReadEvent(h, i)
         \/ Evict(h)
         \/ \E a \in Agents : SpawnSessionHost(a, h)
  PROVE  \/ QuietStepOf(h)
         \/ ClaimTurn(h) \/ SendUserTurn(h) \/ DeliverControl(h)
         \/ FinishTurn(h) \/ AbandonTurn(h) \/ WatchdogFail(h)
BY DEF HostStep, QuietStepOf, QuietHost

\* How inboxes evolve in any step: only the host that sends a turn makes one
\* stream, and only clearing the context makes old turns of those there.
Evolved ==
  /\ Evolves(Written)
  /\ Evolves(Unsent) \/ \E h \in Hosts : SendUserTurn(h)
  /\ SinceKept \/ \E a \in Agents, force \in BOOLEAN : RequestClear(a, force)

LEMMA EveryStepEvolves ==
  ASSUME IType, IType', [Next]_vars
  PROVE  Evolved
<1>0. Settled \subseteq Unsent /\ Settled \subseteq Written  BY DEF Unsent, Written
<1>1. ASSUME NEW a \in Agents, Request(a) PROVE Evolved  BY <1>1, RequestEvolves DEF Evolved
<1>2. CASE Commit \/ ApiCrash  BY <1>0, <1>2, CommitEvolves, EvolvesMore DEF Evolved
<1>3. ASSUME NEW h \in Hosts, QuietStepOf(h) PROVE Evolved
  BY <1>3, QuietEvolves, SameTurns DEF Evolved
<1>4. ASSUME NEW h \in Hosts,
             \/ ClaimTurn(h) \/ SendUserTurn(h) \/ DeliverControl(h)
             \/ FinishTurn(h) \/ AbandonTurn(h) \/ WatchdogFail(h)
      PROVE  Evolved
  BY <1>4, DeliveryEvolves DEF Evolved
<1>5. ASSUME NEW a \in Agents, NEW pid \in Hosts \cup {None}, SweepRow(a, pid) PROVE Evolved
  BY <1>0, <1>5, SweepEvolves, EvolvesMore DEF Evolved
<1>6. CASE OrphanSweep \/ SupervisorPass \/ DaemonCrash \/ UNCHANGED vars
  <2>1. UNCHANGED turns
    <3>1. CASE UNCHANGED vars  BY <3>1, FramedVars
    <3> QED  BY <1>6, <3>1 DEF OrphanSweep, SupervisorPass, DaemonCrash, rows
  <2> QED  BY <2>1, SameTurns DEF Evolved
<1>7. ASSUME NEW h \in Hosts,
             \/ Ask(h) \/ EndTurn(h)
             \/ HostStep(h) \/ IdleReap(h) \/ WatchdogInterrupt(h) \/ WatchdogFail(h)
             \/ StartUnreadable(h) \/ RestartUnreadable(h) \/ Kill(h)
             \/ \E i \in DOMAIN pipe[h] : ReadEvent(h, i)
             \/ Evict(h)
             \/ \E a \in Agents : SpawnSessionHost(a, h)
      PROVE  Evolved
  <2>1. \/ QuietStepOf(h)
        \/ ClaimTurn(h) \/ SendUserTurn(h) \/ DeliverControl(h)
        \/ FinishTurn(h) \/ AbandonTurn(h) \/ WatchdogFail(h)
    BY <1>7, HostSteps
  <2> QED  BY <1>3, <1>4, <2>1
<1> QED  BY <1>1, <1>2, <1>5, <1>6, <1>7 DEF Next
-----------------------------------------------------------------------------
(***************************************************************************)
(* Turns are delivered in order: what a host holds is ahead of what it has *)
(* still to claim.                                                         *)
(***************************************************************************)
\* The turns host h holds are in its inbox, the user turn before the control
\* that hits it, and what is queued comes after them.
Ahead(h) ==
  LET a == host[h].agent IN
  host[h].pc \in Running =>
    /\ host[h].turn # 0 =>
         /\ host[h].turn \in DOMAIN turns[a] /\ turns[a][host[h].turn].kind = "user"
         /\ \A i \in Queued(a) : i > host[h].turn
    /\ host[h].pc \in {"control", "restart"} =>
         /\ host[h].ctl \in DOMAIN turns[a] /\ turns[a][host[h].ctl].kind # "user"
         /\ host[h].ctl > host[h].turn
         /\ host[h].turn = 0 => \A i \in Queued(a) : i > host[h].ctl

TurnAhead == \A h \in Hosts : Ahead(h)

\* A step in which host h claims nothing.
GoesAhead(h) ==
  host'[h].pc \in Running =>
    /\ host'[h].turn # 0 =>
         /\ host[h].pc \in Running
         /\ host'[h].agent = host[h].agent /\ host'[h].turn = host[h].turn
    /\ host'[h].pc \in {"control", "restart"} =>
         /\ host[h].pc \in {"control", "restart"}
         /\ host'[h].agent = host[h].agent /\ host'[h].turn = host[h].turn
         /\ host'[h].ctl = host[h].ctl

\* What is queued was queued, or is new.
LEMMA QueuedGrows ==
  ASSUME IType, IType', Evolves(Written), NEW a \in Agents
  PROVE  /\ DOMAIN turns[a] \subseteq DOMAIN turns'[a]
         /\ \A i \in DOMAIN turns[a] : turns'[a][i].kind = turns[a][i].kind
         /\ \A i \in Queued(a)' : i \in Queued(a) \/ i = Len(turns[a]) + 1
<1>1. DOMAIN turns[a] = 1..Len(turns[a]) /\ Len(turns[a]) \in Nat  BY InboxDomain
<1>2. DOMAIN turns'[a] = 1..Len(turns'[a])  BY DEF IType, TypeOK
<1>3. /\ Len(turns'[a]) \in {Len(turns[a]), Len(turns[a]) + 1}
      /\ \A i \in 1..Len(turns[a]) : Lives(turns[a][i], turns'[a][i], Written)
  BY DEF Evolves
<1>4. "queued" \notin Written  BY DEF Written, Unsent, Settled
<1>5. \A i \in 1..Len(turns[a]) :
        /\ turns'[a][i].kind = turns[a][i].kind
        /\ turns'[a][i].st = "queued" => turns[a][i].st = "queued"
  BY <1>3, <1>4 DEF Lives
<1> QED  BY <1>1, <1>2, <1>3, <1>5 DEF Queued, TurnsIn

LEMMA AheadKept ==
  ASSUME IType, IType', Evolves(Written), NEW h \in Hosts, Ahead(h), GoesAhead(h)
  PROVE  Ahead(h)'
<1> SUFFICES ASSUME host'[h].pc \in Running,
                    host'[h].turn # 0 \/ host'[h].pc \in {"control", "restart"}
             PROVE  Ahead(h)'
  BY DEF Ahead
<1>1. /\ host[h].pc \in Running /\ host'[h].agent = host[h].agent
      /\ host'[h].turn = host[h].turn
  BY DEF GoesAhead, Running
<1>2. PICK a \in Agents : a = host[h].agent
  BY <1>1, ServingAgent DEF Serving
<1>3. /\ DOMAIN turns[a] \subseteq DOMAIN turns'[a]
      /\ \A i \in DOMAIN turns[a] : turns'[a][i].kind = turns[a][i].kind
      /\ \A i \in Queued(a)' : i \in Queued(a) \/ i = Len(turns[a]) + 1
  BY QueuedGrows
<1>4. DOMAIN turns[a] = 1..Len(turns[a]) /\ Len(turns[a]) \in Nat  BY InboxDomain
<1>5. \A n \in DOMAIN turns[a] :
        (\A i \in Queued(a) : i > n) => \A i \in Queued(a)' : i > n
  BY <1>3, <1>4
<1>6. host'[h].pc \in {"control", "restart"} =>
        host[h].pc \in {"control", "restart"} /\ host'[h].ctl = host[h].ctl
  BY DEF GoesAhead
<1> QED  BY <1>1, <1>2, <1>3, <1>5, <1>6 DEF Ahead

LEMMA OthersGoAhead ==
  ASSUME NEW h \in Hosts, OnlyHost(h), GoesAhead(h)
  PROVE  \A k \in Hosts : GoesAhead(k)
BY DEF OnlyHost, GoesAhead

LEMMA HostGoesAhead ==
  ASSUME IType, NEW h \in Hosts,
         \/ QuietStepOf(h) \/ SendUserTurn(h) \/ DeliverControl(h)
         \/ FinishTurn(h) \/ AbandonTurn(h) \/ WatchdogFail(h)
  PROVE  \A k \in Hosts : GoesAhead(k)
<1> USE DEF IType
<1>0. Back(h) \in {"loop", "wait"} /\ Back(h) \in Pcs /\ Shape(host[h])
  BY DEF Back, Pcs, Serving, Running, HostShape
<1>1. CASE Ask(h) \/ EndTurn(h) \/ NoticeEnd(h) \/ IdleReap(h) \/ WatchdogInterrupt(h)
           \/ \E i \in DOMAIN pipe[h] : ReadEvent(h, i)
  <2>1. Stands(h, host[h].pc, host[h].turn, host[h].ctl)
    BY <1>1, AskEffect, EndTurnEffect, ShutEffect, WatchdogInterruptEffect, ReadEffect
       DEF NoticeEnd, IdleReap
  <2> QED  BY <2>1, OthersGoAhead DEF Stands, GoesAhead
<1>2. CASE StartInner(h) \/ Teardown(h)
  <2>1. host[h].turn = 0  BY <1>0, <1>2 DEF StartInner, Teardown, At, Shape
  <2>2. \E pc \in {"loop", "teardown"} : Stands(h, pc, host[h].turn, host[h].ctl)
    BY <1>2, StartInnerEffect, TeardownEffect
  <2> QED  BY <2>1, <2>2, OthersGoAhead DEF Stands, GoesAhead
<1>3. CASE RestartInner(h) \/ RestartUnreadable(h)
  <2>1. Stands(h, Back(h), host[h].turn, 0)
    BY <1>0, <1>3, RestartEffect, ControlDoneEffect DEF RestartUnreadable
  <2>2. host[h].pc \in Running
    BY <1>3 DEF RestartInner, RestartUnreadable, At, Running
  <2> QED  BY <1>0, <2>1, <2>2, OthersGoAhead DEF Stands, GoesAhead
<1>4. CASE Exit(h) \/ Kill(h) \/ \E a \in Agents : SpawnSessionHost(a, h)
  <2>1. \E pc \in {"free", "dead", "boot"} : Leaves(h, pc)
    BY <1>4, ExitEffect, DieEffect, SpawnEffect DEF Kill
  <2> QED  BY <2>1, OthersGoAhead DEF Leaves, GoesAhead, Running
<1>5. CASE Evict(h)
  <2>1. CASE Die(h)  BY <2>1, DieEffect, OthersGoAhead DEF Leaves, GoesAhead, Running
  <2>2. CASE host' = [host EXCEPT ![h].shut = TRUE]
    BY <2>2, ShutEffect, OthersGoAhead DEF Stands, GoesAhead
  <2>3. CASE host' = host  BY <2>3 DEF GoesAhead
  <2> QED  BY <1>5, <2>1, <2>2, <2>3 DEF Evict
<1>6. CASE ClaimHost(h) \/ Release(h) \/ StartUnreadable(h)
  <2>1. \E pc \in {"claimed", "exiting"} : host' = [host EXCEPT ![h].pc = pc]
    BY <1>6 DEF ClaimHost, Release, StartUnreadable, ReleaseHost
  <2>2. {"claimed", "exiting"} \subseteq Pcs  BY DEF Pcs, Serving
  <2>3. \E pc \in {"claimed", "exiting"} : Stands(h, pc, host[h].turn, host[h].ctl)
    BY <2>1, <2>2, PcEffect
  <2> QED  BY <2>3, OthersGoAhead DEF Stands, GoesAhead, Running
<1>7. CASE SendUserTurn(h)
  <2>1. host[h].pc = "user"  BY <1>7 DEF SendUserTurn, At
  <2> QED  BY <1>7, <2>1, SendEffect, OthersGoAhead DEF Stands, GoesAhead, Running
<1>8. CASE DeliverControl(h)
  <2>1. host[h].pc = "control"  BY <1>8 DEF DeliverControl, At
  <2> QED  BY <1>0, <1>8, <2>1, DeliverEffect, OthersGoAhead DEF Stands, GoesAhead, Running
<1>9. CASE FinishTurn(h) \/ AbandonTurn(h) \/ WatchdogFail(h)
  <2>1. Stands(h, "loop", 0, host[h].ctl)
    BY <1>9, FinishEffect, WatchdogFailEffect DEF FinishTurn, AbandonTurn, WatchdogFail
  <2> QED  BY <2>1, OthersGoAhead DEF Stands, GoesAhead
<1> QED  BY <1>1, <1>2, <1>3, <1>4, <1>5, <1>6, <1>7, <1>8, <1>9 DEF QuietStepOf, QuietHost

LEMMA ClaimGoesAhead ==
  ASSUME IType, IType', TurnAhead, Evolves(Written), NEW h \in Hosts, ClaimTurn(h)
  PROVE  TurnAhead'
<1>1. PICK a \in Agents : a = host[h].agent /\ Agent(h) = a /\ Shape(host[h])
  BY ServingAgent DEF ClaimTurn, Looping, At, Serving, Running
<1>2. host[h].pc \in {"loop", "wait"} /\ host[h].pc \in Running
  BY DEF ClaimTurn, Looping, At, Running
<1>3. PICK i \in Deliverable(h) :
        /\ OldestFirst(i, Deliverable(h))
        /\ turns' = SetTurns(a, {i}, "delivering")
        /\ host' = [host EXCEPT ![h] =
                      IF turns[a][i].kind = "user"
                        THEN [@ EXCEPT !.pc = "user", !.turn = i]
                        ELSE [@ EXCEPT !.pc = "control", !.ctl = i]]
  BY <1>1 DEF ClaimTurn
<1>4. /\ i \in Queued(a) /\ i \in DOMAIN turns[a]
      /\ host[h].pc = "wait" => turns[a][i].kind # "user"
      /\ host[h].pc = "loop" => Deliverable(h) = Queued(a)
  BY <1>1, <1>2, <1>3 DEF Deliverable, Queued, UserTurnsIn, TurnsIn
<1>5. /\ i \in Nat /\ i > 0 /\ i \in 0..MaxTurns
      /\ \A j \in Queued(a) : j \in Nat
  <2>1. i \in 1..Len(turns[a]) /\ Len(turns[a]) <= MaxTurns /\ Len(turns[a]) \in Nat
    BY <1>4 DEF IType, TypeOK
  <2>2. \A j \in Queued(a) : j \in 1..Len(turns[a])  BY InboxDomain DEF Queued, TurnsIn
  <2> QED  BY <2>1, <2>2, ResidentAgentsAssumption
<1>6. /\ DOMAIN turns'[a] = DOMAIN turns[a]
      /\ \A j \in DOMAIN turns[a] : turns'[a][j].kind = turns[a][j].kind
      /\ \A j \in Queued(a)' : j \in Queued(a) /\ j # i
  <2>1. "delivering" \in States  BY DEF States
  <2>2. PICK S : S = {i}  OBVIOUS
  <2>0. turns' = SetTurns(a, S, "delivering")  BY <1>3, <2>2
  <2>3. /\ \A b \in Agents : DOMAIN turns'[b] = DOMAIN turns[b]
        /\ \A b \in Agents : \A j \in DOMAIN turns[b] :
             /\ b = a /\ j \in S => turns'[b][j].st = "delivering"
             /\ b # a \/ j \notin S => turns'[b][j].st = turns[b][j].st
             /\ SameTurn(turns'[b][j], turns[b][j])
    BY <2>0, <2>1, WrittenTurns
  <2> QED  BY <2>2, <2>3 DEF SameTurn, Queued, TurnsIn
<1>7. host[h].pc = "loop" => host[h].turn = 0 /\ \A j \in Queued(a)' : j > i
  <2>1. host[h].pc = "loop" => host[h].turn = 0  BY <1>1 DEF Shape
  <2>2. host[h].pc = "loop" => \A j \in Queued(a) : i <= j
    BY <1>3, <1>4 DEF OldestFirst
  <2> QED  BY <1>5, <1>6, <2>1, <2>2
<1>8. host[h].pc = "wait" =>
        /\ host[h].turn # 0 /\ i > host[h].turn
        /\ host[h].turn \in DOMAIN turns[a] /\ turns[a][host[h].turn].kind = "user"
        /\ \A j \in Queued(a) : j > host[h].turn
  BY <1>1, <1>2, <1>4 DEF TurnAhead, Ahead, Shape
<1>9. OnlyHost(h) /\ Ahead(h)'
  <2>1. CASE turns[a][i].kind = "user"
    <3>1. host' = [host EXCEPT ![h] = [@ EXCEPT !.pc = "user", !.turn = i]]
      BY <1>3, <2>1
    <3>2. Stands(h, "user", i, host[h].ctl)  BY <1>5, <3>1, ClaimUserEffect DEF IType
    <3>3. host[h].pc = "loop"  BY <1>2, <1>4, <2>1
    <3> QED  BY <1>1, <1>4, <1>6, <1>7, <2>1, <3>2, <3>3 DEF Stands, Ahead
  <2>2. CASE turns[a][i].kind # "user"
    <3>1. host' = [host EXCEPT ![h] = [@ EXCEPT !.pc = "control", !.ctl = i]]
      BY <1>3, <2>2
    <3>2. Stands(h, "control", host[h].turn, i)  BY <1>5, <3>1, ClaimControlEffect DEF IType
    <3>3. CASE host[h].pc = "loop"
      BY <1>1, <1>4, <1>5, <1>6, <1>7, <2>2, <3>2, <3>3 DEF Stands, Ahead
    <3>4. CASE host[h].pc = "wait"
      BY <1>1, <1>4, <1>6, <1>8, <2>2, <3>2, <3>4 DEF Stands, Ahead
    <3> QED  BY <1>2, <3>2, <3>3, <3>4 DEF Stands
  <2> QED  BY <2>1, <2>2 DEF Stands
<1>10. ASSUME NEW k \in Hosts \ {h} PROVE Ahead(k)'
  <2>1. host'[k] = host[k]  BY <1>9 DEF OnlyHost
  <2>2. GoesAhead(k)  BY <2>1 DEF GoesAhead
  <2> QED  BY <2>2, AheadKept DEF TurnAhead
<1> QED  BY <1>9, <1>10 DEF TurnAhead

\* Every step but a claim, seen from the hosts.
LEMMA EveryHostGoesAhead ==
  ASSUME IType, IType', [Next]_vars
  PROVE  (\A k \in Hosts : GoesAhead(k)) \/ \E h \in Hosts : ClaimTurn(h)
<1>1. ASSUME UNCHANGED host PROVE \A k \in Hosts : GoesAhead(k)  BY <1>1 DEF GoesAhead
<1>2. ASSUME NEW a \in Agents, Request(a) PROVE \A k \in Hosts : GoesAhead(k)
  <2>1. CASE Enqueues(a)  BY <1>1, <2>1, EnqueuesFrame
  <2>2. ASSUME NEW force \in BOOLEAN, RequestClear(a, force)
        PROVE  \A k \in Hosts : GoesAhead(k)
    BY <2>2, ClearEffect DEF GoesAhead, IType
  <2>3. CASE AnswerPending(a) \/ EndSession(a) \/ \E i \in DOMAIN turns[a] : CancelTurn(a, i)
    BY <1>1, <2>3 DEF AnswerPending, EndSession, CancelTurn
  <2> QED  BY <1>2, <2>1, <2>2, <2>3 DEF Request, Enqueues
<1>3. ASSUME NEW h \in Hosts,
             \/ Ask(h) \/ EndTurn(h)
             \/ HostStep(h) \/ IdleReap(h) \/ WatchdogInterrupt(h) \/ WatchdogFail(h)
             \/ StartUnreadable(h) \/ RestartUnreadable(h) \/ Kill(h)
             \/ \E i \in DOMAIN pipe[h] : ReadEvent(h, i)
             \/ Evict(h)
             \/ \E a \in Agents : SpawnSessionHost(a, h)
      PROVE  (\A k \in Hosts : GoesAhead(k)) \/ ClaimTurn(h)
  <2>1. \/ QuietStepOf(h)
        \/ ClaimTurn(h) \/ SendUserTurn(h) \/ DeliverControl(h)
        \/ FinishTurn(h) \/ AbandonTurn(h) \/ WatchdogFail(h)
    BY <1>3, HostSteps
  <2> QED  BY <2>1, HostGoesAhead
<1>4. CASE Commit \/ ApiCrash \/ OrphanSweep \/ SupervisorPass \/ DaemonCrash \/ UNCHANGED vars
           \/ \E a \in Agents, pid \in Hosts \cup {None} : SweepRow(a, pid)
  <2>1. UNCHANGED host
    <3>1. CASE UNCHANGED vars  BY <3>1, FramedVars
    <3> QED  BY <1>4, <3>1 DEF Commit, ApiCrash, EnqueueAnswer, WriteCancel, EndTurns, EndAsks,
                               EndRow, OrphanSweep, SupervisorPass, DaemonCrash, SweepRow
  <2> QED  BY <1>1, <2>1
<1> QED  BY <1>2, <1>3, <1>4 DEF Next

LEMMA TurnAheadStep ==
  ASSUME IType, IType', TurnAhead, [Next]_vars
  PROVE  TurnAhead'
<1>1. Evolves(Written)  BY EveryStepEvolves DEF Evolved
<1>2. CASE \A k \in Hosts : GoesAhead(k)  BY <1>1, <1>2, AheadKept DEF TurnAhead
<1>3. CASE \E h \in Hosts : ClaimTurn(h)  BY <1>1, <1>3, ClaimGoesAhead
<1> QED  BY <1>2, <1>3, EveryHostGoesAhead
-----------------------------------------------------------------------------
(***************************************************************************)
(* Controls hit the turn they were meant for.                              *)
(***************************************************************************)
\* A host sends one turn at a time.
OneStreams == \A a \in Sound : \A i, j \in Streaming(a) : i = j

\* Turn i of agent a is over, or somebody asked to cancel it.
Past(a, i) == turns[a][i].meddled \/ turns[a][i].st \in Settled

\* What a control that found nothing waiting before it does not hit is over:
\* every user turn before a reap or an unforced restart, and every one but the
\* turn it is about before an interrupt.
Misses(a, c, i) ==
  /\ turns[a][i].kind = "user" /\ ~turns[a][c].behind
  /\ \/ turns[a][c].kind = "reap"
     \/ turns[a][c].kind = "restart" /\ ~turns[a][c].force
     \/ turns[a][c].kind = "interrupt" /\ i # turns[a][c].ref

PastIsPast ==
  \A a \in Sound : \A c \in DOMAIN turns[a] : \A i \in 1..(c - 1) :
     Misses(a, c, i) => Past(a, i)

OrderInv == TurnAhead /\ OneStreams /\ PastIsPast

\* Only the one turn its host holds begins to stream.
LEMMA OneStreamsStep ==
  ASSUME IType, IType', OwnInv, OneStreams, [Next]_vars, Sound' \subseteq Sound
  PROVE  OneStreams'
<1> SUFFICES ASSUME NEW a \in Sound' PROVE \A i, j \in Streaming(a)' : i = j
  BY DEF OneStreams
<1>0. a \in Agents /\ a \in Sound  BY DEF Sound
<1>1. CASE Evolves(Unsent)
  <2>1. DOMAIN turns[a] = 1..Len(turns[a]) /\ Len(turns[a]) \in Nat  BY <1>0, InboxDomain
  <2>2. DOMAIN turns'[a] = 1..Len(turns'[a])  BY <1>0 DEF IType, TypeOK
  <2>3. "streaming" \notin Unsent  BY DEF Unsent, Settled
  <2>4. /\ Len(turns'[a]) \in {Len(turns[a]), Len(turns[a]) + 1}
        /\ \A i \in 1..Len(turns[a]) :
             turns'[a][i].st = "streaming" => turns[a][i].st = "streaming"
        /\ Len(turns'[a]) = Len(turns[a]) + 1 => turns'[a][Len(turns'[a])].st = "queued"
    BY <1>0, <1>1, <2>3 DEF Evolves, Lives, WellBorn
  <2>5. Streaming(a)' \subseteq Streaming(a)
    BY <2>1, <2>2, <2>4 DEF Streaming, TurnsIn
  <2> QED  BY <1>0, <2>5 DEF OneStreams
<1>2. ASSUME NEW h \in Hosts, SendUserTurn(h) PROVE \A i, j \in Streaming(a)' : i = j
  <2>1. PICK b \in Agents : b = host[h].agent /\ Agent(h) = b
    BY <1>2, ServingAgent DEF SendUserTurn, At, Serving, Running
  <2>2. PICK S : S = {host[h].turn}  OBVIOUS
  <2>3. host[h].pc = "user" /\ turns' = SetTurns(b, S, "streaming") /\ "streaming" \in States
    BY <1>2, <2>1, <2>2 DEF SendUserTurn, At, States
  <2>4. /\ \A d \in Agents : DOMAIN turns'[d] = DOMAIN turns[d]
        /\ \A d \in Agents : \A i \in DOMAIN turns[d] :
             d # b \/ i \notin S => turns'[d][i].st = turns[d][i].st
    BY <2>3, WrittenTurns
  <2>5. CASE a = b
    <3>1. InFlight(a) \subseteq {host[h].turn}
      BY <1>0, <2>1, <2>3, <2>5, Owns DEF Held, Running
    <3>2. \A i \in Streaming(a)' : i \in S \/ i \in InFlight(a)
      BY <1>0, <2>4 DEF Streaming, InFlight, TurnsIn
    <3> QED  BY <2>2, <3>1, <3>2
  <2>6. CASE a # b
    <3>1. Streaming(a)' \subseteq Streaming(a)
      BY <1>0, <2>4, <2>6 DEF Streaming, TurnsIn
    <3> QED  BY <1>0, <3>1 DEF OneStreams
  <2> QED  BY <2>5, <2>6
<1> QED  BY <1>1, <1>2, EveryStepEvolves DEF Evolved

\* What is over when a control is requested stays over.
LEMMA PastIsPastStep ==
  ASSUME IType, IType', OneStreams, PastIsPast, Evolves(Written), SettlesOnce,
         Sound' \subseteq Sound
  PROVE  PastIsPast'
<1> SUFFICES ASSUME NEW a \in Sound', NEW c \in DOMAIN turns'[a], NEW i \in 1..(c - 1),
                    Misses(a, c, i)'
             PROVE  Past(a, i)'
  BY DEF PastIsPast
<1>0. a \in Agents /\ a \in Sound  BY DEF Sound
<1>1. DOMAIN turns[a] = 1..Len(turns[a]) /\ Len(turns[a]) \in Nat  BY <1>0, InboxDomain
<1>2. DOMAIN turns'[a] = 1..Len(turns'[a])  BY <1>0 DEF IType, TypeOK
<1>3. /\ Len(turns'[a]) \in {Len(turns[a]), Len(turns[a]) + 1}
      /\ \A j \in 1..Len(turns[a]) : Lives(turns[a][j], turns'[a][j], Written)
      /\ Len(turns'[a]) = Len(turns[a]) + 1 => WellBorn(a, turns'[a][Len(turns'[a])])
  BY <1>0 DEF Evolves
<1>4. i \in DOMAIN turns[a] /\ i \in Nat
  BY <1>1, <1>2, <1>3
<1>5. Past(a, i) => Past(a, i)'
  <2>1. turns[a][i].meddled => turns'[a][i].meddled  BY <1>1, <1>3, <1>4 DEF Lives
  <2>2. turns[a][i].st \in Settled =>
          turns[a][i].meddled \/ turns'[a][i].st = turns[a][i].st
    BY <1>0, <1>4 DEF SettlesOnce, TurnsIn
  <2> QED  BY <2>1, <2>2 DEF Past
<1>6. turns'[a][i].kind = turns[a][i].kind  BY <1>1, <1>3, <1>4 DEF Lives
<1>7. CASE c \in DOMAIN turns[a]
  <2>1. Misses(a, c, i)  BY <1>1, <1>3, <1>6, <1>7 DEF Lives, Misses
  <2> QED  BY <1>0, <1>5, <1>7, <2>1 DEF PastIsPast
<1>8. CASE c \notin DOMAIN turns[a]
  <2>1. c = Len(turns'[a]) /\ Len(turns'[a]) = Len(turns[a]) + 1
    BY <1>1, <1>2, <1>3, <1>8
  <2>2. WellBorn(a, turns'[a][c])  BY <1>3, <2>1
  <2>3. turns[a][i].kind = "user" /\ ~turns'[a][c].behind  BY <1>6 DEF Misses
  <2>4. turns[a][i].st \notin {"queued", "delivering"}
    BY <1>4, <2>2, <2>3 DEF WellBorn, UserTurnsIn, TurnsIn
  <2>5. i \notin Streaming(a)
    <3>1. CASE turns'[a][c].kind = "reap"  BY <2>2, <3>1 DEF WellBorn
    <3>2. CASE turns'[a][c].kind = "restart" /\ ~turns'[a][c].force
      BY <2>2, <3>2 DEF WellBorn
    <3>3. CASE turns'[a][c].kind = "interrupt" /\ i # turns'[a][c].ref
      BY <1>0, <2>2, <3>3 DEF WellBorn, OneStreams
    <3> QED  BY <3>1, <3>2, <3>3 DEF Misses
  <2>6. turns[a][i].st \in Settled
    <3>1. turns[a][i].st \in States
      <4>1. turns[a][i] \in TurnRecords  BY <1>0, <1>4, InboxDomain
      <4> QED  BY <4>1 DEF TurnRecords, States
    <3> QED  BY <1>4, <2>4, <2>5, <3>1 DEF Streaming, TurnsIn, States
  <2> QED  BY <1>5, <2>6 DEF Past
<1> QED  BY <1>7, <1>8

LEMMA SoundShrinks ==
  ASSUME IType, [Next]_vars
  PROVE  Sound' \subseteq Sound
<1>1. robbed \subseteq robbed'
  <2>1. ASSUME NEW h \in Hosts,
               \/ Ask(h) \/ EndTurn(h)
               \/ HostStep(h) \/ IdleReap(h) \/ WatchdogInterrupt(h) \/ WatchdogFail(h)
               \/ StartUnreadable(h) \/ RestartUnreadable(h) \/ Kill(h)
               \/ \E i \in DOMAIN pipe[h] : ReadEvent(h, i)
               \/ Evict(h)
               \/ \E a \in Agents : SpawnSessionHost(a, h)
        PROVE  UNCHANGED robbed
    BY <2>1 DEF Ask, EndTurn, HostStep, ClaimHost, StartInner, NoticeEnd, ClaimTurn,
         SendUserTurn, DeliverControl, RestartInner, FinishTurn, AbandonTurn, Teardown,
         Release, Exit, IdleReap, WatchdogInterrupt, WatchdogFail, StartUnreadable,
         RestartUnreadable, Kill, ReadEvent, Evict, SpawnSessionHost, history
  <2>2. ASSUME NEW a \in Agents, Request(a) PROVE UNCHANGED robbed
    BY <2>2, EnqueuesFrame
       DEF Request, Enqueues, RequestClear, AnswerPending, EndSession, CancelTurn, history
  <2>3. CASE Commit \/ ApiCrash \/ OrphanSweep \/ SupervisorPass \/ DaemonCrash
             \/ \E a \in Agents, pid \in Hosts \cup {None} : SweepRow(a, pid)
    BY <2>3 DEF Commit, ApiCrash, EnqueueAnswer, WriteCancel, EndTurns, EndAsks, EndRow,
                OrphanSweep, SupervisorPass, DaemonCrash, SweepRow, history
  <2>4. CASE UNCHANGED vars  BY <2>4, FramedVars
  <2> QED  BY <2>1, <2>2, <2>3, <2>4 DEF Next
<1> QED  BY <1>1 DEF Sound

LEMMA OrderInvStep ==
  ASSUME IType, IType', OwnInv, OrderInv, [Next]_vars
  PROVE  OrderInv'
<1>1. SettlesOnce  BY OwnInvStep DEF OwnStep
<1>2. Sound' \subseteq Sound  BY SoundShrinks
<1>3. Evolves(Written)  BY EveryStepEvolves DEF Evolved
<1>4. TurnAhead'  BY TurnAheadStep DEF OrderInv
<1>5. OneStreams'  BY <1>2, OneStreamsStep DEF OrderInv
<1>6. PastIsPast'  BY <1>1, <1>2, <1>3, PastIsPastStep DEF OrderInv
<1> QED  BY <1>4, <1>5, <1>6 DEF OrderInv

LEMMA OrderInvInit == Init => OrderInv
<1> SUFFICES ASSUME Init PROVE OrderInv  OBVIOUS
<1>1. \A h \in Hosts : host[h].pc = "free"  BY DEF Init, NoHost
<1>2. \A a \in Agents : DOMAIN turns[a] = {}  BY DEF Init
<1>3. TurnAhead  BY <1>1 DEF TurnAhead, Ahead, Running
<1>4. OneStreams /\ PastIsPast
  BY <1>2 DEF OneStreams, Streaming, TurnsIn, PastIsPast, Sound
<1> QED  BY <1>3, <1>4 DEF OrderInv

LEMMA HitsTheirTurn ==
  ASSUME IType, OwnInv, OrderInv
  PROVE  ControlsHitTheirTurn
<1> SUFFICES ASSUME NEW a \in Sound, NEW h \in HostsOf(a, {"control"}),
                    ~turns[a][host[h].ctl].behind,
                    ~(host[h].turn # 0 /\ turns[a][host[h].turn].meddled)
             PROVE  LET turn == turns[a][host[h].ctl] IN
                    /\ turn.kind = "reap" \/ (turn.kind = "restart" /\ ~turn.force)
                         => host[h].turn = 0
                    /\ turn.kind = "interrupt" => host[h].turn \in {0, turn.ref}
  BY DEF ControlsHitTheirTurn
<1>1. PICK c, t : c = host[h].ctl /\ t = host[h].turn  OBVIOUS
<1>2. h \in Hosts /\ host[h].pc = "control" /\ host[h].agent = a /\ a \in Agents
  BY DEF HostsOf, Sound
<1> SUFFICES ASSUME t # 0 PROVE ~Misses(a, c, t)
  <2>1. t # 0 => turns[a][t].kind = "user"
    BY <1>1, <1>2 DEF OrderInv, TurnAhead, Ahead, Running
  <2> QED  BY <1>1, <2>1 DEF Misses
<1>3. c \in DOMAIN turns[a] /\ t \in DOMAIN turns[a] /\ c > t
  BY <1>1, <1>2 DEF OrderInv, TurnAhead, Ahead, Running
<1>4. t \in 1..(c - 1)  BY <1>2, <1>3, InboxDomain
<1>5. Delivers(a, t, "streaming")
  BY <1>1, <1>2 DEF OwnInv, HeldTurns, HostsOf, HoldsWell, Running
<1>6. ~Past(a, t)  BY <1>1, <1>5 DEF Delivers, Past, Settled
<1> QED  BY <1>3, <1>4, <1>6 DEF OrderInv, PastIsPast

\* A reap, an interrupt or an unforced restart acts on the turn its request
\* saw, or on none: a message the user sends afterwards, or one claimed while
\* the control waits in the inbox, is not cut short by it, in whatever order
\* the host, its inner process and the API move.
THEOREM ControlsHitRight == Spec => []ControlsHitTheirTurn
<1>1. IType /\ OwnInv /\ OrderInv /\ [Next]_vars => OrderInv'
  <2>1. IType /\ [Next]_vars => IType'  BY ITypeStep
  <2> QED  BY <2>1, OrderInvStep
<1>2. IType /\ OwnInv /\ OrderInv => ControlsHitTheirTurn  BY HitsTheirTurn
<1> QED  BY <1>1, <1>2, OrderInvInit, Owned, PTL DEF Spec

-----------------------------------------------------------------------------
(***************************************************************************)
(* What the inner processes write into the pipes.                          *)
(***************************************************************************)
LEMMA PipeDomain ==
  ASSUME IType, NEW h \in Hosts
  PROVE  /\ DOMAIN pipe[h] = 1..Len(pipe[h]) /\ Len(pipe[h]) \in Nat
         /\ \A j \in DOMAIN pipe[h] : pipe[h][j] \in Events
         /\ DOMAIN pipe = Hosts
BY DEF IType, TypeOK

\* The events of a host stay, whatever conversation they are said to be of.
SameEvents(h) ==
  /\ Len(pipe'[h]) = Len(pipe[h])
  /\ \A j \in 1..Len(pipe[h]) :
       /\ pipe'[h][j].type = pipe[h][j].type /\ pipe'[h][j].id = pipe[h][j].id
       /\ pipe'[h][j].gen = pipe[h][j].gen

\* The inner of host h adds an event.
Adds(h, type, id) ==
  /\ Len(pipe'[h]) = Len(pipe[h]) + 1
  /\ \A j \in 1..Len(pipe[h]) : pipe'[h][j] = pipe[h][j]
  /\ LET e == pipe'[h][Len(pipe[h]) + 1]
     IN  e.type = type /\ e.id = id /\ e.gen = host[h].gen /\ e.conv = host[h].conv

OnlyPipe(h) == \A k \in Hosts \ {h} : pipe'[k] = pipe[k]

LEMMA EmitEffect ==
  ASSUME IType, NEW h \in Hosts, NEW type, NEW id, Emit(h, type, id)
  PROVE  OnlyPipe(h) /\ Adds(h, type, id)
<1> DEFINE e == [gen |-> host[h].gen, type |-> type, id |-> id, conv |-> host[h].conv]
<1>1. /\ e.type = type /\ e.id = id /\ e.gen = host[h].gen /\ e.conv = host[h].conv
      /\ pipe' = [pipe EXCEPT ![h] = Append(pipe[h], e)]
  BY PipeDomain DEF Emit
<1> HIDE DEF e
<1>2. pipe'[h] = Append(pipe[h], e) /\ OnlyPipe(h)  BY <1>1, PipeDomain DEF OnlyPipe
<1>3. pipe[h] \in Seq(Events) /\ Len(pipe[h]) \in Nat  BY DEF IType, TypeOK
<1>4. /\ Len(pipe'[h]) = Len(pipe[h]) + 1
      /\ \A j \in 1..Len(pipe[h]) : pipe'[h][j] = pipe[h][j]
      /\ pipe'[h][Len(pipe[h]) + 1] = e
  BY <1>2, <1>3
<1> QED  BY <1>1, <1>2, <1>4 DEF Adds

LEMMA SamePipe ==
  ASSUME IType, UNCHANGED pipe, NEW h \in Hosts
  PROVE  OnlyPipe(h) /\ SameEvents(h)
BY DEF OnlyPipe, SameEvents

\* Clearing the context writes the conversations only.
LEMMA ClearPipes ==
  ASSUME IType, NEW a \in Agents, NEW force \in BOOLEAN, RequestClear(a, force), NEW h \in Hosts
  PROVE  /\ SameEvents(h)
         /\ \A j \in 1..Len(pipe[h]) :
              pipe'[h][j].conv = IF host[h].agent = a THEN Outdated(pipe[h][j].conv)
                                                      ELSE pipe[h][j].conv
<1> DEFINE out(e) == [e EXCEPT !.conv = Outdated(@)]
           aged == [i \in DOMAIN pipe[h] |-> out(pipe[h][i])]
<1>1. pipe'[h] = IF host[h].agent # a THEN pipe[h] ELSE aged  BY DEF RequestClear
<1>2. \A e \in Events :
        /\ out(e).type = e.type /\ out(e).id = e.id /\ out(e).gen = e.gen
        /\ out(e).conv = Outdated(e.conv)
  <2> TAKE e \in Events
  <2>1. CASE e \in [gen : Nat, type : {"pending_input", "pending_resolved"},
                    id : 1..MaxAsks, conv : Conversations]
    BY <2>1 DEF Events
  <2>2. CASE e \in [gen : Nat, type : {"turn_complete"}, id : 0..MaxTurns,
                    conv : Conversations]
    BY <2>2 DEF Events
  <2> QED  BY <2>1, <2>2 DEF Events
<1> HIDE DEF out
<1>3. /\ DOMAIN pipe[h] = 1..Len(pipe[h]) /\ Len(pipe[h]) \in Nat
      /\ \A j \in DOMAIN pipe[h] : pipe[h][j] \in Events
  BY PipeDomain
<1>4. /\ Len(aged) = Len(pipe[h])
      /\ \A j \in 1..Len(pipe[h]) : aged[j] = out(pipe[h][j])
  BY <1>3
<1> HIDE DEF aged
<1>5. CASE host[h].agent = a  BY <1>1, <1>2, <1>3, <1>4, <1>5 DEF SameEvents
<1>6. CASE host[h].agent # a  BY <1>1, <1>6 DEF SameEvents
<1> QED  BY <1>5, <1>6

\* What reading event i leaves in the pipe.
Shift(i, j) == IF j < i THEN j ELSE j + 1

LEMMA ReadPipe ==
  ASSUME IType, NEW h \in Hosts, NEW i \in DOMAIN pipe[h], ReadEvent(h, i)
  PROVE  /\ OnlyPipe(h)
         /\ Len(pipe'[h]) = Len(pipe[h]) - 1 /\ Len(pipe'[h]) \in Nat
         /\ DOMAIN pipe'[h] = 1..(Len(pipe[h]) - 1)
         /\ \A j \in DOMAIN pipe'[h] :
              /\ Shift(i, j) \in DOMAIN pipe[h] \ {i}
              /\ pipe'[h][j] = pipe[h][Shift(i, j)]
         /\ \A k \in DOMAIN pipe[h] \ {i} :
              \E j \in DOMAIN pipe'[h] :
                 /\ Shift(i, j) = k /\ pipe'[h][j] = pipe[h][k]
                 /\ \A n \in DOMAIN pipe'[h] : k > Shift(i, n) => j > n
<1> DEFINE Rest == [j \in 1..(Len(pipe[h]) - 1) |-> pipe[h][IF j < i THEN j ELSE j + 1]]
<1>1. DOMAIN pipe[h] = 1..Len(pipe[h]) /\ Len(pipe[h]) \in Nat /\ i \in 1..Len(pipe[h])
  BY PipeDomain
<1>2. pipe' = [pipe EXCEPT ![h] = Rest]  BY DEF ReadEvent
<1>3. DOMAIN Rest = 1..(Len(pipe[h]) - 1) /\ Len(Rest) = Len(pipe[h]) - 1
      /\ Len(pipe[h]) - 1 \in Nat
  BY <1>1
<1>4. \A j \in 1..(Len(pipe[h]) - 1) : Rest[j] = pipe[h][Shift(i, j)]  BY DEF Shift
<1> HIDE DEF Rest
<1>5. pipe'[h] = Rest /\ OnlyPipe(h)  BY <1>2, PipeDomain DEF OnlyPipe
<1>6. \A j \in 1..(Len(pipe[h]) - 1) : Shift(i, j) \in DOMAIN pipe[h] \ {i}
  BY <1>1 DEF Shift
<1>7. ASSUME NEW k \in DOMAIN pipe[h] \ {i}
      PROVE  \E j \in 1..(Len(pipe[h]) - 1) :
               /\ Shift(i, j) = k
               /\ \A n \in 1..(Len(pipe[h]) - 1) : k > Shift(i, n) => j > n
  <2>1. PICK j : j = IF k < i THEN k ELSE k - 1  OBVIOUS
  <2>2. /\ j \in 1..(Len(pipe[h]) - 1) /\ Shift(i, j) = k
        /\ \A n \in 1..(Len(pipe[h]) - 1) : k > Shift(i, n) => j > n
    BY <1>1, <2>1 DEF Shift
  <2> QED  BY <2>2
<1>8. DOMAIN pipe'[h] = 1..(Len(pipe[h]) - 1)  BY <1>3, <1>5
<1>9. \A j \in DOMAIN pipe'[h] : pipe'[h][j] = pipe[h][Shift(i, j)]
  BY <1>4, <1>5, <1>8
<1> QED  BY <1>3, <1>5, <1>6, <1>7, <1>8, <1>9
-----------------------------------------------------------------------------
(***************************************************************************)
(* The questions: what is asked is parked on, or its end is in the pipe.   *)
(***************************************************************************)
\* Nothing is in the pipe of a host whose inner is not up.
EmptyPipes == \A h \in Hosts : host[h].pc \notin Running => pipe[h] = <<>>

\* The question of event j is resolved further down the pipe, by the inner
\* that asked it.
Resolves(h, j) ==
  \E k \in DOMAIN pipe[h] :
     /\ k > j /\ pipe[h][k].type = "pending_resolved"
     /\ pipe[h][k].id = pipe[h][j].id /\ pipe[h][k].gen = pipe[h][j].gen

EndsWell(h) ==
  \A j \in DOMAIN pipe[h] : pipe[h][j].type = "pending_input" =>
     \/ host[h].ask = pipe[h][j].id /\ host[h].gen = pipe[h][j].gen
     \/ Resolves(h, j)

AsksEnd ==
  \A h \in Hosts : host[h].pc \in Running /\ host[h].agent \notin uprooted => EndsWell(h)

\* An agent that nobody hosts, or whose inner is not up yet, asks nothing.
NoAskUnhosted ==
  \A a \in Sound \ uprooted :
     hostPid[a] = None \/ HostsOf(a, {"claimed"}) # {} => open[a] = 0

AskInv == EmptyPipes /\ AsksEnd /\ NoAskUnhosted /\ AsksAreParked

\* What host h may do: say nothing, give up what it is parked on, resolve it,
\* park on a question, or report the end of a turn.
Speaks(h) ==
  \/ SameEvents(h) /\ host'[h].ask = host[h].ask /\ host'[h].gen = host[h].gen
  \/ /\ SameEvents(h) /\ host'[h].ask = 0
     /\ host[h].ask = 0 \/ host[h].agent \in uprooted'
  \/ /\ Adds(h, "pending_resolved", host[h].ask)
     /\ host[h].ask # 0 /\ host'[h].ask = 0
  \/ /\ Adds(h, "pending_input", host'[h].ask)
     /\ host[h].ask = 0 /\ host'[h].gen = host[h].gen
  \/ \E id : /\ Adds(h, "turn_complete", id)
             /\ host'[h].ask = host[h].ask /\ host'[h].gen = host[h].gen

TalksOn(h) ==
  /\ host'[h].pc \notin Running => pipe'[h] = <<>>
  /\ host'[h].pc \in Running =>
       /\ host'[h].agent = host[h].agent
       /\ \/ host[h].pc = "claimed" /\ pipe'[h] = <<>>
          \/ host[h].pc \in Running /\ Speaks(h)
  /\ host'[h].pc = "claimed" =>
       \/ host[h].pc = "claimed" /\ host'[h].agent = host[h].agent
       \/ hostPid[host'[h].agent] = None

\* What such a step may write of the rows.
AsksNothing ==
  /\ \A a \in Agents : open'[a] \in {open[a], 0}
  /\ \A a \in Sound' :
       hostPid'[a] = None => hostPid[a] = None \/ open'[a] = 0 \/ a \in uprooted'
  /\ uprooted \subseteq uprooted' /\ Sound' \subseteq Sound

\* What host h says keeps its events well.
LEMMA SpeakingEndsWell ==
  ASSUME IType, IType', NEW h \in Hosts, EndsWell(h), Speaks(h),
         host[h].agent \notin uprooted'
  PROVE  EndsWell(h)'
<1>1. DOMAIN pipe[h] = 1..Len(pipe[h]) /\ Len(pipe[h]) \in Nat  BY PipeDomain
<1>2. DOMAIN pipe'[h] = 1..Len(pipe'[h]) /\ Len(pipe'[h]) \in Nat
      /\ \A j \in DOMAIN pipe'[h] : pipe'[h][j] \in Events
  BY DEF IType, TypeOK
<1>3. 0 \notin 1..MaxAsks  OBVIOUS
<1>4. \A j \in DOMAIN pipe'[h] : pipe'[h][j].type = "pending_input" => pipe'[h][j].id # 0
  <2>1. \A e \in Events : e.type = "pending_input" => e.id # 0  BY <1>3 DEF Events
  <2> QED  BY <1>2, <2>1
<1>5. CASE SameEvents(h)
  <2>1. DOMAIN pipe'[h] = DOMAIN pipe[h]  BY <1>1, <1>2, <1>5 DEF SameEvents
  <2>2. \A j \in DOMAIN pipe[h] :
          /\ pipe'[h][j].type = pipe[h][j].type /\ pipe'[h][j].id = pipe[h][j].id
          /\ pipe'[h][j].gen = pipe[h][j].gen
    BY <1>1, <1>5 DEF SameEvents
  <2>3. \A j \in DOMAIN pipe[h] : Resolves(h, j) => Resolves(h, j)'
    BY <2>1, <2>2 DEF Resolves
  <2>4. \/ host'[h].ask = host[h].ask /\ host'[h].gen = host[h].gen
        \/ host[h].ask = 0
    BY <1>1, <1>5 DEF Speaks, Adds, SameEvents
  <2> QED  BY <1>4, <2>1, <2>2, <2>3, <2>4 DEF EndsWell
<1>6. ASSUME NEW type, NEW id, Adds(h, type, id)
      PROVE  /\ DOMAIN pipe'[h] = DOMAIN pipe[h] \cup {Len(pipe[h]) + 1}
             /\ \A j \in DOMAIN pipe[h] :
                  /\ pipe'[h][j] = pipe[h][j] /\ Len(pipe[h]) + 1 > j
                  /\ Resolves(h, j) => Resolves(h, j)'
             /\ LET e == pipe'[h][Len(pipe[h]) + 1]
                IN  e.type = type /\ e.id = id /\ e.gen = host[h].gen
  <2>1. /\ DOMAIN pipe'[h] = DOMAIN pipe[h] \cup {Len(pipe[h]) + 1}
        /\ \A j \in DOMAIN pipe[h] : pipe'[h][j] = pipe[h][j] /\ Len(pipe[h]) + 1 > j
    BY <1>1, <1>2, <1>6 DEF Adds
  <2>2. \A j \in DOMAIN pipe[h] : Resolves(h, j) => Resolves(h, j)'
    BY <2>1 DEF Resolves
  <2> QED  BY <1>6, <2>1, <2>2 DEF Adds
<1>7. CASE Adds(h, "pending_resolved", host[h].ask) /\ host[h].ask # 0
  <2>1. PICK n : n = Len(pipe[h]) + 1  OBVIOUS
  <2>2. /\ n \in DOMAIN pipe'[h] /\ pipe'[h][n].type = "pending_resolved"
        /\ pipe'[h][n].id = host[h].ask /\ pipe'[h][n].gen = host[h].gen
        /\ DOMAIN pipe'[h] = DOMAIN pipe[h] \cup {n}
        /\ \A j \in DOMAIN pipe[h] :
             /\ pipe'[h][j] = pipe[h][j] /\ n > j
             /\ Resolves(h, j) => Resolves(h, j)'
    BY <1>6, <1>7, <2>1
  <2>3. \A j \in DOMAIN pipe[h] :
          host[h].ask = pipe[h][j].id /\ host[h].gen = pipe[h][j].gen => Resolves(h, j)'
    BY <2>2 DEF Resolves
  <2> QED  BY <2>2, <2>3 DEF EndsWell
<1>8. CASE /\ Adds(h, "pending_input", host'[h].ask)
           /\ host[h].ask = 0 /\ host'[h].gen = host[h].gen
  <2>1. \A j \in DOMAIN pipe[h] : pipe'[h][j] = pipe[h][j]  BY <1>6, <1>8
  <2>2. \A j \in DOMAIN pipe[h] : pipe[h][j].type = "pending_input" => pipe[h][j].id # 0
    BY <1>4, <1>6, <1>8
  <2> QED  BY <1>6, <1>8, <2>1, <2>2 DEF EndsWell
<1>9. ASSUME NEW id, Adds(h, "turn_complete", id),
             host'[h].ask = host[h].ask, host'[h].gen = host[h].gen
      PROVE  EndsWell(h)'
  BY <1>6, <1>9 DEF EndsWell
<1> QED  BY <1>5, <1>7, <1>8, <1>9 DEF Speaks

\* What host h says keeps an open question parked on, or resolved.
LEMMA SpeakingParks ==
  ASSUME IType, IType', NEW h \in Hosts, Speaks(h), NEW r, r # 0,
         host[h].ask = r \/ Resolving(h, r), host[h].agent \notin uprooted'
  PROVE  host'[h].ask = r \/ Resolving(h, r)'
<1>1. DOMAIN pipe[h] = 1..Len(pipe[h]) /\ Len(pipe[h]) \in Nat  BY PipeDomain
<1>2. DOMAIN pipe'[h] = 1..Len(pipe'[h])  BY DEF IType, TypeOK
<1>3. CASE SameEvents(h)
  <2>1. DOMAIN pipe'[h] = DOMAIN pipe[h]  BY <1>1, <1>2, <1>3 DEF SameEvents
  <2>2. Resolving(h, r) => Resolving(h, r)'
    BY <1>1, <1>3, <2>1 DEF Resolving, SameEvents
  <2>3. host'[h].ask = host[h].ask \/ host[h].ask = 0
    BY <1>1, <1>3 DEF Speaks, Adds, SameEvents
  <2> QED  BY <2>2, <2>3
<1>4. ASSUME NEW type, NEW id, Adds(h, type, id)
      PROVE  /\ Resolving(h, r) => Resolving(h, r)'
             /\ type = "pending_resolved" /\ id = r => Resolving(h, r)'
  <2>1. PICK n : n = Len(pipe[h]) + 1  OBVIOUS
  <2>2. /\ DOMAIN pipe'[h] = DOMAIN pipe[h] \cup {n}
        /\ \A j \in DOMAIN pipe[h] : pipe'[h][j] = pipe[h][j]
        /\ pipe'[h][n].type = type /\ pipe'[h][n].id = id
    BY <1>1, <1>2, <1>4, <2>1 DEF Adds
  <2> QED  BY <2>2 DEF Resolving
<1>5. CASE Adds(h, "pending_resolved", host[h].ask)  BY <1>4, <1>5
<1>6. CASE Adds(h, "pending_input", host'[h].ask) /\ host[h].ask = 0  BY <1>4, <1>6
<1>7. ASSUME NEW id, Adds(h, "turn_complete", id), host'[h].ask = host[h].ask
      PROVE  host'[h].ask = r \/ Resolving(h, r)'
  BY <1>4, <1>7
<1> QED  BY <1>3, <1>5, <1>6, <1>7 DEF Speaks

LEMMA TalkingKeeps ==
  ASSUME IType, IType', AskInv, AsksNothing, \A h \in Hosts : TalksOn(h)
  PROVE  AskInv'
<1> USE DEF AskInv
<1>1. EmptyPipes'  BY DEF EmptyPipes, TalksOn
<1>2. AsksEnd'
  <2> SUFFICES ASSUME NEW h \in Hosts, host'[h].pc \in Running, host'[h].agent \notin uprooted'
               PROVE  EndsWell(h)'
    BY DEF AsksEnd
  <2>1. host'[h].agent = host[h].agent /\ host[h].agent \notin uprooted
    BY DEF TalksOn, AsksNothing
  <2>2. CASE pipe'[h] = <<>>  BY <2>2 DEF EndsWell
  <2>3. CASE host[h].pc \in Running /\ Speaks(h)
    BY <2>1, <2>3, SpeakingEndsWell DEF AsksEnd
  <2> QED  BY <2>2, <2>3 DEF TalksOn
<1>3. NoAskUnhosted'
  <2> SUFFICES ASSUME NEW a \in Sound' \ uprooted',
                      hostPid'[a] = None \/ HostsOf(a, {"claimed"})' # {}
               PROVE  open'[a] = 0
    BY DEF NoAskUnhosted
  <2>1. a \in Agents /\ a \in Sound \ uprooted  BY DEF AsksNothing, Sound
  <2>2. CASE hostPid'[a] = None  BY <2>1, <2>2 DEF AsksNothing, NoAskUnhosted
  <2>3. CASE HostsOf(a, {"claimed"})' # {}
    <3>1. PICK h \in Hosts : host'[h].pc = "claimed" /\ host'[h].agent = a
      BY <2>3 DEF HostsOf
    <3>2. h \in HostsOf(a, {"claimed"}) \/ hostPid[a] = None
      BY <2>1, <3>1 DEF TalksOn, HostsOf
    <3> QED  BY <2>1, <3>2 DEF AsksNothing, NoAskUnhosted
  <2> QED  BY <2>2, <2>3
<1>4. AsksAreParked'
  <2> SUFFICES ASSUME NEW a \in Sound' \ uprooted', NEW h \in Hosts,
                      host'[h].agent = a, host'[h].pc \in Running, open'[a] # 0
               PROVE  host'[h].ask = open'[a] \/ Resolving(h, open[a])'
    BY DEF AsksAreParked, HostsOf
  <2>1. a \in Agents /\ a \in Sound \ uprooted /\ host[h].agent = a /\ open'[a] = open[a]
    BY DEF AsksNothing, Sound, TalksOn
  <2>2. host[h].pc # "claimed"  BY <2>1 DEF NoAskUnhosted, HostsOf
  <2>3. host[h].pc \in Running /\ Speaks(h)  BY <2>2 DEF TalksOn
  <2>4. host[h].ask = open[a] \/ Resolving(h, open[a])
    BY <2>1, <2>3 DEF AsksAreParked, HostsOf
  <2>5. PICK r : r = open[a]  OBVIOUS
  <2>6. host'[h].ask = r \/ Resolving(h, r)'
    BY <2>1, <2>3, <2>4, <2>5, SpeakingParks
  <2>7. Resolving(h, r)' => Resolving(h, open[a])'  BY <2>1, <2>5 DEF Resolving
  <2> QED  BY <2>1, <2>5, <2>6, <2>7
<1> QED  BY <1>1, <1>2, <1>3, <1>4

\* A host nobody touches, or whose step leaves the pipes alone.
LEMMA UntouchedTalks ==
  ASSUME IType, EmptyPipes, NEW h \in Hosts, host'[h] = host[h], SameEvents(h),
         pipe'[h] = pipe[h] \/ host[h].pc \in Running
  PROVE  TalksOn(h)
BY DEF TalksOn, Speaks, EmptyPipes

LEMMA OthersTalk ==
  ASSUME IType, EmptyPipes, NEW h \in Hosts, OnlyHost(h), OnlyPipe(h), TalksOn(h)
  PROVE  \A k \in Hosts : TalksOn(k)
<1>1. ASSUME NEW k \in Hosts \ {h} PROVE TalksOn(k)
  <2>1. host'[k] = host[k] /\ pipe'[k] = pipe[k]  BY DEF OnlyHost, OnlyPipe
  <2>2. SameEvents(k)  BY <2>1 DEF SameEvents
  <2> QED  BY <2>1, <2>2, UntouchedTalks
<1> QED  BY <1>1

\* A step that writes the pc of a host at most.
LEMMA PcTalks ==
  ASSUME IType, EmptyPipes, NEW h \in Hosts, NEW pc,
         Stands(h, pc, host[h].turn, host[h].ctl), Inner(h, host[h].run, host[h].ask),
         host'[h].gen = host[h].gen, UNCHANGED pipe,
         \/ pc \in Running /\ host[h].pc \in Running
         \/ pc = "loop" /\ host[h].pc = "claimed"
         \/ pc \notin Running /\ host[h].pc \notin Running,
         pc = "claimed" => hostPid[host[h].agent] = None
  PROVE  \A k \in Hosts : TalksOn(k)
<1>1. OnlyHost(h) /\ OnlyPipe(h) /\ SameEvents(h)  BY SamePipe DEF Stands
<1>2. TalksOn(h)
  BY <1>1 DEF Stands, Inner, TalksOn, Speaks, EmptyPipes, Running
<1> QED  BY <1>1, <1>2, OthersTalk

\* A host that is gone, or one that is born.
LEMMA LeavingTalks ==
  ASSUME IType, EmptyPipes, NEW h \in Hosts, NEW pc \in {"free", "boot", "dead"},
         Leaves(h, pc), OnlyPipe(h), pipe'[h] = <<>>
  PROVE  \A k \in Hosts : TalksOn(k)
<1>1. TalksOn(h)  BY DEF Leaves, TalksOn, Running
<1> QED  BY <1>1, OthersTalk DEF Leaves

LEMMA DieTalks ==
  ASSUME IType, EmptyPipes, NEW h \in Hosts, Die(h)
  PROVE  \A k \in Hosts : TalksOn(k)
<1>1. pipe'[h] = <<>> /\ OnlyPipe(h)  BY PipeDomain DEF Die, OnlyPipe
<1>2. Leaves(h, "dead")  BY DieEffect DEF IType
<1> QED  BY <1>1, <1>2, LeavingTalks

\* A parked question is resolved, or nothing is said.
LEMMA UnparkSpeaks ==
  ASSUME IType, NEW h \in Hosts, NEW H, Unpark(h, H)
  PROVE  /\ OnlyPipe(h)
         /\ \/ host[h].ask = 0 /\ SameEvents(h)
            \/ host[h].ask # 0 /\ Adds(h, "pending_resolved", host[h].ask)
BY SamePipe, EmitEffect DEF Unpark

LEMMA CloseSpeaks ==
  ASSUME IType, NEW h \in Hosts, NEW H, Close(h, H), host'[h].ask = 0
  PROVE  OnlyPipe(h) /\ Speaks(h)
<1>1. CASE pipe' = pipe /\ Uproots(h, host[h].ask # 0)
  <2>1. host[h].ask = 0 \/ host[h].agent \in uprooted'  BY <1>1 DEF Uproots
  <2> QED  BY <1>1, <2>1, SamePipe DEF Speaks
<1>2. CASE host[h].ask # 0 /\ Emit(h, "pending_resolved", host[h].ask)
  BY <1>2, EmitEffect DEF Speaks
<1> QED  BY <1>1, <1>2 DEF Close

LEMMA DeliverSpeaks ==
  ASSUME IType, NEW h \in Hosts, DeliverControl(h)
  PROVE  OnlyPipe(h) /\ Speaks(h)
<1> USE DEF IType
<1> DEFINE H == [host[h] EXCEPT !.pc = Back(h), !.ctl = 0]
           R == [H EXCEPT !.shut = TRUE]
<1>1. host[h] \in HostRecords  BY DEF TypeOK
<1>2. 0 \in 0..MaxTurns  BY ResidentAgentsAssumption
<1>3. Back(h) \in Pcs  BY DEF Back, Pcs, Serving, Running
<1>4. H \in HostRecords /\ H.agent = host[h].agent /\ H.ask = host[h].ask /\ H.gen = host[h].gen
  BY <1>1, <1>2, <1>3 DEF HostRecords, Pcs
<1>5. \/ Unpark(h, H)
      \/ host' = [host EXCEPT ![h] = H] /\ pipe' = pipe
      \/ host' = [host EXCEPT ![h] = R] /\ pipe' = pipe
      \/ host' = [host EXCEPT ![h].pc = "restart"] /\ pipe' = pipe
  BY DEF DeliverControl
<1> HIDE DEF H
<1>6. CASE Unpark(h, H)
  <2>1. host'[h].ask = 0 /\ host'[h].gen = host[h].gen
    BY <1>4, <1>6, UnparkEffect DEF Inner, Says
  <2> QED  BY <1>6, <2>1, UnparkSpeaks DEF Speaks
<1>7. CASE pipe' = pipe /\ host'[h].ask = host[h].ask /\ host'[h].gen = host[h].gen
  BY <1>7, SamePipe DEF Speaks
<1>8. CASE host' = [host EXCEPT ![h] = H]  BY <1>4, <1>5, <1>6, <1>7, <1>8, WriteHost
<1>9. CASE host' = [host EXCEPT ![h] = R]
  <2>1. R \in HostRecords /\ R.ask = H.ask /\ R.gen = H.gen
    BY <1>4 DEF HostRecords
  <2> HIDE DEF R
  <2> QED  BY <1>4, <1>5, <1>6, <1>7, <1>8, <1>9, <2>1, WriteHost
<1>10. CASE host' = [host EXCEPT ![h].pc = "restart"] /\ pipe' = pipe
  <2>1. "restart" \in Pcs  BY DEF Pcs, Serving, Running
  <2> QED  BY <1>7, <1>10, <2>1, PcEffect DEF Inner, Says
<1> QED  BY <1>5, <1>6, <1>8, <1>9, <1>10

\* What each step of a host but reading an event says.
LEMMA HostTalks ==
  ASSUME IType, EmptyPipes, NEW h \in Hosts,
         \/ QuietStepOf(h) \/ ClaimTurn(h) \/ SendUserTurn(h) \/ DeliverControl(h)
         \/ FinishTurn(h) \/ AbandonTurn(h) \/ WatchdogFail(h),
         ~\E i \in DOMAIN pipe[h] : ReadEvent(h, i)
  PROVE  \A k \in Hosts : TalksOn(k)
<1> USE DEF IType
<1>0. Back(h) \in {"loop", "wait"} /\ Back(h) \in Pcs /\ Back(h) \in Running
  BY DEF Back, Pcs, Serving, Running
<1>1. ASSUME OnlyPipe(h), Speaks(h), host[h].pc \in Running,
             NEW pc \in Running, NEW turn, NEW ctl, Stands(h, pc, turn, ctl)
      PROVE  \A k \in Hosts : TalksOn(k)
  <2>1. TalksOn(h)  BY <1>1 DEF Stands, TalksOn, Running
  <2> QED  BY <1>1, <2>1, OthersTalk DEF Stands
<1>2. CASE Ask(h)
  <2>1. /\ Stands(h, host[h].pc, host[h].turn, host[h].ctl)
        /\ host'[h].ask = asks[host[h].agent] + 1 /\ host'[h].gen = host[h].gen
        /\ host[h].pc \in Running /\ host[h].ask = 0
    BY <1>2, AskEffect DEF Inner, Says, Ask
  <2>2. OnlyPipe(h) /\ Adds(h, "pending_input", host'[h].ask)
    BY <1>2, <2>1, EmitEffect DEF Ask
  <2> QED  BY <1>1, <2>1, <2>2 DEF Speaks
<1>3. CASE EndTurn(h)
  <2>1. /\ Stands(h, host[h].pc, host[h].turn, host[h].ctl)
        /\ host'[h].ask = host[h].ask /\ host'[h].gen = host[h].gen
        /\ host[h].pc \in Running
    BY <1>3, EndTurnEffect DEF Inner, Says, EndTurn
  <2>2. OnlyPipe(h) /\ Adds(h, "turn_complete", host[h].run)
    BY <1>3, EmitEffect DEF EndTurn
  <2> QED  BY <1>1, <2>1, <2>2 DEF Speaks
<1>4. CASE NoticeEnd(h) \/ IdleReap(h) \/ (Evict(h) /\ host' = [host EXCEPT ![h].shut = TRUE]
           /\ host[h].pc \in Running /\ pipe' = pipe)
  <2>1. /\ host' = [host EXCEPT ![h].shut = TRUE] /\ UNCHANGED pipe
        /\ host[h].pc \in Running /\ host[h].pc # "claimed"
    BY <1>4 DEF NoticeEnd, IdleReap, Looping, At, Running
  <2>2. /\ Stands(h, host[h].pc, host[h].turn, host[h].ctl)
        /\ Inner(h, host[h].run, host[h].ask) /\ host'[h].gen = host[h].gen
    BY <2>1, ShutEffect DEF Says
  <2> QED  BY <2>1, <2>2, PcTalks
<1>5. CASE StartInner(h)
  <2>1. /\ Stands(h, "loop", host[h].turn, host[h].ctl)
        /\ Inner(h, host[h].run, host[h].ask) /\ host'[h].gen = host[h].gen
    BY <1>5, StartInnerEffect DEF Says
  <2>2. host[h].pc = "claimed" /\ UNCHANGED pipe  BY <1>5 DEF StartInner, At
  <2> QED  BY <2>1, <2>2, PcTalks
<1>6. CASE Teardown(h)
  <2>1. Stands(h, "teardown", host[h].turn, host[h].ctl) /\ host'[h].ask = 0
    BY <1>6, TeardownEffect DEF Inner
  <2>2. /\ \E H : Close(h, H)
        /\ host[h].pc \in Running /\ "teardown" \in Running
    BY <1>6 DEF Teardown, At, Running
  <2> QED  BY <1>1, <2>1, <2>2, CloseSpeaks
<1>7. CASE RestartInner(h)
  <2>1. Stands(h, Back(h), host[h].turn, 0) /\ host'[h].ask = 0
    BY <1>7, RestartEffect DEF Inner
  <2>2. (\E H : Close(h, H)) /\ host[h].pc \in Running
    BY <1>7 DEF RestartInner, At, Running
  <2> QED  BY <1>0, <1>1, <2>1, <2>2, CloseSpeaks
<1>8. CASE RestartUnreadable(h)
  <2>1. /\ Stands(h, Back(h), host[h].turn, 0)
        /\ host'[h].ask = host[h].ask /\ host'[h].gen = host[h].gen
    BY <1>0, <1>8, ControlDoneEffect DEF RestartUnreadable, Inner, Says
  <2>2. UNCHANGED pipe /\ host[h].pc \in Running
    BY <1>8 DEF RestartUnreadable, At, Running
  <2> QED  BY <1>0, <1>1, <2>1, <2>2, SamePipe DEF Speaks
<1>9. CASE WatchdogInterrupt(h)
  <2>1. /\ Stands(h, host[h].pc, host[h].turn, host[h].ctl)
        /\ host'[h].ask = 0 /\ host'[h].gen = host[h].gen
    BY <1>9, WatchdogInterruptEffect DEF Inner, Says
  <2>2. (\E H : Unpark(h, H)) /\ host[h].pc \in Running
    BY <1>9 DEF WatchdogInterrupt, Running
  <2>3. OnlyPipe(h) /\ Speaks(h)  BY <2>1, <2>2, UnparkSpeaks DEF Speaks
  <2> QED  BY <1>1, <2>1, <2>2, <2>3
<1>10. CASE Exit(h)
  <2>1. host[h].pc = "exiting" /\ UNCHANGED pipe  BY <1>10 DEF Exit, At
  <2>2. pipe'[h] = <<>>  BY <2>1 DEF EmptyPipes, Running
  <2> QED  BY <1>10, <2>1, <2>2, ExitEffect, LeavingTalks DEF OnlyPipe
<1>11. CASE Kill(h) \/ Die(h)  BY <1>11, DieTalks DEF Kill
<1>12. CASE Evict(h)
  <2>1. CASE host' = host /\ pipe' = pipe
    BY <2>1, SamePipe, UntouchedTalks
  <2> QED  BY <1>4, <1>11, <1>12, <2>1 DEF Evict
<1>13. ASSUME NEW a \in Agents, SpawnSessionHost(a, h) PROVE \A k \in Hosts : TalksOn(k)
  <2>1. host[h].pc \notin Running /\ UNCHANGED pipe
    BY <1>13 DEF SpawnSessionHost, Running
  <2>2. pipe'[h] = <<>>  BY <2>1 DEF EmptyPipes
  <2> QED  BY <1>13, <2>1, <2>2, SpawnEffect, LeavingTalks DEF OnlyPipe
<1>14. CASE ClaimHost(h) \/ StartUnreadable(h)
  <2>1. PICK pc \in {"claimed", "exiting"} : host' = [host EXCEPT ![h].pc = pc]
    BY <1>14 DEF ClaimHost, StartUnreadable, ReleaseHost
  <2>2. {"claimed", "exiting"} \subseteq Pcs  BY DEF Pcs, Serving
  <2>3. /\ Stands(h, pc, host[h].turn, host[h].ctl)
        /\ Inner(h, host[h].run, host[h].ask) /\ host'[h].gen = host[h].gen
    BY <2>1, <2>2, PcEffect DEF Says
  <2>4. UNCHANGED pipe /\ host[h].pc \notin Running /\ pc \notin Running
    BY <1>14 DEF ClaimHost, StartUnreadable, At, Running
  <2>5. pc = "claimed" => hostPid[host[h].agent] = None
    <3>1. CASE ClaimHost(h) /\ Claimable(Agent(h))  BY <3>1 DEF Claimable, Agent
    <3>2. CASE host' = [host EXCEPT ![h].pc = "exiting"]
      <4>1. Stands(h, "exiting", host[h].turn, host[h].ctl)  BY <2>2, <3>2, PcEffect
      <4> QED  BY <2>3, <4>1 DEF Stands
    <3> QED  BY <1>14, <3>1, <3>2 DEF ClaimHost, StartUnreadable, ReleaseHost
  <2> QED  BY <2>3, <2>4, <2>5, PcTalks
<1>15. CASE Release(h)
  <2>1. host' = [host EXCEPT ![h].pc = "exiting"] /\ pipe' = [pipe EXCEPT ![h] = <<>>]
    BY <1>15 DEF Release, ReleaseHost
  <2>2. "exiting" \in Pcs  BY DEF Pcs
  <2>3. Stands(h, "exiting", host[h].turn, host[h].ctl)  BY <2>1, <2>2, PcEffect
  <2>4. OnlyPipe(h) /\ pipe'[h] = <<>>  BY <2>1, PipeDomain DEF OnlyPipe
  <2>5. TalksOn(h)  BY <2>3, <2>4 DEF Stands, TalksOn, Running
  <2> QED  BY <2>3, <2>4, <2>5, OthersTalk DEF Stands
<1>16. CASE ClaimTurn(h)
  <2>1. PICK i \in Deliverable(h) :
          host' = [host EXCEPT ![h] =
                     IF turns[Agent(h)][i].kind = "user"
                       THEN [@ EXCEPT !.pc = "user", !.turn = i]
                       ELSE [@ EXCEPT !.pc = "control", !.ctl = i]]
    BY <1>16 DEF ClaimTurn
  <2>2. i \in 0..MaxTurns
    <3>1. Agent(h) \in Agents /\ i \in DOMAIN turns[Agent(h)]
      BY <1>16, <2>1, ServingAgent
         DEF ClaimTurn, Looping, At, Serving, Running, Deliverable, Queued, TurnsIn
    <3>2. Len(turns[Agent(h)]) <= MaxTurns  BY <3>1 DEF TypeOK
    <3> QED  BY <3>1, <3>2, InboxDomain, ResidentAgentsAssumption
  <2>3. /\ \E pc \in {"user", "control"} : \E turn, ctl : Stands(h, pc, turn, ctl)
        /\ host'[h].ask = host[h].ask /\ host'[h].gen = host[h].gen
    <3>1. CASE turns[Agent(h)][i].kind = "user"
      <4>1. host' = [host EXCEPT ![h] = [@ EXCEPT !.pc = "user", !.turn = i]]
        BY <2>1, <3>1
      <4> QED  BY <2>2, <4>1, ClaimUserEffect DEF Inner, Says
    <3>2. CASE turns[Agent(h)][i].kind # "user"
      <4>1. host' = [host EXCEPT ![h] = [@ EXCEPT !.pc = "control", !.ctl = i]]
        BY <2>1, <3>2
      <4> QED  BY <2>2, <4>1, ClaimControlEffect DEF Inner, Says
    <3> QED  BY <3>1, <3>2
  <2>4. UNCHANGED pipe /\ host[h].pc \in Running /\ {"user", "control"} \subseteq Running
    BY <1>16 DEF ClaimTurn, Looping, At, Running
  <2>5. OnlyPipe(h) /\ Speaks(h)  BY <2>3, <2>4, SamePipe DEF Speaks
  <2> QED  BY <1>1, <2>3, <2>4, <2>5
<1>17. CASE SendUserTurn(h)
  <2>1. /\ Stands(h, "wait", host[h].turn, host[h].ctl)
        /\ host'[h].ask = host[h].ask /\ host'[h].gen = host[h].gen
    BY <1>17, SendEffect DEF Inner, Says
  <2>2. UNCHANGED pipe /\ host[h].pc \in Running /\ "wait" \in Running
    BY <1>17 DEF SendUserTurn, At, Running
  <2>3. OnlyPipe(h) /\ Speaks(h)  BY <2>1, <2>2, SamePipe DEF Speaks
  <2> QED  BY <1>1, <2>1, <2>2, <2>3
<1>18. CASE DeliverControl(h)
  <2>1. \E pc \in {Back(h), "restart"} : \E ctl : Stands(h, pc, host[h].turn, ctl)
    BY <1>18, DeliverEffect
  <2>2. host[h].pc \in Running /\ {Back(h), "restart"} \subseteq Running
    BY <1>0, <1>18 DEF DeliverControl, At, Running
  <2> QED  BY <1>1, <1>18, <2>1, <2>2, DeliverSpeaks
<1>19. CASE FinishTurn(h) \/ AbandonTurn(h) \/ WatchdogFail(h)
  <2>1. /\ Stands(h, "loop", 0, host[h].ctl)
        /\ host'[h].ask = host[h].ask /\ host'[h].gen = host[h].gen
    BY <1>19, FinishEffect, WatchdogFailEffect
       DEF FinishTurn, AbandonTurn, WatchdogFail, Inner, Says
  <2>2. UNCHANGED pipe /\ host[h].pc \in Running /\ "loop" \in Running
    BY <1>19 DEF FinishTurn, AbandonTurn, WatchdogFail, At, Running
  <2>3. OnlyPipe(h) /\ Speaks(h)  BY <2>1, <2>2, SamePipe DEF Speaks
  <2> QED  BY <1>1, <2>1, <2>2, <2>3
<1> QED  BY <1>2, <1>3, <1>4, <1>5, <1>6, <1>7, <1>8, <1>9, <1>10, <1>11, <1>12, <1>13,
            <1>14, <1>15, <1>16, <1>17, <1>18, <1>19 DEF QuietStepOf, QuietHost

\* Steps that leave the questions alone.
LEMMA HostAsksNothing ==
  ASSUME IType, IType', AskInv, NEW h \in Hosts,
         \/ QuietStepOf(h) \/ ClaimTurn(h) \/ SendUserTurn(h) \/ DeliverControl(h)
         \/ FinishTurn(h) \/ AbandonTurn(h) \/ WatchdogFail(h),
         ~\E i \in DOMAIN pipe[h] : ReadEvent(h, i),
         Sound' \subseteq Sound
  PROVE  AsksNothing
<1>1. UNCHANGED open
  BY DEF QuietStepOf, QuietHost, Ask, EndTurn, StartInner, NoticeEnd, IdleReap, Teardown,
         RestartInner, RestartUnreadable, WatchdogInterrupt, Exit, Kill, Evict,
         SpawnSessionHost, ClaimHost, Release, StartUnreadable, ClaimTurn, SendUserTurn,
         DeliverControl, FinishTurn, AbandonTurn, WatchdogFail, rows
<1>2. uprooted \subseteq uprooted'
  <2>1. \/ UNCHANGED uprooted
        \/ \E cond : Uproots(h, cond)
    BY DEF QuietStepOf, QuietHost, Ask, EndTurn, StartInner, NoticeEnd, IdleReap, Teardown,
           RestartInner, RestartUnreadable, WatchdogInterrupt, Exit, Kill, Evict,
           SpawnSessionHost, ClaimHost, Release, StartUnreadable, ClaimTurn, SendUserTurn,
           DeliverControl, FinishTurn, AbandonTurn, WatchdogFail, history, Close
  <2> QED  BY <2>1 DEF Uproots
<1>3. CASE UNCHANGED hostPid  BY <1>1, <1>2, <1>3 DEF AsksNothing, Sound
<1>4. CASE ClaimHost(h)
  <2>1. Agent(h) \in Agents  BY <1>4, ServingAgent DEF ClaimHost, At
  <2>2. \A a \in Agents : hostPid'[a] = None => hostPid[a] = None
    BY <1>4, <2>1, ResidentAgentsAssumption DEF ClaimHost, IType, TypeOK
  <2> QED  BY <1>1, <1>2, <2>2 DEF AsksNothing, Sound
<1>5. CASE Release(h) \/ StartUnreadable(h)
  <2>1. Agent(h) \in Agents /\ host[h].agent = Agent(h)
    BY <1>5, ServingAgent DEF Release, StartUnreadable, At, Serving, Running
  <2>2. \A a \in Agents : hostPid'[a] = None => hostPid[a] = None \/ a = Agent(h)
    BY <1>5, <2>1 DEF Release, StartUnreadable, ReleaseHost, IType, TypeOK
  <2>3. CASE Release(h)
    <3>1. open'[Agent(h)] = 0 \/ Agent(h) \in uprooted'
      BY <1>1, <2>1, <2>3 DEF Release, Uproots
    <3> QED  BY <1>1, <1>2, <2>2, <3>1 DEF AsksNothing, Sound
  <2>4. CASE StartUnreadable(h)
    <3>1. UNCHANGED <<uprooted, robbed>> /\ h \in HostsOf(Agent(h), {"claimed"})
      BY <2>1, <2>4 DEF StartUnreadable, At, HostsOf, history
    <3>2. Agent(h) \in Sound \ uprooted => open[Agent(h)] = 0
      BY <3>1 DEF AskInv, NoAskUnhosted
    <3> QED  BY <1>1, <1>2, <2>1, <2>2, <3>1, <3>2 DEF AsksNothing, Sound
  <2> QED  BY <1>5, <2>3, <2>4
<1> QED
  BY <1>3, <1>4, <1>5
     DEF QuietStepOf, QuietHost, Ask, EndTurn, StartInner, NoticeEnd, IdleReap, Teardown,
         RestartInner, RestartUnreadable, WatchdogInterrupt, Exit, Kill, Evict,
         SpawnSessionHost, ClaimTurn, SendUserTurn,
         DeliverControl, FinishTurn, AbandonTurn, WatchdogFail, rows

\* Steps of the API and of the daemon touch no host and no pipe, but for the
\* conversations that a request to clear the context outdates.
LEMMA ClearTalks ==
  ASSUME IType, IType', EmptyPipes, NEW a \in Agents, NEW force \in BOOLEAN,
         RequestClear(a, force)
  PROVE  \A h \in Hosts : TalksOn(h)
<1> TAKE h \in Hosts
<1>1. /\ host'[h].pc = host[h].pc /\ host'[h].agent = host[h].agent
      /\ host'[h].ask = host[h].ask /\ host'[h].gen = host[h].gen
  BY ClearEffect DEF IType, Inner
<1>2. SameEvents(h)  BY ClearPipes
<1>3. host[h].pc \notin Running => pipe'[h] = <<>>
  <2> SUFFICES ASSUME host[h].pc \notin Running PROVE pipe'[h] = <<>>  OBVIOUS
  <2>1. pipe[h] = <<>>  BY DEF EmptyPipes
  <2>2. Len(pipe'[h]) = 0  BY <1>2, <2>1 DEF SameEvents
  <2>3. pipe'[h] \in Seq(Events)  BY DEF IType, TypeOK
  <2> QED  BY <2>2, <2>3
<1> QED  BY <1>1, <1>2, <1>3 DEF TalksOn, Speaks

LEMMA OutsideAsksNothing ==
  ASSUME IType, IType', EmptyPipes, Sound' \subseteq Sound,
         \/ \E a \in Agents : Request(a)
         \/ Commit \/ ApiCrash \/ OrphanSweep \/ SupervisorPass \/ DaemonCrash
         \/ \E a \in Agents, pid \in Hosts \cup {None} : SweepRow(a, pid)
         \/ UNCHANGED vars
  PROVE  AsksNothing /\ \A h \in Hosts : TalksOn(h)
<1>1. ASSUME NEW a \in Agents, NEW force \in BOOLEAN, RequestClear(a, force)
      PROVE  AsksNothing /\ \A h \in Hosts : TalksOn(h)
  <2>1. UNCHANGED <<hostPid, open, uprooted>>  BY <1>1 DEF RequestClear
  <2> QED  BY <1>1, <2>1, ClearTalks DEF AsksNothing, Sound
<1>2. ASSUME UNCHANGED <<host, pipe>> PROVE \A h \in Hosts : TalksOn(h)
  BY <1>2, SamePipe, UntouchedTalks
<1>3. ASSUME UNCHANGED <<host, pipe, hostPid, open, uprooted>>
      PROVE  AsksNothing /\ \A h \in Hosts : TalksOn(h)
  BY <1>2, <1>3 DEF AsksNothing, Sound
<1>4. ASSUME NEW a \in Agents, Request(a)
      PROVE  AsksNothing /\ \A h \in Hosts : TalksOn(h)
  <2>1. CASE \E force \in BOOLEAN : RequestClear(a, force)  BY <1>1, <2>1
  <2>2. CASE ~\E force \in BOOLEAN : RequestClear(a, force)
    BY <1>3, <1>4, <2>2, EnqueuesFrame
       DEF Request, Enqueues, AnswerPending, EndSession, CancelTurn, rows, history
  <2> QED  BY <2>1, <2>2
<1>5. CASE EndAsks
  <2>1. UNCHANGED <<host, pipe, hostPid, uprooted>>  BY <1>5 DEF EndAsks, history
  <2>2. open' = [open EXCEPT ![req.agent] = 0]  BY <1>5 DEF EndAsks
  <2>3. \A a \in Agents : open'[a] \in {open[a], 0}  BY <2>2 DEF IType, TypeOK
  <2> QED  BY <1>2, <2>1, <2>3 DEF AsksNothing, Sound
<1>6. ASSUME NEW a \in Agents, NEW pid \in Hosts \cup {None}, SweepRow(a, pid)
      PROVE  AsksNothing /\ \A h \in Hosts : TalksOn(h)
  <2>1. UNCHANGED <<host, pipe, uprooted>>  BY <1>6 DEF SweepRow
  <2>2. CASE UNCHANGED <<hostPid, open>>  BY <1>3, <2>1, <2>2
  <2>3. CASE /\ open' = [open EXCEPT ![a] = 0]
             /\ hostPid' = [hostPid EXCEPT ![a] = None]
    <3>1. \A b \in Agents :
            /\ open'[b] \in {open[b], 0}
            /\ hostPid'[b] = None => hostPid[b] = None \/ open'[b] = 0
      BY <2>3 DEF IType, TypeOK
    <3> QED  BY <1>2, <2>1, <3>1 DEF AsksNothing, Sound
  <2> QED  BY <1>6, <2>2, <2>3 DEF SweepRow, rows
<1>7. CASE \/ EnqueueAnswer \/ WriteCancel \/ EndTurns \/ EndRow \/ ApiCrash
           \/ OrphanSweep \/ SupervisorPass \/ DaemonCrash
  BY <1>3, <1>7 DEF EnqueueAnswer, WriteCancel, EndTurns, EndRow, ApiCrash, OrphanSweep,
                    SupervisorPass, DaemonCrash, rows, history
<1>8. CASE UNCHANGED vars  BY <1>3, <1>8, FramedVars
<1> QED  BY <1>4, <1>5, <1>6, <1>7, <1>8 DEF Commit

\* Reading an event: what ends a question that is read stays in the pipe.
LEMMA ReadKeepsAsks ==
  ASSUME IType, IType', OwnInv, AskInv, NEW h \in Hosts, NEW i \in DOMAIN pipe[h],
         ReadEvent(h, i)
  PROVE  AskInv'
<1> USE DEF AskInv
<1> DEFINE a == Agent(h)
<1>1. a \in Agents /\ host[h].agent = a /\ host[h].pc \in Running
  BY ServingAgent DEF ReadEvent, At, Serving
<1>2. UNCHANGED <<hostPid, robbed, uprooted>> /\ Sound' = Sound
  BY DEF ReadEvent, history, Sound
<1>3. PICK e : e = pipe[h][i]  OBVIOUS
<1>4. /\ open'[a] = OpenAfter(open[a], e)
      /\ \A b \in Agents \ {a} : open'[b] = open[b]
  BY <1>1, <1>3 DEF ReadEvent, IType, TypeOK
<1>5. \A j \in 1..(i - 1) : pipe[h][j].gen # e.gen  BY <1>3 DEF ReadEvent
<1>6. \A k \in Hosts :
        /\ host'[k].pc = host[k].pc /\ host'[k].agent = host[k].agent
        /\ host'[k].ask = host[k].ask /\ host'[k].gen = host[k].gen
  BY ReadEffect DEF IType, Stands, Inner, OnlyHost
<1>7. \A k \in Hosts \ {h} : pipe'[k] = pipe[k]  BY ReadPipe DEF OnlyPipe
<1>8. \A k \in DOMAIN pipe[h] \ {i} :
        \E j \in DOMAIN pipe'[h] :
           /\ pipe'[h][j] = pipe[h][k]
           /\ \A n \in DOMAIN pipe'[h] : k > Shift(i, n) => j > n
  BY ReadPipe
<1>9. \A b, pcs : HostsOf(b, pcs)' = HostsOf(b, pcs)  BY <1>6 DEF HostsOf
<1> HIDE DEF a
<1>10. EmptyPipes'  BY <1>1, <1>6, <1>7 DEF EmptyPipes
<1>11. AsksEnd'
  <2> SUFFICES ASSUME NEW k \in Hosts, host'[k].pc \in Running, host'[k].agent \notin uprooted'
               PROVE  EndsWell(k)'
    BY DEF AsksEnd
  <2>1. EndsWell(k)  BY <1>2, <1>6 DEF AsksEnd
  <2>2. CASE k # h  BY <1>6, <1>7, <2>1, <2>2 DEF EndsWell, Resolves
  <2>3. CASE k = h
    <3> SUFFICES ASSUME NEW j \in DOMAIN pipe'[h], pipe'[h][j].type = "pending_input"
                 PROVE  \/ host'[h].ask = pipe'[h][j].id /\ host'[h].gen = pipe'[h][j].gen
                        \/ Resolves(h, j)'
      BY <2>3 DEF EndsWell
    <3>1. PICK m \in DOMAIN pipe[h] \ {i} :
            m = Shift(i, j) /\ pipe'[h][j] = pipe[h][m]
      BY ReadPipe
    <3>2. CASE host[h].ask = pipe[h][m].id /\ host[h].gen = pipe[h][m].gen
      BY <1>6, <3>1, <3>2
    <3>3. CASE Resolves(h, m)
      <4>1. PICK k2 \in DOMAIN pipe[h] :
              /\ k2 > m /\ pipe[h][k2].type = "pending_resolved"
              /\ pipe[h][k2].id = pipe[h][m].id /\ pipe[h][k2].gen = pipe[h][m].gen
        BY <3>3 DEF Resolves
      <4>2. k2 # i
        <5> SUFFICES ASSUME k2 = i PROVE FALSE  OBVIOUS
        <5>1. m \in 1..(i - 1)  BY <4>1, PipeDomain
        <5> QED  BY <1>3, <1>5, <4>1, <5>1
      <4>3. PICK j2 \in DOMAIN pipe'[h] :
              /\ pipe'[h][j2] = pipe[h][k2]
              /\ \A n \in DOMAIN pipe'[h] : k2 > Shift(i, n) => j2 > n
        BY <1>8, <4>2
      <4>4. j2 > j  BY <3>1, <4>1, <4>3
      <4> QED  BY <3>1, <4>1, <4>3, <4>4 DEF Resolves
    <3> QED  BY <2>1, <2>3, <3>1, <3>2, <3>3 DEF EndsWell
  <2> QED  BY <2>2, <2>3
\* Only its own host serves a sound agent.
<1>12. ASSUME a \in Sound
       PROVE  hostPid[a] = h /\ \A k \in HostsOf(a, Serving) : k = h
  BY <1>1, <1>12 DEF OwnInv, SoleHost, HostsOf, Serving
<1>13. NoAskUnhosted'
  <2> SUFFICES ASSUME NEW b \in Sound \ uprooted,
                      hostPid[b] = None \/ HostsOf(b, {"claimed"}) # {}
               PROVE  open'[b] = 0
    BY <1>2, <1>9 DEF NoAskUnhosted, Sound
  <2>1. b \in Agents /\ open[b] = 0  BY DEF NoAskUnhosted, Sound
  <2>2. CASE b = a
    <3>1. hostPid[b] # None  BY <1>12, <2>2, ResidentAgentsAssumption
    <3>2. PICK k \in Hosts : host[k].agent = a /\ host[k].pc = "claimed"
      BY <2>2, <3>1 DEF HostsOf
    <3>3. k = h  BY <1>12, <2>2, <3>2 DEF HostsOf, Serving
    <3> QED  BY <1>1, <3>2, <3>3 DEF Running
  <2> QED  BY <1>4, <2>1, <2>2
<1>14. ASSUME NEW r, NEW k \in DOMAIN pipe[h] \ {i},
              pipe[h][k].type = "pending_resolved", pipe[h][k].id = r
       PROVE  Resolving(h, r)'
  BY <1>8, <1>14 DEF Resolving
<1>15. AsksAreParked'
  <2> SUFFICES ASSUME NEW b \in Sound \ uprooted, NEW k \in HostsOf(b, Running), open'[b] # 0
               PROVE  host'[k].ask = open'[b] \/ Resolving(k, open[b])'
    BY <1>2, <1>9 DEF AsksAreParked, Sound
  <2>1. b \in Agents /\ k \in Hosts /\ host[k].agent = b /\ host[k].pc \in Running
    BY DEF Sound, HostsOf
  <2>2. open[b] # 0 => host[k].ask = open[b] \/ Resolving(k, open[b])
    BY DEF AsksAreParked
  <2>3. PICK r : r = open'[b]  OBVIOUS
  <2>4. ASSUME Resolving(k, r)' PROVE Resolving(k, open[b])'  BY <2>3, <2>4 DEF Resolving
  <2>5. CASE b # a
    <3>1. k # h /\ r = open[b]  BY <1>1, <1>4, <2>1, <2>3, <2>5
    <3>2. Resolving(k, r) => Resolving(k, r)'  BY <1>7, <2>1, <3>1 DEF Resolving
    <3> QED  BY <1>6, <2>1, <2>2, <2>3, <2>4, <3>1, <3>2
  <2>6. CASE b = a
    <3>1. k = h  BY <1>12, <2>1, <2>6 DEF HostsOf, Serving
    <3>2. CASE e.type = "pending_input" /\ open[a] = 0
      <4>1. r = e.id  BY <1>4, <2>3, <2>6, <3>2 DEF OpenAfter
      <4>2. EndsWell(h)  BY <1>1, <2>6 DEF AsksEnd
      <4>3. CASE Resolves(h, i)
        <5>1. PICK n \in DOMAIN pipe[h] \ {i} :
                pipe[h][n].type = "pending_resolved" /\ pipe[h][n].id = r
          BY <1>3, <4>1, <4>3, PipeDomain DEF Resolves
        <5> QED  BY <1>14, <2>3, <2>4, <3>1, <5>1
      <4> QED  BY <1>3, <1>6, <2>3, <3>1, <3>2, <4>1, <4>2, <4>3 DEF EndsWell
    <3>3. CASE open'[a] = open[a]
      <4>1. host[h].ask = r \/ Resolving(h, r)  BY <2>2, <2>3, <2>6, <3>1, <3>3
      <4>2. CASE Resolving(h, r)
        <5>1. PICK n \in DOMAIN pipe[h] :
                pipe[h][n].type = "pending_resolved" /\ pipe[h][n].id = r
          BY <4>2 DEF Resolving
        <5>2. n # i
          BY <1>3, <1>4, <2>3, <2>6, <3>3, <5>1 DEF OpenAfter
        <5> QED  BY <1>14, <2>3, <2>4, <3>1, <5>1, <5>2
      <4> QED  BY <1>6, <2>3, <3>1, <4>1, <4>2
    <3> QED  BY <1>4, <2>3, <2>6, <3>2, <3>3 DEF OpenAfter
  <2> QED  BY <2>5, <2>6
<1> QED  BY <1>10, <1>11, <1>13, <1>15

LEMMA AskInvStep ==
  ASSUME IType, IType', OwnInv, AskInv, [Next]_vars
  PROVE  AskInv'
<1>1. Sound' \subseteq Sound  BY SoundShrinks
<1>2. EmptyPipes  BY DEF AskInv
<1>3. ASSUME NEW h \in Hosts,
             \/ Ask(h) \/ EndTurn(h)
             \/ HostStep(h) \/ IdleReap(h) \/ WatchdogInterrupt(h) \/ WatchdogFail(h)
             \/ StartUnreadable(h) \/ RestartUnreadable(h) \/ Kill(h)
             \/ \E i \in DOMAIN pipe[h] : ReadEvent(h, i)
             \/ Evict(h)
             \/ \E a \in Agents : SpawnSessionHost(a, h)
      PROVE  AskInv'
  <2>1. CASE \E i \in DOMAIN pipe[h] : ReadEvent(h, i)  BY <2>1, ReadKeepsAsks
  <2>2. CASE ~\E i \in DOMAIN pipe[h] : ReadEvent(h, i)
    <3>1. \/ QuietStepOf(h)
          \/ ClaimTurn(h) \/ SendUserTurn(h) \/ DeliverControl(h)
          \/ FinishTurn(h) \/ AbandonTurn(h) \/ WatchdogFail(h)
      BY <1>3, HostSteps
    <3>2. AsksNothing  BY <1>1, <2>2, <3>1, HostAsksNothing
    <3>3. \A k \in Hosts : TalksOn(k)  BY <1>2, <2>2, <3>1, HostTalks
    <3> QED  BY <3>2, <3>3, TalkingKeeps
  <2> QED  BY <2>1, <2>2
<1>4. CASE \/ \E a \in Agents : Request(a)
           \/ Commit \/ ApiCrash \/ OrphanSweep \/ SupervisorPass \/ DaemonCrash
           \/ \E a \in Agents, pid \in Hosts \cup {None} : SweepRow(a, pid)
           \/ UNCHANGED vars
  BY <1>1, <1>2, <1>4, OutsideAsksNothing, TalkingKeeps
<1> QED  BY <1>3, <1>4 DEF Next

LEMMA AskInvInit == Init => AskInv
<1> SUFFICES ASSUME Init PROVE AskInv  OBVIOUS
<1>1. \A h \in Hosts : host[h].pc = "free" /\ pipe[h] = <<>>  BY DEF Init, NoHost
<1>2. \A a \in Agents : open[a] = 0  BY DEF Init
<1> QED  BY <1>1, <1>2
         DEF AskInv, EmptyPipes, AsksEnd, NoAskUnhosted, AsksAreParked, Sound, Running

\* A question the human sees as open is one the inner is parked on, or its end
\* is in the pipe already, in any order in which the events of the generations
\* of inners are read, unless an inner was closed over it.
THEOREM QuestionsAreParked == Spec => []AsksAreParked
<1>1. IType /\ OwnInv /\ AskInv /\ [Next]_vars => AskInv'
  <2>1. IType /\ [Next]_vars => IType'  BY ITypeStep
  <2> QED  BY <2>1, AskInvStep
<1>2. AskInv => AsksAreParked  BY DEF AskInv
<1> QED  BY <1>1, <1>2, AskInvInit, Owned, PTL DEF Spec
-----------------------------------------------------------------------------
(***************************************************************************)
(* Clearing the context: what is of an old conversation, and where.        *)
(***************************************************************************)
\* The last restart of agent a that clears its context.
Clears(a) ==
  {r \in DOMAIN turns[a] :
     turns[a][r].kind = "restart" /\ turns[a][r].clear /\ turns[a][r].since}

\* What was enqueued since then comes after it.
ClearsFirst(a) ==
  \A r \in Clears(a) : \A i \in DOMAIN turns[a] : turns[a][i].since <=> i >= r

\* It is still to be carried out.
Cleaning(a) ==
  \E r \in Clears(a) :
     \/ turns[a][r].st \in {"queued", "delivering"}
     \/ \E h \in HostsOf(a, {"restart"}) : host[h].ctl = r

Recent(a, i) == i \in DOMAIN turns[a] /\ turns[a][i].since

\* The end of turn i, in conversation conv, is in the pipe of host h.
Reported(h, i, conv) ==
  \E j \in DOMAIN pipe[h] :
     pipe[h][j].type = "turn_complete" /\ pipe[h][j].id = i /\ pipe[h][j].conv = conv

\* An inner executes, and reports, turns of its agent's inbox.
RunsKnown(h) ==
  LET a == host[h].agent IN
  host[h].pc \in Running =>
    /\ host[h].run # 0 => host[h].run \in DOMAIN turns[a]
    /\ \A i, conv : Reported(h, i, conv) => i \in DOMAIN turns[a]

\* With no such restart on its way, nothing is of an old conversation that is
\* resumed, or held by a host, which delivers recent turns only.
NothingOld(a) ==
  ~Cleaning(a) =>
    /\ resume[a] # "old"
    /\ \A i \in Queued(a) : turns[a][i].since
    /\ \A h \in HostsOf(a, Running) :
         /\ host[h].conv # "old"
         /\ host[h].turn # 0 => Recent(a, host[h].turn)

\* And in any case no recent turn is executed or reported in one.
Apart(a) ==
  \A h \in HostsOf(a, Running) :
    /\ host[h].run # 0 /\ Recent(a, host[h].run) => host[h].conv # "old"
    /\ host[h].turn # 0 /\ host[h].pc # "user" /\ Recent(a, host[h].turn) => host[h].tc # "old"
    /\ \A i, conv : Reported(h, i, conv) /\ Recent(a, i) => conv # "old"

ForgetInv ==
  /\ \A a \in Agents : ClearsFirst(a)
  /\ \A h \in Hosts : RunsKnown(h)
  /\ \A a \in Sound \ botched : NothingOld(a) /\ Apart(a)

\* While the restart is on its way, the turn a host delivers is an older one.
LEMMA HeldIsOld ==
  ASSUME IType, OwnInv, TurnAhead, NEW a \in Sound, ClearsFirst(a), Cleaning(a),
         NEW h \in HostsOf(a, {"user", "wait"})
  PROVE  ~Recent(a, host[h].turn)
<1> SUFFICES ASSUME Recent(a, host[h].turn) PROVE FALSE  OBVIOUS
<1>0. a \in Agents /\ h \in Hosts /\ host[h].agent = a /\ host[h].pc \in {"user", "wait"}
  BY DEF Sound, HostsOf
<1>1. host[h].pc \in Running /\ host[h].pc \in Serving /\ host[h].turn # 0
  BY <1>0 DEF IType, TypeOK, Running, Serving
<1>2. /\ host[h].turn \in DOMAIN turns[a] /\ turns[a][host[h].turn].kind = "user"
      /\ \A i \in Queued(a) : i > host[h].turn
  BY <1>0, <1>1 DEF TurnAhead, Ahead
<1>3. hostPid[a] = h /\ \A k \in HostsOf(a, {"restart"}) : k = h
  BY <1>0, <1>1 DEF OwnInv, SoleHost, HostsOf, Serving, Running
<1>4. PICK r \in Clears(a) :
        \/ turns[a][r].st \in {"queued", "delivering"}
        \/ \E k \in HostsOf(a, {"restart"}) : host[k].ctl = r
  BY DEF Cleaning
<1>5. r \in DOMAIN turns[a] /\ turns[a][r].kind = "restart"  BY DEF Clears
<1>6. host[h].turn >= r  BY <1>2 DEF ClearsFirst, Recent
<1>7. r \in Nat /\ host[h].turn \in Nat  BY <1>0, <1>2, <1>5, InboxDomain
<1>8. CASE turns[a][r].st = "queued"
  <2>1. r \in Queued(a)  BY <1>5, <1>8 DEF Queued, TurnsIn
  <2> QED  BY <1>2, <1>6, <1>7, <2>1
<1>9. CASE turns[a][r].st = "delivering"
  <2>1. r \in InFlight(a)  BY <1>5, <1>9 DEF InFlight, TurnsIn
  <2>2. r \in Held(h)  BY <1>1, <1>3, <2>1 DEF OwnInv, InFlightIsHeld, FlightHeld
  <2> QED  BY <1>0, <1>2, <1>5, <2>2 DEF Held
<1>10. CASE \E k \in HostsOf(a, {"restart"}) : host[k].ctl = r
  BY <1>0, <1>3, <1>10 DEF HostsOf
<1> QED  BY <1>4, <1>8, <1>9, <1>10

LEMMA SaysForgotten ==
  ASSUME IType, OwnInv, TurnAhead, ForgetInv
  PROVE  ClearedMeansForgotten
<1> SUFFICES ASSUME NEW a \in Sound \ botched, NEW h \in HostsOf(a, {"wait"}),
                    turns[a][host[h].turn].since
             PROVE  host[h].conv # "old"
  BY DEF ClearedMeansForgotten
<1>1. /\ a \in Agents /\ h \in Hosts /\ host[h].agent = a /\ host[h].pc = "wait"
      /\ host[h].turn # 0
  BY DEF Sound, HostsOf, IType, TypeOK
<1>2. h \in HostsOf(a, Running) /\ h \in HostsOf(a, {"user", "wait"})
  BY <1>1 DEF HostsOf, Running
<1>3. host[h].turn \in DOMAIN turns[a]  BY <1>1 DEF TurnAhead, Ahead, Running
<1>4. ~Cleaning(a)  BY <1>1, <1>2, <1>3, HeldIsOld DEF ForgetInv, Recent
<1> QED  BY <1>2, <1>4 DEF ForgetInv, NothingOld

-----------------------------------------------------------------------------
(* What a step may do to an inbox, its hosts and the row.                  *)

InboxKept(a) ==
  /\ Len(turns'[a]) \in {Len(turns[a]), Len(turns[a]) + 1}
  /\ \A i \in 1..Len(turns[a]) :
       /\ turns'[a][i].kind = turns[a][i].kind /\ turns'[a][i].clear = turns[a][i].clear
       /\ turns'[a][i].since = turns[a][i].since
       /\ turns'[a][i].st = "queued" => turns[a][i].st = "queued"
  /\ Len(turns'[a]) = Len(turns[a]) + 1 =>
       LET new == turns'[a][Len(turns'[a])] IN new.since /\ ~new.clear

LEMMA InboxKeeps ==
  ASSUME IType, IType', NEW a \in Agents, InboxKept(a)
  PROVE  /\ DOMAIN turns[a] \subseteq DOMAIN turns'[a]
         /\ Clears(a)' = Clears(a)
         /\ \A i \in DOMAIN turns[a] : Recent(a, i)' <=> Recent(a, i)
         /\ \A i \in Queued(a)' : i \in Queued(a) \/ Recent(a, i)'
         /\ ClearsFirst(a) => ClearsFirst(a)'
<1>1. DOMAIN turns[a] = 1..Len(turns[a]) /\ Len(turns[a]) \in Nat  BY InboxDomain
<1>2. DOMAIN turns'[a] = 1..Len(turns'[a])  BY DEF IType, TypeOK
<1>3. PICK n : n = Len(turns[a])  OBVIOUS
<1>4. \/ DOMAIN turns'[a] = DOMAIN turns[a]
      \/ /\ DOMAIN turns'[a] = DOMAIN turns[a] \cup {n + 1}
         /\ turns'[a][n + 1].since /\ ~turns'[a][n + 1].clear
  BY <1>1, <1>2, <1>3 DEF InboxKept
<1>5. \A i \in DOMAIN turns[a] :
        /\ turns'[a][i].kind = turns[a][i].kind /\ turns'[a][i].clear = turns[a][i].clear
        /\ turns'[a][i].since = turns[a][i].since
        /\ turns'[a][i].st = "queued" => turns[a][i].st = "queued"
  BY <1>1 DEF InboxKept
<1>6. Clears(a)' = Clears(a)
  BY <1>4, <1>5 DEF Clears
<1>7. \A i \in DOMAIN turns[a] : Recent(a, i)' <=> Recent(a, i)
  BY <1>4, <1>5 DEF Recent
<1>8. \A i \in Queued(a)' : i \in Queued(a) \/ Recent(a, i)'
  BY <1>4, <1>5 DEF Queued, TurnsIn, Recent
<1>9. ASSUME ClearsFirst(a) PROVE ClearsFirst(a)'
  <2> SUFFICES ASSUME NEW r \in Clears(a), NEW i \in DOMAIN turns'[a]
               PROVE  turns'[a][i].since <=> i >= r
    BY <1>6 DEF ClearsFirst
  <2>1. r \in DOMAIN turns[a]  BY DEF Clears
  <2>2. CASE i \in DOMAIN turns[a]  BY <1>5, <1>9, <2>2 DEF ClearsFirst
  <2>3. CASE i = n + 1 /\ turns'[a][n + 1].since  BY <1>1, <1>3, <2>1, <2>3
  <2> QED  BY <1>4, <2>2, <2>3
<1> QED  BY <1>4, <1>6, <1>7, <1>8, <1>9

\* What ends that the pipe of host h reports, it reported, or its inner
\* executed the turn.
Reports(h) ==
  \A i, conv : Reported(h, i, conv)' =>
     \/ Reported(h, i, conv)
     \/ i = host[h].run /\ host[h].run # 0 /\ conv = host[h].conv

\* Where what host h holds comes from.
Carries(h) ==
  LET a == host[h].agent IN
  host'[h].pc \in Running =>
    /\ host'[h].agent = a
    /\ \/ /\ host[h].pc = "claimed" /\ pipe'[h] = <<>>
          /\ host'[h].run = 0 /\ host'[h].turn = 0 /\ host'[h].conv = resume[a]
       \/ /\ host[h].pc \in Running /\ Reports(h)
          /\ host'[h].conv \in {host[h].conv, resume[a], "none", "new"}
          /\ \/ host'[h].run = 0
             \/ host'[h].run = host[h].run /\ host'[h].conv = host[h].conv
             \/ /\ host[h].pc = "user" /\ host'[h].run = host[h].turn
                /\ host'[h].conv \in {host[h].conv, "new"}
          /\ \/ host'[h].turn \in {0, host[h].turn}
             \/ host'[h].turn \in Queued(a) /\ host'[h].pc = "user"
          /\ \/ host'[h].turn = 0 \/ host'[h].pc = "user" \/ host'[h].tc = "no"
             \/ /\ host'[h].turn = host[h].turn /\ host[h].pc # "user"
                /\ host'[h].tc = host[h].tc \/ Reported(h, host[h].turn, host'[h].tc)

\* And what conversation the row of agent a names.
Publishes(a) ==
  \/ resume'[a] \in {resume[a], "none"}
  \/ \E h \in HostsOf(a, Running) :
       \/ resume'[a] = host[h].conv
       \/ host[h].turn # 0 /\ host[h].pc # "user" /\ resume'[a] = host[h].tc

LEMMA RunsKnownKept ==
  ASSUME IType, IType', TurnAhead, NEW h \in Hosts, RunsKnown(h), Carries(h),
         \A a \in Agents : InboxKept(a)
  PROVE  RunsKnown(h)'
<1> SUFFICES ASSUME host'[h].pc \in Running PROVE RunsKnown(h)'  BY DEF RunsKnown
<1>1. PICK a \in Agents : a = host[h].agent
  BY ServingAgent DEF Carries, Serving, Running
<1>2. host'[h].agent = a  BY <1>1 DEF Carries
<1>3. DOMAIN turns[a] \subseteq DOMAIN turns'[a]  BY InboxKeeps
<1>4. CASE host[h].pc = "claimed"
  <2>1. host[h].pc \notin Running  BY <1>4 DEF Running
  <2>2. host'[h].run = 0 /\ pipe'[h] = <<>>  BY <2>1 DEF Carries
  <2>3. \A i, conv : ~Reported(h, i, conv)'  BY <2>2 DEF Reported
  <2> QED  BY <2>2, <2>3 DEF RunsKnown
<1>5. CASE host[h].pc \in Running
  <2>1. /\ host[h].run # 0 => host[h].run \in DOMAIN turns[a]
        /\ \A i, conv : Reported(h, i, conv) => i \in DOMAIN turns[a]
    BY <1>1, <1>5 DEF RunsKnown
  <2>2. host[h].turn # 0 => host[h].turn \in DOMAIN turns[a]
    BY <1>1, <1>5 DEF TurnAhead, Ahead
  <2>3. host'[h].run \in {0, host[h].run, host[h].turn} /\ Reports(h)
    BY <1>5 DEF Carries, Running
  <2>4. host'[h].run # 0 => host'[h].run \in DOMAIN turns'[a]  BY <1>3, <2>1, <2>2, <2>3
  <2>5. \A i, conv : Reported(h, i, conv)' => i \in DOMAIN turns'[a]
    BY <1>3, <2>1, <2>3 DEF Reports
  <2> QED  BY <1>2, <2>4, <2>5 DEF RunsKnown
<1> QED  BY <1>4, <1>5 DEF Carries

\* Recent in the next state.
RecentThen(a, i) == i \in DOMAIN turns'[a] /\ turns'[a][i].since

\* Where the hosts of an agent take it from, in the next state.
LEMMA HostsCarry ==
  ASSUME IType, NEW a \in Agents, NEW h \in HostsOf(a, Running)',
         \A k \in Hosts : host'[k].agent = a => Carries(k)
  PROVE  /\ h \in Hosts /\ Carries(h) /\ host'[h].pc \in Running
         /\ host[h].agent = a
         /\ host[h].pc # "claimed" => h \in HostsOf(a, Running)
BY DEF HostsOf, Carries

LEMMA ApartKept ==
  ASSUME IType, IType', OwnInv, TurnAhead, NEW a \in Sound, InboxKept(a), ClearsFirst(a),
         \A h \in Hosts : RunsKnown(h), NothingOld(a), Apart(a),
         \A h \in Hosts : host'[h].agent = a => Carries(h)
  PROVE  Apart(a)'
<1> SUFFICES ASSUME NEW h \in HostsOf(a, Running)'
             PROVE  /\ host'[h].run # 0 /\ RecentThen(a, host'[h].run) => host'[h].conv # "old"
                    /\ host'[h].turn # 0 /\ host'[h].pc # "user" /\ RecentThen(a, host'[h].turn)
                         => host'[h].tc # "old"
                    /\ \A i, conv : Reported(h, i, conv)' /\ RecentThen(a, i) => conv # "old"
  BY DEF Apart, Recent, RecentThen
<1>0. a \in Agents  BY DEF Sound
<1>1. h \in Hosts /\ Carries(h) /\ host'[h].pc \in Running /\ host[h].agent = a
  BY <1>0, HostsCarry
<1>2. \A i \in DOMAIN turns[a] : RecentThen(a, i) <=> Recent(a, i)
  BY <1>0, InboxKeeps DEF Recent, RecentThen
<1>3. CASE host[h].pc \notin Running
  <2>1. host'[h].run = 0 /\ host'[h].turn = 0 /\ pipe'[h] = <<>>
    BY <1>1, <1>3 DEF Carries
  <2>2. \A i, conv : ~Reported(h, i, conv)'  BY <2>1 DEF Reported
  <2> QED  BY <2>1, <2>2
<1>4. CASE host[h].pc \in Running
  <2>0. host[h].pc # "claimed"  BY <1>4 DEF Running
  <2>1. h \in HostsOf(a, Running)  BY <1>1, <1>4 DEF HostsOf
  <2>2. /\ host[h].run # 0 => host[h].run \in DOMAIN turns[a]
        /\ \A i, conv : Reported(h, i, conv) => i \in DOMAIN turns[a]
    BY <1>1, <1>4 DEF RunsKnown
  <2>3. host[h].turn # 0 => host[h].turn \in DOMAIN turns[a]
    BY <1>1, <1>4 DEF TurnAhead, Ahead
  <2>4. /\ host[h].run # 0 /\ Recent(a, host[h].run) => host[h].conv # "old"
        /\ host[h].turn # 0 /\ host[h].pc # "user" /\ Recent(a, host[h].turn)
             => host[h].tc # "old"
        /\ \A i, conv : Reported(h, i, conv) /\ Recent(a, i) => conv # "old"
    BY <2>1 DEF Apart
  <2>5. ASSUME host[h].pc = "user", Recent(a, host[h].turn) PROVE host[h].conv # "old"
    <3>1. h \in HostsOf(a, {"user", "wait"})  BY <1>1, <2>5 DEF HostsOf
    <3>2. ~Cleaning(a)  BY <2>5, <3>1, HeldIsOld
    <3> QED  BY <2>1, <3>2 DEF NothingOld
  <2>6. \/ host'[h].run = 0
        \/ host'[h].run = host[h].run /\ host'[h].conv = host[h].conv
        \/ /\ host[h].pc = "user" /\ host'[h].run = host[h].turn
           /\ host'[h].conv \in {host[h].conv, "new"}
    BY <1>1, <2>0 DEF Carries
  <2>7. \/ host'[h].turn = 0 \/ host'[h].pc = "user" \/ host'[h].tc = "no"
        \/ /\ host'[h].turn = host[h].turn /\ host[h].pc # "user"
           /\ host'[h].tc = host[h].tc \/ Reported(h, host[h].turn, host'[h].tc)
    BY <1>1, <2>0 DEF Carries
  <2>8. Reports(h)  BY <1>1, <2>0 DEF Carries
  <2>9. host'[h].run # 0 /\ RecentThen(a, host'[h].run) => host'[h].conv # "old"
    BY <1>2, <2>2, <2>3, <2>4, <2>5, <2>6
  <2>10. host'[h].turn # 0 /\ host'[h].pc # "user" /\ RecentThen(a, host'[h].turn)
           => host'[h].tc # "old"
    BY <1>2, <2>3, <2>4, <2>7
  <2>11. \A i, conv : Reported(h, i, conv)' /\ RecentThen(a, i) => conv # "old"
    BY <1>2, <2>2, <2>4, <2>8 DEF Reports
  <2> QED  BY <2>9, <2>10, <2>11
<1> QED  BY <1>3, <1>4

LEMMA ForgottenKept ==
  ASSUME IType, IType', TurnAhead, NEW a \in Sound, InboxKept(a),
         NothingOld(a), Apart(a), Cleaning(a) => Cleaning(a)', Publishes(a),
         \A h \in Hosts : host'[h].agent = a => Carries(h)
  PROVE  NothingOld(a)'
<1> SUFFICES ASSUME ~Cleaning(a)'
             PROVE  /\ resume'[a] # "old"
                    /\ \A i \in Queued(a)' : turns'[a][i].since
                    /\ \A h \in HostsOf(a, Running)' :
                         /\ host'[h].conv # "old"
                         /\ host'[h].turn # 0 => RecentThen(a, host'[h].turn)
  BY DEF NothingOld, Recent, RecentThen
<1>0. a \in Agents  BY DEF Sound
<1>1. /\ resume[a] # "old"
      /\ \A i \in Queued(a) : turns[a][i].since
      /\ \A h \in HostsOf(a, Running) :
           /\ host[h].conv # "old"
           /\ host[h].turn # 0 => Recent(a, host[h].turn)
  BY DEF NothingOld
<1>2. /\ \A i \in DOMAIN turns[a] : RecentThen(a, i) <=> Recent(a, i)
      /\ \A i \in Queued(a)' : i \in Queued(a) \/ RecentThen(a, i)
  BY <1>0, InboxKeeps DEF Recent, RecentThen
<1>3. \A i : Recent(a, i) => RecentThen(a, i)  BY <1>2 DEF Recent
<1>4. \A i \in Queued(a) : Recent(a, i)  BY <1>1 DEF Queued, TurnsIn, Recent
<1>5. resume'[a] # "old"
  <2>1. \A h \in HostsOf(a, Running) :
          host[h].turn # 0 /\ host[h].pc # "user" => host[h].tc # "old"
    BY <1>1 DEF Apart
  <2> QED  BY <1>1, <2>1 DEF Publishes
<1>6. \A i \in Queued(a)' : turns'[a][i].since  BY <1>2, <1>3, <1>4 DEF RecentThen
<1>7. ASSUME NEW h \in HostsOf(a, Running)'
      PROVE  /\ host'[h].conv # "old"
             /\ host'[h].turn # 0 => RecentThen(a, host'[h].turn)
  <2>1. h \in Hosts /\ Carries(h) /\ host'[h].pc \in Running /\ host[h].agent = a
    BY <1>0, HostsCarry
  <2>2. CASE host[h].pc \notin Running
    BY <1>1, <2>1, <2>2 DEF Carries
  <2>3. CASE host[h].pc \in Running
    <3>0. host[h].pc # "claimed"  BY <2>3 DEF Running
    <3>1. h \in HostsOf(a, Running)  BY <2>1, <2>3 DEF HostsOf
    <3>2. /\ host'[h].conv \in {host[h].conv, resume[a], "none", "new"}
          /\ host'[h].turn \in {0, host[h].turn} \/ host'[h].turn \in Queued(a)
      BY <2>1, <3>0 DEF Carries
    <3> QED  BY <1>1, <1>3, <1>4, <3>1, <3>2
  <2> QED  BY <2>2, <2>3
<1> QED  BY <1>5, <1>6, <1>7

\* The restart is still on its way when its turn is still to be delivered, or
\* is at the host that took it.
LEMMA CleansOn ==
  ASSUME IType, IType', NEW a \in Agents, InboxKept(a),
         \A r \in Clears(a) : turns[a][r].st \in {"queued", "delivering"} =>
            \/ turns'[a][r].st \in {"queued", "delivering"}
            \/ \E h \in HostsOf(a, {"restart"})' : host'[h].ctl = r,
         \A h \in HostsOf(a, {"restart"}) :
            /\ host'[h].pc = "restart" /\ host'[h].agent = a
            /\ host'[h].ctl = host[h].ctl
  PROVE  Cleaning(a) => Cleaning(a)'
<1>1. Clears(a)' = Clears(a)  BY InboxKeeps
<1>2. \A h \in HostsOf(a, {"restart"}) : h \in HostsOf(a, {"restart"})'  BY DEF HostsOf
<1> QED  BY <1>1, <1>2 DEF Cleaning

\* The restart that is carried out between turns leaves nothing old behind.
LEMMA CleanRestart ==
  ASSUME IType, IType', OwnInv, TurnAhead, NEW h \in Hosts, RestartInner(h),
         host[h].turn = 0, NEW a \in Sound, host[h].agent = a, InboxKept(a),
         ClearsFirst(a), Cleaning(a), ~Cleaning(a)'
  PROVE  NothingOld(a)'
<1>0. a \in Agents  BY DEF Sound
<1>1. /\ UNCHANGED turns /\ host[h].pc = "restart"
      /\ resume' = [resume EXCEPT ![a] = Resumed(h)]
  BY DEF RestartInner, At, Agent
<1>2. /\ Stands(h, Back(h), 0, 0) /\ host'[h].conv = Resumed(h)
  BY RestartEffect DEF IType, Says
<1>3. Clears(a)' = Clears(a)  BY <1>0, InboxKeeps
<1>4. PICK r \in Clears(a) :
        \/ turns[a][r].st \in {"queued", "delivering"}
        \/ \E k \in HostsOf(a, {"restart"}) : host[k].ctl = r
  BY DEF Cleaning
<1>5. host[h].ctl = r
  <2>1. turns[a][r].st \notin {"queued", "delivering"}  BY <1>1, <1>3, <1>4 DEF Cleaning
  <2>2. PICK k \in HostsOf(a, {"restart"}) : host[k].ctl = r  BY <1>4, <2>1
  <2>3. CASE k = h  BY <2>2, <2>3
  <2>4. CASE k # h
    <3>1. host'[k] = host[k]  BY <1>2, <2>2, <2>4 DEF Stands, OnlyHost, HostsOf
    <3>2. k \in HostsOf(a, {"restart"})' /\ host'[k].ctl = r  BY <2>2, <3>1 DEF HostsOf
    <3> QED  BY <1>3, <3>2 DEF Cleaning
  <2> QED  BY <2>3, <2>4
<1>6. r \in DOMAIN turns[a] /\ turns[a][r].clear  BY DEF Clears
<1>7. Resumed(h) = "none"  BY <1>5, <1>6 DEF Resumed, Reset, Agent
<1>8. resume'[a] = "none"  BY <1>0, <1>1, <1>7 DEF IType, TypeOK
<1>9. ASSUME NEW i \in Queued(a)' PROVE turns'[a][i].since
  <2>1. i \in Queued(a) /\ i \in DOMAIN turns[a]  BY <1>1 DEF Queued, TurnsIn
  <2>2. i > r  BY <1>1, <1>5, <2>1 DEF TurnAhead, Ahead, Running
  <2>3. i \in Nat /\ r \in Nat  BY <1>0, <1>6, <2>1, InboxDomain
  <2>4. i >= r  BY <2>2, <2>3
  <2>5. turns[a][i].since  BY <2>1, <2>4 DEF ClearsFirst
  <2> QED  BY <1>1, <2>5
<1>10. ASSUME NEW k \in HostsOf(a, Running)' PROVE k = h
  <2>1. CASE k # h
    <3>1. host'[k] = host[k]  BY <1>2, <2>1 DEF Stands, OnlyHost, HostsOf
    <3>2. k \in HostsOf(a, Serving) /\ h \in HostsOf(a, Serving)
      BY <1>1, <3>1 DEF HostsOf, Serving, Running
    <3> QED  BY <3>2 DEF OwnInv, SoleHost
  <2> QED  BY <2>1
<1>11. \A k \in HostsOf(a, Running)' : host'[k].conv # "old" /\ host'[k].turn = 0
  BY <1>2, <1>7, <1>10 DEF Stands
<1> QED  BY <1>8, <1>9, <1>11 DEF NothingOld

-----------------------------------------------------------------------------
(* What each step carries on.                                              *)

LEMMA AddsReports ==
  ASSUME IType, IType', NEW h \in Hosts, NEW type, NEW id, Adds(h, type, id),
         type = "turn_complete" => id = host[h].run /\ host[h].run # 0
  PROVE  Reports(h)
<1>1. PICK n : n = Len(pipe[h]) + 1  OBVIOUS
<1>2. /\ DOMAIN pipe'[h] = DOMAIN pipe[h] \cup {n}
      /\ \A j \in DOMAIN pipe[h] : pipe'[h][j] = pipe[h][j]
      /\ pipe'[h][n].type = type /\ pipe'[h][n].id = id /\ pipe'[h][n].conv = host[h].conv
  <2>1. DOMAIN pipe[h] = 1..Len(pipe[h]) /\ Len(pipe[h]) \in Nat  BY PipeDomain
  <2>2. DOMAIN pipe'[h] = 1..Len(pipe'[h])  BY DEF IType, TypeOK
  <2> QED  BY <1>1, <2>1, <2>2 DEF Adds
<1> QED  BY <1>2 DEF Reports, Reported

LEMMA SameReports ==
  ASSUME NEW h \in Hosts, pipe'[h] = pipe[h]
  PROVE  Reports(h)
BY DEF Reports, Reported

\* Neither resolving a question nor closing an inner reports a turn.
LEMMA NoTurnReports ==
  ASSUME IType, IType', NEW h \in Hosts, NEW H, Unpark(h, H) \/ Close(h, H)
  PROVE  OnlyPipe(h) /\ Reports(h)
<1>1. CASE pipe' = pipe  BY <1>1, SamePipe, SameReports
<1>2. CASE Emit(h, "pending_resolved", host[h].ask)
  <2>1. OnlyPipe(h) /\ Adds(h, "pending_resolved", host[h].ask)  BY <1>2, EmitEffect
  <2> QED  BY <2>1, AddsReports
<1> QED  BY <1>1, <1>2 DEF Unpark, Close

LEMMA UntouchedCarries ==
  ASSUME NEW h \in Hosts, host'[h] = host[h], pipe'[h] = pipe[h]
  PROVE  Carries(h)
BY SameReports DEF Carries, Running

LEMMA OthersCarry ==
  ASSUME NEW h \in Hosts, OnlyHost(h), OnlyPipe(h), Carries(h)
  PROVE  \A k \in Hosts : Carries(k)
<1>1. ASSUME NEW k \in Hosts \ {h} PROVE Carries(k)
  <2>1. host'[k] = host[k] /\ pipe'[k] = pipe[k]  BY DEF OnlyHost, OnlyPipe
  <2> QED  BY <2>1, UntouchedCarries
<1> QED  BY <1>1

\* A host that goes on in its loop, with the turn it held or none, and an inner
\* that executes what it executed or nothing.
LEMMA LoopCarries ==
  ASSUME NEW h \in Hosts, OnlyPipe(h), Reports(h), host[h].pc \in Running,
         NEW pc \in Running, NEW turn \in {0, host[h].turn}, NEW ctl,
         Stands(h, pc, turn, ctl), host[h].pc = "user" => turn = 0 \/ pc = "user",
         NEW run \in {0, host[h].run}, NEW ask, Inner(h, run, ask),
         NEW conv \in {host[h].conv, resume[host[h].agent], "none"}, NEW gen,
         Says(h, conv, gen, host[h].tc), run = 0 \/ conv = host[h].conv
  PROVE  \A k \in Hosts : Carries(k)
<1>1. Carries(h)  BY DEF Stands, Inner, Says, Carries
<1> QED  BY <1>1, OthersCarry DEF Stands

\* A host that is not in its loop afterwards carries nothing.
LEMMA LeavingCarries ==
  ASSUME NEW h \in Hosts, OnlyHost(h), OnlyPipe(h), host'[h].pc \notin Running
  PROVE  \A k \in Hosts : Carries(k)
<1>1. Carries(h)  BY DEF Carries
<1> QED  BY <1>1, OthersCarry

\* Steps of a host between turns, or beside them.
LEMMA QuietCarries ==
  ASSUME IType, IType', EmptyPipes, NEW h \in Hosts, QuietStepOf(h),
         ~\E i \in DOMAIN pipe[h] : ReadEvent(h, i)
  PROVE  \A k \in Hosts : Carries(k)
<1> USE DEF IType
<1>0. Back(h) \in {"loop", "wait"} /\ Back(h) \in Pcs /\ Back(h) \in Running
  BY DEF Back, Pcs, Serving, Running
<1>1. CASE Ask(h) \/ EndTurn(h)
  <2>1. /\ Stands(h, host[h].pc, host[h].turn, host[h].ctl)
        /\ Says(h, host[h].conv, host[h].gen, host[h].tc)
        /\ \E run \in {0, host[h].run} : \E ask : Inner(h, run, ask)
    BY <1>1, AskEffect, EndTurnEffect
  <2>2. \/ Emit(h, "pending_input", asks[host[h].agent] + 1)
        \/ Emit(h, "turn_complete", host[h].run)
    BY <1>1 DEF Ask, EndTurn
  <2>3. host[h].pc \in Running /\ host[h].run # 0  BY <1>1 DEF Ask, EndTurn
  <2>4. OnlyPipe(h) /\ Reports(h)  BY <2>2, <2>3, EmitEffect, AddsReports
  <2> QED  BY <2>1, <2>3, <2>4, LoopCarries
<1>2. CASE host' = [host EXCEPT ![h].shut = TRUE] /\ UNCHANGED pipe /\ host[h].pc \in Running
  <2>1. /\ Stands(h, host[h].pc, host[h].turn, host[h].ctl)
        /\ Inner(h, host[h].run, host[h].ask)
        /\ Says(h, host[h].conv, host[h].gen, host[h].tc)
    BY <1>2, ShutEffect
  <2>2. OnlyPipe(h) /\ Reports(h)  BY <1>2, SamePipe, SameReports
  <2> QED  BY <1>2, <2>1, <2>2, LoopCarries
<1>3. CASE NoticeEnd(h) \/ IdleReap(h)
  BY <1>2, <1>3 DEF NoticeEnd, IdleReap, Looping, At, Running
<1>4. CASE StartInner(h)
  <2>1. /\ Stands(h, "loop", host[h].turn, host[h].ctl)
        /\ Inner(h, host[h].run, host[h].ask)
        /\ host'[h].conv = resume[host[h].agent]
    BY <1>4, StartInnerEffect DEF Says
  <2>2. host[h].pc = "claimed" /\ UNCHANGED pipe  BY <1>4 DEF StartInner, At
  <2>3. host[h].run = 0 /\ pipe[h] = <<>>
    BY <2>2 DEF TypeOK, EmptyPipes, Running
  <2>4. host'[h].turn = 0  BY <2>1 DEF TypeOK, Stands
  <2>5. Carries(h)  BY <2>1, <2>2, <2>3, <2>4 DEF Carries, Stands, Inner
  <2> QED  BY <2>1, <2>2, <2>5, SamePipe, OthersCarry DEF Stands
<1>5. CASE Teardown(h)
  <2>1. /\ Stands(h, "teardown", host[h].turn, host[h].ctl) /\ Inner(h, 0, 0)
        /\ Says(h, host[h].conv, host[h].gen, host[h].tc)
    BY <1>5, TeardownEffect
  <2>2. (\E H : Close(h, H)) /\ host[h].pc = "loop"  BY <1>5 DEF Teardown, At
  <2>3. OnlyPipe(h) /\ Reports(h)  BY <2>2, NoTurnReports
  <2>4. "loop" \in Running /\ "teardown" \in Running  BY DEF Running
  <2> QED  BY <2>1, <2>2, <2>3, <2>4, LoopCarries
<1>6. CASE RestartInner(h)
  <2>1. /\ Stands(h, Back(h), host[h].turn, 0) /\ Inner(h, 0, 0)
        /\ Says(h, Resumed(h), host[h].gen + 1, host[h].tc)
    BY <1>6, RestartEffect
  <2>2. (\E H : Close(h, H)) /\ host[h].pc = "restart"  BY <1>6 DEF RestartInner, At
  <2>3. OnlyPipe(h) /\ Reports(h)  BY <2>2, NoTurnReports
  <2>4. Resumed(h) \in {resume[host[h].agent], "none"}  BY DEF Resumed, Agent
  <2>5. "restart" \in Running  BY DEF Running
  <2> QED  BY <1>0, <2>1, <2>2, <2>3, <2>4, <2>5, LoopCarries
<1>7. CASE RestartUnreadable(h)
  <2>1. /\ Stands(h, Back(h), host[h].turn, 0)
        /\ Inner(h, host[h].run, host[h].ask)
        /\ Says(h, host[h].conv, host[h].gen, host[h].tc)
    BY <1>0, <1>7, ControlDoneEffect DEF RestartUnreadable
  <2>2. UNCHANGED pipe /\ host[h].pc = "restart" /\ "restart" \in Running
    BY <1>7 DEF RestartUnreadable, At, Running
  <2>3. OnlyPipe(h) /\ Reports(h)  BY <2>2, SamePipe, SameReports
  <2> QED  BY <1>0, <2>1, <2>2, <2>3, LoopCarries
<1>8. CASE WatchdogInterrupt(h)
  <2>1. /\ Stands(h, host[h].pc, host[h].turn, host[h].ctl)
        /\ Inner(h, host[h].run, 0)
        /\ Says(h, host[h].conv, host[h].gen, host[h].tc)
    BY <1>8, WatchdogInterruptEffect
  <2>2. (\E H : Unpark(h, H)) /\ host[h].pc \in Running
    BY <1>8 DEF WatchdogInterrupt, Running
  <2>3. OnlyPipe(h) /\ Reports(h)  BY <2>2, NoTurnReports
  <2> QED  BY <2>1, <2>2, <2>3, LoopCarries
<1>9. CASE Exit(h) \/ Die(h) \/ \E a \in Agents : SpawnSessionHost(a, h)
  <2>1. \E pc \in {"free", "dead", "boot"} : Leaves(h, pc)
    BY <1>9, ExitEffect, DieEffect, SpawnEffect
  <2>2. OnlyPipe(h)  BY <1>9, PipeDomain DEF Exit, Die, SpawnSessionHost, OnlyPipe
  <2> QED  BY <2>1, <2>2, LeavingCarries DEF Leaves, Running
<1>10. CASE Evict(h)
  <2>1. CASE host' = host /\ pipe' = pipe  BY <2>1, UntouchedCarries
  <2> QED  BY <1>2, <1>9, <1>10, <2>1 DEF Evict
<1>11. CASE ClaimHost(h) \/ StartUnreadable(h) \/ Release(h)
  <2>1. \E pc \in {"claimed", "exiting"} : host' = [host EXCEPT ![h].pc = pc]
    BY <1>11 DEF ClaimHost, Release, StartUnreadable, ReleaseHost
  <2>2. {"claimed", "exiting"} \subseteq Pcs  BY DEF Pcs, Serving
  <2>3. \E pc \in {"claimed", "exiting"} : Stands(h, pc, host[h].turn, host[h].ctl)
    BY <2>1, <2>2, PcEffect
  <2>4. OnlyPipe(h)
    BY <1>11, PipeDomain DEF ClaimHost, StartUnreadable, Release, OnlyPipe
  <2> QED  BY <2>3, <2>4, LeavingCarries DEF Stands, Running
<1> QED  BY <1>1, <1>3, <1>4, <1>5, <1>6, <1>7, <1>8, <1>9, <1>10, <1>11
            DEF QuietStepOf, QuietHost, Kill

\* Steps that deliver a turn.
LEMMA DeliveryCarries ==
  ASSUME IType, IType', NEW h \in Hosts,
         \/ ClaimTurn(h) \/ SendUserTurn(h) \/ DeliverControl(h)
         \/ FinishTurn(h) \/ AbandonTurn(h) \/ WatchdogFail(h)
  PROVE  \A k \in Hosts : Carries(k)
<1> USE DEF IType
<1>0. Back(h) \in {"loop", "wait"} /\ Back(h) \in Running
      /\ {"loop", "wait", "user", "control", "restart"} \subseteq Running
  BY DEF Back, Running
<1>1. CASE ClaimTurn(h)
  <2>1. PICK i \in Deliverable(h) :
          host' = [host EXCEPT ![h] =
                     IF turns[Agent(h)][i].kind = "user"
                       THEN [@ EXCEPT !.pc = "user", !.turn = i]
                       ELSE [@ EXCEPT !.pc = "control", !.ctl = i]]
    BY <1>1 DEF ClaimTurn
  <2>2. Agent(h) \in Agents /\ Agent(h) = host[h].agent /\ i \in Queued(Agent(h))
    BY <1>1, <2>1, ServingAgent
       DEF ClaimTurn, Looping, At, Serving, Running, Deliverable
  <2>3. i \in 0..MaxTurns
    <3>1. i \in DOMAIN turns[Agent(h)]  BY <2>2 DEF Queued, TurnsIn
    <3>2. Len(turns[Agent(h)]) <= MaxTurns  BY <2>2 DEF TypeOK
    <3> QED  BY <2>2, <3>1, <3>2, InboxDomain, ResidentAgentsAssumption
  <2>4. UNCHANGED pipe /\ host[h].pc \in Running /\ host[h].pc # "user"
    BY <1>1 DEF ClaimTurn, Looping, At, Running
  <2>5. OnlyPipe(h) /\ Reports(h)  BY <2>4, SamePipe, SameReports
  <2>6. CASE turns[Agent(h)][i].kind = "user"
    <3>1. host' = [host EXCEPT ![h] = [@ EXCEPT !.pc = "user", !.turn = i]]
      BY <2>1, <2>6
    <3>2. /\ Stands(h, "user", i, host[h].ctl) /\ Inner(h, host[h].run, host[h].ask)
          /\ Says(h, host[h].conv, host[h].gen, host[h].tc)
      BY <2>3, <3>1, ClaimUserEffect
    <3>3. Carries(h)  BY <2>2, <2>4, <2>5, <3>2 DEF Carries, Stands, Inner, Says
    <3> QED  BY <2>5, <3>2, <3>3, OthersCarry DEF Stands
  <2>7. CASE turns[Agent(h)][i].kind # "user"
    <3>1. host' = [host EXCEPT ![h] = [@ EXCEPT !.pc = "control", !.ctl = i]]
      BY <2>1, <2>7
    <3>2. /\ Stands(h, "control", host[h].turn, i) /\ Inner(h, host[h].run, host[h].ask)
          /\ Says(h, host[h].conv, host[h].gen, host[h].tc)
      BY <2>3, <3>1, ClaimControlEffect
    <3> QED  BY <1>0, <2>4, <2>5, <3>2, LoopCarries
  <2> QED  BY <2>6, <2>7
<1>2. CASE SendUserTurn(h)
  <2>1. /\ Stands(h, "wait", host[h].turn, host[h].ctl)
        /\ Inner(h, host[h].turn, host[h].ask)
        /\ host'[h].conv \in {host[h].conv, "new"} /\ host'[h].tc = "no"
    BY <1>2, SendEffect DEF Says
  <2>2. UNCHANGED pipe /\ host[h].pc = "user"  BY <1>2 DEF SendUserTurn, At
  <2>3. OnlyPipe(h) /\ Reports(h)  BY <2>2, SamePipe, SameReports
  <2>4. Carries(h)  BY <1>0, <2>1, <2>2, <2>3 DEF Carries, Stands, Inner
  <2> QED  BY <2>1, <2>3, <2>4, OthersCarry DEF Stands
<1>3. CASE DeliverControl(h)
  <2>1. /\ \E pc \in {Back(h), "restart"} : \E ctl : Stands(h, pc, host[h].turn, ctl)
        /\ \E ask : Inner(h, host[h].run, ask)
        /\ Says(h, host[h].conv, host[h].gen, host[h].tc)
    BY <1>3, DeliverEffect
  <2>2. host[h].pc = "control" /\ (UNCHANGED pipe \/ \E H : Unpark(h, H))
    BY <1>3 DEF DeliverControl, At
  <2>3. OnlyPipe(h) /\ Reports(h)  BY <2>2, SamePipe, SameReports, NoTurnReports
  <2> QED  BY <1>0, <2>1, <2>2, <2>3, LoopCarries
<1>4. CASE FinishTurn(h) \/ AbandonTurn(h) \/ WatchdogFail(h)
  <2>1. /\ Stands(h, "loop", 0, host[h].ctl) /\ Inner(h, host[h].run, host[h].ask)
        /\ Says(h, host[h].conv, host[h].gen, host[h].tc)
    BY <1>4, FinishEffect, WatchdogFailEffect DEF FinishTurn, AbandonTurn, WatchdogFail
  <2>2. UNCHANGED pipe /\ host[h].pc = "wait"
    BY <1>4 DEF FinishTurn, AbandonTurn, WatchdogFail, At
  <2>3. OnlyPipe(h) /\ Reports(h)  BY <2>2, SamePipe, SameReports
  <2> QED  BY <1>0, <2>1, <2>2, <2>3, LoopCarries
<1> QED  BY <1>1, <1>2, <1>3, <1>4

\* Reading an event may note the end of the turn that is being delivered.
LEMMA ReadCarries ==
  ASSUME IType, IType', NEW h \in Hosts, NEW i \in DOMAIN pipe[h], ReadEvent(h, i)
  PROVE  \A k \in Hosts : Carries(k)
<1> DEFINE c == pipe[h][i].conv
           r == [host[h] EXCEPT !.tc = c]
<1>1. /\ Stands(h, host[h].pc, host[h].turn, host[h].ctl)
      /\ Inner(h, host[h].run, host[h].ask) /\ host'[h].conv = host[h].conv
  BY ReadEffect DEF IType
<1>2. host[h].pc \in Running /\ host[h].pc # "claimed"  BY DEF ReadEvent, At, Running
<1>3. OnlyPipe(h) /\ Reports(h)
  <2>1. /\ OnlyPipe(h)
        /\ \A j \in DOMAIN pipe'[h] :
             Shift(i, j) \in DOMAIN pipe[h] /\ pipe'[h][j] = pipe[h][Shift(i, j)]
    BY ReadPipe
  <2> QED  BY <2>1 DEF Reports, Reported
<1>4. host'[h].tc = host[h].tc \/ Reported(h, host[h].turn, host'[h].tc)
  <2>1. CASE host' = host  BY <2>1
  <2>2. CASE /\ host' = [host EXCEPT ![h].tc = c]
             /\ pipe[h][i].type = "turn_complete" /\ pipe[h][i].id = host[h].turn
    <3>1. pipe[h][i] \in Events /\ host[h] \in HostRecords  BY DEF IType, TypeOK
    <3>2. c \in Conversations  BY <3>1 DEF Events
    <3>3. host' = [host EXCEPT ![h] = r]  BY <2>2
    <3>4. Reported(h, host[h].turn, c)  BY <2>2 DEF Reported
    <3> HIDE DEF c
    <3>5. r \in HostRecords /\ r.tc = c  BY <3>1, <3>2 DEF HostRecords
    <3> HIDE DEF r
    <3>6. host'[h] = r  BY <3>3, <3>5, WriteHost DEF IType
    <3> QED  BY <3>4, <3>5, <3>6
  <2> QED  BY <2>1, <2>2 DEF ReadEvent
<1>5. Carries(h)  BY <1>1, <1>2, <1>3, <1>4 DEF Carries, Stands, Inner
<1> QED  BY <1>1, <1>3, <1>5, OthersCarry DEF Stands

\* What the row of an agent names after a step of a host.
LEMMA HostPublishes ==
  ASSUME IType, NEW h \in Hosts, NEW a \in Agents,
         \/ QuietStepOf(h)
         \/ ClaimTurn(h) \/ SendUserTurn(h) \/ DeliverControl(h)
         \/ FinishTurn(h) \/ AbandonTurn(h) \/ WatchdogFail(h)
  PROVE  Publishes(a)
<1>1. CASE UNCHANGED resume  BY <1>1 DEF Publishes
<1>2. CASE RestartInner(h) \/ RestartUnreadable(h) \/ StartUnreadable(h)
  <2>1. resume' = [resume EXCEPT ![Agent(h)] = Resumed(h)]
        \/ resume' = [resume EXCEPT ![Agent(h)] = resume[Agent(h)]]
    BY <1>2 DEF RestartInner, RestartUnreadable, StartUnreadable, ReleaseHost
  <2>2. Resumed(h) \in {resume[Agent(h)], "none"}  BY DEF Resumed
  <2> QED  BY <2>1, <2>2 DEF Publishes, IType, TypeOK
<1>3. CASE Release(h)
  <2>1. PICK conv \in {resume[Agent(h)], host[h].conv} :
          resume' = [resume EXCEPT ![Agent(h)] = conv]
    BY <1>3 DEF Release, ReleaseHost
  <2>2. a = Agent(h) => h \in HostsOf(a, Running)
    BY <1>3 DEF Release, At, HostsOf, Agent, Running
  <2> QED  BY <2>1, <2>2 DEF Publishes, IType, TypeOK
<1>4. CASE FinishTurn(h)
  <2>1. resume' = [resume EXCEPT ![Agent(h)] = host[h].tc] /\ host[h].pc = "wait"
    BY <1>4 DEF FinishTurn, At
  <2>2. host[h].turn # 0  BY <2>1 DEF IType, TypeOK
  <2>3. a = Agent(h) => h \in HostsOf(a, Running)
    BY <2>1 DEF HostsOf, Agent, Running
  <2> QED  BY <2>1, <2>2, <2>3 DEF Publishes, IType, TypeOK
<1> QED
  BY <1>1, <1>2, <1>3, <1>4
     DEF QuietStepOf, QuietHost, Ask, EndTurn, StartInner, NoticeEnd, IdleReap, Teardown,
         WatchdogInterrupt, Exit, Kill, Evict, ReadEvent, SpawnSessionHost, ClaimHost,
         ClaimTurn, SendUserTurn, DeliverControl, AbandonTurn, WatchdogFail, rows

LEMMA OneHostMoves ==
  ASSUME IType, NEW h \in Hosts,
         \/ QuietStepOf(h)
         \/ ClaimTurn(h) \/ SendUserTurn(h) \/ DeliverControl(h)
         \/ FinishTurn(h) \/ AbandonTurn(h) \/ WatchdogFail(h)
  PROVE  \A k \in Hosts \ {h} : host'[k] = host[k]
<1> USE DEF IType
<1>1. CASE Ask(h) \/ EndTurn(h) \/ StartInner(h) \/ Teardown(h) \/ RestartInner(h)
           \/ WatchdogInterrupt(h) \/ (\E i \in DOMAIN pipe[h] : ReadEvent(h, i))
           \/ SendUserTurn(h) \/ DeliverControl(h)
  <2>1. \E pc, turn, ctl : Stands(h, pc, turn, ctl)
    BY <1>1, AskEffect, EndTurnEffect, StartInnerEffect, TeardownEffect, RestartEffect,
       WatchdogInterruptEffect, ReadEffect, SendEffect, DeliverEffect
  <2> QED  BY <2>1 DEF Stands, OnlyHost
<1>2. CASE Exit(h) \/ Kill(h) \/ \E a \in Agents : SpawnSessionHost(a, h)
  <2>1. \E pc : Leaves(h, pc)
    BY <1>2, ExitEffect, DieEffect, SpawnEffect DEF Kill
  <2> QED  BY <2>1 DEF Leaves, OnlyHost
<1>3. CASE \E pc, i : \/ host' = [host EXCEPT ![h].pc = pc]
                      \/ host' = [host EXCEPT ![h].pc = pc, ![h].ctl = 0]
                      \/ host' = [host EXCEPT ![h].shut = TRUE]
                      \/ host' = [host EXCEPT ![h].pc = "loop", ![h].turn = 0]
                      \/ host' = [host EXCEPT ![h].pc = "loop", ![h].turn = 0, ![h].shut = TRUE]
  BY <1>3 DEF TypeOK
<1>4. CASE NoticeEnd(h) \/ IdleReap(h) \/ RestartUnreadable(h) \/ ClaimHost(h) \/ Release(h)
           \/ StartUnreadable(h) \/ FinishTurn(h) \/ AbandonTurn(h) \/ WatchdogFail(h)
  BY <1>3, <1>4 DEF NoticeEnd, IdleReap, RestartUnreadable, ClaimHost, Release,
     StartUnreadable, ReleaseHost, FinishTurn, AbandonTurn, WatchdogFail
<1>5. CASE Evict(h)
  <2>1. CASE Die(h)  BY <2>1, DieEffect DEF Leaves, OnlyHost
  <2>2. CASE host' = host  BY <2>2
  <2> QED  BY <1>3, <1>5, <2>1, <2>2 DEF Evict
<1>6. CASE ClaimTurn(h)  BY <1>6 DEF ClaimTurn, TypeOK
<1> QED  BY <1>1, <1>2, <1>4, <1>5, <1>6 DEF QuietStepOf, QuietHost

\* What becomes of a restart that clears the context, by a step of host h.
LEMMA DeliveryCleans ==
  ASSUME IType, IType', TurnAhead, NEW h \in Hosts, NEW a \in Agents,
         \/ ClaimTurn(h) \/ SendUserTurn(h) \/ DeliverControl(h)
         \/ FinishTurn(h) \/ AbandonTurn(h) \/ WatchdogFail(h),
         NEW r \in Clears(a), turns[a][r].st \in {"queued", "delivering"}
  PROVE  \/ turns'[a][r].st \in {"queued", "delivering"}
         \/ \E k \in HostsOf(a, {"restart"})' : host'[k].ctl = r
<1>1. /\ Agent(h) \in Agents /\ Agent(h) = host[h].agent /\ host[h].pc \in Running
  BY ServingAgent
     DEF ClaimTurn, SendUserTurn, DeliverControl, FinishTurn, AbandonTurn, WatchdogFail,
         Looping, At, Serving, Running
<1>2. r \in DOMAIN turns[a] /\ turns[a][r].kind = "restart"  BY DEF Clears
<1>3. ASSUME NEW S, NEW state \in States, turns' = SetTurns(Agent(h), S, state)
      PROVE  \/ turns'[a][r].st = turns[a][r].st
             \/ a = Agent(h) /\ r \in S /\ turns'[a][r].st = state
  BY <1>1, <1>2, <1>3, WrittenTurns
<1>4. /\ {"delivering", "streaming", "done"} \subseteq States /\ Settled \subseteq States
  BY DEF States, Settled
<1>5. CASE ClaimTurn(h)
  <2>1. PICK S : turns' = SetTurns(Agent(h), S, "delivering")  BY <1>5, DeliveryWrites
  <2> QED  BY <1>3, <1>4, <2>1
<1>6. CASE SendUserTurn(h) \/ FinishTurn(h) \/ AbandonTurn(h) \/ WatchdogFail(h)
  <2>1. host[h].turn # 0
    BY <1>6 DEF SendUserTurn, FinishTurn, AbandonTurn, WatchdogFail, At, IType, TypeOK
  <2>2. turns[Agent(h)][host[h].turn].kind = "user"  BY <1>1, <2>1 DEF TurnAhead, Ahead
  <2>3. PICK T : T = {host[h].turn}  OBVIOUS
  <2>4. \E S : \E state \in States : S \subseteq T /\ turns' = SetTurns(Agent(h), S, state)
    BY <1>4, <1>6, <2>3, DeliveryWrites
  <2> QED  BY <1>2, <1>3, <2>2, <2>3, <2>4
<1>7. CASE DeliverControl(h)
  <2>1. PICK S : S = {host[h].ctl}  OBVIOUS
  <2>2. turns' = SetTurns(Agent(h), S, "done")  BY <1>7, <2>1, DeliveryWrites
  <2>3. CASE a = Agent(h) /\ r = host[h].ctl
    <3>1. host' = [host EXCEPT ![h].pc = "restart"]
      BY <1>2, <1>7, <2>3 DEF DeliverControl
    <3>2. "restart" \in Pcs  BY DEF Pcs, Serving, Running
    <3>3. Stands(h, "restart", host[h].turn, host[h].ctl)
      BY <3>1, <3>2, PcEffect DEF IType
    <3> QED  BY <1>1, <2>3, <3>3 DEF Stands, HostsOf
  <2> QED  BY <1>3, <1>4, <2>1, <2>2, <2>3
<1> QED  BY <1>5, <1>6, <1>7

LEMMA HostCleans ==
  ASSUME IType, IType', TurnAhead, NEW h \in Hosts, NEW a \in Agents, InboxKept(a),
         \/ QuietStepOf(h)
         \/ ClaimTurn(h) \/ SendUserTurn(h) \/ DeliverControl(h)
         \/ FinishTurn(h) \/ AbandonTurn(h) \/ WatchdogFail(h)
  PROVE  /\ botched \subseteq botched'
         /\ \/ a \in botched' \/ (Cleaning(a) => Cleaning(a)')
            \/ RestartInner(h) /\ host[h].turn = 0 /\ host[h].agent = a
<1>1. botched \subseteq botched'
  <2>1. (UNCHANGED botched) \/ \E b, cond : Botches(b, cond)
    BY DEF QuietStepOf, QuietHost, Ask, EndTurn, StartInner, NoticeEnd, IdleReap, Teardown,
           RestartInner, RestartUnreadable, WatchdogInterrupt, Exit, Kill, Die, Evict,
           SpawnSessionHost, ClaimHost, Release, StartUnreadable, ReadEvent, ClaimTurn,
           SendUserTurn, DeliverControl, FinishTurn, AbandonTurn, WatchdogFail, history
  <2> QED  BY <2>1 DEF Botches
<1>2. ASSUME NEW r \in Clears(a), turns[a][r].st \in {"queued", "delivering"}
      PROVE  \/ turns'[a][r].st \in {"queued", "delivering"}
             \/ \E k \in HostsOf(a, {"restart"})' : host'[k].ctl = r
  <2>1. CASE QuietStepOf(h)  BY <1>2, <2>1, QuietEvolves
  <2> QED  BY <1>2, <2>1, DeliveryCleans
<1>3. \A k \in HostsOf(a, {"restart"}) \ {h} :
        host'[k].pc = "restart" /\ host'[k].agent = a /\ host'[k].ctl = host[k].ctl
  BY OneHostMoves DEF HostsOf
<1>r. ASSUME \A k \in HostsOf(a, {"restart"}) :
               /\ host'[k].pc = "restart" /\ host'[k].agent = a
               /\ host'[k].ctl = host[k].ctl
      PROVE  Cleaning(a) => Cleaning(a)'
  <2>1. \A r \in Clears(a) : turns[a][r].st \in {"queued", "delivering"} =>
           \/ turns'[a][r].st \in {"queued", "delivering"}
           \/ \E k \in HostsOf(a, {"restart"})' : host'[k].ctl = r
    BY <1>2
  <2> QED  BY <1>r, <2>1, CleansOn
<1>4. CASE h \notin HostsOf(a, {"restart"})
  <2>1. \A k \in HostsOf(a, {"restart"}) :
          host'[k].pc = "restart" /\ host'[k].agent = a /\ host'[k].ctl = host[k].ctl
    BY <1>3, <1>4
  <2> QED  BY <1>1, <1>r, <2>1
<1>5. CASE h \in HostsOf(a, {"restart"})
  <2>0. host[h].pc = "restart" /\ host[h].agent = a  BY <1>5 DEF HostsOf
  <2>1. CASE \/ Ask(h) \/ EndTurn(h) \/ \E i \in DOMAIN pipe[h] : ReadEvent(h, i)
             \/ host' = [host EXCEPT ![h].shut = TRUE] \/ host' = host
    <3>1. host' = host \/ Stands(h, host[h].pc, host[h].turn, host[h].ctl)
      BY <2>1, AskEffect, EndTurnEffect, ReadEffect, ShutEffect DEF IType
    <3>2. host'[h].pc = "restart" /\ host'[h].agent = a /\ host'[h].ctl = host[h].ctl
      BY <2>0, <3>1 DEF Stands
    <3>3. \A k \in HostsOf(a, {"restart"}) :
            host'[k].pc = "restart" /\ host'[k].agent = a /\ host'[k].ctl = host[k].ctl
      BY <1>3, <3>2
    <3> QED  BY <1>1, <1>r, <3>3
  <2>2. CASE RestartInner(h)
    <3>1. Botches(a, host[h].turn # 0)  BY <2>0, <2>2 DEF RestartInner, Agent
    <3> QED  BY <1>1, <2>0, <2>2, <3>1 DEF Botches
  <2>3. CASE RestartUnreadable(h) \/ Kill(h)
    <3>1. Botches(a, TRUE)
      BY <2>0, <2>3 DEF RestartUnreadable, Kill, Die, Agent
    <3> QED  BY <1>1, <3>1 DEF Botches
  <2>4. CASE Evict(h)  BY <2>0, <2>1, <2>4 DEF Evict, Serving, Running
  <2> QED
    BY <2>0, <2>1, <2>2, <2>3, <2>4
       DEF QuietStepOf, QuietHost, StartInner, NoticeEnd, IdleReap, Teardown,
           WatchdogInterrupt, Exit, SpawnSessionHost, ClaimHost, Release, StartUnreadable,
           ClaimTurn, SendUserTurn, DeliverControl, FinishTurn, AbandonTurn, WatchdogFail,
           Looping, At
<1> QED  BY <1>1, <1>4, <1>5
-----------------------------------------------------------------------------
(* Every step.                                                             *)

LEMMA EvolvedInboxes ==
  ASSUME Evolves(Written), SinceKept
  PROVE  \A a \in Agents : InboxKept(a)
<1> TAKE a \in Agents
<1>1. \A i \in 1..Len(turns[a]) :
        turns'[a][i].st = turns[a][i].st \/ turns'[a][i].st # "queued"
  BY DEF Evolves, Lives, Written, Unsent, Settled
<1> QED  BY <1>1 DEF Evolves, SinceKept, Lives, WellBorn, InboxKept

LEMMA ForgetsOn ==
  ASSUME IType, IType', OwnInv, TurnAhead, ForgetInv,
         Sound' \subseteq Sound,
         \A a \in Agents : InboxKept(a), \A h \in Hosts : Carries(h),
         \A a \in Agents : Publishes(a),
         \A a \in Agents \ botched' :
            /\ a \notin botched
            /\ \/ Cleaning(a) => Cleaning(a)'
               \/ \E h \in Hosts : RestartInner(h) /\ host[h].turn = 0 /\ host[h].agent = a
  PROVE  ForgetInv'
<1>1. \A a \in Agents : ClearsFirst(a)'  BY InboxKeeps DEF ForgetInv
<1>2. \A a \in Agents : InboxKept(a)  OBVIOUS
<1>3. \A h \in Hosts : RunsKnown(h)'  BY <1>2, RunsKnownKept DEF ForgetInv
<1>4. ASSUME NEW a \in (Sound \ botched)'
      PROVE  NothingOld(a)' /\ Apart(a)'
  <2>0. a \in Agents /\ a \in Sound /\ a \notin botched /\ a \notin botched'
    BY DEF Sound
  <2>1. /\ ClearsFirst(a) /\ NothingOld(a) /\ Apart(a) /\ InboxKept(a) /\ Publishes(a)
        /\ \A h \in Hosts : RunsKnown(h)
        /\ \A h \in Hosts : host'[h].agent = a => Carries(h)
    BY <2>0 DEF ForgetInv
  <2>2. Apart(a)'  BY <2>0, <2>1, ApartKept
  <2>3. CASE Cleaning(a) => Cleaning(a)'  BY <2>0, <2>1, <2>2, <2>3, ForgottenKept
  <2>4. CASE Cleaning(a) /\ ~Cleaning(a)'
    <3>1. PICK h \in Hosts : RestartInner(h) /\ host[h].turn = 0 /\ host[h].agent = a
      BY <2>0, <2>4
    <3> QED  BY <2>0, <2>1, <2>2, <2>4, <3>1, CleanRestart
  <2> QED  BY <2>2, <2>3, <2>4
<1> QED  BY <1>1, <1>3, <1>4 DEF ForgetInv

LEMMA HostForgets ==
  ASSUME IType, IType', OwnInv, TurnAhead, EmptyPipes, ForgetInv, Sound' \subseteq Sound,
         Evolves(Written), SinceKept, NEW h \in Hosts,
         \/ QuietStepOf(h)
         \/ ClaimTurn(h) \/ SendUserTurn(h) \/ DeliverControl(h)
         \/ FinishTurn(h) \/ AbandonTurn(h) \/ WatchdogFail(h)
  PROVE  ForgetInv'
<1>1. \A a \in Agents : InboxKept(a)  BY EvolvedInboxes
<1>2. \A k \in Hosts : Carries(k)
  <2>1. CASE \E i \in DOMAIN pipe[h] : ReadEvent(h, i)  BY <2>1, ReadCarries
  <2>2. CASE QuietStepOf(h) /\ ~\E i \in DOMAIN pipe[h] : ReadEvent(h, i)
    BY <2>2, QuietCarries
  <2>3. CASE \/ ClaimTurn(h) \/ SendUserTurn(h) \/ DeliverControl(h)
             \/ FinishTurn(h) \/ AbandonTurn(h) \/ WatchdogFail(h)
    BY <2>3, DeliveryCarries
  <2> QED  BY <2>1, <2>2, <2>3
<1>3. \A a \in Agents : Publishes(a)  BY HostPublishes
<1>4. \A a \in Agents \ botched' :
        /\ a \notin botched
        /\ \/ Cleaning(a) => Cleaning(a)'
           \/ \E k \in Hosts : RestartInner(k) /\ host[k].turn = 0 /\ host[k].agent = a
  <2> TAKE a \in Agents \ botched'
  <2>1. InboxKept(a)  BY <1>1
  <2>2. /\ botched \subseteq botched'
        /\ \/ a \in botched' \/ (Cleaning(a) => Cleaning(a)')
           \/ RestartInner(h) /\ host[h].turn = 0 /\ host[h].agent = a
    BY <2>1, HostCleans
  <2> QED  BY <2>2
<1> QED  BY <1>1, <1>2, <1>3, <1>4, ForgetsOn

\* Outside the hosts a restart is lost only where the agent is botched.
LEMMA StatusCleans ==
  ASSUME IType, IType', NEW a \in Agents, InboxKept(a), UNCHANGED host,
         \A i \in DOMAIN turns[a] : turns'[a][i].st = turns[a][i].st
  PROVE  Cleaning(a) => Cleaning(a)'
<1>1. \A r \in Clears(a) : turns[a][r].st \in {"queued", "delivering"} =>
        \/ turns'[a][r].st \in {"queued", "delivering"}
        \/ \E h \in HostsOf(a, {"restart"})' : host'[h].ctl = r
  BY DEF Clears
<1>2. \A h \in HostsOf(a, {"restart"}) :
        /\ host'[h].pc = "restart" /\ host'[h].agent = a
        /\ host'[h].ctl = host[h].ctl
  BY DEF HostsOf
<1> QED  BY <1>1, <1>2, CleansOn

LEMMA SettlingCleans ==
  ASSUME IType, IType', NEW a \in Agents, InboxKept(a), UNCHANGED host,
         NEW b \in Agents, NEW S, NEW state \in States, turns' = SetTurns(b, S, state),
         Botches(b, RestartsAmong(b, S)), S \subseteq DOMAIN turns[b]
  PROVE  a \in botched' \/ (Cleaning(a) => Cleaning(a)')
<1> SUFFICES ASSUME a \notin botched' PROVE Cleaning(a) => Cleaning(a)'  OBVIOUS
<1>1. \A i \in DOMAIN turns[a] : b # a \/ i \notin S => turns'[a][i].st = turns[a][i].st
  BY WrittenTurns
<1>2. ASSUME NEW r \in Clears(a) PROVE b # a \/ r \notin S
  BY <1>2 DEF Botches, RestartsAmong, Clears
<1>3. \A r \in Clears(a) : turns[a][r].st \in {"queued", "delivering"} =>
        \/ turns'[a][r].st \in {"queued", "delivering"}
        \/ \E h \in HostsOf(a, {"restart"})' : host'[h].ctl = r
  BY <1>1, <1>2 DEF Clears
<1>4. \A h \in HostsOf(a, {"restart"}) :
        /\ host'[h].pc = "restart" /\ host'[h].agent = a
        /\ host'[h].ctl = host[h].ctl
  BY DEF HostsOf
<1> QED  BY <1>3, <1>4, CleansOn

LEMMA OutsideForgets ==
  ASSUME IType, IType', OwnInv, TurnAhead, ForgetInv, Sound' \subseteq Sound,
         Evolves(Written), SinceKept,
         \/ \E a \in Agents : Request(a)
         \/ Commit \/ ApiCrash \/ OrphanSweep \/ SupervisorPass \/ DaemonCrash
         \/ \E a \in Agents, pid \in Hosts \cup {None} : SweepRow(a, pid)
         \/ UNCHANGED vars,
         ~\E a \in Agents, force \in BOOLEAN : RequestClear(a, force)
  PROVE  ForgetInv'
<1> DEFINE Cleans == \A a \in Agents \ botched' :
                       a \notin botched /\ (Cleaning(a) => Cleaning(a)')
           Frame == UNCHANGED <<host, pipe, resume>>
<1>1. \A a \in Agents : InboxKept(a)  BY EvolvedInboxes
<1>2. ASSUME Frame, UNCHANGED botched,
             \A a \in Agents : \A i \in DOMAIN turns[a] : turns'[a][i].st = turns[a][i].st
      PROVE  Frame /\ Cleans
  BY <1>1, <1>2, StatusCleans
<1>3. ASSUME Frame, NEW b \in Agents, NEW S \in SUBSET DOMAIN turns[b], NEW state \in States,
             turns' = SetTurns(b, S, state), Botches(b, RestartsAmong(b, S))
      PROVE  Frame /\ Cleans
  <2>1. botched \subseteq botched'  BY <1>3 DEF Botches
  <2>2. \A a \in Agents : a \in botched' \/ (Cleaning(a) => Cleaning(a)')
    BY <1>1, <1>3, SettlingCleans
  <2> QED  BY <1>3, <2>1, <2>2
<1> SUFFICES Frame /\ Cleans
  <2>1. \A h \in Hosts : Carries(h)  BY UntouchedCarries
  <2>2. \A a \in Agents : Publishes(a)  BY DEF Publishes
  <2> QED  BY <1>1, <2>1, <2>2, ForgetsOn
<1> HIDE DEF Cleans
<1>4. ASSUME NEW a \in Agents, Request(a)
      PROVE  Frame /\ Cleans
  <2>1. UNCHANGED <<host, pipe, resume, botched>>
    BY <1>4, EnqueuesFrame
       DEF Request, Enqueues, AnswerPending, EndSession, CancelTurn, rows, history
  <2>2. Appends
    <3>1. CASE Enqueues(a)  BY <3>1, EnqueuesTurn, AppendedTurn, SameInbox DEF IType
    <3>2. CASE AnswerPending(a) \/ EndSession(a)
      <4>1. UNCHANGED turns  BY <3>2 DEF AnswerPending, EndSession, rows
      <4> QED  BY <4>1, SameInbox
    <3>3. ASSUME NEW i \in DOMAIN turns[a], CancelTurn(a, i) PROVE Appends
      <4>1. /\ \A b \in Agents \ {a} : turns'[b] = turns[b]
            /\ Len(turns'[a]) = Len(turns[a])
            /\ turns'[a][i] = [turns[a][i] EXCEPT !.meddled = TRUE]
            /\ \A j \in 1..Len(turns[a]) : j # i => turns'[a][j] = turns[a][j]
        BY <3>3, CancelInbox DEF IType
      <4>2. \A r \in TurnRecords : /\ [r EXCEPT !.meddled = TRUE].st = r.st
                                   /\ [r EXCEPT !.meddled = TRUE].meddled
        BY DEF TurnRecords
      <4>3. \A j \in 1..Len(turns[a]) : /\ turns'[a][j].st = turns[a][j].st
                                        /\ turns[a][j].meddled => turns'[a][j].meddled
        BY <4>1, <4>2, InboxDomain
      <4> QED  BY <4>1, <4>3, InboxDomain DEF Appends
    <3> QED  BY <1>4, <3>1, <3>2, <3>3 DEF Request, Enqueues
  <2> QED  BY <1>2, <2>1, <2>2, InboxDomain DEF Appends
<1>5. CASE EnqueueAnswer
  <2>1. UNCHANGED <<host, pipe, resume, botched>>  BY <1>5 DEF EnqueueAnswer, history
  <2>2. req.agent \in Agents /\ req.id \in 1..MaxAsks
    BY <1>5, RequestFields DEF IType, EnqueueAnswer
  <2>3. "answer" \in Kinds /\ req.id \in 0..(MaxTurns + MaxAsks)
    BY <2>2, ResidentAgentsAssumption DEF Kinds
  <2>4. [NewTurn(req.agent, "answer") EXCEPT !.ref = req.id] \in QueuedTurns
    BY <2>2, <2>3, NewTurnType DEF IType
  <2>5. Appends  BY <1>5, <2>2, <2>4, AppendedTurn DEF EnqueueAnswer
  <2>6. \A b \in Agents : \A i \in DOMAIN turns[b] : turns'[b][i].st = turns[b][i].st
    BY <2>5, InboxDomain DEF Appends
  <2> QED  BY <1>2, <2>1, <2>6
<1>6. CASE WriteCancel \/ EndTurns
  <2>1. req.agent \in Agents  BY <1>6, RequestFields DEF IType, WriteCancel, EndTurns
  <2>2. Frame /\ "cancelled" \in States
    BY <1>6 DEF WriteCancel, EndTurns, States, Settled
  <2>3. CASE WriteCancel
    <3>1. PICK S : S = {req.id}  OBVIOUS
    <3>2. /\ turns' = SetTurns(req.agent, S, "cancelled")
          /\ Botches(req.agent, RestartsAmong(req.agent, S))
      BY <2>3, <3>1 DEF WriteCancel
    <3>3. S \subseteq DOMAIN turns[req.agent]
      BY <2>3, <3>1 DEF OwnInv, CancelIsMarked, WriteCancel
    <3> QED  BY <1>3, <2>1, <2>2, <3>2, <3>3
  <2>4. CASE EndTurns
    <3>1. PICK S : S = Cancellable(req.agent)  OBVIOUS
    <3>2. /\ turns' = SetTurns(req.agent, S, "cancelled")
          /\ Botches(req.agent, RestartsAmong(req.agent, S))
      BY <2>4, <3>1 DEF EndTurns
    <3>3. S \subseteq DOMAIN turns[req.agent]
      BY <3>1 DEF Cancellable, Queued, TurnsIn
    <3> QED  BY <1>3, <2>1, <2>2, <3>2, <3>3
  <2> QED  BY <1>6, <2>3, <2>4
<1>7. ASSUME NEW a \in Agents, NEW pid \in Hosts \cup {None}, SweepRow(a, pid)
      PROVE  Frame /\ Cleans
  <2>1. UNCHANGED <<host, pipe, resume>>  BY <1>7 DEF SweepRow, rows
  <2>2. CASE UNCHANGED <<turns, botched>>  BY <1>2, <2>1, <2>2
  <2>3. CASE /\ turns' = SetTurns(a, InFlight(a), "failed")
             /\ Botches(a, RestartsAmong(a, InFlight(a)))
    <3>1. InFlight(a) \subseteq DOMAIN turns[a] /\ "failed" \in States
      BY DEF InFlight, TurnsIn, States, Settled
    <3> QED  BY <1>3, <2>1, <2>3, <3>1
  <2> QED  BY <1>7, <2>2, <2>3 DEF SweepRow, rows
<1>8. CASE \/ EndAsks \/ EndRow \/ ApiCrash \/ OrphanSweep \/ SupervisorPass \/ DaemonCrash
           \/ UNCHANGED vars
  <2>1. UNCHANGED <<host, pipe, resume, botched, turns>>
    <3>1. CASE UNCHANGED vars  BY <3>1, FramedVars
    <3> QED  BY <1>8, <3>1 DEF EndAsks, EndRow, ApiCrash, OrphanSweep, SupervisorPass,
                               DaemonCrash, rows, history
  <2>2. \A a \in Agents : \A i \in DOMAIN turns[a] : turns'[a][i].st = turns[a][i].st
    BY <2>1
  <2> QED  BY <1>2, <2>1, <2>2
<1> QED  BY <1>4, <1>5, <1>6, <1>7, <1>8 DEF Commit

\* Clearing the context: all turns so far become old ones, and the restart
\* that carries it out is enqueued.
LEMMA ClearedInbox ==
  ASSUME IType, IType', NEW a \in Agents, NEW force \in BOOLEAN, RequestClear(a, force)
  PROVE  /\ DOMAIN turns[a] \subseteq DOMAIN turns'[a]
         /\ \A i \in DOMAIN turns[a] : ~RecentThen(a, i)
         /\ ClearsFirst(a)' /\ Cleaning(a)'
<1>1. PICK n \in Nat : n = Len(turns[a])  BY InboxDomain
<1>2. /\ Len(turns'[a]) = n + 1
      /\ \A i \in 1..n : ~turns'[a][i].since
      /\ turns'[a][n + 1].kind = "restart" /\ turns'[a][n + 1].clear
      /\ turns'[a][n + 1].since /\ turns'[a][n + 1].st = "queued"
  BY <1>1, ClearsWell
<1>3. DOMAIN turns[a] = 1..n /\ DOMAIN turns'[a] = 1..(n + 1)
  BY <1>1, <1>2, InboxDomain DEF IType, TypeOK
<1>4. \A i \in DOMAIN turns'[a] : turns'[a][i].since <=> i = n + 1  BY <1>2, <1>3
<1>5. n + 1 \in Clears(a)' /\ \A r \in Clears(a)' : r = n + 1
  BY <1>2, <1>3, <1>4 DEF Clears
<1>6. ClearsFirst(a)'  BY <1>3, <1>4, <1>5 DEF ClearsFirst
<1>7. Cleaning(a)'  BY <1>2, <1>5 DEF Cleaning
<1> QED  BY <1>2, <1>3, <1>6, <1>7 DEF RecentThen

LEMMA ClearForgets ==
  ASSUME IType, IType', OwnInv, TurnAhead, ForgetInv, Sound' \subseteq Sound,
         NEW a \in Agents, NEW force \in BOOLEAN, RequestClear(a, force)
  PROVE  ForgetInv'
<1>1. \A h \in Hosts :
        /\ host'[h].pc = host[h].pc /\ host'[h].agent = host[h].agent
        /\ host'[h].turn = host[h].turn /\ host'[h].run = host[h].run
        /\ host'[h].ctl = host[h].ctl
  BY ClearEffect DEF IType, Inner
<1>2. \A h \in Hosts : \A i, conv : Reported(h, i, conv)' => \E old : Reported(h, i, old)
  <2> TAKE h \in Hosts
  <2> TAKE i, conv
  <2> HAVE Reported(h, i, conv)'
  <2>1. PICK j \in DOMAIN pipe'[h] : pipe'[h][j].type = "turn_complete" /\ pipe'[h][j].id = i
    BY DEF Reported
  <2>2. SameEvents(h)  BY ClearPipes
  <2>3. DOMAIN pipe'[h] = 1..Len(pipe'[h])  BY DEF IType, TypeOK
  <2>4. j \in DOMAIN pipe[h] /\ pipe[h][j].type = "turn_complete" /\ pipe[h][j].id = i
    BY <2>1, <2>2, <2>3, PipeDomain DEF SameEvents
  <2> QED  BY <2>4 DEF Reported
<1>3. \A b \in Agents \ {a} : turns'[b] = turns[b]  BY ClearsWell
<1>4. \A b \in Agents : DOMAIN turns[b] \subseteq DOMAIN turns'[b]  BY <1>3, ClearedInbox
<1>5. ASSUME NEW h \in Hosts, host[h].pc \in Running
      PROVE  LET b == host[h].agent IN
             /\ b \in Agents
             /\ host[h].run # 0 => host[h].run \in DOMAIN turns[b]
             /\ host[h].turn # 0 => host[h].turn \in DOMAIN turns[b]
             /\ \A i, conv : Reported(h, i, conv)' => i \in DOMAIN turns[b]
  BY <1>2, <1>5, ServingAgent
     DEF ForgetInv, RunsKnown, TurnAhead, Ahead, Serving
<1>6. \A h \in Hosts : RunsKnown(h)'  BY <1>1, <1>4, <1>5 DEF RunsKnown
<1>7. NothingOld(a)' /\ Apart(a)'
  <2>1. NothingOld(a)'  BY ClearedInbox DEF NothingOld
  <2>2. ASSUME NEW h \in HostsOf(a, Running)'
        PROVE  /\ host'[h].run # 0 => ~RecentThen(a, host'[h].run)
               /\ host'[h].turn # 0 => ~RecentThen(a, host'[h].turn)
               /\ \A i, conv : Reported(h, i, conv)' => ~RecentThen(a, i)
    <3>1. h \in Hosts /\ host[h].pc \in Running /\ host[h].agent = a
      BY <1>1, <2>2 DEF HostsOf
    <3> QED  BY <1>1, <1>5, <3>1, ClearedInbox
  <2> QED  BY <2>1, <2>2 DEF Apart, Recent, RecentThen
<1>8. ASSUME NEW b \in Agents \ {a}
      PROVE  /\ ClearsFirst(b)'
             /\ b \in (Sound \ botched)' => NothingOld(b)' /\ Apart(b)'
  <2>1. InboxKept(b)  BY <1>3, InboxDomain DEF InboxKept
  <2>2. ClearsFirst(b) /\ ClearsFirst(b)'  BY <2>1, InboxKeeps DEF ForgetInv
  <2>3. SUFFICES ASSUME b \in (Sound \ botched)' PROVE NothingOld(b)' /\ Apart(b)'
    BY <2>2
  <2>4. b \in Sound /\ NothingOld(b) /\ Apart(b)
    BY <2>3 DEF ForgetInv, RequestClear, Sound
  <2>5. \A h \in Hosts : host[h].agent = b => host'[h] = host[h] /\ pipe'[h] = pipe[h]
    BY DEF RequestClear
  <2>6. \A h \in Hosts : host'[h].agent = b => Carries(h)
    BY <1>1, <2>5, UntouchedCarries
  <2>7. Publishes(b)  BY DEF RequestClear, Publishes, IType, TypeOK
  <2>8. Cleaning(b) => Cleaning(b)'
    <3>1. \A r \in Clears(b) : turns[b][r].st \in {"queued", "delivering"} =>
            \/ turns'[b][r].st \in {"queued", "delivering"}
            \/ \E h \in HostsOf(b, {"restart"})' : host'[h].ctl = r
      BY <1>3
    <3>2. \A h \in HostsOf(b, {"restart"}) :
            /\ host'[h].pc = "restart" /\ host'[h].agent = b
            /\ host'[h].ctl = host[h].ctl
      BY <1>1 DEF HostsOf
    <3> QED  BY <2>1, <3>1, <3>2, CleansOn
  <2>9. \A h \in Hosts : RunsKnown(h)  BY DEF ForgetInv
  <2>10. NothingOld(b)'  BY <2>1, <2>4, <2>6, <2>7, <2>8, ForgottenKept
  <2>11. Apart(b)'  BY <2>1, <2>2, <2>4, <2>6, <2>9, ApartKept
  <2> QED  BY <2>10, <2>11
<1> QED  BY <1>6, <1>7, <1>8, ClearedInbox DEF ForgetInv, Sound

LEMMA ForgetInvStep ==
  ASSUME IType, IType', OwnInv, OrderInv, AskInv, ForgetInv, [Next]_vars
  PROVE  ForgetInv'
<1>1. Sound' \subseteq Sound  BY SoundShrinks
<1>2. TurnAhead /\ EmptyPipes  BY DEF OrderInv, AskInv
<1>3. CASE \E a \in Agents, force \in BOOLEAN : RequestClear(a, force)
  BY <1>1, <1>2, <1>3, ClearForgets
<1>4. CASE ~\E a \in Agents, force \in BOOLEAN : RequestClear(a, force)
  <2>1. Evolves(Written) /\ SinceKept  BY <1>4, EveryStepEvolves DEF Evolved
  <2>2. ASSUME NEW h \in Hosts,
               \/ Ask(h) \/ EndTurn(h)
               \/ HostStep(h) \/ IdleReap(h) \/ WatchdogInterrupt(h) \/ WatchdogFail(h)
               \/ StartUnreadable(h) \/ RestartUnreadable(h) \/ Kill(h)
               \/ \E i \in DOMAIN pipe[h] : ReadEvent(h, i)
               \/ Evict(h)
               \/ \E a \in Agents : SpawnSessionHost(a, h)
        PROVE  ForgetInv'
    <3>1. \/ QuietStepOf(h)
          \/ ClaimTurn(h) \/ SendUserTurn(h) \/ DeliverControl(h)
          \/ FinishTurn(h) \/ AbandonTurn(h) \/ WatchdogFail(h)
      BY <2>2, HostSteps
    <3> QED  BY <1>1, <1>2, <2>1, <3>1, HostForgets
  <2>3. CASE \/ \E a \in Agents : Request(a)
             \/ Commit \/ ApiCrash \/ OrphanSweep \/ SupervisorPass \/ DaemonCrash
             \/ \E a \in Agents, pid \in Hosts \cup {None} : SweepRow(a, pid)
             \/ UNCHANGED vars
    BY <1>1, <1>2, <1>4, <2>1, <2>3, OutsideForgets
  <2> QED  BY <2>2, <2>3 DEF Next
<1> QED  BY <1>3, <1>4

LEMMA ForgetInvInit == Init => ForgetInv
<1> SUFFICES ASSUME Init PROVE ForgetInv  OBVIOUS
<1>1. \A h \in Hosts : host[h].pc = "free"  BY DEF Init, NoHost
<1>2. \A a \in Agents : DOMAIN turns[a] = {} /\ resume[a] = "none"  BY DEF Init
<1>3. \A a \in Agents : ClearsFirst(a)  BY <1>2 DEF ClearsFirst
<1>4. \A h \in Hosts : RunsKnown(h)  BY <1>1 DEF RunsKnown, Running
<1>5. \A a \in Agents : NothingOld(a) /\ Apart(a)
  BY <1>1, <1>2 DEF NothingOld, Apart, HostsOf, Running, Queued, TurnsIn
<1> QED  BY <1>3, <1>4, <1>5 DEF ForgetInv, Sound

\* What the user says after clear_context is said in a conversation begun
\* after it, wherever the host was when the request came and however its
\* restarts, its end and the reports of its inner are ordered with it, unless
\* the restart was lost or replaced the inner in the middle of a turn.
THEOREM ContextIsForgotten == Spec => []ClearedMeansForgotten
<1>1. IType /\ OwnInv /\ OrderInv /\ [Next]_vars => OrderInv'
  <2>1. IType /\ [Next]_vars => IType'  BY ITypeStep
  <2> QED  BY <2>1, OrderInvStep
<1>2. IType /\ OwnInv /\ AskInv /\ [Next]_vars => AskInv'
  <2>1. IType /\ [Next]_vars => IType'  BY ITypeStep
  <2> QED  BY <2>1, AskInvStep
<1>3. IType /\ OwnInv /\ OrderInv /\ AskInv /\ ForgetInv /\ [Next]_vars => ForgetInv'
  <2>1. IType /\ [Next]_vars => IType'  BY ITypeStep
  <2> QED  BY <2>1, ForgetInvStep
<1>4. IType /\ OwnInv /\ OrderInv /\ ForgetInv => ClearedMeansForgotten
  BY SaysForgotten DEF OrderInv
<1> QED  BY <1>1, <1>2, <1>3, <1>4, OrderInvInit, AskInvInit, ForgetInvInit, Owned, PTL DEF Spec
=============================================================================
