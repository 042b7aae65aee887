---------------------------- MODULE SteeringProofs ----------------------------
(***************************************************************************)
(* Proofs about Steering, for every number of follow-ups, runs and events: *)
(* its types, among them that positions stay below the number of           *)
(* follow-ups; that an injection that was not followed by another one is   *)
(* completed before the run succeeds; that no follow-up is lost, heard     *)
(* twice, or first heard out of order.                                     *)
(***************************************************************************)
EXTENDS Steering, FiniteSetTheorems, SequenceTheorems, TLAPS

-----------------------------------------------------------------------------
(***************************************************************************)
(* The inductive invariant.                                                *)
(***************************************************************************)

\* What the user typed with a continue stands first.
Texts == {s \in Seq(Text) : \A i \in DOMAIN s : i > 1 => s[i] # Typed}

\* Which parts of a run's record are in use, by its pc.
Shape(e) ==
  /\ e.pc = "posting" => e.queue # <<>>
  /\ e.queue # <<>> => e.pc \in Executing
  /\ e.cand # None => e.pc \in Executing
  /\ e.prompt # <<>> => e.pc \notin {"free", "loading", "exec", "posting"}
  /\ e.rows # <<>> => e.pc \in {"draining", "dropping"}
  /\ e.prompt \in Texts /\ e.saw \in Texts

Shapes == staged \in Texts /\ \A r \in Runs : Shape(run[r])

\* Follow-ups are added in the order of their numbers, and every position is
\* below the number of those that were added.
Added == {m \in Msgs : msg[m].state # "none"}
Free  == (Msgs \ Added) \cup {NMsgs + 1}

Ahead(n) == \A m \in Added : m < n /\ msg[m].pos + 1 < n

Fits(q, n) ==
  q # None => /\ q.op = "add" => q.m \in Free /\ q.m <= n /\ q.pos + 1 <= q.m
              /\ q.op = "reorder" => Len(q.order) < n

InOrder == \A n \in Free : Ahead(n) /\ Fits(req, n)

\* Every follow-up that is somewhere was added.
Carries(e) == MsgsOf(e.prompt) \cup MsgsOf(e.queue) \cup MsgsOf(e.rows) \cup MsgsOf(e.saw)

Known ==
  /\ stuck \subseteq Added
  /\ MsgsOf(staged) \subseteq Added
  /\ MsgsOf(heard) \subseteq Added
  /\ \A r \in Runs : Carries(run[r]) \subseteq Added
  /\ req # None /\ req.op \in {"edit", "cancel"} => req.m \in Added

IInv == TypeOK /\ Shapes /\ InOrder /\ Known

-----------------------------------------------------------------------------
(***************************************************************************)
(* Sequences of texts.                                                     *)
(***************************************************************************)

LEMMA FollowUpsAreTexts == FollowUps \subseteq Text /\ Seq(FollowUps) \subseteq Seq(Text)
<1>1. FollowUps \subseteq Text  BY DEF Text
<1>2. ASSUME NEW s \in Seq(FollowUps)  PROVE s \in Seq(Text)  BY <1>1, SeqMonotonic
<1> QED  BY <1>1, <1>2

LEMMA MsgsInMsgs ==
  ASSUME NEW s \in Seq(Text)
  PROVE  MsgsOf(s) \subseteq Msgs
<1>1. \A i \in DOMAIN s : s[i] \in Text  OBVIOUS
<1>2. \A x \in Text : x.m \in Msgs \cup {0}  BY DEF Text, FollowUps, Typed
<1> QED  BY <1>1, <1>2 DEF MsgsOf

LEMMA MsgsEmpty == MsgsOf(<<>>) = {}
BY DEF MsgsOf

LEMMA MsgsAppend ==
  ASSUME NEW s \in Seq(Text), NEW x \in Text
  PROVE  MsgsOf(Append(s, x)) = MsgsOf(s) \cup ({x.m} \ {0})
<1>1. Append(s, x) \in Seq(Text) /\ Len(Append(s, x)) = Len(s) + 1  OBVIOUS
<1>2. \A i \in 1..Len(s) : Append(s, x)[i] = s[i]  OBVIOUS
<1>3. Append(s, x)[Len(s) + 1] = x  OBVIOUS
<1>4. DOMAIN s = 1..Len(s) /\ DOMAIN Append(s, x) = 1..(Len(s) + 1) /\ Len(s) \in Nat
  BY <1>1
<1>5. \A i \in 1..(Len(s) + 1) : i \in 1..Len(s) \/ i = Len(s) + 1  BY <1>4
<1>6. 1..Len(s) \subseteq 1..(Len(s) + 1) /\ Len(s) + 1 \in 1..(Len(s) + 1)  BY <1>4
<1> HIDE <1>1
<1>7. ASSUME NEW m \in MsgsOf(Append(s, x))  PROVE m \in MsgsOf(s) \cup ({x.m} \ {0})
  <2>1. PICK i \in DOMAIN Append(s, x) : m = Append(s, x)[i].m /\ m # 0  BY DEF MsgsOf
  <2> QED  BY <2>1, <1>2, <1>3, <1>4, <1>5 DEF MsgsOf
<1>8. ASSUME NEW m \in MsgsOf(s)  PROVE m \in MsgsOf(Append(s, x))
  <2>1. PICK i \in DOMAIN s : m = s[i].m /\ m # 0  BY DEF MsgsOf
  <2>2. i \in DOMAIN Append(s, x) /\ Append(s, x)[i].m = m  BY <2>1, <1>2, <1>4, <1>6
  <2> QED  BY <2>1, <2>2 DEF MsgsOf
<1>9. x.m # 0 => x.m \in MsgsOf(Append(s, x))  BY <1>3, <1>4, <1>6 DEF MsgsOf
<1> QED  BY <1>7, <1>8, <1>9

LEMMA MsgsConcat ==
  ASSUME NEW s \in Seq(Text), NEW t \in Seq(Text)
  PROVE  MsgsOf(s \o t) = MsgsOf(s) \cup MsgsOf(t)
<1>1. /\ s \o t \in Seq(Text) /\ Len(s \o t) = Len(s) + Len(t)
      /\ Len(s) \in Nat /\ Len(t) \in Nat
      /\ DOMAIN s = 1..Len(s) /\ DOMAIN t = 1..Len(t)
      /\ DOMAIN (s \o t) = 1..(Len(s) + Len(t))
  OBVIOUS
<1>2. \A i \in 1..Len(s) : i \in DOMAIN (s \o t) /\ (s \o t)[i] = s[i]  BY <1>1
<1>3. \A i \in 1..Len(t) : i + Len(s) \in DOMAIN (s \o t) /\ (s \o t)[i + Len(s)] = t[i]
  BY <1>1
<1>4. \A i \in DOMAIN (s \o t) : i \in 1..Len(s) \/ (i - Len(s) \in 1..Len(t) /\ (s \o t)[i] = t[i - Len(s)])
  BY <1>1
<1>5. ASSUME NEW m \in MsgsOf(s \o t)  PROVE m \in MsgsOf(s) \cup MsgsOf(t)
  <2>1. PICK i \in DOMAIN (s \o t) : m = (s \o t)[i].m /\ m # 0  BY DEF MsgsOf
  <2>2. CASE i \in 1..Len(s)  BY <1>1, <1>2, <2>1, <2>2 DEF MsgsOf
  <2>3. CASE i - Len(s) \in 1..Len(t) /\ (s \o t)[i] = t[i - Len(s)]
    BY <1>1, <2>1, <2>3 DEF MsgsOf
  <2> QED  BY <1>4, <2>2, <2>3
<1>6. ASSUME NEW m \in MsgsOf(s)  PROVE m \in MsgsOf(s \o t)
  <2>1. PICK i \in 1..Len(s) : m = s[i].m /\ m # 0  BY <1>1 DEF MsgsOf
  <2> QED  BY <1>2, <2>1 DEF MsgsOf
<1>7. ASSUME NEW m \in MsgsOf(t)  PROVE m \in MsgsOf(s \o t)
  <2>1. PICK i \in 1..Len(t) : m = t[i].m /\ m # 0  BY <1>1 DEF MsgsOf
  <2> QED  BY <1>3, <2>1 DEF MsgsOf
<1> QED  BY <1>5, <1>6, <1>7

LEMMA MsgsTail ==
  ASSUME NEW s \in Seq(Text), s # <<>>
  PROVE  /\ Head(s) \in Text
         /\ Tail(s) \in Seq(Text)
         /\ MsgsOf(s) = ({Head(s).m} \ {0}) \cup MsgsOf(Tail(s))
<1>1. /\ Head(s) = s[1] /\ Tail(s) \in Seq(Text) /\ Len(Tail(s)) = Len(s) - 1
      /\ Len(s) \in Nat /\ Len(s) # 0
      /\ DOMAIN s = 1..Len(s) /\ DOMAIN Tail(s) = 1..(Len(s) - 1)
      /\ \A i \in 1..(Len(s) - 1) : Tail(s)[i] = s[i + 1]
  BY HeadTailProperties, EmptySeq
<1>2. 1 \in DOMAIN s  BY <1>1
<1>3. ASSUME NEW m \in MsgsOf(s)  PROVE m \in ({Head(s).m} \ {0}) \cup MsgsOf(Tail(s))
  <2>1. PICK i \in 1..Len(s) : m = s[i].m /\ m # 0  BY <1>1 DEF MsgsOf
  <2>2. CASE i = 1  BY <1>1, <2>1, <2>2
  <2>3. CASE i # 1
    <3>1. i - 1 \in 1..(Len(s) - 1) /\ (i - 1) + 1 = i  BY <1>1, <2>3
    <3>2. Tail(s)[i - 1] = s[i]  BY <1>1, <3>1
    <3> QED  BY <1>1, <2>1, <3>1, <3>2 DEF MsgsOf
  <2> QED  BY <2>2, <2>3
<1>4. ASSUME NEW m \in MsgsOf(Tail(s))  PROVE m \in MsgsOf(s)
  <2>1. PICK i \in 1..(Len(s) - 1) : m = Tail(s)[i].m /\ m # 0  BY <1>1 DEF MsgsOf
  <2>2. i + 1 \in DOMAIN s /\ m = s[i + 1].m  BY <1>1, <2>1
  <2> QED  BY <2>1, <2>2 DEF MsgsOf
<1>5. Head(s).m # 0 => Head(s).m \in MsgsOf(s)  BY <1>1, <1>2 DEF MsgsOf
<1>6. s[1] \in Text  BY <1>2
<1> QED  BY <1>1, <1>3, <1>4, <1>5, <1>6

LEMMA SeqOfFollowUps ==
  ASSUME NEW s \in Seq(Text), \A i \in 1..Len(s) : s[i] \in FollowUps
  PROVE  s \in Seq(FollowUps)
<1>1. s \in [1..Len(s) -> FollowUps] /\ Len(s) \in Nat  OBVIOUS
<1> QED  BY <1>1, SeqDef

\* What of a prompt are follow-ups.
LEMMA FollowUpsInTexts ==
  ASSUME NEW s \in Texts
  PROVE  /\ FollowUpsIn(s) \in Seq(FollowUps)
         /\ MsgsOf(FollowUpsIn(s)) = MsgsOf(s)
<1>1. s \in Seq(Text) /\ \A i \in DOMAIN s : i > 1 => s[i] \in FollowUps  BY DEF Texts, Text
<1>2. CASE s # <<>> /\ Head(s) = Typed
  <2>1. FollowUpsIn(s) = Tail(s)  BY <1>2 DEF FollowUpsIn
  <2>2. /\ Tail(s) \in Seq(Text) /\ Len(Tail(s)) = Len(s) - 1 /\ Len(s) \in Nat /\ Len(s) # 0
        /\ DOMAIN s = 1..Len(s) /\ DOMAIN Tail(s) = 1..(Len(s) - 1)
        /\ \A i \in 1..(Len(s) - 1) : Tail(s)[i] = s[i + 1]
    BY <1>1, <1>2, HeadTailProperties, EmptySeq
  <2>3. \A i \in 1..(Len(s) - 1) : Tail(s)[i] \in FollowUps
    <3> SUFFICES ASSUME NEW i \in 1..(Len(s) - 1)  PROVE Tail(s)[i] \in FollowUps  OBVIOUS
    <3>1. i + 1 \in DOMAIN s /\ i + 1 > 1  BY <2>2
    <3> QED  BY <1>1, <2>2, <3>1
  <2>5. Tail(s) \in Seq(FollowUps)
    <3>1. \A i \in 1..Len(Tail(s)) : Tail(s)[i] \in FollowUps  BY <2>2, <2>3
    <3> QED  BY <2>2, <3>1, SeqOfFollowUps
  <2>6. MsgsOf(s) = ({Head(s).m} \ {0}) \cup MsgsOf(Tail(s))  BY <1>1, <1>2, MsgsTail
  <2>7. Head(s).m = 0  BY <1>2 DEF Typed
  <2> QED  BY <2>1, <2>5, <2>6, <2>7
<1>3. CASE ~(s # <<>> /\ Head(s) = Typed)
  <2>1. FollowUpsIn(s) = s  BY <1>3 DEF FollowUpsIn
  <2>2. \A i \in 1..Len(s) : s[i] \in FollowUps
    <3> SUFFICES ASSUME NEW i \in 1..Len(s)  PROVE s[i] \in FollowUps  OBVIOUS
    <3>1. i \in DOMAIN s /\ Len(s) \in Nat  BY <1>1
    <3>2. CASE i > 1  BY <1>1, <3>1, <3>2
    <3>3. CASE i = 1
      <4>1. s # <<>>  BY <1>1, <3>1
      <4>2. s[1] # Typed  BY <1>1, <1>3, <4>1
      <4> QED  BY <1>1, <3>1, <3>3, <4>2 DEF Text
    <3> QED  BY <3>1, <3>2, <3>3
  <2>4. s \in Seq(FollowUps)  BY <1>1, <2>2, SeqOfFollowUps
  <2> QED  BY <2>1, <2>4
<1> QED  BY <1>2, <1>3

-----------------------------------------------------------------------------
(***************************************************************************)
(* What each step writes into the record of its run.                       *)
(***************************************************************************)
OnlyRun(r) ==
  /\ run' \in [Runs -> RunRecords]
  /\ \A q \in Runs \ {r} : run'[q] = run[q]

\* Where run r stands now, ...
Stands(r, pc, exit, cand) ==
  /\ OnlyRun(r)
  /\ run'[r].pc = pc /\ run'[r].exit = exit /\ run'[r].cand = cand

\* ... the texts it holds ...
Holds(r, prompt, queue, rows, saw) ==
  /\ run'[r].prompt = prompt /\ run'[r].queue = queue
  /\ run'[r].rows = rows /\ run'[r].saw = saw

\* ... and what its driver has counted.
Counts(r, injected, posts, todo, idles) ==
  /\ run'[r].injected = injected /\ run'[r].posts = posts
  /\ run'[r].todo = todo /\ run'[r].idles = idles

HoldsStill(r)  == Holds(r, run[r].prompt, run[r].queue, run[r].rows, run[r].saw)
CountsStill(r) == Counts(r, run[r].injected, run[r].posts, run[r].todo, run[r].idles)

LEMMA RunType == ASSUME TypeOK, NEW r \in Runs PROVE run[r] \in RunRecords
BY DEF TypeOK

LEMMA WriteRun ==
  ASSUME TypeOK, NEW r \in Runs, NEW e \in RunRecords, run' = [run EXCEPT ![r] = e]
  PROVE  OnlyRun(r) /\ run'[r] = e
BY DEF TypeOK, OnlyRun

LEMMA StepEffect ==
  ASSUME TypeOK, NEW r \in Runs, NEW pc \in Pcs, run' = [run EXCEPT ![r].pc = pc]
  PROVE  Stands(r, pc, run[r].exit, run[r].cand) /\ HoldsStill(r) /\ CountsStill(r)
<1> DEFINE e == [run[r] EXCEPT !.pc = pc]
<1>1. run[r] \in RunRecords  BY RunType
<1>2. /\ e \in RunRecords
      /\ e.pc = pc /\ e.exit = run[r].exit /\ e.cand = run[r].cand
      /\ e.prompt = run[r].prompt /\ e.queue = run[r].queue /\ e.rows = run[r].rows
      /\ e.saw = run[r].saw /\ e.injected = run[r].injected /\ e.posts = run[r].posts
      /\ e.todo = run[r].todo /\ e.idles = run[r].idles
  BY <1>1 DEF RunRecords
<1>3. run' = [run EXCEPT ![r] = e]  BY DEF TypeOK
<1> HIDE DEF e
<1> QED  BY <1>2, <1>3, WriteRun DEF Stands, HoldsStill, Holds, CountsStill, Counts

LEMMA LoadEffect ==
  ASSUME TypeOK, NEW r \in Runs,
         run' = [run EXCEPT ![r].pc = "setup", ![r].prompt = staged]
  PROVE  /\ Stands(r, "setup", run[r].exit, run[r].cand)
         /\ Holds(r, staged, run[r].queue, run[r].rows, run[r].saw)
         /\ CountsStill(r)
<1> DEFINE e == [run[r] EXCEPT !.pc = "setup", !.prompt = staged]
<1>1. run[r] \in RunRecords /\ staged \in Seq(Text)  BY RunType DEF TypeOK
<1>2. /\ e \in RunRecords
      /\ e.pc = "setup" /\ e.exit = run[r].exit /\ e.cand = run[r].cand
      /\ e.prompt = staged /\ e.queue = run[r].queue /\ e.rows = run[r].rows
      /\ e.saw = run[r].saw /\ e.injected = run[r].injected /\ e.posts = run[r].posts
      /\ e.todo = run[r].todo /\ e.idles = run[r].idles
  BY <1>1 DEF RunRecords, Pcs, Flights
<1>3. run' = [run EXCEPT ![r] = e]  BY DEF TypeOK
<1> HIDE DEF e
<1> QED  BY <1>2, <1>3, WriteRun DEF Stands, Holds, CountsStill, Counts

\* The prompt that survives the end of an execution.
Unused(r) == IF run[r].pc \in {"loading", "setup"} THEN <<>> ELSE run[r].prompt

LEMMA ResetRecord ==
  ASSUME TypeOK, NEW r \in Runs, NEW pc \in Pcs
  PROVE  /\ Reset(r, pc) \in RunRecords
         /\ Reset(r, pc).pc = pc /\ Reset(r, pc).exit = "none" /\ Reset(r, pc).cand = None
         /\ Reset(r, pc).prompt = Unused(r) /\ Reset(r, pc).queue = <<>>
         /\ Reset(r, pc).rows = <<>> /\ Reset(r, pc).saw = <<>>
         /\ Reset(r, pc).injected = FALSE /\ Reset(r, pc).posts = 0
         /\ Reset(r, pc).todo = 0 /\ Reset(r, pc).idles = 0
<1>1. Unused(r) \in Seq(Text)
  <2>1. run[r].prompt \in Seq(Text)  BY RunType DEF RunRecords
  <2> QED  BY <2>1 DEF Unused
<1>2. PICK p \in Seq(Text) : p = Unused(r)  BY <1>1
<1>3. Reset(r, pc) = [Idle EXCEPT !.pc = pc, !.prompt = p]  BY <1>2 DEF Reset, Unused
<1>4. Idle \in RunRecords
  BY DEF Idle, RunRecords, Pcs, Exits
<1>5. [Idle EXCEPT !.pc = pc, !.prompt = p] \in RunRecords  BY <1>4 DEF RunRecords
<1> QED  BY <1>2, <1>3, <1>5 DEF Idle

LEMMA ResetEffect ==
  ASSUME TypeOK, NEW r \in Runs, NEW pc \in Pcs, run' = [run EXCEPT ![r] = Reset(r, pc)]
  PROVE  /\ Stands(r, pc, "none", None)
         /\ Holds(r, Unused(r), <<>>, <<>>, <<>>)
         /\ Counts(r, FALSE, 0, 0, 0)
<1>1. PICK e \in RunRecords : e = Reset(r, pc)  BY ResetRecord
<1>2. OnlyRun(r) /\ run'[r] = e  BY <1>1, WriteRun
<1>3. /\ e.pc = pc /\ e.exit = "none" /\ e.cand = None
      /\ e.prompt = Unused(r) /\ e.queue = <<>> /\ e.rows = <<>> /\ e.saw = <<>>
      /\ e.injected = FALSE /\ e.posts = 0 /\ e.todo = 0 /\ e.idles = 0
  BY <1>1, ResetRecord
<1> HIDE <1>1
<1> QED  BY <1>2, <1>3 DEF Stands, Holds, Counts

LEMMA ReturnEffect ==
  ASSUME TypeOK, NEW r \in Runs, NEW exit \in Exits, Return(r, exit)
  PROVE  /\ Stands(r, "ended", exit, run[r].cand)
         /\ Holds(r, run[r].prompt, <<>>, run[r].rows, run[r].saw)
         /\ CountsStill(r)
<1> DEFINE e == [run[r] EXCEPT !.pc = "ended", !.exit = exit, !.queue = <<>>,
                               !.sig = FALSE, !.late = FALSE]
<1>1. run[r] \in RunRecords  BY RunType
<1>0. "ended" \in Pcs /\ <<>> \in Seq(FollowUps)  BY DEF Pcs, Flights
<1>4. e \in RunRecords  BY <1>0, <1>1 DEF RunRecords
<1>2. /\ e.pc = "ended" /\ e.exit = exit /\ e.cand = run[r].cand
      /\ e.prompt = run[r].prompt /\ e.queue = <<>> /\ e.rows = run[r].rows
      /\ e.saw = run[r].saw /\ e.injected = run[r].injected /\ e.posts = run[r].posts
      /\ e.todo = run[r].todo /\ e.idles = run[r].idles
  BY <1>1 DEF RunRecords
<1>3. run' = [run EXCEPT ![r] = e]  BY DEF Return, TypeOK
<1> HIDE DEF e
<1> QED  BY <1>2, <1>3, <1>4, WriteRun DEF Stands, Holds, CountsStill, Counts

LEMMA SelectEffect ==
  ASSUME TypeOK, NEW r \in Runs, NEW m \in Msgs,
         run' = [run EXCEPT ![r].cand = m]
  PROVE  /\ Stands(r, run[r].pc, run[r].exit, m)
         /\ HoldsStill(r)
         /\ CountsStill(r)
<1> DEFINE e == [run[r] EXCEPT !.cand = m]
<1>1. run[r] \in RunRecords  BY RunType
<1>3. e \in RunRecords  BY <1>1 DEF RunRecords
<1>4. /\ e.pc = run[r].pc /\ e.exit = run[r].exit /\ e.cand = m
      /\ e.prompt = run[r].prompt /\ e.queue = run[r].queue /\ e.rows = run[r].rows
      /\ e.saw = run[r].saw /\ e.injected = run[r].injected /\ e.posts = run[r].posts
      /\ e.todo = run[r].todo /\ e.idles = run[r].idles
  BY <1>1 DEF RunRecords
<1>5. run' = [run EXCEPT ![r] = e]  BY <1>1 DEF TypeOK
<1> HIDE DEF e
<1> QED  BY <1>3, <1>4, <1>5, WriteRun DEF Stands, HoldsStill, Holds, CountsStill, Counts

LEMMA LeaveEffect ==
  ASSUME TypeOK, NEW r \in Runs, run' = [run EXCEPT ![r].cand = None]
  PROVE  /\ Stands(r, run[r].pc, run[r].exit, None)
         /\ HoldsStill(r)
         /\ CountsStill(r)
<1> DEFINE e == [run[r] EXCEPT !.cand = None]
<1>1. run[r] \in RunRecords  BY RunType
<1>3. e \in RunRecords  BY <1>1 DEF RunRecords
<1>4. /\ e.pc = run[r].pc /\ e.exit = run[r].exit /\ e.cand = None
      /\ e.prompt = run[r].prompt /\ e.queue = run[r].queue /\ e.rows = run[r].rows
      /\ e.saw = run[r].saw /\ e.injected = run[r].injected /\ e.posts = run[r].posts
      /\ e.todo = run[r].todo /\ e.idles = run[r].idles
  BY <1>1 DEF RunRecords
<1>5. run' = [run EXCEPT ![r] = e]  BY <1>1 DEF TypeOK
<1> HIDE DEF e
<1> QED  BY <1>3, <1>4, <1>5, WriteRun DEF Stands, HoldsStill, Holds, CountsStill, Counts

LEMMA ClaimEffect ==
  ASSUME TypeOK, NEW r \in Runs, NEW x \in FollowUps,
         run' = [run EXCEPT ![r].cand = None, ![r].queue = Append(@, x)]
  PROVE  /\ Stands(r, run[r].pc, run[r].exit, None)
         /\ Holds(r, run[r].prompt, Append(run[r].queue, x), run[r].rows, run[r].saw)
         /\ CountsStill(r)
<1> DEFINE e == [run[r] EXCEPT !.cand = None, !.queue = Append(run[r].queue, x)]
<1>1. run[r] \in RunRecords  BY RunType
<1>2. run[r].queue \in Seq(FollowUps) /\ Append(run[r].queue, x) \in Seq(FollowUps)
  BY <1>1 DEF RunRecords
<1>3. e \in RunRecords  BY <1>1, <1>2 DEF RunRecords
<1>4. /\ e.pc = run[r].pc /\ e.exit = run[r].exit /\ e.cand = None
      /\ e.prompt = run[r].prompt /\ e.queue = Append(run[r].queue, x) /\ e.rows = run[r].rows
      /\ e.saw = run[r].saw /\ e.injected = run[r].injected /\ e.posts = run[r].posts
      /\ e.todo = run[r].todo /\ e.idles = run[r].idles
  BY <1>1 DEF RunRecords
<1>5. run' = [run EXCEPT ![r] = e]  BY <1>1 DEF TypeOK
<1> HIDE DEF e
<1> QED  BY <1>3, <1>4, <1>5, WriteRun DEF Stands, Holds, CountsStill, Counts

LEMMA SignalEffect ==
  ASSUME TypeOK, NEW r \in Runs, run' = [run EXCEPT ![r].sig = TRUE]
  PROVE  /\ Stands(r, run[r].pc, run[r].exit, run[r].cand)
         /\ HoldsStill(r)
         /\ CountsStill(r)
<1> DEFINE e == [run[r] EXCEPT !.sig = TRUE]
<1>1. run[r] \in RunRecords  BY RunType
<1>3. e \in RunRecords  BY <1>1 DEF RunRecords
<1>4. /\ e.pc = run[r].pc /\ e.exit = run[r].exit /\ e.cand = run[r].cand
      /\ e.prompt = run[r].prompt /\ e.queue = run[r].queue /\ e.rows = run[r].rows
      /\ e.saw = run[r].saw /\ e.injected = run[r].injected /\ e.posts = run[r].posts
      /\ e.todo = run[r].todo /\ e.idles = run[r].idles
  BY <1>1 DEF RunRecords
<1>5. run' = [run EXCEPT ![r] = e]  BY <1>1 DEF TypeOK
<1> HIDE DEF e
<1> QED  BY <1>3, <1>4, <1>5, WriteRun DEF Stands, HoldsStill, Holds, CountsStill, Counts

LEMMA PromptEffect ==
  ASSUME TypeOK, NEW r \in Runs, run' = [run EXCEPT ![r].pc = "exec", ![r].prompt = <<>>, ![r].todo = 1]
  PROVE  /\ Stands(r, "exec", run[r].exit, run[r].cand)
         /\ Holds(r, <<>>, run[r].queue, run[r].rows, run[r].saw)
         /\ Counts(r, run[r].injected, run[r].posts, 1, run[r].idles)
<1> DEFINE e == [run[r] EXCEPT !.pc = "exec", !.prompt = <<>>, !.todo = 1]
<1>1. run[r] \in RunRecords  BY RunType
<1>2. "exec" \in Pcs /\ <<>> \in Seq(Text) /\ 1 \in Nat  BY DEF Pcs, Flights, Executing
<1>3. e \in RunRecords  BY <1>1, <1>2 DEF RunRecords
<1>4. /\ e.pc = "exec" /\ e.exit = run[r].exit /\ e.cand = run[r].cand
      /\ e.prompt = <<>> /\ e.queue = run[r].queue /\ e.rows = run[r].rows
      /\ e.saw = run[r].saw /\ e.injected = run[r].injected /\ e.posts = run[r].posts
      /\ e.todo = 1 /\ e.idles = run[r].idles
  BY <1>1 DEF RunRecords
<1>5. run' = [run EXCEPT ![r] = e]  BY <1>1 DEF TypeOK
<1> HIDE DEF e
<1> QED  BY <1>3, <1>4, <1>5, WriteRun DEF Stands, Holds, Counts

LEMMA PostEffect ==
  ASSUME TypeOK, NEW r \in Runs, run' = [run EXCEPT ![r].pc = "posting", ![r].posts = @ + 1, ![r].todo = @ + 1]
  PROVE  /\ Stands(r, "posting", run[r].exit, run[r].cand)
         /\ HoldsStill(r)
         /\ Counts(r, run[r].injected, run[r].posts + 1, run[r].todo + 1, run[r].idles)
<1> DEFINE e == [run[r] EXCEPT !.pc = "posting", !.posts = run[r].posts + 1,
                               !.todo = run[r].todo + 1]
<1>1. run[r] \in RunRecords  BY RunType
<1>2. "posting" \in Pcs /\ run[r].posts + 1 \in Nat /\ run[r].todo + 1 \in Nat
  BY <1>1 DEF RunRecords, Pcs, Flights, Executing
<1>3. e \in RunRecords  BY <1>1, <1>2 DEF RunRecords
<1>4. /\ e.pc = "posting" /\ e.exit = run[r].exit /\ e.cand = run[r].cand
      /\ e.prompt = run[r].prompt /\ e.queue = run[r].queue /\ e.rows = run[r].rows
      /\ e.saw = run[r].saw /\ e.injected = run[r].injected /\ e.posts = run[r].posts + 1
      /\ e.todo = run[r].todo + 1 /\ e.idles = run[r].idles
  BY <1>1 DEF RunRecords
<1>5. run' = [run EXCEPT ![r] = e]  BY <1>1 DEF TypeOK
<1> HIDE DEF e
<1> QED  BY <1>3, <1>4, <1>5, WriteRun DEF Stands, HoldsStill, Holds, Counts

LEMMA TakenEffect ==
  ASSUME TypeOK, NEW r \in Runs, run[r].queue # <<>>, Taken(r)
  PROVE  /\ Stands(r, "exec", run[r].exit, run[r].cand)
         /\ Holds(r, run[r].prompt, Tail(run[r].queue), run[r].rows, run[r].saw)
         /\ Counts(r, TRUE, run[r].posts, run[r].todo, run[r].idles)
<1>0. PICK d \in BOOLEAN : run' = [run EXCEPT ![r].pc = "exec", ![r].queue = Tail(@),
                                              ![r].injected = TRUE, ![r].deaf = d]
  <2>1. run[r].deaf \in BOOLEAN  BY RunType DEF RunRecords
  <2>2. PICK cut \in BOOLEAN :
          run' = [run EXCEPT ![r].pc = "exec", ![r].queue = Tail(@),
                             ![r].injected = TRUE, ![r].deaf = @ \/ cut]
    BY DEF Taken
  <2>3. PICK d \in BOOLEAN : d = (run[r].deaf \/ cut)  BY <2>1
  <2> QED  BY <2>2, <2>3
<1> DEFINE e == [run[r] EXCEPT !.pc = "exec", !.queue = Tail(run[r].queue), !.injected = TRUE, !.deaf = d]
<1>1. run[r] \in RunRecords  BY RunType
<1>2. "exec" \in Pcs /\ Tail(run[r].queue) \in Seq(FollowUps)
  <2>1. run[r].queue \in Seq(FollowUps)  BY <1>1 DEF RunRecords
  <2> QED  BY <2>1, HeadTailProperties DEF Pcs, Flights, Executing
<1>3. e \in RunRecords  BY <1>1, <1>2 DEF RunRecords
<1>4. /\ e.pc = "exec" /\ e.exit = run[r].exit /\ e.cand = run[r].cand
      /\ e.prompt = run[r].prompt /\ e.queue = Tail(run[r].queue) /\ e.rows = run[r].rows
      /\ e.saw = run[r].saw /\ e.injected = TRUE /\ e.posts = run[r].posts
      /\ e.todo = run[r].todo /\ e.idles = run[r].idles
  BY <1>1 DEF RunRecords
<1>5. run' = [run EXCEPT ![r] = e]  BY <1>0, <1>1 DEF TypeOK
<1> HIDE DEF e
<1> QED  BY <1>3, <1>4, <1>5, WriteRun DEF Stands, Holds, Counts

LEMMA TurnEffect ==
  ASSUME TypeOK, NEW r \in Runs, run[r].todo > 0,
         run' = [run EXCEPT ![r].todo = @ - 1, ![r].idles = @ + 1]
  PROVE  /\ Stands(r, run[r].pc, run[r].exit, run[r].cand)
         /\ HoldsStill(r)
         /\ Counts(r, run[r].injected, run[r].posts, run[r].todo - 1, run[r].idles + 1)
<1> DEFINE e == [run[r] EXCEPT !.todo = run[r].todo - 1, !.idles = run[r].idles + 1]
<1>1. run[r] \in RunRecords  BY RunType
<1>2. run[r].todo - 1 \in Nat /\ run[r].idles + 1 \in Nat  BY <1>1 DEF RunRecords
<1>3. e \in RunRecords  BY <1>1, <1>2 DEF RunRecords
<1>4. /\ e.pc = run[r].pc /\ e.exit = run[r].exit /\ e.cand = run[r].cand
      /\ e.prompt = run[r].prompt /\ e.queue = run[r].queue /\ e.rows = run[r].rows
      /\ e.saw = run[r].saw /\ e.injected = run[r].injected /\ e.posts = run[r].posts
      /\ e.todo = run[r].todo - 1 /\ e.idles = run[r].idles + 1
  BY <1>1 DEF RunRecords
<1>5. run' = [run EXCEPT ![r] = e]  BY <1>1 DEF TypeOK
<1> HIDE DEF e
<1> QED  BY <1>3, <1>4, <1>5, WriteRun DEF Stands, HoldsStill, Holds, Counts

LEMMA IdleEffect ==
  ASSUME TypeOK, NEW r \in Runs, run[r].idles > 0,
         run' = [run EXCEPT ![r].injected = FALSE, ![r].idles = @ - 1]
  PROVE  /\ Stands(r, run[r].pc, run[r].exit, run[r].cand)
         /\ HoldsStill(r)
         /\ Counts(r, FALSE, run[r].posts, run[r].todo, run[r].idles - 1)
<1> DEFINE e == [run[r] EXCEPT !.injected = FALSE, !.idles = run[r].idles - 1]
<1>1. run[r] \in RunRecords  BY RunType
<1>2. run[r].idles - 1 \in Nat  BY <1>1 DEF RunRecords
<1>3. e \in RunRecords  BY <1>1, <1>2 DEF RunRecords
<1>4. /\ e.pc = run[r].pc /\ e.exit = run[r].exit /\ e.cand = run[r].cand
      /\ e.prompt = run[r].prompt /\ e.queue = run[r].queue /\ e.rows = run[r].rows
      /\ e.saw = run[r].saw /\ e.injected = FALSE /\ e.posts = run[r].posts
      /\ e.todo = run[r].todo /\ e.idles = run[r].idles - 1
  BY <1>1 DEF RunRecords
<1>5. run' = [run EXCEPT ![r] = e]  BY <1>1 DEF TypeOK
<1> HIDE DEF e
<1> QED  BY <1>3, <1>4, <1>5, WriteRun DEF Stands, HoldsStill, Holds, Counts

LEMMA DropEffect ==
  ASSUME TypeOK, NEW r \in Runs, run' = [run EXCEPT ![r].pc = "deciding", ![r].rows = <<>>, ![r].saw = <<>>]
  PROVE  /\ Stands(r, "deciding", run[r].exit, run[r].cand)
         /\ Holds(r, run[r].prompt, run[r].queue, <<>>, <<>>)
         /\ CountsStill(r)
<1> DEFINE e == [run[r] EXCEPT !.pc = "deciding", !.rows = <<>>, !.saw = <<>>]
<1>1. run[r] \in RunRecords  BY RunType
<1>2. "deciding" \in Pcs /\ <<>> \in Seq(FollowUps) /\ <<>> \in Seq(Text)
  BY DEF Pcs, Flights
<1>3. e \in RunRecords  BY <1>1, <1>2 DEF RunRecords
<1>4. /\ e.pc = "deciding" /\ e.exit = run[r].exit /\ e.cand = run[r].cand
      /\ e.prompt = run[r].prompt /\ e.queue = run[r].queue /\ e.rows = <<>>
      /\ e.saw = <<>> /\ e.injected = run[r].injected /\ e.posts = run[r].posts
      /\ e.todo = run[r].todo /\ e.idles = run[r].idles
  BY <1>1 DEF RunRecords
<1>5. run' = [run EXCEPT ![r] = e]  BY <1>1 DEF TypeOK
<1> HIDE DEF e
<1> QED  BY <1>3, <1>4, <1>5, WriteRun DEF Stands, Holds, CountsStill, Counts

LEMMA TextOfFollowUp ==
  ASSUME TypeOK, NEW m \in Msgs
  PROVE  TextOf(m) \in FollowUps /\ TextOf(m).m = m
<1>1. msg[m].edited \in BOOLEAN  BY DEF TypeOK, Row
<1> QED  BY <1>1 DEF TextOf, FollowUps

\* The drain: nothing to take, or the rows in delivery order.
LEMMA ReadQueueEffect ==
  ASSUME TypeOK, NEW r \in Runs, ReadQueue(r)
  PROVE  \/ run' = [run EXCEPT ![r] = Reset(r, "landing")]
         \/ \E order \in SetToSeqs(Drained) : \E rows \in Seq(FollowUps) :
              /\ rows = [i \in DOMAIN order |-> TextOf(order[i])]
              /\ DOMAIN order = 1..Cardinality(Drained)
              /\ \A i, j \in DOMAIN order : i # j => order[i] # order[j]
              /\ \A i \in DOMAIN order : order[i] \in Drained
              /\ \A i, j \in DOMAIN order : i < j => Before(order[i], order[j])
              /\ Stands(r, "draining", run[r].exit, None)
              /\ Holds(r, Unused(r), <<>>, rows, staged)
              /\ Counts(r, FALSE, 0, 0, 0)
<1>1. PICK order \in SetToSeqs(Drained) :
        /\ \A i, j \in DOMAIN order : i < j => Before(order[i], order[j])
        /\ run' = [run EXCEPT ![r] =
                 IF order = <<>> THEN Reset(r, "landing")
                 ELSE [Reset(r, "draining") EXCEPT
                         !.exit = run[r].exit, !.saw = staged,
                         !.rows = [i \in DOMAIN order |-> TextOf(order[i])]]]
  BY DEF ReadQueue
<1>2. CASE order = <<>>  BY <1>1, <1>2
<1>3. CASE order # <<>>
  <2>1. /\ order \in [1..Cardinality(Drained) -> Drained]
        /\ \A i, j \in 1..Cardinality(Drained) : i # j => order[i] # order[j]
    BY DEF SetToSeqs
  <2>2. DOMAIN order = 1..Cardinality(Drained)  BY <2>1
  <2>3. Drained \subseteq Msgs  BY DEF Drained, Queued, InState
  <2>4. \A m \in Drained : TextOf(m) \in FollowUps
    BY <2>3, TextOfFollowUp
  <2>5. Cardinality(Drained) \in Nat
    <3>1. IsFiniteSet(Msgs)  BY FS_Interval, SteeringAssumption DEF Msgs
    <3> QED  BY <2>3, <3>1, FS_Subset, FS_CardinalityType
  <2>6. PICK rows \in Seq(FollowUps) : rows = [i \in DOMAIN order |-> TextOf(order[i])]
    <3> DEFINE rows == [i \in DOMAIN order |-> TextOf(order[i])]
    <3>1. rows \in [1..Cardinality(Drained) -> FollowUps]  BY <2>1, <2>2, <2>4
    <3>2. rows \in Seq(FollowUps)  BY <2>5, <3>1, SeqDef
    <3> QED  BY <3>2
  <2> DEFINE z == Reset(r, "draining")
             e == [z EXCEPT !.exit = run[r].exit, !.saw = staged, !.rows = rows]
  <2>7. run' = [run EXCEPT ![r] = e]  BY <1>1, <1>3, <2>6
  <2>8. /\ z \in RunRecords
        /\ z.pc = "draining" /\ z.cand = None
        /\ z.prompt = Unused(r) /\ z.queue = <<>>
        /\ z.injected = FALSE /\ z.posts = 0 /\ z.todo = 0 /\ z.idles = 0
    <3>1. "draining" \in Pcs  BY DEF Pcs, Flights
    <3> QED  BY <3>1, ResetRecord
  <2> HIDE DEF z
  <2>9. run[r].exit \in Exits /\ staged \in Seq(Text)  BY RunType DEF RunRecords, TypeOK
  <2>10. e \in RunRecords  BY <2>8, <2>9 DEF RunRecords
  <2>11. /\ e.pc = "draining" /\ e.cand = None /\ e.exit = run[r].exit
         /\ e.prompt = Unused(r) /\ e.queue = <<>> /\ e.rows = rows /\ e.saw = staged
         /\ e.injected = FALSE /\ e.posts = 0 /\ e.todo = 0 /\ e.idles = 0
    BY <2>8 DEF RunRecords
  <2> HIDE DEF e
  <2>12. OnlyRun(r) /\ run'[r] = e  BY <2>7, <2>10, WriteRun
  <2>13. Stands(r, "draining", run[r].exit, None)  BY <2>11, <2>12 DEF Stands
  <2>14. Holds(r, Unused(r), <<>>, rows, staged)  BY <2>11, <2>12 DEF Holds
  <2>15. Counts(r, FALSE, 0, 0, 0)  BY <2>11, <2>12 DEF Counts
  <2>16. \A i \in DOMAIN order : order[i] \in Drained  BY <2>1, <2>2
  <2>17. \A i, j \in DOMAIN order : i # j => order[i] # order[j]  BY <2>1, <2>2
  <2> QED  BY <1>1, <2>2, <2>6, <2>13, <2>14, <2>15, <2>16, <2>17
<1> QED  BY <1>2, <1>3

-----------------------------------------------------------------------------
(***************************************************************************)
(* The steps of a run.                                                     *)
(***************************************************************************)
StagedWell == staged' \in Texts /\ MsgsOf(staged') \subseteq Added
HeardWell  == heard' \in Seq(FollowUps) /\ MsgsOf(heard') \subseteq Added
RowsWell   == /\ msg' \in [Msgs -> Row]
              /\ \A m \in Msgs : /\ msg'[m].state # "none" <=> msg[m].state # "none"
                                 /\ msg'[m].pos = msg[m].pos

LEMMA Untouched ==
  ASSUME IInv
  PROVE  /\ UNCHANGED staged => StagedWell
         /\ UNCHANGED heard => HeardWell
         /\ UNCHANGED msg => RowsWell
BY DEF IInv, TypeOK, Shapes, Known, StagedWell, HeardWell, RowsWell

\* A change of state of follow-ups that were added.
LEMMA SetWell ==
  ASSUME IInv, NEW S, S \cap Msgs \subseteq Added, NEW state \in States \ {"none"},
         msg' = Set(S, state)
  PROVE  RowsWell
<1>1. ASSUME NEW m \in Msgs
      PROVE  /\ msg'[m] = IF m \in S THEN [msg[m] EXCEPT !.state = state] ELSE msg[m]
             /\ msg[m] \in Row
  BY <1>1 DEF Set, IInv, TypeOK
<1>2. ASSUME NEW m \in Msgs
      PROVE  /\ msg'[m] \in Row /\ msg'[m].pos = msg[m].pos
             /\ msg'[m].state = IF m \in S THEN state ELSE msg[m].state
  BY <1>1 DEF Row
<1>3. msg' \in [Msgs -> Row]  BY <1>2 DEF Set
<1> QED  BY <1>2, <1>3 DEF RowsWell, Added

LEMMA DeliveredWell ==
  ASSUME IInv, NEW m \in Added, MarkDelivered(m)
  PROVE  RowsWell
<1>1. m \in Msgs  BY DEF Added
<1>2. /\ msg' = [msg EXCEPT ![m] = [msg[m] EXCEPT !.state = "delivered", !.marked = TRUE]]
      /\ msg \in [Msgs -> Row]
  BY <1>1 DEF MarkDelivered, IInv, TypeOK
<1>3. [msg[m] EXCEPT !.state = "delivered", !.marked = TRUE] \in Row
  BY <1>1, <1>2 DEF Row, States
<1>4. msg' \in [Msgs -> Row]  BY <1>2, <1>3
<1>5. msg'[m].state # "none" /\ msg'[m].pos = msg[m].pos  BY <1>1, <1>2 DEF Row
<1>6. \A n \in Msgs \ {m} : msg'[n] = msg[n]  BY <1>2
<1> QED  BY <1>4, <1>5, <1>6 DEF RowsWell, Added

LEMMA OrderKept ==
  ASSUME IInv, RowsWell, UNCHANGED req
  PROVE  InOrder' /\ Added' = Added
<1>1. Added' = Added  BY DEF Added, RowsWell
<1>2. Free' = Free  BY <1>1 DEF Free
<1>3. \A m \in Added : msg'[m].pos = msg[m].pos  BY DEF RowsWell, Added
<1>4. \A n \in Free : Ahead(n)'  BY <1>1, <1>3 DEF IInv, InOrder, Ahead
<1>5. \A n \in Free : Fits(req, n)'  BY <1>2 DEF IInv, InOrder, Fits
<1> QED  BY <1>1, <1>2, <1>4, <1>5 DEF InOrder

\* A step of run r is right when what it writes is.
LEMMA RunStep ==
  ASSUME IInv, NEW r \in Runs, OnlyRun(r), Shape(run'[r]), Carries(run'[r]) \subseteq Added,
         StagedWell, HeardWell, RowsWell,
         ticket' \in {"queued", "running", "rest"}, events' \in 0..MaxEvents,
         suspect' \subseteq Msgs, overlooked' \subseteq Msgs, crowded' \in BOOLEAN,
         dpc' \in {"idle", "sweep", "pick"},
         UNCHANGED <<inject, stuck, req, withdrawn, replaced, moved>>
  PROVE  IInv'
<1>1. InOrder' /\ Added' = Added  BY OrderKept
<1>2. TypeOK'
  BY DEF IInv, TypeOK, OnlyRun, StagedWell, HeardWell, RowsWell, Texts
<1>3. Shapes'  BY DEF IInv, Shapes, OnlyRun, StagedWell
<1>4. Known'
  BY <1>1 DEF IInv, Known, OnlyRun, StagedWell, HeardWell
<1> QED  BY <1>1, <1>2, <1>3, <1>4 DEF IInv

LEMMA RunOf ==
  ASSUME IInv, NEW r \in Runs
  PROVE  /\ TypeOK /\ run[r] \in RunRecords /\ Shape(run[r]) /\ Carries(run[r]) \subseteq Added
         /\ staged \in Texts /\ MsgsOf(staged) \subseteq Added
         /\ heard \in Seq(FollowUps) /\ MsgsOf(heard) \subseteq Added
BY RunType DEF IInv, Shapes, Known, TypeOK

LEMMA EmptyText == <<>> \in Texts
BY DEF Texts

\* The head of a queue.
LEMMA HeadOfQueue ==
  ASSUME IInv, NEW r \in Runs, run[r].queue # <<>>
  PROVE  /\ Head(run[r].queue) \in FollowUps /\ Item(r) \in Added
         /\ Tail(run[r].queue) \in Seq(FollowUps)
         /\ MsgsOf(run[r].queue) = {Item(r)} \cup MsgsOf(Tail(run[r].queue))
<1>1. run[r].queue \in Seq(FollowUps) /\ run[r].queue \in Seq(Text)
  BY RunOf, FollowUpsAreTexts DEF RunRecords
<1>2. Head(run[r].queue) \in FollowUps /\ Tail(run[r].queue) \in Seq(FollowUps)
  BY <1>1, HeadTailProperties
<1>3. Item(r) \in Msgs /\ Item(r) # 0  BY <1>2 DEF Item, FollowUps, Msgs
<1>4. MsgsOf(run[r].queue) = ({Head(run[r].queue).m} \ {0}) \cup MsgsOf(Tail(run[r].queue))
  BY <1>1, MsgsTail
<1>5. MsgsOf(run[r].queue) \subseteq Added  BY RunOf DEF Carries
<1> QED  BY <1>2, <1>3, <1>4, <1>5 DEF Item

LEMMA UnsettledInMsgs ==
  ASSUME IInv, NEW r \in Runs
  PROVE  Unsettled(r) \subseteq Msgs
<1>1. CASE run[r].pc = "posting"
  <2>1. run[r].queue # <<>>  BY <1>1, RunOf DEF Shape
  <2>2. Item(r) \in Added  BY <2>1, HeadOfQueue
  <2> QED  BY <1>1, <2>2 DEF Unsettled, Item, Added
<1>2. CASE run[r].pc # "posting"
  <2>1. MsgsOf(run[r].rows) \subseteq Added  BY RunOf DEF Carries
  <2> QED  BY <1>2, <2>1 DEF Unsettled, Added
<1> QED  BY <1>1, <1>2

\* A run that takes nothing new.
LEMMA TakesNothing ==
  ASSUME IInv, NEW r \in Runs,
         run'[r].prompt \in {run[r].prompt, <<>>}, run'[r].queue \in {run[r].queue, <<>>},
         run'[r].rows \in {run[r].rows, <<>>}, run'[r].saw \in {run[r].saw, <<>>}
  PROVE  /\ Carries(run'[r]) \subseteq Carries(run[r])
         /\ Carries(run'[r]) \subseteq Added
         /\ run'[r].prompt \in Texts /\ run'[r].saw \in Texts
<1>1. Carries(run[r]) \subseteq Added /\ Shape(run[r])  BY RunOf
<1>2. Carries(run'[r]) \subseteq Carries(run[r])  BY MsgsEmpty DEF Carries
<1>3. run'[r].prompt \in Texts /\ run'[r].saw \in Texts  BY <1>1, EmptyText DEF Shape
<1> QED  BY <1>1, <1>2, <1>3

LEMMA UnusedIsLess == ASSUME NEW r \in Runs PROVE Unused(r) \in {run[r].prompt, <<>>}
BY DEF Unused

LEMMA ResetKeeps ==
  ASSUME IInv, NEW r \in Runs, NEW pc \in {"landing", "done", "killed"},
         run' = [run EXCEPT ![r] = Reset(r, pc)]
  PROVE  OnlyRun(r) /\ Shape(run'[r]) /\ Carries(run'[r]) \subseteq Added
<1>1. pc \in Pcs  BY DEF Pcs, Flights
<1>2. Stands(r, pc, "none", None) /\ Holds(r, Unused(r), <<>>, <<>>, <<>>)
  BY <1>1, ResetEffect DEF IInv
<1>3. /\ Carries(run'[r]) \subseteq Added
      /\ run'[r].prompt \in Texts /\ run'[r].saw \in Texts
  BY <1>2, TakesNothing, UnusedIsLess DEF Holds
<1>4. Shape(run'[r])  BY <1>2, <1>3 DEF Shape, Stands, Holds
<1> QED  BY <1>2, <1>3, <1>4 DEF Stands

LEMMA ReturnKeeps ==
  ASSUME IInv, NEW r \in Runs, NEW exit \in Exits, run[r].cand = None,
         run[r].pc \in Executing, Return(r, exit)
  PROVE  OnlyRun(r) /\ Shape(run'[r]) /\ Carries(run'[r]) \subseteq Added
<1>1. /\ Stands(r, "ended", exit, None)
      /\ Holds(r, run[r].prompt, <<>>, run[r].rows, run[r].saw)
  BY ReturnEffect DEF IInv
<1>2. /\ Carries(run'[r]) \subseteq Added
      /\ run'[r].prompt \in Texts /\ run'[r].saw \in Texts
  BY <1>1, TakesNothing DEF Holds
<1>3. run[r].rows = <<>>  BY RunOf DEF Shape, Executing
<1>4. Shape(run'[r])  BY <1>1, <1>2, <1>3 DEF Shape, Stands, Holds
<1> QED  BY <1>1, <1>2, <1>4 DEF Stands

\* A run that goes on with what it holds.
LEMMA GoesOn ==
  ASSUME IInv, NEW r \in Runs, NEW pc, NEW exit, NEW cand,
         Stands(r, pc, exit, cand), HoldsStill(r),
         \/ pc = run[r].pc /\ (cand # None => pc \in Executing)
         \/ /\ cand = None
            /\ <<run[r].pc, pc>> \in {<<"setup", "starting">>, <<"draining", "dropping">>,
                                      <<"landing", "done">>}
  PROVE  OnlyRun(r) /\ Shape(run'[r]) /\ Carries(run'[r]) \subseteq Added
<1>1. /\ Carries(run'[r]) \subseteq Added
      /\ run'[r].prompt \in Texts /\ run'[r].saw \in Texts
  BY TakesNothing DEF HoldsStill, Holds
<1>2. Shape(run[r])  BY RunOf
<1>3. Shape(run'[r])
  BY <1>1, <1>2 DEF Shape, Stands, HoldsStill, Holds, Executing
<1> QED  BY <1>1, <1>3 DEF Stands

LEMMA LoadType == ASSUME IInv, NEW r \in Runs, Load(r) PROVE IInv'
<1>1. run[r].pc = "loading"  BY DEF Load
<1>2. /\ Stands(r, "setup", run[r].exit, run[r].cand)
      /\ Holds(r, staged, run[r].queue, run[r].rows, run[r].saw)
  BY LoadEffect DEF IInv, Load
<1>3. Shape(run[r]) /\ Carries(run[r]) \subseteq Added /\ staged \in Texts /\ MsgsOf(staged) \subseteq Added
  BY RunOf
<1>4. Shape(run'[r])  BY <1>1, <1>2, <1>3 DEF Shape, Stands, Holds, Executing
<1>5. Carries(run'[r]) \subseteq Added  BY <1>2, <1>3 DEF Carries, Holds
<1>6. OnlyRun(r) /\ StagedWell /\ HeardWell /\ RowsWell
  BY <1>2, Untouched DEF Stands, Load, Private, history
<1> QED
  BY <1>4, <1>5, <1>6, RunStep DEF Load, Private, history, IInv, TypeOK

LEMMA ConsumeType == ASSUME IInv, NEW r \in Runs, Consume(r) PROVE IInv'
<1>1. run[r].pc = "setup" /\ run[r].cand = None  BY DEF Consume, Step
<1>2. Stands(r, "starting", run[r].exit, run[r].cand) /\ HoldsStill(r)
  <2>1. "starting" \in Pcs  BY DEF Pcs, Flights, Executing
  <2> QED  BY <2>1, StepEffect DEF IInv, Consume, Step
<1>3. OnlyRun(r) /\ Shape(run'[r]) /\ Carries(run'[r]) \subseteq Added  BY <1>1, <1>2, GoesOn
<1>4. StagedWell
  <2>1. staged' \in {staged, <<>>}  BY DEF Consume
  <2> QED  BY <2>1, RunOf, EmptyText, MsgsEmpty DEF StagedWell
<1>5. HeardWell /\ RowsWell  BY Untouched DEF Consume, history
<1> QED  BY <1>3, <1>4, <1>5, RunStep DEF Consume, history, IInv, TypeOK

LEMMA PromptType == ASSUME IInv, NEW r \in Runs, Prompt(r) PROVE IInv'
<1>1. run[r].pc = "starting" /\ run[r].cand = None  BY DEF Prompt
<1>2. /\ Stands(r, "exec", run[r].exit, run[r].cand)
      /\ Holds(r, <<>>, run[r].queue, run[r].rows, run[r].saw)
  BY PromptEffect DEF IInv, Prompt
<1>3. /\ Shape(run[r]) /\ Carries(run[r]) \subseteq Added /\ heard \in Seq(FollowUps)
      /\ MsgsOf(heard) \subseteq Added
  BY RunOf
<1>4. /\ Carries(run'[r]) \subseteq Added
      /\ run'[r].prompt \in Texts /\ run'[r].saw \in Texts
  BY <1>2, TakesNothing DEF Holds
<1>5. Shape(run'[r])  BY <1>1, <1>2, <1>3, <1>4 DEF Shape, Stands, Holds, Executing
<1>6. HeardWell
  <2>1. PICK s : s = FollowUpsIn(run[r].prompt)  OBVIOUS
  <2>2. s \in Seq(FollowUps) /\ MsgsOf(s) = MsgsOf(run[r].prompt)
    BY <1>3, <2>1, FollowUpsInTexts DEF Shape
  <2>3. heard' = heard \o s  BY <2>1 DEF Prompt
  <2>4. heard' \in Seq(FollowUps)  BY <1>3, <2>2, <2>3, ConcatProperties
  <2>5. MsgsOf(heard') = MsgsOf(heard) \cup MsgsOf(s)
    BY <1>3, <2>2, <2>3, MsgsConcat, FollowUpsAreTexts
  <2> QED  BY <1>3, <2>2, <2>4, <2>5 DEF HeardWell, Carries
<1>7. OnlyRun(r) /\ StagedWell /\ RowsWell  BY <1>2, Untouched DEF Stands, Prompt
<1> QED  BY <1>4, <1>5, <1>6, <1>7, RunStep DEF Prompt, IInv, TypeOK

LEMMA PostType == ASSUME IInv, NEW r \in Runs, Post(r) PROVE IInv'
<1>1. run[r].pc = "exec" /\ run[r].cand = None /\ run[r].queue # <<>>  BY DEF Post
<1>2. Stands(r, "posting", run[r].exit, run[r].cand) /\ HoldsStill(r)
  BY PostEffect DEF IInv, Post
<1>3. Shape(run[r]) /\ heard \in Seq(FollowUps) /\ MsgsOf(heard) \subseteq Added  BY RunOf
<1>4. /\ Carries(run'[r]) \subseteq Added
      /\ run'[r].prompt \in Texts /\ run'[r].saw \in Texts
  BY <1>2, TakesNothing DEF HoldsStill, Holds
<1>5. Shape(run'[r])  BY <1>1, <1>2, <1>3, <1>4 DEF Shape, Stands, HoldsStill, Holds, Executing
<1>6. HeardWell
  <2>1. PICK x \in FollowUps : x = Head(run[r].queue) /\ x.m \in Added
    BY <1>1, HeadOfQueue DEF Item
  <2>2. heard' = Append(heard, x)  BY <2>1 DEF Post
  <2>3. heard' \in Seq(FollowUps)  BY <1>3, <2>2
  <2>4. MsgsOf(heard') = MsgsOf(heard) \cup ({x.m} \ {0})
    BY <1>3, <2>2, MsgsAppend, FollowUpsAreTexts
  <2> QED  BY <1>3, <2>1, <2>3, <2>4 DEF HeardWell
<1>7. OnlyRun(r) /\ StagedWell /\ RowsWell  BY <1>2, Untouched DEF Stands, Post
<1> QED  BY <1>4, <1>5, <1>6, <1>7, RunStep DEF Post, IInv, TypeOK

LEMMA TakenKeeps ==
  ASSUME IInv, NEW r \in Runs, Posted(r), Taken(r)
  PROVE  OnlyRun(r) /\ Shape(run'[r]) /\ Carries(run'[r]) \subseteq Added
<1>1. Shape(run[r]) /\ Carries(run[r]) \subseteq Added  BY RunOf
<1>2. run[r].pc = "posting" /\ run[r].cand = None /\ run[r].queue # <<>>
  BY <1>1 DEF Posted, Shape
<1>3. /\ Stands(r, "exec", run[r].exit, run[r].cand)
      /\ Holds(r, run[r].prompt, Tail(run[r].queue), run[r].rows, run[r].saw)
  BY <1>2, TakenEffect DEF IInv
<1>4. MsgsOf(Tail(run[r].queue)) \subseteq MsgsOf(run[r].queue)  BY <1>2, HeadOfQueue
<1>5. Carries(run'[r]) \subseteq Added  BY <1>1, <1>3, <1>4 DEF Carries, Holds
<1>6. Shape(run'[r])  BY <1>1, <1>2, <1>3 DEF Shape, Stands, Holds, Executing
<1> QED  BY <1>3, <1>5, <1>6 DEF Stands

LEMMA ConfirmType == ASSUME IInv, NEW r \in Runs, Confirm(r) PROVE IInv'
<1>1. OnlyRun(r) /\ Shape(run'[r]) /\ Carries(run'[r]) \subseteq Added
  BY TakenKeeps DEF Confirm
<1>2. Item(r) \in Added
  <2>1. run[r].queue # <<>>  BY RunOf DEF Confirm, Posted, Shape
  <2> QED  BY <2>1, HeadOfQueue
<1>3. RowsWell  BY <1>2, DeliveredWell DEF Confirm
<1>4. StagedWell /\ HeardWell  BY Untouched DEF Confirm, history
<1> QED  BY <1>1, <1>3, <1>4, RunStep DEF Confirm, history, IInv, TypeOK

LEMMA ConfirmFailsType ==
  ASSUME IInv, NEW r \in Runs, ConfirmFails(r) \/ PostTimesOut(r)
  PROVE  IInv'
<1>1. Posted(r) /\ Shape(run[r])  BY RunOf DEF ConfirmFails, PostTimesOut
<1>2. OnlyRun(r) /\ Shape(run'[r]) /\ Carries(run'[r]) \subseteq Added
  <2>1. CASE ConfirmFails(r)  BY <2>1, TakenKeeps DEF ConfirmFails
  <2>2. CASE PostTimesOut(r)
    <3>1. run[r].pc \in Executing /\ run[r].cand = None /\ "failed" \in Exits
      BY <1>1 DEF Posted, Executing, Exits
    <3> QED  BY <2>2, <3>1, ReturnKeeps DEF PostTimesOut
  <2> QED  BY <2>1, <2>2
<1>3. Item(r) \in Msgs
  <2>1. run[r].queue # <<>>  BY <1>1 DEF Posted, Shape
  <2> QED  BY <2>1, HeadOfQueue DEF Added
<1>4. suspect' \subseteq Msgs  BY <1>3 DEF ConfirmFails, PostTimesOut, IInv, TypeOK
<1>5. events' \in 0..MaxEvents
  BY SteeringAssumption DEF ConfirmFails, PostTimesOut, Event, IInv, TypeOK
<1>6. StagedWell /\ HeardWell /\ RowsWell  BY Untouched DEF ConfirmFails, PostTimesOut
<1> QED
  BY <1>2, <1>4, <1>5, <1>6, RunStep DEF ConfirmFails, PostTimesOut, IInv, TypeOK

\* The end of an execution, and the steps that write nothing but their run.
LEMMA ReturnType ==
  ASSUME IInv, NEW r \in Runs,
         \/ AgentFails(r) \/ Stop(r) \/ StreamEnds(r)
         \/ ReadIdle(r) /\ Return(r, "success")
  PROVE  IInv'
<1>1. run[r].pc \in Executing /\ run[r].cand = None
  BY DEF AgentFails, Stop, StreamEnds, ReadIdle, Executing
<1>2. \E exit \in Exits : Return(r, exit)
  BY DEF AgentFails, Stop, StreamEnds, Exits
<1>3. OnlyRun(r) /\ Shape(run'[r]) /\ Carries(run'[r]) \subseteq Added
  BY <1>1, <1>2, ReturnKeeps
<1>4. UNCHANGED <<inject, ticket, staged, msg, dpc, stuck, req, history>>
  BY DEF AgentFails, Stop, StreamEnds, ReadIdle, Private
<1>5. events' \in 0..MaxEvents
  BY SteeringAssumption
     DEF AgentFails, Stop, StreamEnds, ReadIdle, Private, Event, IInv, TypeOK
<1>6. StagedWell /\ HeardWell /\ RowsWell  BY <1>4, Untouched DEF history
<1> QED  BY <1>3, <1>4, <1>5, <1>6, RunStep DEF history, IInv, TypeOK

LEMMA PrivateType ==
  ASSUME IInv, NEW r \in Runs, OnlyRun(r), Shape(run'[r]), Carries(run'[r]) \subseteq Added,
         UNCHANGED Private
  PROVE  IInv'
<1>1. StagedWell /\ HeardWell /\ RowsWell  BY Untouched DEF Private, history
<1> QED  BY <1>1, RunStep DEF Private, history, IInv, TypeOK

LEMMA WatchType ==
  ASSUME IInv, NEW r \in Runs,
         \/ Select(r) \/ SeeCancel(r) \/ AgentTurn(r)
         \/ ReadIdle(r) /\ ~Return(r, "success")
  PROVE  IInv'
<1>1. UNCHANGED Private  BY DEF Select, SeeCancel, AgentTurn, ReadIdle
<1>2. /\ HoldsStill(r)
      /\ \E cand : /\ Stands(r, run[r].pc, run[r].exit, cand)
                   /\ cand # None => run[r].pc \in Executing
  <2>1. CASE Select(r)
    <3>1. PICK m \in Pending : run' = [run EXCEPT ![r].cand = m]  BY <2>1 DEF Select
    <3>2. m \in Msgs  BY DEF Pending, InState
    <3>3. Stands(r, run[r].pc, run[r].exit, m) /\ HoldsStill(r)
      BY <3>1, <3>2, SelectEffect DEF IInv
    <3> QED  BY <2>1, <3>3 DEF Select, Polls
  <2>2. CASE SeeCancel(r)
    <3>1. Stands(r, run[r].pc, run[r].exit, run[r].cand) /\ HoldsStill(r)
      BY <2>2, SignalEffect DEF IInv, SeeCancel
    <3> QED  BY <2>2, <3>1 DEF SeeCancel
  <2>3. CASE AgentTurn(r)
    <3>1. Stands(r, run[r].pc, run[r].exit, run[r].cand) /\ HoldsStill(r)
      BY <2>3, TurnEffect DEF IInv, AgentTurn
    <3> QED  BY <2>3, <3>1 DEF AgentTurn, Executing
  <2>4. CASE ReadIdle(r) /\ ~Return(r, "success")
    <3>1. /\ run[r].idles > 0 /\ run[r].cand = None
          /\ run' = [run EXCEPT ![r].injected = FALSE, ![r].idles = @ - 1]
      BY <2>4 DEF ReadIdle
    <3>2. Stands(r, run[r].pc, run[r].exit, run[r].cand) /\ HoldsStill(r)
      BY <3>1, IdleEffect DEF IInv
    <3> QED  BY <3>1, <3>2
  <2> QED  BY <2>1, <2>2, <2>3, <2>4
<1>3. OnlyRun(r) /\ Shape(run'[r]) /\ Carries(run'[r]) \subseteq Added
  BY <1>2, GoesOn
<1> QED  BY <1>1, <1>3, PrivateType

LEMMA ClaimType == ASSUME IInv, NEW r \in Runs, Claim(r) PROVE IInv'
<1>1. PICK m : m = run[r].cand  OBVIOUS
<1>2. /\ m \in Msgs /\ run[r] \in RunRecords /\ Shape(run[r]) /\ run[r].pc \in Executing
      /\ Carries(run[r]) \subseteq Added
  BY <1>1, RunOf DEF Claim, RunRecords, Shape
<1>3. CASE Claimable(m)
  <2>1. /\ msg' = Set({m}, "delivering")
        /\ run' = [run EXCEPT ![r].cand = None, ![r].queue = Append(@, TextOf(m))]
    BY <1>1, <1>3 DEF Claim
  <2>2. m \in Added  BY <1>2, <1>3 DEF Claimable, Added
  <2>3. RowsWell
    <3>1. "delivering" \in States \ {"none"} /\ {m} \cap Msgs \subseteq Added
      BY <2>2 DEF States
    <3> QED  BY <2>1, <3>1, SetWell
  <2>4. PICK x \in FollowUps : x = TextOf(m) /\ x.m = m
    BY <1>2, TextOfFollowUp DEF IInv
  <2>5. /\ Stands(r, run[r].pc, run[r].exit, None)
        /\ Holds(r, run[r].prompt, Append(run[r].queue, x), run[r].rows, run[r].saw)
    BY <2>1, <2>4, ClaimEffect DEF IInv
  <2>6. run[r].queue \in Seq(Text) /\ x \in Text
    BY <1>2, FollowUpsAreTexts DEF RunRecords
  <2>7. MsgsOf(Append(run[r].queue, x)) = MsgsOf(run[r].queue) \cup ({x.m} \ {0})
    BY <2>6, MsgsAppend
  <2>8. Carries(run'[r]) \subseteq Added  BY <1>2, <2>2, <2>4, <2>5, <2>7 DEF Carries, Holds
  <2>9. Append(run[r].queue, x) # <<>>  BY <2>6
  <2>10. Shape(run'[r])  BY <1>2, <2>5, <2>9 DEF Shape, Stands, Holds
  <2>11. OnlyRun(r) /\ StagedWell /\ HeardWell  BY <2>5, Untouched DEF Stands, Claim, history
  <2> QED  BY <2>3, <2>8, <2>10, <2>11, RunStep DEF Claim, history, IInv, TypeOK
<1>4. CASE ~Claimable(m)
  <2>1. run' = [run EXCEPT ![r].cand = None] /\ UNCHANGED Private
    BY <1>1, <1>4 DEF Claim, Private
  <2>2. Stands(r, run[r].pc, run[r].exit, None) /\ HoldsStill(r)
    BY <2>1, LeaveEffect DEF IInv
  <2>3. OnlyRun(r) /\ Shape(run'[r]) /\ Carries(run'[r]) \subseteq Added
    BY <2>2, GoesOn
  <2> QED  BY <2>1, <2>3, PrivateType
<1> QED  BY <1>3, <1>4

\* The ends of a process, and what is left of it then.
LEMMA EndType ==
  ASSUME IInv, NEW r \in Runs,
         RunFails(r) \/ Kill(r) \/ AutoContinue(r) \/ LeaveStaged(r)
  PROVE  IInv'
<1>1. \E pc \in {"landing", "done", "killed"} : run' = [run EXCEPT ![r] = Reset(r, pc)]
  BY DEF RunFails, Kill, AutoContinue, LeaveStaged
<1>2. OnlyRun(r) /\ Shape(run'[r]) /\ Carries(run'[r]) \subseteq Added
  BY <1>1, ResetKeeps
<1>3. UNCHANGED <<inject, staged, msg, dpc, stuck, req, heard, withdrawn, replaced, moved, crowded,
                overlooked>>
  BY DEF RunFails, Kill, AutoContinue, LeaveStaged, Private, history
<1>4. suspect' \subseteq Msgs
  BY UnsettledInMsgs
     DEF RunFails, Kill, AutoContinue, LeaveStaged, Private, history, IInv, TypeOK
<1>5. events' \in 0..MaxEvents
  BY SteeringAssumption
     DEF RunFails, Kill, AutoContinue, LeaveStaged, Private, Event, IInv, TypeOK
<1>6. ticket' \in {"queued", "running", "rest"}
  BY DEF RunFails, Kill, AutoContinue, LeaveStaged, Private, IInv, TypeOK
<1>7. StagedWell /\ HeardWell /\ RowsWell  BY <1>3, Untouched
<1> QED  BY <1>2, <1>3, <1>4, <1>5, <1>6, <1>7, RunStep DEF IInv, TypeOK

LEMMA LandType == ASSUME IInv, NEW r \in Runs, Land(r) PROVE IInv'
<1>1. run[r].pc = "landing" /\ run[r].cand = None  BY DEF Land, Step
<1>2. Stands(r, "done", run[r].exit, run[r].cand) /\ HoldsStill(r)
  <2>1. "done" \in Pcs  BY DEF Pcs
  <2> QED  BY <2>1, StepEffect DEF IInv, Land, Step
<1>3. OnlyRun(r) /\ Shape(run'[r]) /\ Carries(run'[r]) \subseteq Added  BY <1>1, <1>2, GoesOn
<1>4. StagedWell /\ HeardWell /\ RowsWell  BY Untouched DEF Land, history
<1> QED  BY <1>3, <1>4, RunStep DEF Land, history, IInv, TypeOK

\* The follow-ups of the rows the drain has read.
LEMMA DrainedRows ==
  ASSUME TypeOK, NEW order, NEW rows \in Seq(FollowUps),
         rows = [i \in DOMAIN order |-> TextOf(order[i])],
         \A i \in DOMAIN order : order[i] \in Drained
  PROVE  /\ \A i \in DOMAIN rows : rows[i].m = order[i]
         /\ MsgsOf(rows) = {order[i] : i \in DOMAIN order}
         /\ MsgsOf(rows) \subseteq Drained
<1>1. DOMAIN rows = DOMAIN order  OBVIOUS
<1>2. Drained \subseteq Msgs  BY DEF Drained, Queued, InState
<1>3. \A i \in DOMAIN rows : rows[i].m = order[i]
  <2> SUFFICES ASSUME NEW i \in DOMAIN rows  PROVE rows[i].m = order[i]  OBVIOUS
  <2>1. rows[i] = TextOf(order[i]) /\ order[i] \in Msgs  BY <1>1, <1>2
  <2> QED  BY <2>1, TextOfFollowUp
<1>4. \A i \in DOMAIN rows : order[i] # 0  BY <1>1, <1>2 DEF Msgs
<1>5. MsgsOf(rows) = {order[i] : i \in DOMAIN order}  BY <1>1, <1>3, <1>4 DEF MsgsOf
<1> QED  BY <1>3, <1>5

LEMMA ReadQueueType == ASSUME IInv, NEW r \in Runs, ReadQueue(r) PROVE IInv'
<1>1. run[r].pc = "ended" /\ UNCHANGED Private  BY DEF ReadQueue
<1>2. CASE run' = [run EXCEPT ![r] = Reset(r, "landing")]
  BY <1>1, <1>2, ResetKeeps, PrivateType
<1>3. CASE ~(run' = [run EXCEPT ![r] = Reset(r, "landing")])
  <2>1. PICK order \in SetToSeqs(Drained) : \E rows \in Seq(FollowUps) :
              /\ rows = [i \in DOMAIN order |-> TextOf(order[i])]
              /\ \A i \in DOMAIN order : order[i] \in Drained
              /\ Stands(r, "draining", run[r].exit, None)
              /\ Holds(r, Unused(r), <<>>, rows, staged)
    BY <1>3, ReadQueueEffect DEF IInv
  <2>2. PICK rows \in Seq(FollowUps) :
              /\ rows = [i \in DOMAIN order |-> TextOf(order[i])]
              /\ \A i \in DOMAIN order : order[i] \in Drained
              /\ Stands(r, "draining", run[r].exit, None)
              /\ Holds(r, Unused(r), <<>>, rows, staged)
    BY <2>1
  <2>3. MsgsOf(rows) \subseteq Added
    <3>1. MsgsOf(rows) \subseteq Drained  BY <2>2, DrainedRows DEF IInv
    <3> QED  BY <3>1 DEF Drained, Queued, InState, Added
  <2>4. /\ Shape(run[r]) /\ Carries(run[r]) \subseteq Added
        /\ staged \in Texts /\ MsgsOf(staged) \subseteq Added
    BY RunOf
  <2>5. Unused(r) \in Texts /\ MsgsOf(Unused(r)) \subseteq Added
    BY <2>4, EmptyText, MsgsEmpty DEF Unused, Shape, Carries
  <2>6. Carries(run'[r]) \subseteq Added
    BY <2>2, <2>3, <2>4, <2>5, MsgsEmpty DEF Carries, Holds
  <2>7. Shape(run'[r])  BY <2>2, <2>4, <2>5 DEF Shape, Stands, Holds
  <2> QED  BY <1>1, <2>2, <2>6, <2>7, PrivateType DEF Stands
<1> QED  BY <1>2, <1>3

\* Appending follow-ups to what is staged.
LEMMA AppendTexts ==
  ASSUME NEW s \in Texts, NEW t \in Seq(FollowUps), s \in Seq(Text), t \in Seq(Text)
  PROVE  s \o t \in Texts
<1>1. s \o t \in Seq(Text)  BY ConcatProperties
<1>2. /\ Len(s) \in Nat /\ Len(t) \in Nat /\ DOMAIN (s \o t) = 1..(Len(s) + Len(t))
      /\ DOMAIN s = 1..Len(s)
      /\ \A i \in 1..(Len(s) + Len(t)) : (s \o t)[i] = IF i <= Len(s) THEN s[i] ELSE t[i - Len(s)]
  BY ConcatProperties
<1>3. \A i \in 1..Len(t) : t[i] # Typed
  <2> SUFFICES ASSUME NEW i \in 1..Len(t)  PROVE t[i] # Typed  OBVIOUS
  <2>1. t[i] \in FollowUps  OBVIOUS
  <2> QED  BY <2>1 DEF FollowUps, Typed, Msgs
<1>4. ASSUME NEW i \in 1..(Len(s) + Len(t)), i > 1  PROVE (s \o t)[i] # Typed
  <2>1. CASE i <= Len(s)  BY <1>2, <1>4, <2>1 DEF Texts
  <2>2. CASE ~(i <= Len(s))
    <3>1. i - Len(s) \in 1..Len(t)  BY <1>2, <2>2
    <3> QED  BY <1>2, <1>3, <2>2, <3>1
  <2> QED  BY <2>1, <2>2
<1> QED  BY <1>1, <1>2, <1>4 DEF Texts

LEMMA AppendStagedType == ASSUME IInv, NEW r \in Runs, AppendStaged(r) PROVE IInv'
<1>1. run[r].pc = "draining" /\ run[r].cand = None  BY DEF AppendStaged, Step
<1>2. Stands(r, "dropping", run[r].exit, run[r].cand) /\ HoldsStill(r)
  <2>1. "dropping" \in Pcs  BY DEF Pcs, Flights
  <2> QED  BY <2>1, StepEffect DEF IInv, AppendStaged, Step
<1>3. OnlyRun(r) /\ Shape(run'[r]) /\ Carries(run'[r]) \subseteq Added  BY <1>1, <1>2, GoesOn
<1>4. /\ run[r].saw \in Texts /\ run[r].saw \in Seq(Text)
      /\ run[r].rows \in Seq(FollowUps) /\ run[r].rows \in Seq(Text)
  BY RunOf, FollowUpsAreTexts DEF Shape, RunRecords
<1>5. StagedWell
  <2>1. staged' = run[r].saw \o run[r].rows  BY DEF AppendStaged
  <2>2. staged' \in Texts  BY <1>4, <2>1, AppendTexts
  <2>3. MsgsOf(staged') = MsgsOf(run[r].saw) \cup MsgsOf(run[r].rows)
    BY <1>4, <2>1, MsgsConcat
  <2> QED  BY <2>2, <2>3, RunOf DEF StagedWell, Carries
<1>6. HeardWell /\ RowsWell  BY Untouched DEF AppendStaged, history
<1> QED  BY <1>3, <1>5, <1>6, RunStep DEF AppendStaged, history, IInv, TypeOK

LEMMA DropRowsType == ASSUME IInv, NEW r \in Runs, DropRows(r) PROVE IInv'
<1>1. run[r].pc = "dropping"  BY DEF DropRows
<1>2. /\ Stands(r, "deciding", run[r].exit, run[r].cand)
      /\ Holds(r, run[r].prompt, run[r].queue, <<>>, <<>>)
  BY DropEffect DEF IInv, DropRows
<1>3. Shape(run[r]) /\ Carries(run[r]) \subseteq Added  BY RunOf
<1>4. /\ Carries(run'[r]) \subseteq Added
      /\ run'[r].prompt \in Texts /\ run'[r].saw \in Texts
  BY <1>2, TakesNothing DEF Holds
<1>5. Shape(run'[r])  BY <1>1, <1>2, <1>3, <1>4 DEF Shape, Stands, Holds, Executing
<1>6. RowsWell
  <2>1. PICK S : S = MsgsOf(run[r].rows)  OBVIOUS
  <2>2. S \subseteq Added  BY <1>3, <2>1 DEF Carries
  <2>3. msg' = Set(S, "cancelled")  BY <2>1 DEF DropRows
  <2>4. "cancelled" \in States \ {"none"}  BY DEF States
  <2> QED  BY <2>2, <2>3, <2>4, SetWell
<1>7. OnlyRun(r) /\ StagedWell /\ HeardWell  BY <1>2, Untouched DEF Stands, DropRows, history
<1> QED  BY <1>4, <1>5, <1>6, <1>7, RunStep DEF DropRows, history, IInv, TypeOK

-----------------------------------------------------------------------------
(***************************************************************************)
(* The API and the daemon.                                                 *)
(***************************************************************************)

\* A step that leaves every run alone.
LEMMA ApiStep ==
  ASSUME IInv, UNCHANGED <<inject, run, heard>>, InOrder', Added \subseteq Added',
         staged' \in Texts, MsgsOf(staged') \subseteq Added, msg' \in [Msgs -> Row],
         stuck' \subseteq Added, req' \in Requests \cup {None},
         req' # None /\ req'.op \in {"edit", "cancel"} => req'.m \in Added',
         ticket' \in {"queued", "running", "rest"}, events' \in 0..MaxEvents,
         dpc' \in {"idle", "sweep", "pick"}, moved' \in BOOLEAN,
         UNCHANGED <<crowded, overlooked>>,
         suspect' \subseteq Msgs, withdrawn' \subseteq Msgs, replaced' \subseteq Msgs
  PROVE  IInv'
<1>1. TypeOK'  BY DEF IInv, TypeOK, Texts, Added
<1>2. Shapes'  BY DEF IInv, Shapes
<1>3. Known'  BY DEF IInv, Known
<1> QED  BY <1>1, <1>2, <1>3 DEF IInv

LEMMA AddedFacts ==
  ASSUME IInv
  PROVE  /\ Added \subseteq Msgs /\ NMsgs + 1 \in Free
         /\ Queued \subseteq Added /\ Pending \subseteq Added
         /\ InState({"none"}) = Msgs \ Added
         /\ \A m \in Msgs : msg[m].pos \in 0..(NMsgs - 1)
         /\ \A n \in Free : n \in Nat
BY SteeringAssumption
   DEF Added, Free, Queued, Pending, InState, IInv, TypeOK, Row, Msgs

\* A request has read the rows.
LEMMA RequestType ==
  ASSUME IInv, NEW q \in Requests, Request(q), \A n \in Free : Fits(q, n),
         q.op \in {"edit", "cancel"} => q.m \in Added
  PROVE  IInv'
<1>1. Added' = Added /\ Free' = Free  BY DEF Request, Added, Free
<1>2. req' = q  BY DEF Request
<1>3. InOrder'
  <2>1. \A n \in Free : Ahead(n)'
    BY <1>1 DEF IInv, InOrder, Ahead, Request
  <2>2. \A n \in Free : Fits(req, n)'  BY <1>1, <1>2 DEF Fits
  <2> QED  BY <1>1, <2>1, <2>2 DEF InOrder
<1>4. events' \in 0..MaxEvents
  BY SteeringAssumption DEF Request, Event, IInv, TypeOK
<1> QED
  BY <1>1, <1>2, <1>3, <1>4, ApiStep DEF Request, history, IInv, TypeOK, Shapes, Known

LEMMA AddType == ASSUME IInv, RequestAdd PROVE IInv'
<1>1. PICK m \in InState({"none"}), pos \in 0..NMsgs :
        /\ \A n \in InState({"none"}) : m <= n
        /\ TailPosition(pos)
        /\ Request([op |-> "add", m |-> m, pos |-> pos])
  BY DEF RequestAdd
<1>2. m \in Msgs /\ m \in Free /\ m \in Nat /\ m >= 1 /\ m <= NMsgs /\ pos \in Nat
  BY <1>1, AddedFacts, SteeringAssumption DEF Free, Msgs
<1>3. pos + 1 <= m
  <2>1. CASE pos = 0  BY <1>2, <2>1
  <2>2. CASE pos # 0
    <3>1. PICK n \in Queued : pos = msg[n].pos + 1  BY <1>1, <2>2 DEF TailPosition
    <3>2. n \in Added /\ n \in Msgs  BY <3>1, AddedFacts
    <3>3. msg[n].pos + 1 < m /\ msg[n].pos \in Nat
      BY <1>2, <3>2, AddedFacts DEF IInv, InOrder, Ahead
    <3> QED  BY <1>2, <3>1, <3>3
  <2> QED  BY <2>1, <2>2
<1>4. PICK q : q = [op |-> "add", m |-> m, pos |-> pos]  OBVIOUS
<1>5. q \in Requests /\ q.op = "add" /\ q.m = m /\ q.pos = pos
  <2>1. pos \in 0..(NMsgs - 1)  BY <1>2, <1>3, SteeringAssumption
  <2> QED  BY <1>2, <1>4, <2>1 DEF Requests, Adds
<1>6. \A n \in Free : m <= n  BY <1>1, <1>2, AddedFacts, SteeringAssumption DEF Free
<1>7. \A n \in Free : Fits(q, n)  BY <1>2, <1>3, <1>5, <1>6 DEF Fits
<1> QED  BY <1>1, <1>4, <1>5, <1>7, RequestType

LEMMA EditType == ASSUME IInv, RequestEdit \/ RequestCancel PROVE IInv'
<1>1. PICK m \in Pending : \E op \in {"edit", "cancel"} : Request([op |-> op, m |-> m])
  BY DEF RequestEdit, RequestCancel, Mutable
<1>2. PICK op \in {"edit", "cancel"} : Request([op |-> op, m |-> m])  BY <1>1
<1>3. m \in Added /\ m \in Msgs  BY <1>1, AddedFacts
<1>4. PICK q : q = [op |-> op, m |-> m]  OBVIOUS
<1>5. q \in Requests /\ q.op = op /\ q.m = m  BY <1>2, <1>3, <1>4 DEF Requests, Edits
<1>6. \A n \in Free : Fits(q, n)  BY <1>2, <1>5 DEF Fits
<1> QED  BY <1>2, <1>3, <1>4, <1>5, <1>6, RequestType

\* There are fewer numbers below n than n.
LEMMA FewBelow ==
  ASSUME NEW n \in Nat \ {0}, NEW S, \A m \in S : m \in Nat /\ m >= 1 /\ m < n
  PROVE  IsFiniteSet(S) /\ Cardinality(S) \in Nat /\ Cardinality(S) < n
<1>1. S \subseteq 1..(n - 1)  OBVIOUS
<1>2. IsFiniteSet(1..(n - 1)) /\ Cardinality(1..(n - 1)) = n - 1
  BY FS_Interval
<1>3. IsFiniteSet(S) /\ Cardinality(S) <= n - 1  BY <1>1, <1>2, FS_Subset
<1> QED  BY <1>3, FS_CardinalityType

LEMMA ReorderType == ASSUME IInv, RequestReorder PROVE IInv'
<1>1. PICK S \in SUBSET Mutable \ {{}} : \E order \in SetToSeqs(S) :
        Request([op |-> "reorder", order |-> order])
  BY DEF RequestReorder
<1>2. PICK order \in SetToSeqs(S) : Request([op |-> "reorder", order |-> order])
  BY <1>1
<1>3. S \subseteq Added /\ S \subseteq Msgs  BY <1>1, AddedFacts DEF Mutable
<1>4. \A n \in Free : IsFiniteSet(S) /\ Cardinality(S) \in Nat /\ Cardinality(S) < n
  <2> SUFFICES ASSUME NEW n \in Free
               PROVE  IsFiniteSet(S) /\ Cardinality(S) \in Nat /\ Cardinality(S) < n
    OBVIOUS
  <2>1. n \in Nat \ {0}  BY AddedFacts, SteeringAssumption DEF Free, Msgs
  <2>2. \A m \in S : m \in Nat /\ m >= 1 /\ m < n
    BY <1>3, SteeringAssumption DEF IInv, InOrder, Ahead, Msgs
  <2> QED  BY <2>1, <2>2, FewBelow
<1>5. Cardinality(S) \in Nat  BY <1>4, AddedFacts
<1>6. order \in [1..Cardinality(S) -> S]  BY DEF SetToSeqs
<1>7. order \in Seq(Msgs) /\ Len(order) = Cardinality(S)
  <2>1. order \in [1..Cardinality(S) -> Msgs]  BY <1>3, <1>6
  <2>2. order \in Seq(Msgs)  BY <1>5, <2>1, SeqDef
  <2> QED  BY <1>5, <2>1, <2>2
<1>8. PICK q : q = [op |-> "reorder", order |-> order]  OBVIOUS
<1>9. q \in Requests /\ q.op = "reorder" /\ q.order = order
  BY <1>7, <1>8 DEF Requests, Reorders
<1>10. \A n \in Free : Fits(q, n)  BY <1>4, <1>7, <1>9 DEF Fits
<1> QED  BY <1>2, <1>8, <1>9, <1>10, RequestType

\* The row that is added takes the first free number and a position below it.
LEMMA CommitAddRows ==
  ASSUME IInv, req # None, req.op = "add",
         msg' = [msg EXCEPT ![req.m].state = "pending", ![req.m].pos = req.pos],
         req' = None
  PROVE  /\ msg' \in [Msgs -> Row] /\ Added' = Added \cup {req.m}
         /\ InOrder'
<1>1. PICK m, pos : m = req.m /\ pos = req.pos  OBVIOUS
<1>2. m \in Msgs /\ pos \in 0..(NMsgs - 1)
  <2>1. req \in Adds  BY DEF IInv, TypeOK, Requests, Edits, Reorders
  <2> QED  BY <1>1, <2>1 DEF Adds
<1>3. /\ \A n \in Free : m <= n /\ pos + 1 <= m
      /\ m \in Free
  <2>1. \A n \in Free : Fits(req, n)  BY DEF IInv, InOrder
  <2>2. NMsgs + 1 \in Free  BY AddedFacts
  <2> QED  BY <1>1, <2>1, <2>2 DEF Fits
<1>4. msg' = [msg EXCEPT ![m] = [msg[m] EXCEPT !.state = "pending", !.pos = pos]]
  BY <1>1, <1>2 DEF IInv, TypeOK
<1>5. PICK e : e = [msg[m] EXCEPT !.state = "pending", !.pos = pos]  OBVIOUS
<1>6. e \in Row /\ e.state = "pending" /\ e.pos = pos
  <2>1. msg[m] \in Row  BY <1>2 DEF IInv, TypeOK
  <2> QED  BY <1>2, <1>5, <2>1 DEF Row, States
<1>7. msg' \in [Msgs -> Row] /\ msg'[m] = e /\ \A n \in Msgs \ {m} : msg'[n] = msg[n]
  BY <1>2, <1>4, <1>5, <1>6 DEF IInv, TypeOK
<1>8. Added' = Added \cup {m}  BY <1>2, <1>6, <1>7 DEF Added
<1>9. Free' = Free \ {m}
  <2>1. m # NMsgs + 1  BY <1>2, SteeringAssumption DEF Msgs
  <2> QED  BY <1>8, <2>1 DEF Free
<1>10. ASSUME NEW n \in Free, n # m  PROVE Ahead(n)'
  <2>1. m < n
    <3>1. m <= n /\ n \in Nat /\ m \in Nat  BY <1>3, AddedFacts
    <3> QED  BY <1>10, <3>1
  <2>2. pos + 1 < n
    <3>1. pos + 1 <= m /\ pos \in Nat /\ m \in Nat /\ n \in Nat  BY <1>2, <1>3, AddedFacts
    <3> QED  BY <2>1, <3>1
  <2>3. \A k \in Added : k # m => k < n /\ msg'[k].pos + 1 < n
    BY <1>7 DEF IInv, InOrder, Ahead, Added
  <2> QED  BY <1>6, <1>7, <1>8, <2>1, <2>2, <2>3 DEF Ahead
<1>11. \A n \in Free' : Fits(req, n)'  BY DEF Fits
<1> QED  BY <1>1, <1>7, <1>8, <1>9, <1>10, <1>11 DEF InOrder

LEMMA CommitEditRows ==
  ASSUME IInv, NEW m \in Msgs, msg' = [msg EXCEPT ![m].edited = TRUE]
  PROVE  RowsWell
<1>1. PICK e : e = [msg[m] EXCEPT !.edited = TRUE]  OBVIOUS
<1>2. msg' = [msg EXCEPT ![m] = e] /\ msg \in [Msgs -> Row] /\ msg[m] \in Row
  BY <1>1 DEF IInv, TypeOK
<1>3. e \in Row /\ e.state = msg[m].state /\ e.pos = msg[m].pos  BY <1>1, <1>2 DEF Row
<1>4. msg' \in [Msgs -> Row] /\ msg'[m] = e /\ \A n \in Msgs \ {m} : msg'[n] = msg[n]
  BY <1>2, <1>3
<1> QED  BY <1>3, <1>4 DEF RowsWell

\* Reordering gives each of k rows a position below k.
LEMMA CommitReorderRows ==
  ASSUME IInv, req # None, req.op = "reorder", req' = None,
         msg' = [m \in Msgs |->
                  IF \E i \in DOMAIN req.order : req.order[i] = m
                  THEN [msg[m] EXCEPT !.pos =
                          (CHOOSE i \in DOMAIN req.order : req.order[i] = m) - 1]
                  ELSE msg[m]]
  PROVE  msg' \in [Msgs -> Row] /\ Added' = Added /\ InOrder'
<1>1. PICK order : order = req.order  OBVIOUS
<1>2. order \in Seq(Msgs)
  <2>1. req \in Reorders  BY DEF IInv, TypeOK, Requests, Adds, Edits
  <2> QED  BY <1>1, <2>1 DEF Reorders
<1>3. \A n \in Free : Len(order) < n
  <2>1. \A n \in Free : Fits(req, n)  BY DEF IInv, InOrder
  <2> QED  BY <1>1, <2>1 DEF Fits
<1>4. Len(order) \in Nat /\ DOMAIN order = 1..Len(order)  BY <1>2
<1>5. Len(order) <= NMsgs
  BY <1>3, <1>4, AddedFacts, SteeringAssumption
<1>6. ASSUME NEW m \in Msgs
      PROVE  /\ msg'[m] \in Row /\ msg'[m].state = msg[m].state
             /\ msg'[m].pos = msg[m].pos \/ msg'[m].pos + 1 \in 1..Len(order)
  <2>1. msg[m] \in Row  BY DEF IInv, TypeOK
  <2>2. CASE \E i \in DOMAIN order : order[i] = m
    <3>1. PICK i \in DOMAIN order : i = CHOOSE j \in DOMAIN order : order[j] = m
      BY <2>2
    <3>2. PICK e : e = [msg[m] EXCEPT !.pos = i - 1]  OBVIOUS
    <3>3. msg'[m] = e  BY <1>1, <2>2, <3>1, <3>2
    <3>4. i - 1 \in 0..(NMsgs - 1) /\ (i - 1) + 1 \in 1..Len(order)
      BY <1>4, <1>5, SteeringAssumption
    <3>5. e \in Row /\ e.state = msg[m].state /\ e.pos = i - 1
      BY <2>1, <3>2, <3>4 DEF Row
    <3> QED  BY <3>3, <3>4, <3>5
  <2>3. CASE ~(\E i \in DOMAIN order : order[i] = m)
    <3>1. msg'[m] = msg[m]  BY <1>1, <2>3
    <3> QED  BY <2>1, <3>1
  <2> QED  BY <2>2, <2>3
<1>7. msg' \in [Msgs -> Row]  BY <1>6
<1>8. Added' = Added /\ Free' = Free  BY <1>6 DEF Added, Free
<1>9. ASSUME NEW n \in Free  PROVE Ahead(n)'
  <2> SUFFICES ASSUME NEW m \in Added  PROVE m < n /\ msg'[m].pos + 1 < n
    BY <1>8 DEF Ahead
  <2>1. m \in Msgs /\ m < n /\ msg[m].pos + 1 < n
    BY AddedFacts DEF IInv, InOrder, Ahead
  <2>2. CASE msg'[m].pos = msg[m].pos  BY <2>1, <2>2
  <2>3. CASE msg'[m].pos + 1 \in 1..Len(order)
    <3>1. Len(order) < n /\ n \in Nat  BY <1>3, AddedFacts
    <3> QED  BY <1>4, <2>1, <2>3, <3>1
  <2> QED  BY <1>6, <2>1, <2>2, <2>3
<1>10. \A n \in Free' : Fits(req, n)'  BY DEF Fits
<1> QED  BY <1>7, <1>8, <1>9, <1>10 DEF InOrder

\* A commit that adds no row.
LEMMA CommitOrder ==
  ASSUME IInv, RowsWell, req' = None
  PROVE  msg' \in [Msgs -> Row] /\ Added' = Added /\ InOrder'
<1>1. Added' = Added /\ Free' = Free  BY DEF Added, RowsWell, Free
<1>2. \A m \in Added : msg'[m].pos = msg[m].pos  BY DEF RowsWell, Added
<1>3. \A n \in Free : Ahead(n)'  BY <1>1, <1>2 DEF IInv, InOrder, Ahead
<1>4. \A n \in Free' : Fits(req, n)'  BY DEF Fits
<1> QED  BY <1>1, <1>3, <1>4 DEF InOrder, RowsWell

LEMMA CommitRequestType == ASSUME IInv, CommitRequest PROVE IInv'
<1>1. req # None /\ req' = None /\ req \in Requests
  BY DEF CommitRequest, IInv, TypeOK
<1>2. /\ msg' \in [Msgs -> Row] /\ Added \subseteq Added' /\ InOrder'
      /\ req.op = "cancel" => req.m \in Msgs
  <2>1. CASE /\ req.op = "add"
             /\ msg' = [msg EXCEPT ![req.m].state = "pending", ![req.m].pos = req.pos]
    BY <1>1, <2>1, CommitAddRows
  <2>2. CASE /\ req.op = "edit"
             /\ msg' = [msg EXCEPT ![req.m].edited = TRUE]
    <3>1. PICK m \in Msgs : m = req.m  BY <1>1, <2>2 DEF Requests, Adds, Edits, Reorders
    <3>2. RowsWell  BY <2>2, <3>1, CommitEditRows
    <3> QED  BY <1>1, <2>2, <3>2, CommitOrder
  <2>3. CASE /\ req.op = "cancel"
             /\ msg' = Set({req.m}, "cancelled")
    <3>1. PICK m : m = req.m  OBVIOUS
    <3>2. m \in Added  BY <1>1, <2>3, <3>1 DEF IInv, Known
    <3>3. RowsWell
      <4>1. "cancelled" \in States \ {"none"} /\ {m} \cap Msgs \subseteq Added
        BY <3>2 DEF States
      <4> QED  BY <2>3, <3>1, <4>1, SetWell
    <3> QED  BY <1>1, <2>3, <3>1, <3>2, <3>3, CommitOrder, AddedFacts
  <2>4. CASE /\ req.op = "reorder"
             /\ msg' = [m \in Msgs |->
                         IF \E i \in DOMAIN req.order : req.order[i] = m
                         THEN [msg[m] EXCEPT !.pos =
                                 (CHOOSE i \in DOMAIN req.order : req.order[i] = m) - 1]
                         ELSE msg[m]]
    BY <1>1, <2>4, CommitReorderRows
  <2> QED  BY <2>1, <2>2, <2>3, <2>4 DEF CommitRequest
<1>3. withdrawn' \subseteq Msgs /\ moved' \in BOOLEAN
  BY <1>2 DEF CommitRequest, IInv, TypeOK
<1> QED
  BY <1>1, <1>2, <1>3, ApiStep DEF CommitRequest, IInv, TypeOK, Shapes, Known

LEMMA UserType ==
  ASSUME IInv, CancelRun \/ RunAgain \/ RunAgainWithMessage
  PROVE  IInv'
<1>1. UNCHANGED <<inject, msg, run, dpc, stuck, req, heard, suspect, withdrawn, moved, crowded,
                overlooked>>
  BY DEF CancelRun, RunAgain, RunAgainWithMessage, history
<1>2. InOrder' /\ Added' = Added
  <2>1. RowsWell  BY <1>1, Untouched
  <2> QED  BY <1>1, <2>1, OrderKept
<1>3. staged' \in Texts /\ MsgsOf(staged') \subseteq Added
  <2>1. staged' \in {staged, <<Typed>>}
    BY DEF CancelRun, RunAgain, RunAgainWithMessage
  <2>2. <<Typed>> \in Texts  BY DEF Texts, Text
  <2>3. MsgsOf(<<Typed>>) = {}  BY DEF MsgsOf, Typed
  <2> QED  BY <2>1, <2>2, <2>3, RunOf DEF IInv, Shapes, Known
<1>4. replaced' \subseteq Msgs
  BY DEF CancelRun, RunAgain, RunAgainWithMessage, history, IInv, TypeOK, Known, Added
<1>5. events' \in 0..MaxEvents /\ ticket' \in {"queued", "running", "rest"}
  BY SteeringAssumption DEF CancelRun, RunAgain, RunAgainWithMessage, Event, IInv, TypeOK
<1> QED
  BY <1>1, <1>2, <1>3, <1>4, <1>5, ApiStep DEF IInv, TypeOK, Shapes, Known

LEMMA TickEffect ==
  ASSUME TypeOK, run' = [r \in Runs |-> [run[r] EXCEPT !.late = Unseen(r)]]
  PROVE  /\ run' \in [Runs -> RunRecords]
         /\ \A r \in Runs :
              /\ run'[r].pc = run[r].pc /\ run'[r].exit = run[r].exit
              /\ run'[r].cand = run[r].cand
              /\ HoldsStill(r) /\ CountsStill(r)
<1>1. ASSUME NEW r \in Runs
      PROVE  /\ run'[r] \in RunRecords
             /\ run'[r].pc = run[r].pc /\ run'[r].exit = run[r].exit
             /\ run'[r].cand = run[r].cand
             /\ HoldsStill(r) /\ CountsStill(r)
  <2>1. run[r] \in RunRecords  BY RunType
  <2>2. PICK late \in BOOLEAN : late = Unseen(r)  BY DEF Unseen
  <2> DEFINE e == [run[r] EXCEPT !.late = late]
  <2>3. run'[r] = e  BY <2>2
  <2>4. e \in RunRecords  BY <2>1 DEF RunRecords
  <2>5. /\ e.pc = run[r].pc /\ e.exit = run[r].exit /\ e.cand = run[r].cand
        /\ e.prompt = run[r].prompt /\ e.queue = run[r].queue /\ e.rows = run[r].rows
        /\ e.saw = run[r].saw /\ e.injected = run[r].injected /\ e.posts = run[r].posts
        /\ e.todo = run[r].todo /\ e.idles = run[r].idles
    BY <2>1 DEF RunRecords
  <2> HIDE DEF e
  <2> QED  BY <2>3, <2>4, <2>5 DEF HoldsStill, Holds, CountsStill, Counts
<1>2. run' \in [Runs -> RunRecords]  BY <1>1
<1> QED  BY <1>1, <1>2

LEMMA BeginTickType == ASSUME IInv, BeginTick PROVE IInv'
<1>1. /\ run' \in [Runs -> RunRecords]
      /\ \A r \in Runs : /\ run'[r].pc = run[r].pc /\ run'[r].cand = run[r].cand
                         /\ HoldsStill(r)
  BY TickEffect DEF BeginTick, IInv
<1>2. UNCHANGED <<inject, staged, msg, req, events, heard, suspect, withdrawn, replaced, moved, crowded,
                overlooked>>
  BY DEF BeginTick, history
<1>3. InOrder' /\ Added' = Added
  <2>1. RowsWell  BY <1>2, Untouched
  <2> QED  BY <1>2, <2>1, OrderKept
<1>4. stuck' \subseteq Added
  <2>1. stuck' \subseteq Stuck  BY DEF BeginTick
  <2> QED  BY <2>1 DEF Stuck, InState, Added
<1>5. ticket' \in {"queued", "running", "rest"} /\ dpc' \in {"idle", "sweep", "pick"}
  BY DEF BeginTick, IInv, TypeOK
<1>6. TypeOK'  BY <1>1, <1>2, <1>4, <1>5 DEF IInv, TypeOK, Added
<1>7. Shapes'
  <2>1. ASSUME NEW r \in Runs  PROVE Shape(run'[r])
    <3>1. Shape(run[r])  BY RunOf
    <3> QED  BY <1>1, <3>1 DEF Shape, HoldsStill, Holds
  <2> QED  BY <1>2, <2>1 DEF IInv, Shapes
<1>8. Known'
  <2>1. ASSUME NEW r \in Runs  PROVE Carries(run'[r]) \subseteq Added
    <3>1. Carries(run[r]) \subseteq Added  BY RunOf
    <3> QED  BY <1>1, <3>1 DEF Carries, HoldsStill, Holds
  <2> QED  BY <1>2, <1>3, <1>4, <2>1 DEF IInv, Known
<1> QED  BY <1>3, <1>6, <1>7, <1>8 DEF IInv

LEMMA CommitSweepType == ASSUME IInv, CommitSweep PROVE IInv'
<1>1. UNCHANGED <<inject, ticket, staged, run, req, events, heard, withdrawn, replaced, moved, crowded,
                overlooked>>
  BY DEF CommitSweep
<1>2. RowsWell
  <2>1. PICK S : S = stuck  OBVIOUS
  <2>2. S \cap Msgs \subseteq Added /\ msg' = Set(S, "pending")
    BY <2>1 DEF CommitSweep, IInv, Known
  <2>3. "pending" \in States \ {"none"}  BY DEF States
  <2> QED  BY <2>2, <2>3, SetWell
<1>3. InOrder' /\ Added' = Added /\ msg' \in [Msgs -> Row]
  BY <1>1, <1>2, OrderKept DEF RowsWell
<1>4. suspect' \subseteq Msgs /\ stuck' \subseteq Added /\ dpc' \in {"idle", "sweep", "pick"}
  BY DEF CommitSweep, IInv, TypeOK
<1> QED  BY <1>1, <1>3, <1>4, ApiStep DEF IInv, TypeOK, Shapes, Known

LEMMA PickType == ASSUME IInv, Pick PROVE IInv'
<1>1. UNCHANGED <<inject, staged, msg, stuck, req, events, heard, suspect, withdrawn, replaced, moved>>
  BY DEF Pick
<1>2. StagedWell /\ HeardWell /\ RowsWell  BY <1>1, Untouched
<1>3. dpc' \in {"idle", "sweep", "pick"} /\ crowded' \in BOOLEAN /\ overlooked' \subseteq Msgs
  BY DEF Pick, IInv, TypeOK, InState
<1>4. ticket' \in {"queued", "running", "rest"}  BY DEF Pick, IInv, TypeOK
<1>5. CASE UNCHANGED run
  <2>1. InOrder' /\ Added' = Added  BY <1>1, <1>2, OrderKept
  <2>2. crowded' = crowded \/ crowded' \in BOOLEAN  BY <1>3
  <2> QED
    BY <1>1, <1>2, <1>3, <1>4, <1>5, <2>1
       DEF IInv, TypeOK, Shapes, Known
<1>6. ASSUME NEW r \in Runs, run[r].pc = "free", run' = [run EXCEPT ![r].pc = "loading"]
      PROVE  IInv'
  <2>1. Stands(r, "loading", run[r].exit, run[r].cand) /\ HoldsStill(r)
    <3>1. "loading" \in Pcs  BY DEF Pcs, Flights
    <3> QED  BY <1>6, <3>1, StepEffect DEF IInv
  <2>2. Shape(run[r])  BY RunOf
  <2>3. /\ Carries(run'[r]) \subseteq Added
        /\ run'[r].prompt \in Texts /\ run'[r].saw \in Texts
    BY <2>1, TakesNothing DEF HoldsStill, Holds
  <2>4. Shape(run'[r])
    BY <1>6, <2>1, <2>2, <2>3 DEF Shape, Stands, HoldsStill, Holds, Executing
  <2> QED  BY <1>1, <1>2, <1>3, <1>4, <1>6, <2>1, <2>3, <2>4, RunStep DEF Stands, IInv, TypeOK
<1>7. UNCHANGED run \/ \E r \in Runs : /\ run[r].pc = "free"
                                       /\ run' = [run EXCEPT ![r].pc = "loading"]
  <2>1. CASE \E r \in Runs : /\ \A q \in Runs : run[q].pc = "free" <=> q >= r
                             /\ run' = [run EXCEPT ![r].pc = "loading"]
    <3>1. PICK r \in Runs : /\ \A q \in Runs : run[q].pc = "free" <=> q >= r
                            /\ run' = [run EXCEPT ![r].pc = "loading"]
      BY <2>1
    <3>2. r >= r  BY SteeringAssumption DEF Runs
    <3> QED  BY <3>1, <3>2
  <2> QED  BY <2>1 DEF Pick
<1> QED  BY <1>5, <1>6, <1>7

-----------------------------------------------------------------------------
LEMMA IInit == Init => IInv
<1> SUFFICES ASSUME Init  PROVE IInv  OBVIOUS
<1>1. Idle \in RunRecords /\ Shape(Idle) /\ Carries(Idle) = {}
  <2>1. Idle \in RunRecords  BY DEF Idle, RunRecords, Pcs, Exits
  <2>2. Shape(Idle)  BY EmptyText DEF Idle, Shape
  <2>3. Carries(Idle) = {}  BY MsgsEmpty DEF Idle, Carries
  <2> QED  BY <2>1, <2>2, <2>3
<1>2. \A r \in Runs : run[r] = Idle  BY DEF Init
<1>3. TypeOK
  <2>1. 0 \in 0..MaxEvents  BY SteeringAssumption
  <2>2. run \in [Runs -> RunRecords]  BY <1>1 DEF Init
  <2>3. msg \in [Msgs -> Row]
    <3>1. ASSUME NEW m \in Msgs  PROVE 0 \in 0..(NMsgs - 1)
      BY <3>1, SteeringAssumption DEF Msgs
    <3> QED  BY <3>1 DEF Init, Row, States
  <2>4. staged \in Seq(Text) /\ heard \in Seq(FollowUps)  BY DEF Init
  <2>5. /\ inject \in BOOLEAN /\ ticket \in {"queued", "running", "rest"}
        /\ dpc \in {"idle", "sweep", "pick"} /\ stuck \subseteq Msgs
        /\ req \in Requests \cup {None} /\ events \in 0..MaxEvents
    BY <2>1 DEF Init
  <2>6. /\ suspect \subseteq Msgs /\ withdrawn \subseteq Msgs /\ replaced \subseteq Msgs
        /\ moved \in BOOLEAN /\ crowded \in BOOLEAN /\ overlooked \subseteq Msgs
    BY DEF Init
  <2> QED  BY <2>2, <2>3, <2>4, <2>5, <2>6 DEF TypeOK
<1>4. Shapes  BY <1>1, <1>2, EmptyText DEF Shapes, Init
<1>5. Added = {}  BY DEF Added, Init
<1>6. InOrder  BY <1>5 DEF InOrder, Ahead, Fits, Init
<1>7. Known  BY <1>1, <1>2, <1>5, MsgsEmpty DEF Known, Init
<1> QED  BY <1>3, <1>4, <1>6, <1>7 DEF IInv

LEMMA IStep == IInv /\ [Next]_vars => IInv'
<1> SUFFICES ASSUME IInv, [Next]_vars  PROVE IInv'  OBVIOUS
<1>1. CASE UNCHANGED vars
  BY <1>1
     DEF vars, history, IInv, TypeOK, Shapes, InOrder, Ahead, Fits, Free, Known, Added, Msgs
<1>2. CASE Commits
  BY <1>2, CommitRequestType, CommitSweepType, ClaimType, AppendStagedType, DropRowsType
     DEF Commits
<1>3. ASSUME NEW r \in Runs, Kill(r)  PROVE IInv'  BY <1>3, EndType
<1>4. ASSUME NEW r \in Runs, Proceed(r)  PROVE IInv'
  BY <1>4, LoadType, ConsumeType, PromptType, PostType, ConfirmType, ReturnType, WatchType,
     ReadQueueType, EndType, LandType
     DEF Proceed
<1>5. CASE Others
  <2>1. CASE RequestAdd \/ RequestEdit \/ RequestCancel \/ RequestReorder
    BY <2>1, AddType, EditType, ReorderType
  <2>2. CASE CancelRun \/ RunAgain \/ RunAgainWithMessage  BY <2>2, UserType
  <2>3. ASSUME NEW r \in Runs,
               \/ Proceed(r) \/ Select(r) \/ SeeCancel(r) \/ AgentTurn(r)
               \/ RunFails(r) \/ ConfirmFails(r) \/ PostTimesOut(r) \/ AgentFails(r)
        PROVE  IInv'
    BY <1>4, <2>3, WatchType, EndType, ConfirmFailsType, ReturnType
  <2>4. CASE BeginTick \/ Pick  BY <2>4, BeginTickType, PickType
  <2> QED  BY <1>5, <2>1, <2>2, <2>3, <2>4 DEF Others
<1> QED  BY <1>1, <1>2, <1>3, <1>5 DEF Next

\* Every row, run process, queue and staged text has its type; in particular the
\* positions that add_steer_message and reorder_steer_messages assign stay below
\* the number of follow-ups.
THEOREM TypeCorrect == Spec => []TypeOK
<1>1. Spec => []IInv  BY IInit, IStep, PTL DEF Spec
<1>2. IInv => TypeOK  BY DEF IInv
<1> QED  BY <1>1, <1>2, PTL

-----------------------------------------------------------------------------
(***************************************************************************)
(* What the driver has counted: how many prompts its agent has not         *)
(* completed, and how many idle events the driver has not read.            *)
(***************************************************************************)
Early   == {"free", "loading", "setup", "starting"}
Decided == {"ended", "draining", "dropping", "deciding"}

LoneShape(e) ==
  /\ e.pc \in Early => e.posts = 0 /\ ~e.injected /\ e.todo = 0 /\ e.idles = 0
  /\ e.exit # "none" => e.pc \in Decided
  /\ e.posts = 0 => e.pc # "posting" /\ ~e.injected /\ e.todo + e.idles <= 1
  /\ e.posts = 1 /\ e.pc = "posting" => ~e.injected /\ e.todo + e.idles <= 2
  /\ e.posts = 1 /\ e.pc = "exec" => e.todo + e.idles <= IF e.injected THEN 2 ELSE 1
  /\ e.exit = "success" /\ e.posts = 1 => e.todo = 0

LoneShapes == \A r \in Runs : LoneShape(run[r])
LInv == IInv /\ LoneShapes

LEMMA LoneStep ==
  ASSUME LoneShapes, NEW r \in Runs, OnlyRun(r), LoneShape(run'[r])
  PROVE  LoneShapes'
BY DEF LoneShapes, OnlyRun

LEMMA LoneRun ==
  ASSUME LInv, NEW r \in Runs
  PROVE  /\ LoneShape(run[r]) /\ IInv /\ TypeOK
         /\ run[r].posts \in Nat /\ run[r].todo \in Nat /\ run[r].idles \in Nat
         /\ run[r].injected \in BOOLEAN
BY RunOf DEF LInv, LoneShapes, RunRecords

\* A step that counts nothing.
LEMMA LoneStill ==
  ASSUME LInv, NEW r \in Runs, NEW pc, NEW exit, NEW cand, Stands(r, pc, exit, cand), CountsStill(r),
         pc \in Early => run[r].pc \in Early,
         pc \in {"exec", "posting"} => pc = run[r].pc,
         \/ exit = run[r].exit /\ (exit # "none" => pc \in Decided)
         \/ exit \in {"failed", "cancelled"} /\ pc = "ended"
  PROVE  LoneShapes'
<1>1. LoneShape(run[r])  BY LoneRun
<1>2. LoneShape(run'[r])
  BY <1>1 DEF LoneShape, Stands, CountsStill, Counts, Decided
<1> QED  BY <1>2, LoneStep DEF LInv, Stands

\* A run that is over, or whose drain has read the queue, counts from zero.
LEMMA LoneReset ==
  ASSUME LInv, NEW r \in Runs, NEW pc, NEW exit, NEW cand, Stands(r, pc, exit, cand),
         Counts(r, FALSE, 0, 0, 0), pc # "posting", exit # "none" => pc \in Decided
  PROVE  LoneShapes'
<1>1. LoneShape(run'[r])  BY DEF LoneShape, Stands, Counts
<1> QED  BY <1>1, LoneStep DEF LInv, Stands

LEMMA LonePc ==
  ASSUME LInv, NEW r \in Runs, NEW pc \in Pcs, run' = [run EXCEPT ![r].pc = pc],
         <<run[r].pc, pc>> \in {<<"free", "loading">>, <<"setup", "starting">>,
                                <<"draining", "dropping">>, <<"landing", "done">>}
  PROVE  LoneShapes'
<1>1. Stands(r, pc, run[r].exit, run[r].cand) /\ CountsStill(r)  BY LoneRun, StepEffect
<1>2. run[r].exit # "none" => pc \in Decided  BY LoneRun DEF LoneShape, Decided
<1>3. /\ pc \in Early => run[r].pc \in Early
      /\ pc \in {"exec", "posting"} => pc = run[r].pc
  BY DEF Early
<1> QED  BY <1>1, <1>2, <1>3, LoneStill

LEMMA LoneReturn ==
  ASSUME LInv, NEW r \in Runs, NEW exit \in {"failed", "cancelled"}, Return(r, exit)
  PROVE  LoneShapes'
<1>1. Stands(r, "ended", exit, run[r].cand) /\ CountsStill(r)
  BY LoneRun, ReturnEffect DEF Exits
<1> QED  BY <1>1, LoneStill DEF Early

\* The driver's own steps.
LEMMA LonePrompt == ASSUME LInv, NEW r \in Runs, Prompt(r) PROVE LoneShapes'
<1>1. /\ Stands(r, "exec", run[r].exit, run[r].cand)
      /\ Counts(r, run[r].injected, run[r].posts, 1, run[r].idles)
  BY LoneRun, PromptEffect DEF Prompt
<1>2. /\ run[r].exit = "none" /\ ~run[r].injected /\ run[r].posts = 0 /\ run[r].idles = 0
  BY LoneRun DEF LoneShape, Prompt, Early, Decided
<1>3. LoneShape(run'[r])  BY <1>1, <1>2 DEF LoneShape, Stands, Counts, Early
<1> QED  BY <1>1, <1>3, LoneStep DEF LInv, Stands

LEMMA LonePost == ASSUME LInv, NEW r \in Runs, Post(r) PROVE LoneShapes'
<1>1. /\ Stands(r, "posting", run[r].exit, run[r].cand)
      /\ Counts(r, run[r].injected, run[r].posts + 1, run[r].todo + 1, run[r].idles)
  BY LoneRun, PostEffect DEF Post
<1>2. LoneShape(run[r]) /\ run[r].pc = "exec"  BY LoneRun DEF Post
<1>3. run[r].exit = "none"  BY <1>2 DEF LoneShape, Decided
<1>4. LoneShape(run'[r])
  BY <1>1, <1>2, <1>3, LoneRun DEF LoneShape, Stands, Counts, Early
<1> QED  BY <1>1, <1>4, LoneStep DEF LInv, Stands

LEMMA LoneTaken == ASSUME LInv, NEW r \in Runs, Posted(r), Taken(r) PROVE LoneShapes'
<1>1. run[r].queue # <<>>  BY LoneRun, RunOf DEF Posted, Shape
<1>2. /\ Stands(r, "exec", run[r].exit, run[r].cand)
      /\ Counts(r, TRUE, run[r].posts, run[r].todo, run[r].idles)
  BY <1>1, LoneRun, TakenEffect
<1>3. LoneShape(run[r]) /\ run[r].pc = "posting"  BY LoneRun DEF Posted
<1>4. run[r].exit = "none" /\ run[r].posts # 0
  <2>1. run[r].exit = "none"  BY <1>3 DEF LoneShape, Decided
  <2>2. run[r].posts # 0  BY <1>3 DEF LoneShape
  <2> QED  BY <2>1, <2>2
<1>5. LoneShape(run'[r])
  BY <1>2, <1>3, <1>4, LoneRun DEF LoneShape, Stands, Counts, Early
<1> QED  BY <1>2, <1>5, LoneStep DEF LInv, Stands

LEMMA LoneTurn == ASSUME LInv, NEW r \in Runs, AgentTurn(r) PROVE LoneShapes'
<1>1. /\ Stands(r, run[r].pc, run[r].exit, run[r].cand)
      /\ Counts(r, run[r].injected, run[r].posts, run[r].todo - 1, run[r].idles + 1)
  BY LoneRun, TurnEffect DEF AgentTurn
<1>2. LoneShape(run[r]) /\ run[r].pc \in {"exec", "posting"} /\ run[r].todo > 0
  BY LoneRun DEF AgentTurn
<1>3. run[r].exit = "none"  BY <1>2 DEF LoneShape, Decided
<1>4. (run[r].todo - 1) + (run[r].idles + 1) = run[r].todo + run[r].idles  BY LoneRun
<1>5. LoneShape(run'[r])
  BY <1>1, <1>2, <1>3, <1>4 DEF LoneShape, Stands, Counts, Early
<1> QED  BY <1>1, <1>5, LoneStep DEF LInv, Stands

LEMMA LoneIdle == ASSUME LInv, NEW r \in Runs, ReadIdle(r) PROVE LoneShapes'
<1>1. /\ LoneShape(run[r]) /\ run[r].pc = "exec" /\ run[r].idles > 0
      /\ run[r].exit = "none"
  BY LoneRun DEF ReadIdle, LoneShape, Decided
<1>2. CASE run[r].injected
  <2>1. run' = [run EXCEPT ![r].injected = FALSE, ![r].idles = @ - 1]
    BY <1>2 DEF ReadIdle
  <2>2. /\ Stands(r, run[r].pc, run[r].exit, run[r].cand)
        /\ Counts(r, FALSE, run[r].posts, run[r].todo, run[r].idles - 1)
    BY <1>1, <2>1, LoneRun, IdleEffect
  <2>3. LoneShape(run'[r])
    BY <1>1, <1>2, <2>2, LoneRun DEF LoneShape, Stands, Counts, Early
  <2> QED  BY <2>2, <2>3, LoneStep DEF LInv, Stands
<1>3. CASE ~run[r].injected
  <2>1. Return(r, "success")  BY <1>3 DEF ReadIdle
  <2>2. Stands(r, "ended", "success", run[r].cand) /\ CountsStill(r)
    BY <2>1, LoneRun, ReturnEffect DEF Exits
  <2>3. run[r].posts = 1 => run[r].todo = 0  BY <1>1, <1>3, LoneRun DEF LoneShape
  <2>4. LoneShape(run'[r])
    BY <1>1, <1>3, <2>2, <2>3, LoneRun
       DEF LoneShape, Stands, CountsStill, Counts, Early, Decided
  <2> QED  BY <2>2, <2>4, LoneStep DEF LInv, Stands
<1> QED  BY <1>2, <1>3

\* The steps around it.
LEMMA LoneWatch ==
  ASSUME LInv, NEW r \in Runs,
         Load(r) \/ Select(r) \/ Claim(r) \/ SeeCancel(r) \/ DropRows(r)
  PROVE  LoneShapes'
<1>1. LoneShape(run[r]) /\ TypeOK  BY LoneRun
<1>2. \E pc, cand : /\ Stands(r, pc, run[r].exit, cand) /\ CountsStill(r)
                    /\ \/ pc = run[r].pc
                       \/ <<run[r].pc, pc>> \in {<<"loading", "setup">>, <<"dropping", "deciding">>}
  <2>1. CASE Load(r)  BY <1>1, <2>1, LoadEffect DEF Load
  <2>2. CASE Select(r)
    <3>1. PICK m \in Pending : run' = [run EXCEPT ![r].cand = m]  BY <2>2 DEF Select
    <3>2. m \in Msgs  BY DEF Pending, InState
    <3> QED  BY <1>1, <3>1, <3>2, SelectEffect
  <2>3. CASE Claim(r)
    <3>1. PICK m : m = run[r].cand  OBVIOUS
    <3>2. m \in Msgs  BY <1>1, <2>3, <3>1, RunType DEF Claim, RunRecords
    <3>3. PICK x \in FollowUps : x = TextOf(m)  BY <1>1, <3>2, TextOfFollowUp
    <3>4. \/ run' = [run EXCEPT ![r].cand = None, ![r].queue = Append(@, x)]
          \/ run' = [run EXCEPT ![r].cand = None]
      BY <2>3, <3>1, <3>3 DEF Claim
    <3> QED  BY <1>1, <3>4, ClaimEffect, LeaveEffect
  <2>4. CASE SeeCancel(r)  BY <1>1, <2>4, SignalEffect DEF SeeCancel
  <2>5. CASE DropRows(r)  BY <1>1, <2>5, DropEffect DEF DropRows
  <2> QED  BY <2>1, <2>2, <2>3, <2>4, <2>5
<1>3. PICK pc, cand : /\ Stands(r, pc, run[r].exit, cand) /\ CountsStill(r)
                      /\ \/ pc = run[r].pc
                         \/ <<run[r].pc, pc>> \in {<<"loading", "setup">>, <<"dropping", "deciding">>}
  BY <1>2
<1>4. run[r].exit # "none" => pc \in Decided  BY <1>1, <1>3 DEF LoneShape, Decided
<1>5. /\ pc \in Early => run[r].pc \in Early
      /\ pc \in {"exec", "posting"} => pc = run[r].pc
  BY <1>3 DEF Early
<1> QED  BY <1>3, <1>4, <1>5, LoneStill

LEMMA LoneEnd ==
  ASSUME LInv, NEW r \in Runs,
         RunFails(r) \/ Kill(r) \/ AutoContinue(r) \/ LeaveStaged(r) \/ ReadQueue(r)
  PROVE  LoneShapes'
<1>1. TypeOK /\ LoneShape(run[r])  BY LoneRun
<1>2. ASSUME NEW pc \in {"landing", "done", "killed"}, run' = [run EXCEPT ![r] = Reset(r, pc)]
      PROVE  LoneShapes'
  <2>1. pc \in Pcs  BY DEF Pcs, Flights
  <2>2. Stands(r, pc, "none", None) /\ Counts(r, FALSE, 0, 0, 0)
    BY <1>1, <1>2, <2>1, ResetEffect
  <2> QED  BY <2>2, LoneReset
<1>3. CASE ReadQueue(r)
  <2>1. \/ run' = [run EXCEPT ![r] = Reset(r, "landing")]
        \/ Stands(r, "draining", run[r].exit, None) /\ Counts(r, FALSE, 0, 0, 0)
    BY <1>1, <1>3, ReadQueueEffect
  <2>2. "draining" \in Decided  BY DEF Decided
  <2> QED  BY <1>2, <2>1, <2>2, LoneReset
<1>4. CASE RunFails(r) \/ Kill(r) \/ AutoContinue(r) \/ LeaveStaged(r)
  BY <1>2, <1>4 DEF RunFails, Kill, AutoContinue, LeaveStaged
<1> QED  BY <1>3, <1>4

LEMMA LoneDaemon == ASSUME LInv, BeginTick \/ Pick PROVE LoneShapes'
<1>1. CASE BeginTick
  <2>1. \A r \in Runs : /\ run'[r].pc = run[r].pc /\ run'[r].exit = run[r].exit
                        /\ CountsStill(r)
    BY <1>1, TickEffect DEF BeginTick, LInv, IInv
  <2>2. ASSUME NEW r \in Runs  PROVE LoneShape(run'[r])
    <3>1. LoneShape(run[r])  BY LoneRun
    <3> QED  BY <2>1, <3>1 DEF LoneShape, CountsStill, Counts
  <2> QED  BY <2>2 DEF LoneShapes
<1>2. CASE Pick
  <2>1. CASE UNCHANGED run  BY <2>1 DEF LInv, LoneShapes
  <2>2. CASE \E r \in Runs : /\ \A q \in Runs : run[q].pc = "free" <=> q >= r
                             /\ run' = [run EXCEPT ![r].pc = "loading"]
    <3>1. PICK r \in Runs : /\ \A q \in Runs : run[q].pc = "free" <=> q >= r
                            /\ run' = [run EXCEPT ![r].pc = "loading"]
      BY <2>2
    <3>2. r >= r  BY SteeringAssumption DEF Runs
    <3>3. run[r].pc = "free" /\ "loading" \in Pcs  BY <3>1, <3>2 DEF Pcs, Flights
    <3> QED  BY <3>1, <3>3, LonePc
  <2> QED  BY <1>2, <2>1, <2>2 DEF Pick
<1> QED  BY <1>1, <1>2

LEMMA LoneNext == LInv /\ [Next]_vars => LoneShapes'
<1> SUFFICES ASSUME LInv, [Next]_vars  PROVE LoneShapes'  OBVIOUS
<1>1. CASE UNCHANGED run  BY <1>1 DEF LInv, LoneShapes
<1>2. ASSUME NEW r \in Runs, Step(r, "setup", "starting") \/ Step(r, "draining", "dropping")
                             \/ Step(r, "landing", "done")
      PROVE  LoneShapes'
  <2>1. {"starting", "dropping", "done"} \subseteq Pcs  BY DEF Pcs, Flights, Executing
  <2> QED  BY <1>2, <2>1, LonePc DEF Step
<1>3. ASSUME NEW r \in Runs, Proceed(r)  PROVE LoneShapes'
  BY <1>2, <1>3, LoneWatch, LonePrompt, LonePost, LoneTaken, LoneIdle, LoneReturn, LoneEnd
     DEF Proceed, Consume, Land, Confirm, Stop, StreamEnds
<1>4. CASE Commits
  <2>1. ASSUME NEW r \in Runs, Claim(r) \/ AppendStaged(r) \/ DropRows(r)
        PROVE  LoneShapes'
    BY <1>2, <2>1, LoneWatch DEF AppendStaged
  <2> QED  BY <1>1, <1>4, <2>1 DEF Commits, CommitRequest, CommitSweep
<1>5. ASSUME NEW r \in Runs, Kill(r)  PROVE LoneShapes'  BY <1>5, LoneEnd
<1>6. CASE Others
  <2>1. CASE UNCHANGED run  BY <1>1, <2>1
  <2>2. ASSUME NEW r \in Runs,
               \/ Proceed(r) \/ Select(r) \/ SeeCancel(r) \/ AgentTurn(r)
               \/ RunFails(r) \/ ConfirmFails(r) \/ PostTimesOut(r) \/ AgentFails(r)
        PROVE  LoneShapes'
    BY <1>3, <2>2, LoneWatch, LoneTurn, LoneEnd, LoneTaken, LoneReturn
       DEF ConfirmFails, PostTimesOut, AgentFails
  <2>3. CASE BeginTick \/ Pick  BY <2>3, LoneDaemon
  <2> QED
    BY <1>6, <2>1, <2>2, <2>3
       DEF Others, RequestAdd, RequestEdit, RequestCancel, RequestReorder, Request,
           CancelRun, RunAgain, RunAgainWithMessage
<1> QED  BY <1>1, <1>4, <1>5, <1>6 DEF Next, vars

LEMMA LoneInit == Init => LoneShapes
BY DEF Init, LoneShapes, LoneShape, Idle

\* A run that POSTed one follow-up into its session does not succeed before the
\* agent has completed it: drive_opencode does not stop at the idle event that
\* closes the turn during which the follow-up came.
THEOREM LoneInjectionsAreCompleted == Spec => []LoneInjectionIsCompleted
<1>1. Init => LInv  BY IInit, LoneInit DEF LInv
<1>2. LInv /\ [Next]_vars => LInv'  BY IStep, LoneNext DEF LInv
<1>3. LInv => LoneInjectionIsCompleted
  BY DEF LInv, LoneShapes, LoneShape, LoneInjectionIsCompleted
<1> QED  BY <1>1, <1>2, <1>3, PTL DEF Spec

-----------------------------------------------------------------------------
(***************************************************************************)
(* Proofs about Steering: as long as the runs of a ticket follow one       *)
(* another, no accepted follow-up is lost, the agent hears none twice      *)
(* whose delivery is not suspect, and it first hears them in the order     *)
(* they were typed.                                                        *)
(***************************************************************************)

-----------------------------------------------------------------------------
(***************************************************************************)
(* The inductive invariants.                                               *)
(***************************************************************************)
Alone == crowded \/ \A q, r \in Runs : Live(q) /\ Live(r) => q = r

\* What is staged, to the run that is about to consume it, to append to it, or
\* has just appended to it.
Loaded(e) ==
  /\ e.pc = "setup" => /\ MsgsOf(staged) \subseteq MsgsOf(e.prompt)
                       /\ MsgsOf(e.prompt) \subseteq MsgsOf(staged) \cup replaced
  /\ e.pc = "draining" => MsgsOf(staged) \subseteq MsgsOf(e.saw)
  /\ e.pc = "dropping" => MsgsOf(e.rows) \subseteq MsgsOf(staged) \cup replaced

PostedAreHeard == \A r \in Runs : run[r].pc = "posting" => Item(r) \in MsgsOf(heard)

DropInv ==
  /\ PostedAreHeard
  /\ crowded \/ \A r \in Runs : Live(r) => Loaded(run[r])
  /\ crowded \/ \A m \in Added : Kept(m)

Once(s, m) == \A i, j \in DOMAIN s : s[i].m = m /\ s[j].m = m => i = j

\* The prompt a run is still to POST; what its drain is to stage again.
Carried(e) == IF e.pc \in {"setup", "starting"} THEN e.prompt ELSE <<>>
Seen(e)    == IF e.pc = "draining" THEN e.saw ELSE <<>>

\* Where the live run may hold m, next to heard and staged.
HeldOnce(e, m) ==
  /\ Once(e.queue, m) /\ Once(Carried(e), m) /\ Once(e.rows, m) /\ Once(Seen(e), m)
  /\ m \in MsgsOf(e.queue) =>
       /\ m \notin Pending /\ m \notin MsgsOf(staged) /\ m \notin MsgsOf(Carried(e))
       /\ m \in MsgsOf(heard) => e.pc = "posting" /\ Head(e.queue).m = m
  /\ m \in MsgsOf(Carried(e)) =>
       /\ m \notin MsgsOf(heard) /\ m \notin Queued
       /\ e.pc = "starting" => m \notin MsgsOf(staged)
  /\ m \in MsgsOf(e.rows) => m \notin MsgsOf(heard) /\ m \notin MsgsOf(Seen(e))
  /\ m \in MsgsOf(Seen(e)) => m \notin MsgsOf(heard) /\ m \notin Queued

\* A row of a follow-up that was heard, or staged, is about to be settled by run e.
Settles(e, m) ==
  \/ e.pc = "posting" /\ Head(e.queue).m = m
  \/ e.pc = "dropping" /\ m \in MsgsOf(e.rows)

Single(m) ==
  /\ Once(heard, m) /\ Once(staged, m)
  /\ m \in MsgsOf(heard) => m \notin MsgsOf(staged)
  /\ m \in Queued /\ (m \in MsgsOf(heard) \/ m \in MsgsOf(staged))
       => \E r \in Runs : Settles(run[r], m)
  /\ \A r \in Runs : Live(r) => HeldOnce(run[r], m)

OnceInv == crowded \/ \A m \in Msgs \ suspect : Single(m)

-----------------------------------------------------------------------------
(***************************************************************************)
(* Texts that occur once.                                                  *)
(***************************************************************************)
LEMMA OnceEmpty == \A m : Once(<<>>, m)
BY DEF Once

LEMMA OnceAppend ==
  ASSUME NEW s \in Seq(Text), NEW x \in Text, NEW m \in Msgs, Once(s, m),
         x.m = m => m \notin MsgsOf(s)
  PROVE  Once(Append(s, x), m)
<1>1. /\ DOMAIN s = 1..Len(s) /\ DOMAIN Append(s, x) = 1..(Len(s) + 1) /\ Len(s) \in Nat
      /\ \A i \in 1..Len(s) : Append(s, x)[i] = s[i]
      /\ Append(s, x)[Len(s) + 1] = x
  OBVIOUS
<1>2. \A i \in DOMAIN s : s[i].m = m => m \in MsgsOf(s)  BY DEF MsgsOf, Msgs
<1> SUFFICES ASSUME NEW i \in DOMAIN Append(s, x), NEW j \in DOMAIN Append(s, x),
                    Append(s, x)[i].m = m, Append(s, x)[j].m = m
             PROVE  i = j
  BY DEF Once
<1>3. CASE i \in 1..Len(s) /\ j \in 1..Len(s)  BY <1>1, <1>3 DEF Once
<1>4. CASE i = Len(s) + 1 /\ j = Len(s) + 1  BY <1>4
<1>5. CASE i \in 1..Len(s) /\ j = Len(s) + 1
  <2>1. s[i].m = m /\ x.m = m  BY <1>1, <1>5
  <2> QED  BY <1>1, <1>2, <1>5, <2>1
<1>6. CASE i = Len(s) + 1 /\ j \in 1..Len(s)
  <2>1. s[j].m = m /\ x.m = m  BY <1>1, <1>6
  <2> QED  BY <1>1, <1>2, <1>6, <2>1
<1> QED  BY <1>1, <1>3, <1>4, <1>5, <1>6

LEMMA OnceConcat ==
  ASSUME NEW s \in Seq(Text), NEW t \in Seq(Text), NEW m \in Msgs, Once(s, m), Once(t, m),
         m \notin MsgsOf(s) \/ m \notin MsgsOf(t)
  PROVE  Once(s \o t, m)
<1>1. /\ Len(s) \in Nat /\ Len(t) \in Nat /\ DOMAIN s = 1..Len(s) /\ DOMAIN t = 1..Len(t)
      /\ DOMAIN (s \o t) = 1..(Len(s) + Len(t))
      /\ \A i \in 1..Len(s) : (s \o t)[i] = s[i]
  OBVIOUS
<1>2. \A i \in DOMAIN (s \o t) :
        i \in 1..Len(s) \/ (i - Len(s) \in 1..Len(t) /\ (s \o t)[i] = t[i - Len(s)])
  OBVIOUS
<1>3. /\ \A i \in 1..Len(s) : s[i].m = m => m \in MsgsOf(s)
      /\ \A i \in 1..Len(t) : t[i].m = m => m \in MsgsOf(t)
  BY <1>1 DEF MsgsOf, Msgs
<1> SUFFICES ASSUME NEW i \in DOMAIN (s \o t), NEW j \in DOMAIN (s \o t),
                    (s \o t)[i].m = m, (s \o t)[j].m = m
             PROVE  i = j
  BY DEF Once
<1>4. CASE i \in 1..Len(s) /\ j \in 1..Len(s)  BY <1>1, <1>4 DEF Once
<1>5. CASE i \in 1..Len(s) /\ j - Len(s) \in 1..Len(t) /\ (s \o t)[j] = t[j - Len(s)]
  BY <1>1, <1>3, <1>5
<1>6. CASE j \in 1..Len(s) /\ i - Len(s) \in 1..Len(t) /\ (s \o t)[i] = t[i - Len(s)]
  BY <1>1, <1>3, <1>6
<1>7. CASE /\ i - Len(s) \in 1..Len(t) /\ (s \o t)[i] = t[i - Len(s)]
           /\ j - Len(s) \in 1..Len(t) /\ (s \o t)[j] = t[j - Len(s)]
  <2>1. i - Len(s) = j - Len(s)  BY <1>1, <1>7 DEF Once
  <2> QED  BY <1>1, <2>1
<1> QED  BY <1>2, <1>4, <1>5, <1>6, <1>7

LEMMA OnceTail ==
  ASSUME NEW s \in Seq(Text), s # <<>>, NEW m \in Msgs, Once(s, m)
  PROVE  /\ Once(Tail(s), m)
         /\ Head(s).m = m => m \notin MsgsOf(Tail(s))
<1>1. /\ Head(s) = s[1] /\ Len(s) \in Nat /\ Len(s) # 0
      /\ DOMAIN s = 1..Len(s) /\ DOMAIN Tail(s) = 1..(Len(s) - 1)
      /\ \A i \in 1..(Len(s) - 1) : Tail(s)[i] = s[i + 1]
  BY HeadTailProperties, EmptySeq
<1>2. \A i \in DOMAIN Tail(s) : i + 1 \in DOMAIN s /\ i + 1 # 1 /\ Tail(s)[i] = s[i + 1]
  BY <1>1
<1>3. Once(Tail(s), m)
  <2> SUFFICES ASSUME NEW i \in DOMAIN Tail(s), NEW j \in DOMAIN Tail(s),
                      Tail(s)[i].m = m, Tail(s)[j].m = m
               PROVE  i = j
    BY DEF Once
  <2>1. i + 1 = j + 1  BY <1>2 DEF Once
  <2> QED  BY <1>1, <2>1
<1>4. ASSUME Head(s).m = m, m \in MsgsOf(Tail(s))  PROVE FALSE
  <2>1. PICK i \in DOMAIN Tail(s) : Tail(s)[i].m = m  BY <1>4 DEF MsgsOf
  <2>2. i + 1 = 1  BY <1>1, <1>2, <1>4, <2>1 DEF Once
  <2> QED  BY <1>2, <2>1, <2>2
<1> QED  BY <1>3, <1>4

LEMMA OnceFollowUps ==
  ASSUME NEW s \in Seq(Text), NEW m \in Msgs, Once(s, m)
  PROVE  Once(FollowUpsIn(s), m)
<1>1. CASE s # <<>> /\ Head(s) = Typed  BY <1>1, OnceTail DEF FollowUpsIn
<1>2. CASE ~(s # <<>> /\ Head(s) = Typed)  BY <1>2 DEF FollowUpsIn
<1> QED  BY <1>1, <1>2

-----------------------------------------------------------------------------
(***************************************************************************)
(* Runs that follow one another.                                           *)
(***************************************************************************)
RunAct(r) ==
  \/ Proceed(r) \/ Select(r) \/ SeeCancel(r) \/ AgentTurn(r)
  \/ RunFails(r) \/ ConfirmFails(r) \/ PostTimesOut(r) \/ AgentFails(r) \/ Kill(r)
  \/ Claim(r) \/ AppendStaged(r) \/ DropRows(r)

\* No other run is alive.
Solo(r) == \A q \in Runs : Live(q) => q = r

LEMMA RunActs ==
  ASSUME IInv, IInv', NEW r \in Runs, RunAct(r)
  PROVE  OnlyRun(r) /\ Live(r) /\ crowded' = crowded /\ suspect \subseteq suspect'
<1>1. run \in [Runs -> RunRecords] /\ run' \in [Runs -> RunRecords]  BY DEF IInv, TypeOK
<1>2. CASE Proceed(r)
  <2>1. Live(r)
    BY <1>2 DEF Proceed, Load, Consume, Prompt, Post, Confirm, ReadIdle, Stop, StreamEnds,
                ReadQueue, AutoContinue, LeaveStaged, Land, Step, Posted, Live, Flights, Executing
  <2>2. \A q \in Runs \ {r} : run'[q] = run[q]
    <3>1. CASE Load(r) \/ Consume(r) \/ Prompt(r) \/ Post(r) \/ Confirm(r) \/ Land(r)
      BY <1>1, <3>1 DEF Load, Consume, Prompt, Post, Confirm, Taken, Land, Step
    <3>2. CASE ReadIdle(r) \/ Stop(r) \/ StreamEnds(r)
      BY <1>1, <3>2 DEF ReadIdle, Stop, StreamEnds, Return
    <3>3. CASE ReadQueue(r)
      <4>1. PICK e : run' = [run EXCEPT ![r] = e]  BY <3>3 DEF ReadQueue
      <4> QED  BY <1>1, <4>1
    <3>4. CASE AutoContinue(r) \/ LeaveStaged(r)
      <4>1. PICK e : run' = [run EXCEPT ![r] = e]  BY <3>4 DEF AutoContinue, LeaveStaged
      <4> QED  BY <1>1, <4>1
    <3> QED  BY <1>2, <3>1, <3>2, <3>3, <3>4 DEF Proceed
  <2>3. crowded' = crowded /\ suspect' = suspect
    BY <1>2 DEF Proceed, Load, Consume, Prompt, Post, Confirm, ReadIdle, Stop, StreamEnds,
                ReadQueue, AutoContinue, LeaveStaged, Land, Private, history
  <2> QED  BY <1>1, <2>1, <2>2, <2>3 DEF OnlyRun
<1>3. CASE Select(r) \/ SeeCancel(r) \/ AgentTurn(r)
  <2>1. Live(r)
    BY <1>3 DEF Select, Polls, SeeCancel, AgentTurn, Live, Flights, Executing
  <2>2. \A q \in Runs \ {r} : run'[q] = run[q]
    BY <1>1, <1>3 DEF Select, SeeCancel, AgentTurn
  <2>3. crowded' = crowded /\ suspect' = suspect
    BY <1>3 DEF Select, SeeCancel, AgentTurn, Private, history
  <2> QED  BY <1>1, <2>1, <2>2, <2>3 DEF OnlyRun
<1>4. CASE RunFails(r) \/ Kill(r)
  <2>1. Live(r)  BY <1>4 DEF RunFails, Kill, Live, Flights, Executing
  <2>2. PICK e : run' = [run EXCEPT ![r] = e]  BY <1>4 DEF RunFails, Kill
  <2>3. \A q \in Runs \ {r} : run'[q] = run[q]  BY <1>1, <2>2
  <2>4. crowded' = crowded /\ suspect \subseteq suspect'  BY <1>4 DEF RunFails, Kill
  <2> QED  BY <1>1, <2>1, <2>3, <2>4 DEF OnlyRun
<1>5. CASE ConfirmFails(r) \/ PostTimesOut(r) \/ AgentFails(r)
  <2>1. Live(r)
    BY <1>5 DEF ConfirmFails, PostTimesOut, AgentFails, Posted, Live, Flights, Executing
  <2>2. \A q \in Runs \ {r} : run'[q] = run[q]
    BY <1>1, <1>5 DEF ConfirmFails, PostTimesOut, AgentFails, Taken, Return
  <2>3. crowded' = crowded /\ suspect \subseteq suspect'
    BY <1>5 DEF ConfirmFails, PostTimesOut, AgentFails, history
  <2> QED  BY <1>1, <2>1, <2>2, <2>3 DEF OnlyRun
<1>6. CASE Claim(r) \/ AppendStaged(r) \/ DropRows(r)
  <2>1. Live(r)
    BY <1>6, RunOf DEF Claim, AppendStaged, DropRows, Step, Shape, Live, Flights
  <2>2. \A q \in Runs \ {r} : run'[q] = run[q]
    BY <1>1, <1>6 DEF Claim, AppendStaged, DropRows, Step
  <2>3. crowded' = crowded /\ suspect' = suspect
    BY <1>6 DEF Claim, AppendStaged, DropRows, history
  <2> QED  BY <1>1, <2>1, <2>2, <2>3 DEF OnlyRun
<1> QED  BY <1>2, <1>3, <1>4, <1>5, <1>6 DEF RunAct

LEMMA SoloRun ==
  ASSUME Alone, ~crowded, NEW r \in Runs, Live(r)
  PROVE  Solo(r)
BY DEF Alone, Solo

\* The steps of nobody's run.
Outside ==
  \/ RequestAdd \/ RequestEdit \/ RequestCancel \/ RequestReorder
  \/ CancelRun \/ RunAgain \/ RunAgainWithMessage
  \/ CommitRequest \/ BeginTick \/ CommitSweep \/ UNCHANGED vars

LEMMA Steps == [Next]_vars => Outside \/ Pick \/ \E r \in Runs : RunAct(r)
BY DEF Next, Commits, Others, RunAct, Outside

\* They leave the runs where they are.
LEMMA OutsideRuns ==
  ASSUME IInv, Outside
  PROVE  /\ \A r \in Runs : run'[r].pc = run[r].pc /\ HoldsStill(r)
         /\ heard' = heard /\ crowded' = crowded /\ suspect \subseteq suspect'
<1>1. CASE BeginTick
  BY <1>1, TickEffect DEF BeginTick, IInv, history
<1>2. CASE ~BeginTick
  BY <1>2
     DEF Outside, RequestAdd, RequestEdit, RequestCancel, RequestReorder, Request, CancelRun,
         RunAgain, RunAgainWithMessage, CommitRequest, CommitSweep, vars, history,
         HoldsStill, Holds
<1> QED  BY <1>1, <1>2

LEMMA PickEffect ==
  ASSUME IInv, Pick
  PROVE  \/ UNCHANGED <<run, crowded>>
         \/ \E r \in Runs : /\ run[r].pc = "free"
                            /\ Stands(r, "loading", run[r].exit, run[r].cand) /\ HoldsStill(r)
                            /\ ~crowded' => ~crowded /\ \A q \in Runs : ~Live(q)
<1>1. CASE UNCHANGED <<run, crowded>>  BY <1>1
<1>2. CASE ~UNCHANGED <<run, crowded>>
  <2>1. PICK r \in Runs : /\ \A q \in Runs : run[q].pc = "free" <=> q >= r
                          /\ run' = [run EXCEPT ![r].pc = "loading"]
    BY <1>2 DEF Pick
  <2>2. r >= r  BY SteeringAssumption DEF Runs
  <2>3. run[r].pc = "free" /\ "loading" \in Pcs  BY <2>1, <2>2 DEF Pcs, Flights
  <2>4. Stands(r, "loading", run[r].exit, run[r].cand) /\ HoldsStill(r)
    BY <2>1, <2>3, StepEffect DEF IInv
  <2>5. ~crowded' => ~crowded /\ \A q \in Runs : ~Live(q)
    BY <1>2 DEF Pick, IInv, TypeOK
  <2> QED  BY <2>3, <2>4, <2>5
<1> QED  BY <1>1, <1>2

LEMMA AloneStep == IInv /\ IInv' /\ Alone /\ [Next]_vars => Alone'
<1> SUFFICES ASSUME IInv, IInv', Alone, [Next]_vars, ~crowded'  PROVE Alone'
  BY DEF Alone
<1>1. ASSUME NEW r \in Runs, RunAct(r)  PROVE Alone'
  <2>1. OnlyRun(r) /\ Live(r) /\ ~crowded  BY <1>1, RunActs
  <2>2. \A q \in Runs : Live(q)' => Live(q)  BY <2>1 DEF OnlyRun, Live
  <2> QED  BY <2>1, <2>2 DEF Alone
<1>2. CASE Outside
  <2>1. \A q \in Runs : Live(q)' => Live(q)  BY <1>2, OutsideRuns DEF Live
  <2> QED  BY <1>2, <2>1, OutsideRuns DEF Alone
<1>3. CASE Pick
  <2>1. CASE UNCHANGED <<run, crowded>>  BY <2>1 DEF Alone, Live
  <2>2. ASSUME NEW r \in Runs, OnlyRun(r), \A q \in Runs : ~Live(q)  PROVE Alone'
    BY <2>2 DEF Alone, OnlyRun, Live
  <2> QED  BY <1>3, <2>1, <2>2, PickEffect DEF Stands
<1> QED  BY <1>1, <1>2, <1>3, Steps

LEMMA AloneInit == Init => Alone
BY DEF Init, Alone, Live, Idle, Flights, Executing

-----------------------------------------------------------------------------
(***************************************************************************)
(* Nothing is dropped.                                                     *)
(***************************************************************************)

\* A step of the only live run keeps every follow-up when it loses none of those
\* that are queued, staged or in its prompt.
LEMMA DropRun ==
  ASSUME IInv, DropInv, NEW r \in Runs, OnlyRun(r), Live(r), crowded' = crowded,
         UNCHANGED <<withdrawn, replaced>>, MsgsOf(heard) \subseteq MsgsOf(heard'),
         RowsWell,
         run'[r].pc = "posting" => Item(r)' \in MsgsOf(heard'),
         ~crowded /\ Solo(r) => Loaded(run[r])',
         ~crowded => \A m \in Queued \cup MsgsOf(staged) \cup MsgsOf(run[r].prompt) :
                       \/ m \in Queued' \/ m \in MsgsOf(staged') \/ m \in MsgsOf(run'[r].prompt)
                       \/ m \in MsgsOf(heard') \cup replaced,
         Alone
  PROVE  DropInv'
<1>1. PostedAreHeard'
  BY DEF DropInv, PostedAreHeard, OnlyRun, Item
<1>2. ~crowded => \A q \in Runs : Live(q)' => Loaded(run[q])'
  BY SoloRun DEF OnlyRun, Live, Solo
<1>3. Added' = Added  BY DEF Added, RowsWell
<1>4. ASSUME ~crowded, NEW m \in Added  PROVE Kept(m)'
  <2>1. Kept(m)  BY <1>4 DEF DropInv
  <2>2. CASE \E q \in Runs \ {r} : m \in MsgsOf(run[q].prompt)
    <3>1. \E q \in Runs : m \in MsgsOf(run'[q].prompt)  BY <2>2 DEF OnlyRun
    <3> QED  BY <3>1 DEF Kept
  <2>3. CASE m \in Queued \cup MsgsOf(staged) \cup MsgsOf(run[r].prompt)
    BY <1>4, <2>3 DEF Kept
  <2>4. CASE m \in MsgsOf(heard) \/ m \in withdrawn \cup replaced
    BY <2>4 DEF Kept
  <2> QED  BY <2>1, <2>2, <2>3, <2>4 DEF Kept
<1> QED  BY <1>1, <1>2, <1>3, <1>4 DEF DropInv

\* The steps that leave the queue and the staged text alone.
LEMMA QueueStays ==
  ASSUME UNCHANGED <<staged, msg>>
  PROVE  Queued' = Queued /\ Pending' = Pending /\ MsgsOf(staged') = MsgsOf(staged)
BY DEF Queued, Pending, InState

LEMMA DropLoad ==
  ASSUME IInv, IInv', Alone, DropInv, NEW r \in Runs, Load(r)
  PROVE  DropInv'
<1>1. /\ Stands(r, "setup", run[r].exit, run[r].cand)
      /\ Holds(r, staged, run[r].queue, run[r].rows, run[r].saw)
  BY LoadEffect DEF IInv, Load
<1>2. UNCHANGED Private /\ OnlyRun(r) /\ Live(r)  BY RunActs DEF Load, RunAct, Proceed
<1>3. run[r].prompt = <<>>  BY RunOf DEF Load, Shape
<1>4. Loaded(run[r])'  BY <1>1, <1>2 DEF Loaded, Stands, Holds, Private
<1>5. RowsWell  BY <1>2, Untouched DEF Private
<1>6. Queued' = Queued /\ MsgsOf(staged') = MsgsOf(staged)  BY <1>2, QueueStays DEF Private
<1> QED
  BY <1>1, <1>2, <1>3, <1>4, <1>5, <1>6, MsgsEmpty, DropRun DEF Stands, Private, history

LEMMA DropConsume ==
  ASSUME IInv, IInv', Alone, DropInv, NEW r \in Runs, Consume(r)
  PROVE  DropInv'
<1>1. Stands(r, "starting", run[r].exit, run[r].cand) /\ HoldsStill(r)
  <2>1. "starting" \in Pcs  BY DEF Pcs, Flights, Executing
  <2> QED  BY <2>1, StepEffect DEF IInv, Consume, Step
<1>2. UNCHANGED <<msg, history>> /\ OnlyRun(r) /\ Live(r)
  BY RunActs DEF Consume, RunAct, Proceed
<1>3. RowsWell /\ Queued' = Queued  BY <1>2, Untouched DEF Queued, InState
<1>4. ~crowded => MsgsOf(staged) \subseteq MsgsOf(staged') \cup MsgsOf(run[r].prompt)
  <2>1. CASE run[r].prompt = <<>>  BY <2>1 DEF Consume
  <2>2. ~crowded => MsgsOf(staged) \subseteq MsgsOf(run[r].prompt)
    BY <1>2 DEF Consume, Step, DropInv, Loaded
  <2> QED  BY <2>1, <2>2
<1>5. Loaded(run[r])'  BY <1>1 DEF Loaded, Stands
<1> QED
  BY <1>1, <1>2, <1>3, <1>4, <1>5, DropRun DEF Stands, HoldsStill, Holds, history

LEMMA DropPrompt ==
  ASSUME IInv, IInv', Alone, DropInv, NEW r \in Runs, Prompt(r)
  PROVE  DropInv'
<1>1. /\ Stands(r, "exec", run[r].exit, run[r].cand)
      /\ Holds(r, <<>>, run[r].queue, run[r].rows, run[r].saw)
  BY PromptEffect DEF IInv, Prompt
<1>2. /\ UNCHANGED <<msg, staged, withdrawn, replaced, crowded>>
      /\ OnlyRun(r) /\ Live(r)
  BY RunActs DEF Prompt, RunAct, Proceed
<1>3. RowsWell /\ Queued' = Queued /\ MsgsOf(staged') = MsgsOf(staged)
  BY <1>2, Untouched, QueueStays
<1>4. MsgsOf(heard') = MsgsOf(heard) \cup MsgsOf(run[r].prompt)
  <2>1. PICK s : s = FollowUpsIn(run[r].prompt)  OBVIOUS
  <2>2. s \in Seq(FollowUps) /\ MsgsOf(s) = MsgsOf(run[r].prompt)
    BY <2>1, RunOf, FollowUpsInTexts DEF Shape
  <2>3. heard' = heard \o s  BY <2>1 DEF Prompt
  <2> QED  BY <2>2, <2>3, RunOf, MsgsConcat, FollowUpsAreTexts
<1>5. Loaded(run[r])'  BY <1>1 DEF Loaded, Stands
<1> QED
  BY <1>1, <1>2, <1>3, <1>4, <1>5, DropRun DEF Stands, history

LEMMA DropPost ==
  ASSUME IInv, IInv', Alone, DropInv, NEW r \in Runs, Post(r)
  PROVE  DropInv'
<1>1. Stands(r, "posting", run[r].exit, run[r].cand) /\ HoldsStill(r)
  BY PostEffect DEF IInv, Post
<1>2. /\ UNCHANGED <<msg, staged, withdrawn, replaced, crowded>>
      /\ OnlyRun(r) /\ Live(r)
  BY RunActs DEF Post, RunAct, Proceed
<1>3. RowsWell /\ Queued' = Queued /\ MsgsOf(staged') = MsgsOf(staged)
  BY <1>2, Untouched, QueueStays
<1>4. MsgsOf(heard') = MsgsOf(heard) \cup {Item(r)}
  <2>1. PICK x \in FollowUps : x = Head(run[r].queue) /\ x.m = Item(r) /\ Item(r) \in Added
    BY HeadOfQueue DEF Item, Post
  <2>2. heard' = Append(heard, x)  BY <2>1 DEF Post
  <2>3. MsgsOf(heard') = MsgsOf(heard) \cup ({x.m} \ {0})
    BY <2>2, RunOf, MsgsAppend, FollowUpsAreTexts
  <2> QED  BY <2>1, <2>3 DEF Added, Msgs
<1>5. Loaded(run[r])'  BY <1>1 DEF Loaded, Stands
<1>6. Item(r)' = Item(r)  BY <1>1 DEF HoldsStill, Holds, Item
<1> QED
  BY <1>1, <1>2, <1>3, <1>4, <1>5, <1>6, DropRun DEF Stands, HoldsStill, Holds, history

\* A delivery that is confirmed takes the row of what was heard from the queue.
LEMMA SetQueued ==
  ASSUME IInv, NEW S, NEW state \in States, msg' = Set(S, state)
  PROVE  /\ state \in {"pending", "delivering"} => Queued' = Queued \cup (S \cap Msgs)
         /\ state \notin {"pending", "delivering"} => Queued' = Queued \ S
         /\ state = "pending" => Pending' = Pending \cup (S \cap Msgs)
         /\ state # "pending" => Pending' = Pending \ S
<1>1. ASSUME NEW m \in Msgs
      PROVE  msg'[m].state = IF m \in S THEN state ELSE msg[m].state
  <2>1. /\ msg'[m] = IF m \in S THEN [msg[m] EXCEPT !.state = state] ELSE msg[m]
        /\ msg[m] \in Row
    BY DEF Set, IInv, TypeOK
  <2> QED  BY <2>1 DEF Row
<1> QED  BY <1>1 DEF Queued, Pending, InState

LEMMA DeliveredQueued ==
  ASSUME IInv, NEW m \in Added, MarkDelivered(m)
  PROVE  Queued' = Queued \ {m} /\ Pending' = Pending \ {m}
<1>1. m \in Msgs  BY DEF Added
<1>2. /\ msg' = [msg EXCEPT ![m] = [msg[m] EXCEPT !.state = "delivered", !.marked = TRUE]]
      /\ msg \in [Msgs -> Row]
  BY <1>1 DEF MarkDelivered, IInv, TypeOK
<1>3. msg'[m].state = "delivered" /\ \A n \in Msgs \ {m} : msg'[n] = msg[n]
  BY <1>1, <1>2 DEF Row
<1> QED  BY <1>3 DEF Queued, Pending, InState

LEMMA PostedRun ==
  ASSUME IInv, NEW r \in Runs, Posted(r)
  PROVE  run[r].pc = "posting" /\ run[r].queue # <<>> /\ Item(r) \in Added
<1>1. run[r].pc = "posting" /\ run[r].queue # <<>>  BY RunOf DEF Posted, Shape
<1> QED  BY <1>1, HeadOfQueue

LEMMA DropTaken ==
  ASSUME IInv, IInv', Alone, DropInv, NEW r \in Runs, Confirm(r) \/ ConfirmFails(r)
  PROVE  DropInv'
<1>1. /\ Stands(r, "exec", run[r].exit, run[r].cand)
      /\ Holds(r, run[r].prompt, Tail(run[r].queue), run[r].rows, run[r].saw)
  BY PostedRun, TakenEffect DEF Confirm, ConfirmFails, IInv
<1>2. /\ UNCHANGED <<staged, heard, withdrawn, replaced, crowded>>
      /\ OnlyRun(r) /\ Live(r)
  BY RunActs DEF Confirm, ConfirmFails, RunAct, Proceed, history
<1>3. /\ run[r].pc = "posting" /\ Item(r) \in Added /\ Item(r) \in MsgsOf(heard)
  BY PostedRun DEF Confirm, ConfirmFails, DropInv, PostedAreHeard
<1>4. RowsWell /\ Queued \subseteq Queued' \cup {Item(r)}
  <2>1. CASE Confirm(r)
    <3>1. PICK m \in Added : m = Item(r) /\ MarkDelivered(m)  BY <1>3, <2>1 DEF Confirm
    <3> QED  BY <3>1, DeliveredWell, DeliveredQueued
  <2>2. CASE ConfirmFails(r)
    <3>1. UNCHANGED <<staged, msg>>  BY <2>2 DEF ConfirmFails
    <3> QED  BY <3>1, Untouched, QueueStays
  <2> QED  BY <2>1, <2>2
<1>5. Loaded(run[r])'  BY <1>1 DEF Loaded, Stands
<1> QED
  BY <1>1, <1>2, <1>3, <1>4, <1>5, DropRun DEF Stands, Holds

\* The steps that leave a run where it was, and those that end its execution.
Stays(r) ==
  \/ Select(r) \/ SeeCancel(r) \/ AgentTurn(r)
  \/ ReadIdle(r) /\ ~Return(r, "success")
  \/ Claim(r) /\ ~Claimable(run[r].cand)

Ends(r) ==
  \/ RunFails(r) \/ Kill(r) \/ AutoContinue(r) \/ LeaveStaged(r) \/ Land(r)
  \/ AgentFails(r) \/ PostTimesOut(r) \/ Stop(r) \/ StreamEnds(r)
  \/ ReadIdle(r) /\ Return(r, "success")
  \/ ReadQueue(r) /\ run' = [run EXCEPT ![r] = Reset(r, "landing")]

Over == {"ended", "landing", "done", "killed"}

LEMMA StaysEffect ==
  ASSUME IInv, NEW r \in Runs, Stays(r)
  PROVE  run'[r].pc = run[r].pc /\ HoldsStill(r) /\ UNCHANGED <<staged, msg, history>>
<1>1. UNCHANGED <<staged, msg, history>>
  BY DEF Stays, Select, SeeCancel, AgentTurn, ReadIdle, Claim, Private
<1>2. CASE Select(r)
  <2>1. PICK m \in Pending : run' = [run EXCEPT ![r].cand = m]  BY <1>2 DEF Select
  <2>2. m \in Msgs  BY DEF Pending, InState
  <2> QED  BY <1>1, <2>1, <2>2, SelectEffect DEF IInv, Stands
<1>3. CASE SeeCancel(r)
  BY <1>1, <1>3, SignalEffect DEF SeeCancel, IInv, Stands
<1>4. CASE AgentTurn(r)
  BY <1>1, <1>4, TurnEffect DEF AgentTurn, IInv, Stands
<1>5. CASE ReadIdle(r) /\ ~Return(r, "success")
  <2>1. /\ run[r].idles > 0
        /\ run' = [run EXCEPT ![r].injected = FALSE, ![r].idles = @ - 1]
    BY <1>5 DEF ReadIdle
  <2> QED  BY <1>1, <2>1, IdleEffect DEF IInv, Stands
<1>6. CASE Claim(r) /\ ~Claimable(run[r].cand)
  <2>1. run' = [run EXCEPT ![r].cand = None]  BY <1>6 DEF Claim
  <2> QED  BY <1>1, <2>1, LeaveEffect DEF IInv, Stands
<1> QED  BY <1>2, <1>3, <1>4, <1>5, <1>6 DEF Stays

LEMMA EndsEffect ==
  ASSUME IInv, NEW r \in Runs, Ends(r)
  PROVE  /\ run'[r].pc \in Over /\ run'[r].prompt = Unused(r)
         /\ UNCHANGED <<staged, msg, heard, withdrawn, replaced>>
         /\ suspect \cup Unsettled(r) \subseteq suspect'
<1>1. UNCHANGED <<staged, msg, heard, withdrawn, replaced>>
  BY DEF Ends, RunFails, Kill, AutoContinue, LeaveStaged, Land, AgentFails, PostTimesOut,
         Stop, StreamEnds, ReadIdle, ReadQueue, Private, history
<1>2. ASSUME NEW pc \in {"landing", "done", "killed"}, run' = [run EXCEPT ![r] = Reset(r, pc)]
      PROVE  run'[r].pc \in Over /\ run'[r].prompt = Unused(r)
  <2>1. pc \in Pcs  BY DEF Pcs, Flights
  <2>2. Stands(r, pc, "none", None) /\ Holds(r, Unused(r), <<>>, <<>>, <<>>)
    BY <1>2, <2>1, ResetEffect DEF IInv
  <2> QED  BY <2>2 DEF Stands, Holds, Over
<1>3. ASSUME NEW exit \in Exits, Return(r, exit), run[r].pc \in Executing
      PROVE  run'[r].pc \in Over /\ run'[r].prompt = Unused(r)
  <2>1. /\ Stands(r, "ended", exit, run[r].cand)
        /\ Holds(r, run[r].prompt, <<>>, run[r].rows, run[r].saw)
    BY <1>3, ReturnEffect DEF IInv
  <2> QED  BY <1>3, <2>1 DEF Stands, Holds, Over, Unused, Executing
<1>4. CASE RunFails(r) \/ Kill(r)
  BY <1>1, <1>2, <1>4 DEF RunFails, Kill
<1>5. CASE AutoContinue(r) \/ LeaveStaged(r)
  <2>1. suspect' = suspect /\ Unsettled(r) = {}
    BY <1>5 DEF AutoContinue, LeaveStaged, Private, history, Unsettled
  <2>2. run'[r].pc \in Over /\ run'[r].prompt = Unused(r)
    BY <1>2, <1>5 DEF AutoContinue, LeaveStaged
  <2> QED  BY <1>1, <2>1, <2>2
<1>6. CASE Land(r)
  <2>1. run[r].pc = "landing" /\ suspect' = suspect /\ "done" \in Pcs
    BY <1>6 DEF Land, Step, history, Pcs
  <2>2. Stands(r, "done", run[r].exit, run[r].cand) /\ HoldsStill(r)
    BY <1>6, <2>1, StepEffect DEF Land, Step, IInv
  <2>3. Unsettled(r) = {} /\ Unused(r) = run[r].prompt  BY <2>1 DEF Unsettled, Unused
  <2> QED  BY <1>1, <2>1, <2>2, <2>3 DEF Stands, HoldsStill, Holds, Over
<1>7. CASE PostTimesOut(r)
  <2>1. run[r].pc = "posting" /\ suspect' = suspect \cup {Item(r)} /\ Return(r, "failed")
    BY <1>7 DEF PostTimesOut, Posted
  <2>2. run'[r].pc \in Over /\ run'[r].prompt = Unused(r)
    BY <1>3, <2>1 DEF Exits, Executing
  <2> QED  BY <1>1, <2>1, <2>2 DEF Unsettled, Item
<1>8. CASE \/ AgentFails(r) \/ Stop(r) \/ StreamEnds(r)
           \/ ReadIdle(r) /\ Return(r, "success")
  <2>1. run[r].pc \in {"starting", "exec"} /\ suspect' = suspect
    BY <1>8 DEF AgentFails, Stop, StreamEnds, ReadIdle, Private, history
  <2>2. \E exit \in Exits : Return(r, exit)
    BY <1>8 DEF AgentFails, Stop, StreamEnds, Exits
  <2>3. run'[r].pc \in Over /\ run'[r].prompt = Unused(r)
    BY <1>3, <2>1, <2>2 DEF Executing
  <2> QED  BY <1>1, <2>1, <2>3 DEF Unsettled
<1>9. CASE ReadQueue(r) /\ run' = [run EXCEPT ![r] = Reset(r, "landing")]
  <2>1. suspect' = suspect /\ Unsettled(r) = {}
    BY <1>9 DEF ReadQueue, Private, history, Unsettled
  <2>2. run'[r].pc \in Over /\ run'[r].prompt = Unused(r)  BY <1>2, <1>9
  <2> QED  BY <1>1, <2>1, <2>2
<1> QED  BY <1>4, <1>5, <1>6, <1>7, <1>8, <1>9 DEF Ends

LEMMA StaysOrEnds ==
  ASSUME NEW r \in Runs, RunAct(r)
  PROVE  \/ Stays(r) \/ Ends(r)
         \/ Load(r) \/ Consume(r) \/ Prompt(r) \/ Post(r) \/ Confirm(r) \/ ConfirmFails(r)
         \/ Claim(r) /\ Claimable(run[r].cand)
         \/ ReadQueue(r) /\ ~(run' = [run EXCEPT ![r] = Reset(r, "landing")])
         \/ AppendStaged(r) \/ DropRows(r)
BY DEF RunAct, Proceed, Stays, Ends

LEMMA StaysAct == ASSUME NEW r \in Runs, Stays(r) \/ Ends(r) PROVE RunAct(r)
BY DEF RunAct, Proceed, Stays, Ends

LEMMA DropStays ==
  ASSUME IInv, IInv', Alone, DropInv, NEW r \in Runs, Stays(r)
  PROVE  DropInv'
<1>1. run'[r].pc = run[r].pc /\ HoldsStill(r) /\ UNCHANGED <<staged, msg, history>>
  BY StaysEffect
<1>2. OnlyRun(r) /\ Live(r)  BY StaysAct, RunActs
<1>3. RowsWell /\ Queued' = Queued /\ MsgsOf(staged') = MsgsOf(staged)
  BY <1>1, Untouched, QueueStays
<1>4. ~crowded => Loaded(run[r])'
  BY <1>1, <1>2 DEF DropInv, Loaded, HoldsStill, Holds, history
<1>5. run'[r].pc = "posting" => Item(r)' \in MsgsOf(heard')
  BY <1>1 DEF DropInv, PostedAreHeard, Item, HoldsStill, Holds, history
<1> QED
  BY <1>1, <1>2, <1>3, <1>4, <1>5, DropRun DEF HoldsStill, Holds, history

LEMMA DropEnds ==
  ASSUME IInv, IInv', Alone, DropInv, NEW r \in Runs, Ends(r)
  PROVE  DropInv'
<1>1. /\ run'[r].pc \in Over /\ run'[r].prompt = Unused(r)
      /\ UNCHANGED <<staged, msg, heard, withdrawn, replaced>>
  BY EndsEffect
<1>2. OnlyRun(r) /\ Live(r) /\ crowded' = crowded  BY StaysAct, RunActs
<1>3. RowsWell /\ Queued' = Queued /\ MsgsOf(staged') = MsgsOf(staged)
  BY <1>1, Untouched, QueueStays
<1>4. Loaded(run[r])' /\ run'[r].pc # "posting"  BY <1>1 DEF Loaded, Over
<1>5. ~crowded =>
        MsgsOf(run[r].prompt) \subseteq MsgsOf(Unused(r)) \cup MsgsOf(staged) \cup replaced
  <2>1. CASE run[r].pc = "loading"
    <3>1. run[r].prompt = <<>>  BY <2>1, RunOf DEF Shape
    <3> QED  BY <3>1, MsgsEmpty
  <2>2. CASE run[r].pc = "setup"  BY <1>2, <2>2 DEF DropInv, Loaded
  <2>3. CASE run[r].pc \notin {"loading", "setup"}  BY <2>3 DEF Unused
  <2> QED  BY <2>1, <2>2, <2>3
<1> QED
  BY <1>1, <1>2, <1>3, <1>4, <1>5, DropRun

LEMMA ClaimedRun ==
  ASSUME IInv, NEW r \in Runs, Claim(r), Claimable(run[r].cand)
  PROVE  \E m \in Pending : \E x \in FollowUps :
           /\ x.m = m /\ m \in Msgs /\ m = run[r].cand /\ msg' = Set({m}, "delivering")
           /\ run[r].pc \in Executing
           /\ Stands(r, run[r].pc, run[r].exit, None)
           /\ Holds(r, run[r].prompt, Append(run[r].queue, x), run[r].rows, run[r].saw)
<1>1. PICK m : m = run[r].cand  OBVIOUS
<1>2. m \in Msgs /\ m \in Pending /\ run[r].pc \in Executing
  BY <1>1, RunOf DEF Claim, RunRecords, Shape, Claimable, Pending, InState
<1>3. PICK x \in FollowUps : x = TextOf(m) /\ x.m = m  BY <1>2, TextOfFollowUp DEF IInv
<1>4. /\ msg' = Set({m}, "delivering")
      /\ run' = [run EXCEPT ![r].cand = None, ![r].queue = Append(@, x)]
  BY <1>1, <1>3 DEF Claim
<1>5. /\ Stands(r, run[r].pc, run[r].exit, None)
      /\ Holds(r, run[r].prompt, Append(run[r].queue, x), run[r].rows, run[r].saw)
  BY <1>4, ClaimEffect DEF IInv
<1> QED  BY <1>1, <1>2, <1>3, <1>4, <1>5

\* The head of a queue that grows.
LEMMA HeadStays ==
  ASSUME NEW s \in Seq(FollowUps), s # <<>>, NEW x \in FollowUps
  PROVE  Head(Append(s, x)) = Head(s)
BY EmptySeq

LEMMA DropClaim ==
  ASSUME IInv, IInv', Alone, DropInv, NEW r \in Runs, Claim(r), Claimable(run[r].cand)
  PROVE  DropInv'
<1>1. PICK m \in Pending, x \in FollowUps :
        /\ x.m = m /\ m \in Msgs /\ msg' = Set({m}, "delivering")
        /\ run[r].pc \in Executing
        /\ Stands(r, run[r].pc, run[r].exit, None)
        /\ Holds(r, run[r].prompt, Append(run[r].queue, x), run[r].rows, run[r].saw)
  BY ClaimedRun
<1>2. OnlyRun(r) /\ Live(r) /\ UNCHANGED <<staged, history>>
  BY RunActs DEF RunAct, Claim
<1>3. RowsWell /\ Queued \subseteq Queued'
  <2>1. "delivering" \in States \ {"none"} /\ {m} \cap Msgs \subseteq Added
    BY AddedFacts DEF States
  <2> QED  BY <1>1, <2>1, SetWell, SetQueued
<1>4. Loaded(run[r])'  BY <1>1 DEF Loaded, Stands, Executing
<1>5. run'[r].pc = "posting" => Item(r)' \in MsgsOf(heard')
  <2> SUFFICES ASSUME run'[r].pc = "posting"  PROVE Item(r)' \in MsgsOf(heard')  OBVIOUS
  <2>1. run[r].pc = "posting" /\ run[r].queue # <<>> /\ run[r].queue \in Seq(FollowUps)
    BY <1>1, RunOf DEF Stands, Shape, RunRecords
  <2>2. run'[r].queue = Append(run[r].queue, x)  BY <1>1 DEF Holds
  <2>3. Item(r)' = Item(r)  BY <2>1, <2>2, HeadStays DEF Item
  <2> QED  BY <1>2, <2>1, <2>3 DEF DropInv, PostedAreHeard, history
<1> QED  BY <1>1, <1>2, <1>3, <1>4, <1>5, DropRun DEF Holds, history

\* The drain has read the queue, with something in it.
LEMMA DrainingRun ==
  ASSUME IInv, NEW r \in Runs, ReadQueue(r),
         ~(run' = [run EXCEPT ![r] = Reset(r, "landing")])
  PROVE  \E rows \in Seq(FollowUps) :
           /\ run[r].pc = "ended" /\ UNCHANGED <<staged, msg, history>>
           /\ Stands(r, "draining", run[r].exit, None)
           /\ Holds(r, run[r].prompt, <<>>, rows, staged)
           /\ MsgsOf(rows) \subseteq Queued
           /\ \A m \in Msgs : Once(rows, m)
<1>1. PICK order \in SetToSeqs(Drained) : \E rows \in Seq(FollowUps) :
        /\ rows = [i \in DOMAIN order |-> TextOf(order[i])]
        /\ \A i, j \in DOMAIN order : i # j => order[i] # order[j]
        /\ \A i \in DOMAIN order : order[i] \in Drained
        /\ Stands(r, "draining", run[r].exit, None)
        /\ Holds(r, Unused(r), <<>>, rows, staged)
  BY ReadQueueEffect DEF IInv
<1>2. PICK rows \in Seq(FollowUps) :
        /\ rows = [i \in DOMAIN order |-> TextOf(order[i])]
        /\ \A i, j \in DOMAIN order : i # j => order[i] # order[j]
        /\ \A i \in DOMAIN order : order[i] \in Drained
        /\ Stands(r, "draining", run[r].exit, None)
        /\ Holds(r, Unused(r), <<>>, rows, staged)
  BY <1>1
<1>3. run[r].pc = "ended" /\ UNCHANGED <<staged, msg, history>>
  BY DEF ReadQueue, Private
<1>4. Unused(r) = run[r].prompt  BY <1>3 DEF Unused
<1>5. /\ \A i \in DOMAIN rows : rows[i].m = order[i]
      /\ MsgsOf(rows) \subseteq Drained
  BY <1>2, DrainedRows DEF IInv
<1>6. DOMAIN rows = DOMAIN order  BY <1>2
<1>7. \A m \in Msgs : Once(rows, m)  BY <1>2, <1>5, <1>6 DEF Once
<1> QED  BY <1>2, <1>3, <1>4, <1>5, <1>7 DEF Drained

LEMMA DropReadQueue ==
  ASSUME IInv, IInv', Alone, DropInv, NEW r \in Runs, ReadQueue(r),
         ~(run' = [run EXCEPT ![r] = Reset(r, "landing")])
  PROVE  DropInv'
<1>1. PICK rows \in Seq(FollowUps) :
        /\ run[r].pc = "ended" /\ UNCHANGED <<staged, msg, history>>
        /\ Stands(r, "draining", run[r].exit, None)
        /\ Holds(r, run[r].prompt, <<>>, rows, staged)
  BY DrainingRun
<1>2. OnlyRun(r) /\ Live(r)  BY RunActs DEF RunAct, Proceed
<1>3. RowsWell /\ Queued' = Queued /\ MsgsOf(staged') = MsgsOf(staged)
  BY <1>1, Untouched, QueueStays
<1>4. Loaded(run[r])'  BY <1>1 DEF Loaded, Stands, Holds
<1> QED  BY <1>1, <1>2, <1>3, <1>4, DropRun DEF Stands, Holds, history

\* What the drain stages.
LEMMA StagingRun ==
  ASSUME IInv, NEW r \in Runs, AppendStaged(r)
  PROVE  /\ run[r].pc = "draining" /\ UNCHANGED <<msg, history>>
         /\ Stands(r, "dropping", run[r].exit, run[r].cand) /\ HoldsStill(r)
         /\ run[r].saw \in Seq(Text) /\ run[r].rows \in Seq(Text)
         /\ staged' = run[r].saw \o run[r].rows
         /\ MsgsOf(staged') = MsgsOf(run[r].saw) \cup MsgsOf(run[r].rows)
<1>1. run[r].pc = "draining" /\ UNCHANGED <<msg, history>> /\ staged' = run[r].saw \o run[r].rows
  BY DEF AppendStaged, Step
<1>2. Stands(r, "dropping", run[r].exit, run[r].cand) /\ HoldsStill(r)
  <2>1. "dropping" \in Pcs  BY DEF Pcs, Flights
  <2> QED  BY <2>1, StepEffect DEF IInv, AppendStaged, Step
<1>3. run[r].saw \in Seq(Text) /\ run[r].rows \in Seq(Text)
  BY RunOf, FollowUpsAreTexts DEF RunRecords
<1> QED  BY <1>1, <1>2, <1>3, MsgsConcat

LEMMA DropAppend ==
  ASSUME IInv, IInv', Alone, DropInv, NEW r \in Runs, AppendStaged(r)
  PROVE  DropInv'
<1>1. /\ run[r].pc = "draining" /\ UNCHANGED <<msg, history>>
      /\ Stands(r, "dropping", run[r].exit, run[r].cand) /\ HoldsStill(r)
      /\ MsgsOf(staged') = MsgsOf(run[r].saw) \cup MsgsOf(run[r].rows)
  BY StagingRun
<1>2. OnlyRun(r) /\ Live(r)  BY RunActs DEF RunAct
<1>3. RowsWell /\ Queued' = Queued  BY <1>1, Untouched DEF Queued, InState
<1>4. ~crowded => MsgsOf(staged) \subseteq MsgsOf(staged')  BY <1>1, <1>2 DEF DropInv, Loaded
<1>5. Loaded(run[r])'  BY <1>1 DEF Loaded, Stands, HoldsStill, Holds
<1> QED  BY <1>1, <1>2, <1>3, <1>4, <1>5, DropRun DEF Stands, HoldsStill, Holds, history

LEMMA DroppingRun ==
  ASSUME IInv, NEW r \in Runs, DropRows(r)
  PROVE  /\ run[r].pc = "dropping" /\ UNCHANGED <<staged, history>>
         /\ Stands(r, "deciding", run[r].exit, run[r].cand)
         /\ Holds(r, run[r].prompt, run[r].queue, <<>>, <<>>)
         /\ RowsWell
         /\ Queued' = Queued \ MsgsOf(run[r].rows)
         /\ Pending' = Pending \ MsgsOf(run[r].rows)
<1>1. PICK S : S = MsgsOf(run[r].rows)  OBVIOUS
<1>2. S \subseteq Added  BY <1>1, RunOf DEF Carries
<1>3. msg' = Set(S, "cancelled")  BY <1>1 DEF DropRows
<1>4. "cancelled" \in States \ {"none"}  BY DEF States
<1>5. RowsWell  BY <1>2, <1>3, <1>4, SetWell
<1>6. Queued' = Queued \ S /\ Pending' = Pending \ S  BY <1>3, <1>4, SetQueued
<1>7. run[r].pc = "dropping" /\ UNCHANGED <<staged, history>>  BY DEF DropRows
<1> QED  BY <1>1, <1>5, <1>6, <1>7, DropEffect DEF DropRows, IInv

LEMMA DropDrop ==
  ASSUME IInv, IInv', Alone, DropInv, NEW r \in Runs, DropRows(r)
  PROVE  DropInv'
<1>1. /\ run[r].pc = "dropping" /\ UNCHANGED <<staged, history>>
      /\ Stands(r, "deciding", run[r].exit, run[r].cand)
      /\ Holds(r, run[r].prompt, run[r].queue, <<>>, <<>>)
      /\ RowsWell
      /\ Queued' = Queued \ MsgsOf(run[r].rows)
  BY DroppingRun
<1>2. OnlyRun(r) /\ Live(r)  BY RunActs DEF RunAct
<1>3. ~crowded => MsgsOf(run[r].rows) \subseteq MsgsOf(staged) \cup replaced
  BY <1>1, <1>2 DEF DropInv, Loaded
<1>4. Loaded(run[r])'  BY <1>1 DEF Loaded, Stands
<1> QED  BY <1>1, <1>2, <1>3, <1>4, DropRun DEF Stands, Holds, history

\* A step of nobody's run keeps every follow-up when it loses none of those that
\* are queued or staged.
LEMMA DropOutside ==
  ASSUME IInv, DropInv, crowded' = crowded, heard' = heard,
         \A r \in Runs : run'[r].pc = run[r].pc /\ HoldsStill(r),
         replaced \subseteq replaced', withdrawn \subseteq withdrawn',
         MsgsOf(staged) \subseteq MsgsOf(staged') \cup replaced',
         MsgsOf(staged') \subseteq MsgsOf(staged),
         Queued \subseteq Queued' \cup withdrawn', Added' \subseteq Added \cup Queued'
  PROVE  DropInv'
<1>1. PostedAreHeard'
  BY DEF DropInv, PostedAreHeard, HoldsStill, Holds, Item
<1>2. ASSUME ~crowded, NEW r \in Runs, Live(r)'  PROVE Loaded(run[r])'
  <2>1. Loaded(run[r])  BY <1>2 DEF DropInv, Live
  <2>2. run'[r].pc = run[r].pc /\ HoldsStill(r)  BY <1>2
  <2> QED  BY <2>1, <2>2 DEF Loaded, HoldsStill, Holds
<1>3. ASSUME ~crowded, NEW m \in Added'  PROVE Kept(m)'
  <2>1. CASE m \in Queued'  BY <2>1 DEF Kept
  <2>2. CASE m \in Added
    <3>1. Kept(m)  BY <1>3, <2>2 DEF DropInv
    <3>2. CASE \E r \in Runs : m \in MsgsOf(run[r].prompt)
      BY <3>2 DEF Kept, HoldsStill, Holds
    <3>3. CASE \/ m \in Queued \/ m \in MsgsOf(staged) \/ m \in MsgsOf(heard)
               \/ m \in withdrawn \cup replaced
      BY <3>3 DEF Kept
    <3> QED  BY <3>1, <3>2, <3>3 DEF Kept
  <2> QED  BY <1>3, <2>1, <2>2
<1> QED  BY <1>1, <1>2, <1>3 DEF DropInv

\* What a request writes into the rows.
LEMMA RequestRows ==
  ASSUME IInv, CommitRequest
  PROVE  \/ /\ req.op = "add" /\ req.m \in Msgs \ Added
            /\ Queued' = Queued \cup {req.m} /\ Pending' = Pending \cup {req.m}
            /\ Added' = Added \cup {req.m}
         \/ /\ req.op # "cancel" /\ Queued' = Queued /\ Pending' = Pending /\ Added' = Added
         \/ /\ req.op = "cancel" /\ Added' = Added
            /\ Queued' = Queued \ {req.m} /\ Pending' = Pending \ {req.m}
<1>1. req # None /\ req' = None /\ req \in Requests
  BY DEF CommitRequest, IInv, TypeOK
<1>2. \A m \in Msgs : msg[m] \in Row  BY DEF IInv, TypeOK
<1>3. ASSUME \A m \in Msgs : msg'[m].state = msg[m].state
      PROVE  Queued' = Queued /\ Pending' = Pending /\ Added' = Added
  BY <1>3 DEF Queued, Pending, InState, Added
<1>4. CASE /\ req.op = "add"
           /\ msg' = [msg EXCEPT ![req.m].state = "pending", ![req.m].pos = req.pos]
  <2>1. PICK m \in Msgs, pos \in {req.pos} : m = req.m /\ pos = req.pos
    BY <1>1, <1>4 DEF Requests, Adds, Edits, Reorders
  <2>2. m \notin Added
    <3>1. \A n \in Free : Fits(req, n)  BY DEF IInv, InOrder
    <3>2. m \in Free  BY <1>1, <1>4, <2>1, <3>1, AddedFacts DEF Fits
    <3>3. m # NMsgs + 1  BY SteeringAssumption DEF Msgs
    <3> QED  BY <3>2, <3>3 DEF Free
  <2>3. PICK e : e = [msg[m] EXCEPT !.state = "pending", !.pos = pos]  OBVIOUS
  <2>4. msg' = [msg EXCEPT ![m] = e] /\ msg \in [Msgs -> Row]
    BY <1>4, <2>1, <2>3 DEF IInv, TypeOK
  <2>5. e.state = "pending"  BY <1>2, <2>3 DEF Row
  <2>6. msg'[m].state = "pending" /\ \A n \in Msgs \ {m} : msg'[n] = msg[n]  BY <2>4, <2>5
  <2>7. /\ Queued' = Queued \cup {m} /\ Pending' = Pending \cup {m}
        /\ Added' = Added \cup {m}
    BY <2>6 DEF Queued, Pending, InState, Added
  <2> QED  BY <1>4, <2>1, <2>2, <2>7
<1>5. CASE /\ req.op = "edit"
           /\ msg' = [msg EXCEPT ![req.m].edited = TRUE]
  <2>1. PICK m \in Msgs : m = req.m  BY <1>1, <1>5 DEF Requests, Adds, Edits, Reorders
  <2>2. PICK e : e = [msg[m] EXCEPT !.edited = TRUE]  OBVIOUS
  <2>3. msg' = [msg EXCEPT ![m] = e] /\ msg \in [Msgs -> Row]
    BY <1>5, <2>1, <2>2 DEF IInv, TypeOK
  <2>4. e.state = msg[m].state  BY <1>2, <2>2 DEF Row
  <2>5. \A n \in Msgs : msg'[n].state = msg[n].state  BY <2>3, <2>4
  <2> QED  BY <1>3, <1>5, <2>5
<1>6. CASE /\ req.op = "cancel"
           /\ msg' = Set({req.m}, "cancelled")
  <2>1. PICK m : m = req.m  OBVIOUS
  <2>2. m \in Added  BY <1>1, <1>6, <2>1 DEF IInv, Known
  <2>3. "cancelled" \in States \ {"none"} /\ {m} \cap Msgs \subseteq Added
    BY <2>2 DEF States
  <2>4. RowsWell  BY <1>6, <2>1, <2>3, SetWell
  <2>5. Queued' = Queued \ {m} /\ Pending' = Pending \ {m}
    BY <1>6, <2>1, <2>3, SetQueued
  <2>6. Added' = Added  BY <2>4 DEF RowsWell, Added
  <2> QED  BY <1>6, <2>1, <2>5, <2>6
<1>7. CASE /\ req.op = "reorder"
           /\ msg' = [m \in Msgs |->
                       IF \E i \in DOMAIN req.order : req.order[i] = m
                       THEN [msg[m] EXCEPT !.pos =
                               (CHOOSE i \in DOMAIN req.order : req.order[i] = m) - 1]
                       ELSE msg[m]]
  <2>1. ASSUME NEW m \in Msgs  PROVE msg'[m].state = msg[m].state
    <3>1. \/ msg'[m] = msg[m]
          \/ \E pos : msg'[m] = [msg[m] EXCEPT !.pos = pos]
      BY <1>7
    <3> QED  BY <1>2, <3>1 DEF Row
  <2> QED  BY <1>3, <1>7, <2>1
<1> QED  BY <1>4, <1>5, <1>6, <1>7 DEF CommitRequest

\* What the steps of nobody's run do to the follow-ups: they only ever take one
\* from the queue that the user cancelled, and put back into it what is suspect
\* or what no live run holds.
LEMMA OutsideEffect ==
  ASSUME IInv, Outside
  PROVE  /\ withdrawn \subseteq withdrawn' /\ replaced \subseteq replaced'
         /\ MsgsOf(staged) \subseteq MsgsOf(staged') \cup replaced'
         /\ MsgsOf(staged') \subseteq MsgsOf(staged)
         /\ \A m \in Msgs : Once(staged, m) => Once(staged', m)
         /\ Queued \subseteq Queued' \cup withdrawn'
         /\ Added' \subseteq Added \cup Queued'
         /\ \A m \in Added \ suspect' :
              /\ m \in Queued' => m \in Queued
              /\ m \in Pending' => m \in Pending \/ \A r \in Runs : ~Live(r)
<1>1. CASE CommitRequest
  <2>1. /\ UNCHANGED <<staged, replaced>>
        /\ withdrawn' = IF req.op = "cancel" THEN withdrawn \cup {req.m} ELSE withdrawn
    BY <1>1 DEF CommitRequest
  <2> QED  BY <1>1, <2>1, RequestRows, AddedFacts
<1>2. CASE CommitSweep
  <2>1. UNCHANGED <<staged, replaced, withdrawn>>  BY <1>2 DEF CommitSweep
  <2>2. PICK S : S = stuck  OBVIOUS
  <2>3. S \subseteq Added /\ msg' = Set(S, "pending") /\ "pending" \in States \ {"none"}
    BY <1>2, <2>2 DEF CommitSweep, IInv, Known, States
  <2>4. Queued' = Queued \cup (S \cap Msgs) /\ Pending' = Pending \cup (S \cap Msgs)
    BY <2>3, SetQueued
  <2>5. RowsWell  BY <2>3, SetWell
  <2>6. Added' = Added  BY <2>5 DEF RowsWell, Added
  <2>7. \A m \in S \ suspect' : msg[m].state = "delivering" /\ \A r \in Runs : ~Live(r)
    BY <1>2, <2>2 DEF CommitSweep
  <2>8. \A m \in (S \cap Msgs) \ suspect' : m \in Queued
    BY <2>7 DEF Queued, InState
  <2> QED  BY <2>1, <2>4, <2>6, <2>7, <2>8
<1>3. CASE RunAgainWithMessage
  <2>1. /\ staged' = <<Typed>> /\ replaced' = replaced \cup MsgsOf(staged)
        /\ UNCHANGED <<msg, withdrawn>>
    BY <1>3 DEF RunAgainWithMessage
  <2>2. MsgsOf(staged') = {}  BY <2>1 DEF MsgsOf, Typed
  <2>3. \A m \in Msgs : Once(staged', m)  BY <2>1 DEF Once, Typed, Msgs
  <2>4. Queued' = Queued /\ Pending' = Pending /\ Added' = Added
    BY <2>1 DEF Queued, Pending, InState, Added
  <2> QED  BY <2>1, <2>2, <2>3, <2>4
<1>4. CASE UNCHANGED <<staged, msg, withdrawn, replaced>>
  <2>1. Queued' = Queued /\ Pending' = Pending /\ Added' = Added
    BY <1>4 DEF Queued, Pending, InState, Added
  <2> QED  BY <1>4, <2>1
<1> QED
  BY <1>1, <1>2, <1>3, <1>4
     DEF Outside, RequestAdd, RequestEdit, RequestCancel, RequestReorder, Request, CancelRun,
         RunAgain, BeginTick, vars, history

LEMMA DropPick ==
  ASSUME IInv, IInv', DropInv, Pick
  PROVE  DropInv'
<1>1. UNCHANGED <<staged, msg, heard, withdrawn, replaced>>  BY DEF Pick
<1>2. Added' = Added /\ Queued' = Queued  BY <1>1 DEF Added, Queued, InState
<1>3. CASE UNCHANGED <<run, crowded>>
  BY <1>1, <1>2, <1>3 DEF DropInv, PostedAreHeard, Item, Kept, Live, Loaded
<1>4. ASSUME NEW r \in Runs, Stands(r, "loading", run[r].exit, run[r].cand), HoldsStill(r),
             ~crowded' => ~crowded
      PROVE  DropInv'
  <2>1. OnlyRun(r) /\ run'[r].pc = "loading"  BY <1>4 DEF Stands
  <2>2. PostedAreHeard'  BY <1>1, <2>1 DEF DropInv, PostedAreHeard, OnlyRun, Item
  <2>3. ~crowded => \A q \in Runs : Live(q)' => Loaded(run[q])'
    BY <1>1, <2>1 DEF DropInv, OnlyRun, Live, Loaded
  <2>4. ASSUME NEW m \in Added, Kept(m)  PROVE Kept(m)'
    <3>1. \A q \in Runs : run'[q].prompt = run[q].prompt
      BY <1>4 DEF Stands, OnlyRun, HoldsStill, Holds
    <3> QED  BY <1>1, <1>2, <2>4, <3>1 DEF Kept
  <2> QED  BY <1>2, <1>4, <2>2, <2>3, <2>4 DEF DropInv
<1> QED  BY <1>3, <1>4, PickEffect

LEMMA DropStep == IInv /\ IInv' /\ Alone /\ DropInv /\ [Next]_vars => DropInv'
<1> SUFFICES ASSUME IInv, IInv', Alone, DropInv, [Next]_vars  PROVE DropInv'  OBVIOUS
<1>1. ASSUME NEW r \in Runs, RunAct(r)  PROVE DropInv'
  BY <1>1, StaysOrEnds, DropStays, DropEnds, DropLoad, DropConsume, DropPrompt, DropPost,
     DropTaken, DropClaim, DropReadQueue, DropAppend, DropDrop
<1>2. CASE Outside  BY <1>2, OutsideRuns, OutsideEffect, DropOutside
<1>3. CASE Pick  BY <1>3, DropPick
<1> QED  BY <1>1, <1>2, <1>3, Steps

LEMMA DropInit == Init => DropInv
<1> SUFFICES ASSUME Init  PROVE DropInv  OBVIOUS
<1>1. \A r \in Runs : run[r].pc = "free"  BY DEF Init, Idle
<1>2. Added = {}  BY DEF Init, Added
<1> QED  BY <1>1, <1>2 DEF DropInv, PostedAreHeard, Live, Flights, Executing

\* A follow-up that add_steer_message accepted is queued, staged, in the prompt of
\* a run or heard, unless the user took it back, through every claim, failed
\* delivery, drain, crash and orphan sweep, as long as no two runs of the ticket
\* are alive at the same time.
THEOREM NothingIsDropped == Spec => []SoleRunsDropNothing
<1> DEFINE Inv == IInv /\ Alone /\ DropInv
<1>1. Init => Inv  BY IInit, AloneInit, DropInit
<1>2. Inv /\ [Next]_vars => Inv'  BY IStep, AloneStep, DropStep
<1>3. Inv => SoleRunsDropNothing  BY DEF DropInv, SoleRunsDropNothing, Added
<1> HIDE DEF Inv
<1> QED  BY <1>1, <1>2, <1>3, PTL DEF Spec

-----------------------------------------------------------------------------
(***************************************************************************)
(* Nothing is heard twice.                                                 *)
(***************************************************************************)

\* While r is the only live run, it is the only one that holds m.
LEMMA SoloHolds ==
  ASSUME NEW r \in Runs, Solo(r), Live(r), NEW m, Single(m)
  PROVE  /\ HeldOnce(run[r], m) /\ Once(heard, m) /\ Once(staged, m)
         /\ m \in MsgsOf(heard) => m \notin MsgsOf(staged)
         /\ m \in Queued /\ ~Settles(run[r], m) => m \notin MsgsOf(heard) /\ m \notin MsgsOf(staged)
<1>1. \A q \in Runs : Settles(run[q], m) => q = r
  BY DEF Solo, Settles, Live, Flights, Executing
<1> QED  BY <1>1 DEF Single

LEMMA SoloSingle ==
  ASSUME NEW r \in Runs, Solo(r), OnlyRun(r), NEW m,
         Once(heard', m), Once(staged', m),
         m \in MsgsOf(heard') => m \notin MsgsOf(staged'),
         m \in Queued' /\ (m \in MsgsOf(heard') \/ m \in MsgsOf(staged')) => Settles(run'[r], m),
         Live(r)' => HeldOnce(run[r], m)'
  PROVE  Single(m)'
<1>1. ASSUME NEW q \in Runs, Live(q)'  PROVE q = r
  BY <1>1 DEF OnlyRun, Live, Solo
<1> QED  BY <1>1 DEF Single, Settles

\* Nothing is held in a run that is not executing and not in its drain.
LEMMA HoldsNothing ==
  ASSUME IInv', NEW r \in Runs, run'[r].pc \in Over \cup {"loading", "deciding"}, NEW m
  PROVE  HeldOnce(run[r], m)'
<1>1. Shape(run'[r])  BY DEF IInv, Shapes
<1>2. /\ run'[r].queue = <<>> /\ run'[r].rows = <<>>
      /\ Carried(run[r])' = <<>> /\ Seen(run[r])' = <<>>
  BY <1>1 DEF Shape, Over, Executing, Carried, Seen
<1> QED  BY <1>2, OnceEmpty, MsgsEmpty DEF HeldOnce

LEMMA SingleEnds ==
  ASSUME IInv, IInv', NEW r \in Runs, Solo(r), Ends(r), NEW m \in Msgs \ suspect', Single(m)
  PROVE  Single(m)'
<1>1. /\ run'[r].pc \in Over /\ UNCHANGED <<staged, msg, heard>>
      /\ suspect \cup Unsettled(r) \subseteq suspect'
  BY EndsEffect
<1>2. OnlyRun(r) /\ Live(r)  BY StaysAct, RunActs
<1>3. ~Settles(run[r], m)  BY <1>1 DEF Settles, Unsettled
<1>4. Queued' = Queued  BY <1>1, QueueStays
<1>5. HeldOnce(run[r], m)'  BY <1>1, HoldsNothing
<1> QED  BY <1>1, <1>2, <1>3, <1>4, <1>5, SoloHolds, SoloSingle

LEMMA SingleStays ==
  ASSUME IInv, IInv', NEW r \in Runs, Solo(r), Stays(r), NEW m \in Msgs, Single(m)
  PROVE  Single(m)'
<1>1. run'[r].pc = run[r].pc /\ HoldsStill(r) /\ UNCHANGED <<staged, msg, heard>>
  BY StaysEffect DEF history
<1>2. OnlyRun(r) /\ Live(r)  BY StaysAct, RunActs
<1>3. Queued' = Queued /\ Pending' = Pending  BY <1>1, QueueStays
<1>4. HeldOnce(run[r], m)'
  <2>1. HeldOnce(run[r], m)  BY <1>2, SoloHolds
  <2> QED  BY <1>1, <1>3, <2>1 DEF HeldOnce, Carried, Seen, HoldsStill, Holds
<1>5. Settles(run[r], m) => Settles(run'[r], m)
  BY <1>1 DEF Settles, HoldsStill, Holds
<1> QED  BY <1>1, <1>2, <1>3, <1>4, <1>5, SoloHolds, SoloSingle

LEMMA SingleLoad ==
  ASSUME IInv, IInv', NEW r \in Runs, Solo(r), Load(r), NEW m \in Msgs, Single(m)
  PROVE  Single(m)'
<1>1. /\ Stands(r, "setup", run[r].exit, run[r].cand)
      /\ Holds(r, staged, run[r].queue, run[r].rows, run[r].saw)
  BY LoadEffect DEF IInv, Load
<1>2. OnlyRun(r) /\ Live(r) /\ UNCHANGED <<staged, msg, heard>>
  BY RunActs DEF Load, RunAct, Proceed, Private, history
<1>3. Queued' = Queued  BY <1>2, QueueStays
<1>4. run[r].queue = <<>> /\ run[r].rows = <<>> /\ ~Settles(run[r], m)
  BY RunOf DEF Load, Shape, Executing, Settles
<1>5. /\ Once(staged, m)
      /\ m \in MsgsOf(staged) => m \notin MsgsOf(heard) /\ m \notin Queued
  BY <1>2, <1>4, SoloHolds
<1>6. Carried(run[r])' = staged /\ Seen(run[r])' = <<>>
  BY <1>1 DEF Carried, Seen, Stands, Holds
<1>7. HeldOnce(run[r], m)'
  BY <1>1, <1>2, <1>3, <1>4, <1>5, <1>6, OnceEmpty, MsgsEmpty DEF HeldOnce, Stands, Holds
<1> QED  BY <1>2, <1>3, <1>4, <1>7, SoloHolds, SoloSingle

LEMMA SingleConsume ==
  ASSUME IInv, IInv', NEW r \in Runs, Solo(r), Consume(r), NEW m \in Msgs, Single(m)
  PROVE  Single(m)'
<1>1. Stands(r, "starting", run[r].exit, run[r].cand) /\ HoldsStill(r)
  <2>1. "starting" \in Pcs  BY DEF Pcs, Flights, Executing
  <2> QED  BY <2>1, StepEffect DEF IInv, Consume, Step
<1>2. OnlyRun(r) /\ Live(r) /\ UNCHANGED <<msg, heard>>
  BY RunActs DEF Consume, RunAct, Proceed, history
<1>3. Queued' = Queued  BY <1>2 DEF Queued, InState
<1>4. /\ run[r].pc = "setup" /\ run[r].queue = <<>> /\ run[r].rows = <<>>
      /\ ~Settles(run[r], m)
  BY RunOf DEF Consume, Step, Shape, Executing, Settles
<1>5. /\ Once(staged', m)
      /\ m \in MsgsOf(staged') => m \in MsgsOf(staged)
      /\ m \in MsgsOf(run[r].prompt) => m \notin MsgsOf(staged')
  <2>1. CASE run[r].prompt = <<>>
    BY <1>2, <2>1, SoloHolds, MsgsEmpty DEF Consume
  <2>2. CASE run[r].prompt # <<>>
    BY <2>2, OnceEmpty, MsgsEmpty DEF Consume
  <2> QED  BY <2>1, <2>2
<1>6. /\ Carried(run[r]) = run[r].prompt /\ Carried(run[r])' = run[r].prompt
      /\ Seen(run[r])' = <<>>
  BY <1>1, <1>4 DEF Carried, Seen, Stands, HoldsStill, Holds
<1>7. HeldOnce(run[r], m)'
  <2>1. HeldOnce(run[r], m)  BY <1>2, SoloHolds
  <2> QED
    BY <1>1, <1>2, <1>3, <1>4, <1>5, <1>6, <2>1, OnceEmpty, MsgsEmpty
       DEF HeldOnce, Stands, HoldsStill, Holds
<1>8. /\ Once(heard', m)
      /\ m \in MsgsOf(heard') => m \notin MsgsOf(staged')
      /\ m \in Queued' => m \notin MsgsOf(heard') /\ m \notin MsgsOf(staged')
  BY <1>2, <1>3, <1>4, <1>5, SoloHolds
<1> QED  BY <1>2, <1>5, <1>7, <1>8, SoloSingle

LEMMA SinglePrompt ==
  ASSUME IInv, IInv', NEW r \in Runs, Solo(r), Prompt(r), NEW m \in Msgs, Single(m)
  PROVE  Single(m)'
<1>1. /\ Stands(r, "exec", run[r].exit, run[r].cand)
      /\ Holds(r, <<>>, run[r].queue, run[r].rows, run[r].saw)
  BY PromptEffect DEF IInv, Prompt
<1>2. OnlyRun(r) /\ Live(r) /\ UNCHANGED <<msg, staged>>
  BY RunActs DEF Prompt, RunAct, Proceed
<1>3. Queued' = Queued /\ Pending' = Pending  BY <1>2, QueueStays
<1>4. run[r].pc = "starting" /\ run[r].rows = <<>> /\ ~Settles(run[r], m)
  BY RunOf DEF Prompt, Shape, Settles
<1>5. /\ Carried(run[r]) = run[r].prompt /\ Carried(run[r])' = <<>> /\ Seen(run[r])' = <<>>
  BY <1>1, <1>4 DEF Carried, Seen, Stands, Holds
<1>6. HeldOnce(run[r], m)  BY <1>2, SoloHolds
<1>7. /\ Once(run[r].prompt, m)
      /\ m \in MsgsOf(run[r].prompt) =>
           m \notin MsgsOf(heard) /\ m \notin Queued /\ m \notin MsgsOf(staged)
  BY <1>4, <1>5, <1>6 DEF HeldOnce
<1>8. /\ m \in MsgsOf(heard') => m \in MsgsOf(heard) \/ m \in MsgsOf(run[r].prompt)
      /\ Once(heard', m)
  <2>1. PICK s : s = FollowUpsIn(run[r].prompt)  OBVIOUS
  <2>2. run[r].prompt \in Texts /\ run[r].prompt \in Seq(Text)  BY RunOf DEF Shape, Texts
  <2>3. s \in Seq(FollowUps) /\ MsgsOf(s) = MsgsOf(run[r].prompt)
    BY <2>1, <2>2, FollowUpsInTexts
  <2>4. s \in Seq(Text) /\ heard \in Seq(Text)  BY <2>3, RunOf, FollowUpsAreTexts
  <2>5. heard' = heard \o s  BY <2>1 DEF Prompt
  <2>6. MsgsOf(heard') = MsgsOf(heard) \cup MsgsOf(s)  BY <2>4, <2>5, MsgsConcat
  <2>7. Once(s, m)  BY <1>7, <2>1, <2>2, OnceFollowUps
  <2>8. Once(heard, m)  BY <1>2, SoloHolds
  <2>9. m \notin MsgsOf(heard) \/ m \notin MsgsOf(s)  BY <1>7, <2>3
  <2>10. Once(heard \o s, m)  BY <2>4, <2>7, <2>8, <2>9, OnceConcat
  <2> QED  BY <2>3, <2>5, <2>6, <2>10
<1>9. HeldOnce(run[r], m)'
  <2>1. /\ Once(run[r].queue, m)
        /\ m \in MsgsOf(run[r].queue) =>
             /\ m \notin Pending /\ m \notin MsgsOf(staged) /\ m \notin MsgsOf(run[r].prompt)
             /\ m \notin MsgsOf(heard)
    BY <1>4, <1>5, <1>6 DEF HeldOnce
  <2> QED
    BY <1>1, <1>2, <1>3, <1>4, <1>5, <1>8, <2>1, OnceEmpty, MsgsEmpty
       DEF HeldOnce, Stands, Holds
<1>10. /\ Once(staged', m)
       /\ m \in MsgsOf(heard') => m \notin MsgsOf(staged')
       /\ m \in Queued' => m \notin MsgsOf(heard') /\ m \notin MsgsOf(staged')
  BY <1>2, <1>3, <1>4, <1>7, <1>8, SoloHolds
<1> QED  BY <1>2, <1>8, <1>9, <1>10, SoloSingle

LEMMA SinglePost ==
  ASSUME IInv, IInv', NEW r \in Runs, Solo(r), Post(r), NEW m \in Msgs, Single(m)
  PROVE  Single(m)'
<1>1. Stands(r, "posting", run[r].exit, run[r].cand) /\ HoldsStill(r)
  BY PostEffect DEF IInv, Post
<1>2. OnlyRun(r) /\ Live(r) /\ UNCHANGED <<msg, staged>>
  BY RunActs DEF Post, RunAct, Proceed
<1>3. Queued' = Queued /\ Pending' = Pending  BY <1>2, QueueStays
<1>4. run[r].pc = "exec" /\ run[r].queue # <<>> /\ run[r].rows = <<>> /\ ~Settles(run[r], m)
  BY RunOf DEF Post, Shape, Settles
<1>5. Carried(run[r])' = <<>> /\ Seen(run[r])' = <<>>
  BY <1>1 DEF Carried, Seen, Stands
<1>6. PICK x \in FollowUps : x = Head(run[r].queue) /\ x.m = Item(r)
  BY <1>4, HeadOfQueue DEF Item
<1>7. m = x.m => m \in MsgsOf(run[r].queue)  BY <1>4, <1>6, HeadOfQueue
<1>8. /\ Once(run[r].queue, m)
      /\ m \in MsgsOf(run[r].queue) =>
           m \notin Pending /\ m \notin MsgsOf(staged) /\ m \notin MsgsOf(heard)
  <2>1. HeldOnce(run[r], m)  BY <1>2, SoloHolds
  <2> QED  BY <1>4, <2>1 DEF HeldOnce
<1>9. /\ m \in MsgsOf(heard') => m \in MsgsOf(heard) \/ m = x.m
      /\ Once(heard', m)
  <2>1. heard' = Append(heard, x)  BY <1>6 DEF Post
  <2>2. heard \in Seq(Text) /\ x \in Text  BY RunOf, FollowUpsAreTexts
  <2>3. MsgsOf(heard') = MsgsOf(heard) \cup ({x.m} \ {0})  BY <2>1, <2>2, MsgsAppend
  <2>4. Once(heard, m)  BY <1>2, SoloHolds
  <2>5. x.m = m => m \notin MsgsOf(heard)  BY <1>7, <1>8
  <2>6. Once(Append(heard, x), m)  BY <2>2, <2>4, <2>5, OnceAppend
  <2> QED  BY <2>1, <2>3, <2>6
<1>10. m = x.m => Settles(run'[r], m)
  BY <1>1, <1>6 DEF Settles, Stands, HoldsStill, Holds
<1>11. HeldOnce(run[r], m)'
  <2>1. m = x.m => run'[r].pc = "posting" /\ Head(run'[r].queue).m = m
    BY <1>1, <1>6 DEF Stands, HoldsStill, Holds
  <2> QED
    BY <1>1, <1>2, <1>3, <1>4, <1>5, <1>8, <1>9, <2>1, OnceEmpty, MsgsEmpty
       DEF HeldOnce, HoldsStill, Holds
<1>12. /\ Once(staged', m)
       /\ m \in MsgsOf(heard') => m \notin MsgsOf(staged')
       /\ m \in Queued' /\ m # x.m => m \notin MsgsOf(heard') /\ m \notin MsgsOf(staged')
  BY <1>2, <1>3, <1>4, <1>7, <1>8, <1>9, SoloHolds
<1> QED  BY <1>2, <1>9, <1>10, <1>11, <1>12, SoloSingle

LEMMA SingleTaken ==
  ASSUME IInv, IInv', NEW r \in Runs, Solo(r), Confirm(r) \/ ConfirmFails(r),
         NEW m \in Msgs \ suspect', Single(m)
  PROVE  Single(m)'
<1>1. /\ run[r].pc = "posting" /\ run[r].queue # <<>> /\ Item(r) \in Added
  BY PostedRun DEF Confirm, ConfirmFails
<1>2. /\ Stands(r, "exec", run[r].exit, run[r].cand)
      /\ Holds(r, run[r].prompt, Tail(run[r].queue), run[r].rows, run[r].saw)
  BY <1>1, TakenEffect DEF Confirm, ConfirmFails, IInv
<1>3. OnlyRun(r) /\ Live(r) /\ UNCHANGED <<staged, heard>>
  BY RunActs DEF Confirm, ConfirmFails, RunAct, Proceed, history
<1>4. /\ m \in Queued' => m \in Queued /\ m # Item(r)
      /\ m \in Pending' => m \in Pending
  <2>1. CASE Confirm(r)
    <3>1. PICK n \in Added : n = Item(r) /\ MarkDelivered(n)  BY <1>1, <2>1 DEF Confirm
    <3> QED  BY <3>1, DeliveredQueued
  <2>2. CASE ConfirmFails(r)
    <3>1. UNCHANGED <<staged, msg>> /\ m # Item(r)  BY <2>2 DEF ConfirmFails
    <3> QED  BY <3>1, QueueStays
  <2> QED  BY <2>1, <2>2
<1>5. /\ run[r].rows = <<>> /\ Carried(run[r])' = <<>> /\ Seen(run[r])' = <<>>
  BY <1>1, <1>2, RunOf DEF Shape, Carried, Seen, Stands
<1>6. HeldOnce(run[r], m)  BY <1>3, SoloHolds
<1>7. /\ Once(Tail(run[r].queue), m)
      /\ m \in MsgsOf(Tail(run[r].queue)) => m \in MsgsOf(run[r].queue) /\ m # Item(r)
  <2>1. run[r].queue \in Seq(Text)  BY RunOf, FollowUpsAreTexts DEF RunRecords
  <2>2. Once(run[r].queue, m)  BY <1>6 DEF HeldOnce
  <2>3. /\ Once(Tail(run[r].queue), m)
        /\ Head(run[r].queue).m = m => m \notin MsgsOf(Tail(run[r].queue))
    BY <1>1, <2>1, <2>2, OnceTail
  <2>4. MsgsOf(Tail(run[r].queue)) \subseteq MsgsOf(run[r].queue)  BY <1>1, HeadOfQueue
  <2> QED  BY <2>3, <2>4 DEF Item
<1>8. HeldOnce(run[r], m)'
  <2>1. m \in MsgsOf(run[r].queue) /\ m # Item(r) =>
          m \notin Pending /\ m \notin MsgsOf(staged) /\ m \notin MsgsOf(heard)
    BY <1>6 DEF HeldOnce, Item
  <2> QED
    BY <1>2, <1>3, <1>4, <1>5, <1>7, <2>1, OnceEmpty, MsgsEmpty DEF HeldOnce, Holds
<1>9. /\ Once(heard', m)
      /\ Once(staged', m)
      /\ m \in MsgsOf(heard') => m \notin MsgsOf(staged')
      /\ m \in Queued' => m \notin MsgsOf(heard') /\ m \notin MsgsOf(staged')
  <2>1. Settles(run[r], m) => m = Item(r)  BY <1>1 DEF Settles, Item
  <2> QED  BY <1>3, <1>4, <2>1, SoloHolds
<1> QED  BY <1>3, <1>8, <1>9, SoloSingle

LEMMA SingleClaim ==
  ASSUME IInv, IInv', NEW r \in Runs, Solo(r), Claim(r), Claimable(run[r].cand),
         NEW m \in Msgs, Single(m)
  PROVE  Single(m)'
<1>1. PICK n \in Pending, x \in FollowUps :
        /\ x.m = n /\ n \in Msgs /\ msg' = Set({n}, "delivering")
        /\ run[r].pc \in Executing
        /\ Stands(r, run[r].pc, run[r].exit, None)
        /\ Holds(r, run[r].prompt, Append(run[r].queue, x), run[r].rows, run[r].saw)
  BY ClaimedRun
<1>2. OnlyRun(r) /\ Live(r) /\ UNCHANGED <<staged, heard>>
  BY RunActs DEF RunAct, Claim, history
<1>3. Queued' = Queued /\ Pending' = Pending \ {n} /\ n \in Queued
  <2>1. "delivering" \in States  BY DEF States
  <2>2. n \in Queued  BY DEF Pending, Queued, InState
  <2> QED  BY <1>1, <2>1, <2>2, SetQueued
<1>4. /\ Shape(run[r]) /\ run[r].queue \in Seq(FollowUps) /\ run[r].queue \in Seq(Text)
      /\ x \in Text
  BY RunOf, FollowUpsAreTexts DEF RunRecords
<1>5. /\ run[r].rows = <<>> /\ Seen(run[r])' = <<>>
      /\ Carried(run[r])' = Carried(run[r])
  BY <1>1, <1>4 DEF Shape, Executing, Carried, Seen, Stands, Holds
<1>6. HeldOnce(run[r], m)  BY <1>2, SoloHolds
<1>7. m \in MsgsOf(run[r].queue) => m \notin Pending  BY <1>6 DEF HeldOnce
<1>8. /\ Once(run'[r].queue, m)
      /\ m \in MsgsOf(run'[r].queue) => m \in MsgsOf(run[r].queue) \/ m = n
  <2>1. MsgsOf(Append(run[r].queue, x)) = MsgsOf(run[r].queue) \cup ({x.m} \ {0})
    BY <1>4, MsgsAppend
  <2>2. Once(run[r].queue, m)  BY <1>6 DEF HeldOnce
  <2>3. Once(Append(run[r].queue, x), m)  BY <1>1, <1>4, <1>7, <2>2, OnceAppend
  <2> QED  BY <1>1, <2>1, <2>3 DEF Holds
<1>9. run[r].pc = "posting" => Head(run'[r].queue) = Head(run[r].queue)
  BY <1>1, <1>4, HeadStays DEF Shape, Holds
<1>10. m = n => /\ m \notin MsgsOf(heard) /\ m \notin MsgsOf(staged)
                /\ m \notin MsgsOf(Carried(run[r]))
  <2> SUFFICES ASSUME m = n
               PROVE  /\ m \notin MsgsOf(heard) /\ m \notin MsgsOf(staged)
                      /\ m \notin MsgsOf(Carried(run[r]))
    OBVIOUS
  <2>1. m \notin MsgsOf(run[r].queue)  BY <1>7
  <2>2. ~Settles(run[r], m)
    <3>1. CASE run[r].pc = "posting"
      <4>1. run[r].queue # <<>>  BY <1>4, <3>1 DEF Shape
      <4>2. Item(r) \in MsgsOf(run[r].queue)  BY <4>1, HeadOfQueue
      <4> QED  BY <2>1, <3>1, <4>2 DEF Settles, Item
    <3>2. CASE run[r].pc # "posting"  BY <1>1, <3>2 DEF Settles, Executing
    <3> QED  BY <3>1, <3>2
  <2>3. m \notin MsgsOf(heard) /\ m \notin MsgsOf(staged)
    BY <1>2, <1>3, <2>2, SoloHolds
  <2>4. m \notin MsgsOf(Carried(run[r]))  BY <1>3, <1>6 DEF HeldOnce
  <2> QED  BY <2>3, <2>4
<1>11. HeldOnce(run[r], m)'
  <2>1. /\ Once(Carried(run[r]), m)
        /\ m \in MsgsOf(run[r].queue) =>
             /\ m \notin Pending /\ m \notin MsgsOf(staged) /\ m \notin MsgsOf(Carried(run[r]))
             /\ m \in MsgsOf(heard) => run[r].pc = "posting" /\ Head(run[r].queue).m = m
        /\ m \in MsgsOf(Carried(run[r])) =>
             /\ m \notin MsgsOf(heard) /\ m \notin Queued
             /\ run[r].pc = "starting" => m \notin MsgsOf(staged)
    BY <1>6 DEF HeldOnce
  <2>2. run'[r].pc = run[r].pc /\ run'[r].rows = <<>>  BY <1>1, <1>5 DEF Stands, Holds
  <2> QED
    BY <1>2, <1>3, <1>5, <1>8, <1>9, <1>10, <2>1, <2>2, OnceEmpty, MsgsEmpty DEF HeldOnce
<1>12. Settles(run[r], m) => Settles(run'[r], m)
  BY <1>1, <1>9 DEF Settles, Stands, Executing
<1> QED  BY <1>2, <1>3, <1>11, <1>12, SoloHolds, SoloSingle

LEMMA SingleReadQueue ==
  ASSUME IInv, IInv', NEW r \in Runs, Solo(r), ReadQueue(r),
         ~(run' = [run EXCEPT ![r] = Reset(r, "landing")]), NEW m \in Msgs, Single(m)
  PROVE  Single(m)'
<1>1. PICK rows \in Seq(FollowUps) :
        /\ run[r].pc = "ended" /\ UNCHANGED <<staged, msg, history>>
        /\ Stands(r, "draining", run[r].exit, None)
        /\ Holds(r, run[r].prompt, <<>>, rows, staged)
        /\ MsgsOf(rows) \subseteq Queued
        /\ Once(rows, m)
  BY DrainingRun
<1>2. OnlyRun(r) /\ Live(r) /\ UNCHANGED heard  BY <1>1, RunActs DEF RunAct, Proceed, history
<1>3. Queued' = Queued  BY <1>1, QueueStays
<1>4. ~Settles(run[r], m)  BY <1>1 DEF Settles
<1>5. /\ Once(heard, m)
      /\ Once(staged, m)
      /\ m \in MsgsOf(heard) => m \notin MsgsOf(staged)
      /\ m \in Queued => m \notin MsgsOf(heard) /\ m \notin MsgsOf(staged)
  BY <1>2, <1>4, SoloHolds
<1>6. Carried(run[r])' = <<>> /\ Seen(run[r])' = staged
  BY <1>1 DEF Carried, Seen, Stands, Holds
<1>7. HeldOnce(run[r], m)'
  BY <1>1, <1>2, <1>3, <1>5, <1>6, OnceEmpty, MsgsEmpty DEF HeldOnce, Holds
<1> QED  BY <1>1, <1>2, <1>3, <1>5, <1>7, SoloSingle

LEMMA SingleAppend ==
  ASSUME IInv, IInv', NEW r \in Runs, Solo(r), AppendStaged(r), NEW m \in Msgs, Single(m)
  PROVE  Single(m)'
<1>1. /\ run[r].pc = "draining" /\ UNCHANGED <<msg, history>>
      /\ Stands(r, "dropping", run[r].exit, run[r].cand) /\ HoldsStill(r)
      /\ run[r].saw \in Seq(Text) /\ run[r].rows \in Seq(Text)
      /\ staged' = run[r].saw \o run[r].rows
      /\ MsgsOf(staged') = MsgsOf(run[r].saw) \cup MsgsOf(run[r].rows)
  BY StagingRun
<1>2. OnlyRun(r) /\ Live(r) /\ UNCHANGED heard  BY <1>1, RunActs DEF RunAct, history
<1>3. Queued' = Queued  BY <1>1 DEF Queued, InState
<1>4. run[r].queue = <<>> /\ ~Settles(run[r], m) /\ Seen(run[r]) = run[r].saw
  BY <1>1, RunOf DEF Shape, Executing, Settles, Seen
<1>5. Carried(run[r])' = <<>> /\ Seen(run[r])' = <<>>
  BY <1>1 DEF Carried, Seen, Stands
<1>6. /\ Once(run[r].rows, m)
      /\ Once(run[r].saw, m)
      /\ m \in MsgsOf(run[r].rows) => m \notin MsgsOf(heard) /\ m \notin MsgsOf(run[r].saw)
      /\ m \in MsgsOf(run[r].saw) => m \notin MsgsOf(heard) /\ m \notin Queued
  <2>1. HeldOnce(run[r], m)  BY <1>2, SoloHolds
  <2> QED  BY <1>4, <2>1 DEF HeldOnce
<1>7. Once(staged', m)
  <2>1. m \notin MsgsOf(run[r].saw) \/ m \notin MsgsOf(run[r].rows)  BY <1>6
  <2>2. Once(run[r].saw \o run[r].rows, m)  BY <1>1, <1>6, <2>1, OnceConcat
  <2> QED  BY <1>1, <2>2
<1>8. HeldOnce(run[r], m)'
  BY <1>1, <1>2, <1>4, <1>5, <1>6, OnceEmpty, MsgsEmpty DEF HeldOnce, HoldsStill, Holds
<1>9. m \in MsgsOf(run[r].rows) => Settles(run'[r], m)
  BY <1>1 DEF Settles, Stands, HoldsStill, Holds
<1>10. /\ Once(heard', m)
       /\ m \in MsgsOf(heard') => m \notin MsgsOf(staged')
       /\ m \in Queued' /\ (m \in MsgsOf(heard') \/ m \in MsgsOf(staged'))
            => m \in MsgsOf(run[r].rows)
  <2>1. /\ Once(heard, m)
        /\ m \in Queued => m \notin MsgsOf(heard)
    BY <1>2, <1>4, SoloHolds
  <2> QED  BY <1>1, <1>2, <1>3, <1>6, <2>1
<1> QED  BY <1>2, <1>7, <1>8, <1>9, <1>10, SoloSingle

LEMMA SingleDrop ==
  ASSUME IInv, IInv', NEW r \in Runs, Solo(r), DropRows(r), NEW m \in Msgs, Single(m)
  PROVE  Single(m)'
<1>1. /\ run[r].pc = "dropping" /\ UNCHANGED <<staged, history>>
      /\ Stands(r, "deciding", run[r].exit, run[r].cand)
      /\ Queued' = Queued \ MsgsOf(run[r].rows)
  BY DroppingRun
<1>2. OnlyRun(r) /\ Live(r) /\ UNCHANGED heard  BY <1>1, RunActs DEF RunAct, history
<1>3. run'[r].pc = "deciding"  BY <1>1 DEF Stands
<1>4. HeldOnce(run[r], m)'  BY <1>3, HoldsNothing
<1>5. Settles(run[r], m) => m \in MsgsOf(run[r].rows)  BY <1>1 DEF Settles
<1>6. /\ Once(heard', m)
      /\ Once(staged', m)
      /\ m \in MsgsOf(heard') => m \notin MsgsOf(staged')
      /\ m \in Queued' => m \notin MsgsOf(heard') /\ m \notin MsgsOf(staged')
  BY <1>1, <1>2, <1>5, SoloHolds
<1> QED  BY <1>2, <1>4, <1>6, SoloSingle

LEMMA SingleOutside ==
  ASSUME IInv, Outside, NEW m \in Msgs \ suspect', Single(m)
  PROVE  Single(m)'
<1>1. /\ \A r \in Runs : run'[r].pc = run[r].pc /\ HoldsStill(r)
      /\ heard' = heard
  BY OutsideRuns
<1>2. /\ MsgsOf(staged') \subseteq MsgsOf(staged)
      /\ Once(staged, m) => Once(staged', m)
      /\ m \in Added => /\ m \in Queued' => m \in Queued
                        /\ m \in Pending' => m \in Pending \/ \A r \in Runs : ~Live(r)
  BY OutsideEffect
<1>3. \A r \in Runs : Settles(run[r], m) => Settles(run'[r], m)
  BY <1>1 DEF Settles, HoldsStill, Holds
<1>4. m \notin Added => m \notin MsgsOf(heard) /\ m \notin MsgsOf(staged)
  BY RunOf DEF IInv, Known
<1>5. /\ Once(heard', m)
      /\ Once(staged', m)
      /\ m \in MsgsOf(heard') => m \notin MsgsOf(staged')
  BY <1>1, <1>2 DEF Single
<1>6. ASSUME m \in Queued', m \in MsgsOf(heard') \/ m \in MsgsOf(staged')
      PROVE  \E r \in Runs : Settles(run'[r], m)
  <2>1. m \in MsgsOf(heard) \/ m \in MsgsOf(staged)  BY <1>1, <1>2, <1>6
  <2>2. m \in Queued  BY <1>2, <1>4, <1>6, <2>1
  <2>3. \E r \in Runs : Settles(run[r], m)  BY <2>1, <2>2 DEF Single
  <2> QED  BY <1>3, <2>3
<1>7. ASSUME NEW r \in Runs, Live(r)'  PROVE HeldOnce(run[r], m)'
  <2>1. Live(r)  BY <1>1, <1>7 DEF Live
  <2>2. HeldOnce(run[r], m)  BY <2>1 DEF Single
  <2>3. run'[r].pc = run[r].pc /\ HoldsStill(r)  BY <1>1
  <2>4. Carried(run[r])' = Carried(run[r]) /\ Seen(run[r])' = Seen(run[r])
    BY <2>3 DEF Carried, Seen, HoldsStill, Holds
  <2>5. CASE m \in Added
    <3>1. /\ m \in Queued' => m \in Queued
          /\ m \in Pending' => m \in Pending
      BY <1>2, <2>1, <2>5
    <3> QED  BY <1>1, <1>2, <2>2, <2>3, <2>4, <3>1 DEF HeldOnce, HoldsStill, Holds
  <2>6. CASE m \notin Added
    <3>1. Carries(run[r]) \subseteq Added  BY RunOf
    <3>2. /\ m \notin MsgsOf(run[r].queue) /\ m \notin MsgsOf(Carried(run[r]))
          /\ m \notin MsgsOf(run[r].rows) /\ m \notin MsgsOf(Seen(run[r]))
      BY <2>6, <3>1, MsgsEmpty DEF Carries, Carried, Seen
    <3> QED  BY <2>2, <2>3, <2>4, <3>2 DEF HeldOnce, HoldsStill, Holds
  <2> QED  BY <2>5, <2>6
<1> QED  BY <1>5, <1>6, <1>7 DEF Single, Settles

LEMMA SinglePick ==
  ASSUME IInv, IInv', Pick, ~crowded', NEW m \in Msgs, Single(m)
  PROVE  Single(m)'
<1>1. UNCHANGED <<staged, msg, heard>>  BY DEF Pick
<1>2. Queued' = Queued /\ Pending' = Pending  BY <1>1, QueueStays
<1>3. CASE UNCHANGED <<run, crowded>>
  <2>1. \A r \in Runs : HeldOnce(run[r], m) => HeldOnce(run[r], m)'
    BY <1>1, <1>2, <1>3 DEF HeldOnce, Carried, Seen
  <2> QED  BY <1>1, <1>2, <1>3, <2>1 DEF Single, Settles, Live
<1>4. ASSUME NEW r \in Runs, run[r].pc = "free",
             Stands(r, "loading", run[r].exit, run[r].cand), \A q \in Runs : ~Live(q)
      PROVE  Single(m)'
  <2>1. OnlyRun(r) /\ run'[r].pc = "loading" /\ Solo(r)  BY <1>4 DEF Stands, Solo
  <2>2. HeldOnce(run[r], m)'  BY <2>1, HoldsNothing
  <2>3. \A q \in Runs : ~Settles(run[q], m)
    BY <1>4 DEF Settles, Live, Flights, Executing
  <2>4. /\ Once(heard', m)
        /\ Once(staged', m)
        /\ m \in MsgsOf(heard') => m \notin MsgsOf(staged')
        /\ m \in Queued' => m \notin MsgsOf(heard') /\ m \notin MsgsOf(staged')
    BY <1>1, <1>2, <2>3 DEF Single
  <2> QED  BY <2>1, <2>2, <2>4, SoloSingle
<1> QED  BY <1>3, <1>4, PickEffect

LEMMA OnceStep == IInv /\ IInv' /\ Alone /\ OnceInv /\ [Next]_vars => OnceInv'
<1> SUFFICES ASSUME IInv, IInv', Alone, OnceInv, [Next]_vars, ~crowded',
                    NEW m \in Msgs \ suspect'
             PROVE  Single(m)'
  BY DEF OnceInv, Msgs
<1>1. ASSUME NEW r \in Runs, RunAct(r)  PROVE Single(m)'
  <2>1. Live(r) /\ ~crowded /\ m \notin suspect  BY <1>1, RunActs
  <2>2. Solo(r) /\ Single(m)  BY <2>1, SoloRun DEF OnceInv
  <2> QED
    BY <1>1, <2>2, StaysOrEnds, SingleStays, SingleEnds, SingleLoad, SingleConsume,
       SinglePrompt, SinglePost, SingleTaken, SingleClaim, SingleReadQueue, SingleAppend,
       SingleDrop
<1>2. CASE Outside
  <2>1. ~crowded /\ m \notin suspect  BY <1>2, OutsideRuns
  <2> QED  BY <1>2, <2>1, SingleOutside DEF OnceInv
<1>3. CASE Pick
  <2>1. ~crowded /\ m \notin suspect  BY <1>3 DEF Pick, IInv, TypeOK
  <2> QED  BY <1>3, <2>1, SinglePick DEF OnceInv
<1> QED  BY <1>1, <1>2, <1>3, Steps

LEMMA OnceInit == Init => OnceInv
<1> SUFFICES ASSUME Init, NEW m \in Msgs  PROVE Single(m)
  BY DEF OnceInv
<1>1. \A r \in Runs : ~Live(r)  BY DEF Init, Idle, Live, Flights, Executing
<1>2. Queued = {} /\ heard = <<>> /\ staged = <<>>  BY DEF Init, Queued, InState
<1> QED  BY <1>1, <1>2, OnceEmpty, MsgsEmpty DEF Single

\* The agent is not given the text of a follow-up twice unless the delivery of
\* that follow-up is suspect (a lost answer, a failed confirmation, a crash between
\* the two commits of the drain, a claim the orphan sweep gave up) or two runs of
\* the ticket were alive at the same time: the claim, the confirmation and the
\* drain never hand out the same row twice.
THEOREM NothingIsHeardTwice == Spec => []HeardOnce
<1> DEFINE Inv == IInv /\ Alone /\ OnceInv
<1>1. Init => Inv  BY IInit, AloneInit, OnceInit
<1>2. Inv /\ [Next]_vars => Inv'  BY IStep, AloneStep, OnceStep
<1>3. Inv => HeardOnce
  <2> SUFFICES ASSUME IInv, OnceInv, ~crowded, NEW i \in DOMAIN heard, NEW j \in DOMAIN heard,
                      i < j, heard[i].m = heard[j].m, heard[i].m \notin suspect
               PROVE  FALSE
    BY DEF HeardOnce
  <2>1. heard[i].m \in Msgs
    <3>1. heard[i] \in FollowUps  BY DEF IInv, TypeOK
    <3> QED  BY <3>1 DEF FollowUps
  <2>2. PICK m \in Msgs \ suspect : m = heard[i].m  BY <2>1
  <2>3. Once(heard, m)  BY <2>2 DEF OnceInv, Single
  <2>4. i = j  BY <2>2, <2>3 DEF Once
  <2>5. i \in Nat  BY DEF IInv, TypeOK
  <2> QED  BY <2>4, <2>5
<1> HIDE DEF Inv
<1> QED  BY <1>1, <1>2, <1>3, PTL DEF Spec

-----------------------------------------------------------------------------
(***************************************************************************)
(* What is typed first is heard first.                                     *)
(***************************************************************************)

\* Follow-ups whose delivery was neither disturbed nor overlooked.
Fair == Msgs \ (suspect \cup overlooked)

\* From where n may still be POSTed: the queue, the staged text, the live run.
Holding(e) == MsgsOf(e.queue) \cup MsgsOf(e.rows) \cup MsgsOf(Carried(e))
Coming(n) ==
  \/ n \in Queued \cup MsgsOf(staged)
  \/ \E r \in Runs : Live(r) /\ n \in Holding(run[r])

\* In s, nothing typed after n stands before it ...
InTurn(s, n) == \A i, j \in DOMAIN s : i < j /\ s[j].m = n => s[i].m <= n

\* ... and if s holds something typed after n, n is not to come from elsewhere.
Later(s, n)  == \E k \in MsgsOf(s) : n < k
Passed(s, n) == Later(s, n) /\ Coming(n) => n \in MsgsOf(s) \cup MsgsOf(heard)

\* While n is queued, what was typed after it has a higher position.
Placed(n) ==
  n \in Queued =>
    /\ \A k \in Added : n < k => msg[n].pos < msg[k].pos
    /\ req # None /\ req.op = "add" => msg[n].pos < req.pos

\* What the live run has in hand: a claimed row n is in its queue, and it claims
\* nothing typed after a pending n.
InHand(e, n) ==
  /\ InTurn(e.queue, n) /\ InTurn(Carried(e), n) /\ InTurn(e.rows, n)
  /\ Passed(Carried(e), n) /\ Passed(e.rows, n)
  /\ Later(e.queue, n) => n \notin Pending
  /\ e.cand # None => e.cand \in Added /\ (n < e.cand => n \notin Pending)
  /\ e.pc \in {"loading", "setup"} \cup Executing /\ n \in Queued \ Pending
       => n \in MsgsOf(e.queue)

Timely(n) ==
  /\ InTurn(heard, n) /\ InTurn(staged, n)
  /\ Passed(heard, n) /\ Passed(staged, n)
  /\ Placed(n)
  /\ \A r \in Runs : Live(r) => InHand(run[r], n)

OrderInv == moved \/ crowded \/ \A n \in Fair : Timely(n)

\* Between the consumption of the staged text and the drain, none is staged.
Bare(e) ==
  /\ e.pc \in {"starting", "exec", "posting", "ended", "draining"} => MsgsOf(staged) = {}
  /\ e.pc = "draining" => MsgsOf(e.saw) = {}

BareInv == crowded \/ \A r \in Runs : Live(r) => Bare(run[r])

-----------------------------------------------------------------------------
(***************************************************************************)
(* Texts that hold a follow-up in its turn.                                *)
(***************************************************************************)
LEMMA TextIsNat == \A x \in Text : x.m \in Nat
<1>1. Msgs \subseteq Nat  BY SteeringAssumption DEF Msgs
<1>2. \A x \in FollowUps : x.m \in Nat  BY <1>1 DEF FollowUps
<1>3. Typed.m \in Nat  BY DEF Typed
<1> QED  BY <1>2, <1>3 DEF Text

LEMMA InTurnNone ==
  ASSUME NEW s, NEW n \in Msgs, n \notin MsgsOf(s)
  PROVE  InTurn(s, n)
<1>1. n # 0  BY DEF Msgs
<1> QED  BY <1>1 DEF InTurn, MsgsOf

LEMMA InTurnEmpty == \A n : InTurn(<<>>, n) /\ ~Later(<<>>, n)
BY MsgsEmpty DEF InTurn, Later

LEMMA NotLater ==
  ASSUME NEW s \in Seq(Text), NEW n \in Msgs, ~Later(s, n)
  PROVE  \A i \in DOMAIN s : s[i].m <= n
<1> SUFFICES ASSUME NEW i \in DOMAIN s  PROVE s[i].m <= n  OBVIOUS
<1>1. s[i] \in Text  OBVIOUS
<1>2. s[i].m \in Nat /\ n \in Nat \ {0}  BY <1>1, TextIsNat, SteeringAssumption DEF Msgs
<1>3. CASE s[i].m = 0  BY <1>2, <1>3
<1>4. CASE s[i].m # 0
  <2>1. s[i].m \in MsgsOf(s)  BY <1>4 DEF MsgsOf
  <2>2. ~(n < s[i].m)  BY <2>1 DEF Later
  <2> QED  BY <1>2, <2>2
<1> QED  BY <1>3, <1>4

LEMMA InTurnConcat ==
  ASSUME NEW s \in Seq(Text), NEW t \in Seq(Text), NEW n \in Msgs,
         InTurn(s, n), InTurn(t, n), n \in MsgsOf(t) => ~Later(s, n)
  PROVE  InTurn(s \o t, n)
<1>1. /\ Len(s) \in Nat /\ Len(t) \in Nat /\ DOMAIN s = 1..Len(s) /\ DOMAIN t = 1..Len(t)
      /\ DOMAIN (s \o t) = 1..(Len(s) + Len(t))
      /\ \A i \in 1..Len(s) : (s \o t)[i] = s[i]
  OBVIOUS
<1>2. \A i \in DOMAIN (s \o t) :
        i \in 1..Len(s) \/ (i - Len(s) \in 1..Len(t) /\ (s \o t)[i] = t[i - Len(s)])
  OBVIOUS
<1>3. \A i \in 1..Len(t) : t[i].m = n => n \in MsgsOf(t)  BY <1>1 DEF MsgsOf, Msgs
<1> SUFFICES ASSUME NEW i \in DOMAIN (s \o t), NEW j \in DOMAIN (s \o t), i < j,
                    (s \o t)[j].m = n
             PROVE  (s \o t)[i].m <= n
  BY DEF InTurn
<1>4. CASE j \in 1..Len(s)
  <2>1. i \in 1..Len(s)  BY <1>1, <1>4
  <2> QED  BY <1>1, <1>4, <2>1 DEF InTurn
<1>5. CASE j - Len(s) \in 1..Len(t) /\ (s \o t)[j] = t[j - Len(s)]
  <2>1. CASE i \in 1..Len(s)
    <3>1. ~Later(s, n)  BY <1>3, <1>5
    <3> QED  BY <1>1, <2>1, <3>1, NotLater
  <2>2. CASE i - Len(s) \in 1..Len(t) /\ (s \o t)[i] = t[i - Len(s)]
    <3>1. i - Len(s) < j - Len(s)  BY <1>1
    <3> QED  BY <1>1, <1>5, <2>2, <3>1 DEF InTurn
  <2> QED  BY <1>2, <2>1, <2>2
<1> QED  BY <1>2, <1>4, <1>5

LEMMA InTurnAppend ==
  ASSUME NEW s \in Seq(Text), NEW x \in Text, NEW n \in Msgs,
         InTurn(s, n), x.m = n => ~Later(s, n)
  PROVE  InTurn(Append(s, x), n)
<1>1. /\ DOMAIN s = 1..Len(s) /\ DOMAIN Append(s, x) = 1..(Len(s) + 1) /\ Len(s) \in Nat
      /\ \A i \in 1..Len(s) : Append(s, x)[i] = s[i]
      /\ Append(s, x)[Len(s) + 1] = x
  OBVIOUS
<1> SUFFICES ASSUME NEW i \in DOMAIN Append(s, x), NEW j \in DOMAIN Append(s, x), i < j,
                    Append(s, x)[j].m = n
             PROVE  Append(s, x)[i].m <= n
  BY DEF InTurn
<1>2. i \in 1..Len(s) /\ i \in DOMAIN s  BY <1>1
<1>3. CASE j \in 1..Len(s)  BY <1>1, <1>2, <1>3 DEF InTurn
<1>4. CASE j = Len(s) + 1
  <2>1. ~Later(s, n)  BY <1>1, <1>4
  <2> QED  BY <1>1, <1>2, <2>1, NotLater
<1> QED  BY <1>1, <1>3, <1>4

LEMMA InTurnTail ==
  ASSUME NEW s \in Seq(Text), s # <<>>, NEW n \in Msgs, InTurn(s, n)
  PROVE  /\ InTurn(Tail(s), n)
         /\ n \in MsgsOf(s) => Head(s).m <= n
<1>1. /\ Head(s) = s[1] /\ Len(s) \in Nat /\ Len(s) # 0
      /\ DOMAIN s = 1..Len(s) /\ DOMAIN Tail(s) = 1..(Len(s) - 1)
      /\ \A i \in 1..(Len(s) - 1) : Tail(s)[i] = s[i + 1]
  BY HeadTailProperties, EmptySeq
<1>2. \A i \in DOMAIN Tail(s) : i \in Nat /\ i + 1 \in DOMAIN s /\ Tail(s)[i] = s[i + 1]
  BY <1>1
<1>3. InTurn(Tail(s), n)
  <2> SUFFICES ASSUME NEW i \in DOMAIN Tail(s), NEW j \in DOMAIN Tail(s), i < j,
                      Tail(s)[j].m = n
               PROVE  Tail(s)[i].m <= n
    BY DEF InTurn
  <2>1. i + 1 < j + 1  BY <1>2
  <2> QED  BY <1>2, <2>1 DEF InTurn
<1>4. ASSUME n \in MsgsOf(s)  PROVE Head(s).m <= n
  <2>1. PICK j \in DOMAIN s : s[j].m = n  BY <1>4 DEF MsgsOf
  <2>2. 1 \in DOMAIN s /\ (j = 1 \/ 1 < j)  BY <1>1
  <2>3. n <= n  BY SteeringAssumption DEF Msgs
  <2> QED  BY <1>1, <2>1, <2>2, <2>3 DEF InTurn
<1> QED  BY <1>3, <1>4

LEMMA InTurnFollowUps ==
  ASSUME NEW s \in Seq(Text), NEW n \in Msgs, InTurn(s, n)
  PROVE  InTurn(FollowUpsIn(s), n)
<1>1. CASE s # <<>> /\ Head(s) = Typed  BY <1>1, InTurnTail DEF FollowUpsIn
<1>2. CASE ~(s # <<>> /\ Head(s) = Typed)  BY <1>2 DEF FollowUpsIn
<1> QED  BY <1>1, <1>2

-----------------------------------------------------------------------------
(***************************************************************************)
(* Between the consumption and the drain nothing is staged.                *)
(***************************************************************************)

\* Only an executor that returns leaves its run at the drain.
LEMMA EndsFrom ==
  ASSUME IInv, NEW r \in Runs, Ends(r), run'[r].pc = "ended"
  PROVE  run[r].pc \in Executing
<1>1. ASSUME NEW pc \in {"landing", "done", "killed"}, run' = [run EXCEPT ![r] = Reset(r, pc)]
      PROVE  FALSE
  <2>1. pc \in Pcs  BY DEF Pcs, Flights
  <2>2. Stands(r, pc, "none", None)  BY <1>1, <2>1, ResetEffect DEF IInv
  <2> QED  BY <2>2 DEF Stands
<1>2. CASE RunFails(r) \/ Kill(r) \/ AutoContinue(r) \/ LeaveStaged(r)
  BY <1>1, <1>2 DEF RunFails, Kill, AutoContinue, LeaveStaged
<1>3. CASE ReadQueue(r) /\ run' = [run EXCEPT ![r] = Reset(r, "landing")]
  BY <1>1, <1>3
<1>4. CASE Land(r)
  <2>1. "done" \in Pcs  BY DEF Pcs
  <2>2. Stands(r, "done", run[r].exit, run[r].cand)
    BY <1>4, <2>1, StepEffect DEF Land, Step, IInv
  <2> QED  BY <2>2 DEF Stands
<1>5. CASE AgentFails(r) \/ PostTimesOut(r) \/ Stop(r) \/ StreamEnds(r) \/ ReadIdle(r)
  BY <1>5 DEF AgentFails, PostTimesOut, Posted, Stop, StreamEnds, ReadIdle, Executing
<1> QED  BY <1>2, <1>3, <1>4, <1>5 DEF Ends

LEMMA BareRun ==
  ASSUME IInv, IInv', DropInv, ~crowded, NEW r \in Runs, RunAct(r), Bare(run[r])
  PROVE  Bare(run[r])'
<1>1. Live(r)  BY RunActs
<1>2. CASE Stays(r)
  BY <1>2, StaysEffect DEF Bare, HoldsStill, Holds
<1>3. CASE Ends(r)
  <2>1. run'[r].pc \in Over /\ staged' = staged  BY <1>3, EndsEffect
  <2> QED  BY <1>3, <2>1, EndsFrom DEF Bare, Over, Executing
<1>4. CASE Load(r)
  BY <1>4, LoadEffect DEF Load, IInv, Bare, Stands
<1>5. CASE Consume(r)
  <2>1. "starting" \in Pcs  BY DEF Pcs, Flights, Executing
  <2>2. run'[r].pc = "starting"
    BY <1>5, <2>1, StepEffect DEF IInv, Consume, Step, Stands
  <2>3. MsgsOf(staged) \subseteq MsgsOf(run[r].prompt)
    BY <1>1, <1>5 DEF Consume, Step, DropInv, Loaded
  <2>4. MsgsOf(staged') = {}  BY <1>5, <2>3, MsgsEmpty DEF Consume
  <2> QED  BY <2>2, <2>4 DEF Bare
<1>6. CASE Prompt(r)
  BY <1>6, PromptEffect DEF Prompt, IInv, Bare, Stands
<1>7. CASE Post(r)
  BY <1>7, PostEffect DEF Post, IInv, Bare, Stands
<1>8. CASE Confirm(r) \/ ConfirmFails(r)
  <2>1. Stands(r, "exec", run[r].exit, run[r].cand) /\ run[r].pc = "posting"
    BY <1>8, PostedRun, TakenEffect DEF Confirm, ConfirmFails, IInv
  <2> QED  BY <1>8, <2>1 DEF Confirm, ConfirmFails, Bare, Stands
<1>9. CASE Claim(r) /\ Claimable(run[r].cand)
  <2>1. Stands(r, run[r].pc, run[r].exit, None) /\ run[r].pc \in Executing
    BY <1>9, ClaimedRun
  <2> QED  BY <1>9, <2>1 DEF Claim, Bare, Stands, Executing
<1>10. CASE ReadQueue(r) /\ ~(run' = [run EXCEPT ![r] = Reset(r, "landing")])
  <2>1. /\ run[r].pc = "ended" /\ staged' = staged
        /\ run'[r].pc = "draining" /\ run'[r].saw = staged
    BY <1>10, DrainingRun DEF Stands, Holds
  <2> QED  BY <2>1 DEF Bare
<1>11. CASE AppendStaged(r)
  BY <1>11, StagingRun DEF Bare, Stands
<1>12. CASE DropRows(r)
  BY <1>12, DroppingRun DEF Bare, Stands
<1> QED
  BY <1>2, <1>3, <1>4, <1>5, <1>6, <1>7, <1>8, <1>9, <1>10, <1>11, <1>12, StaysOrEnds

LEMMA BareStep == IInv /\ IInv' /\ Alone /\ DropInv /\ BareInv /\ [Next]_vars => BareInv'
<1> SUFFICES ASSUME IInv, IInv', Alone, DropInv, BareInv, [Next]_vars, ~crowded',
                    NEW q \in Runs, Live(q)'
             PROVE  Bare(run[q])'
  BY DEF BareInv
<1>1. ASSUME NEW r \in Runs, RunAct(r)  PROVE Bare(run[q])'
  <2>1. OnlyRun(r) /\ Live(r) /\ ~crowded  BY <1>1, RunActs
  <2>2. q = r  BY <2>1, SoloRun DEF OnlyRun, Live, Solo
  <2>3. Bare(run[r])  BY <2>1 DEF BareInv
  <2> QED  BY <1>1, <2>1, <2>2, <2>3, BareRun
<1>2. CASE Outside
  <2>1. run'[q].pc = run[q].pc /\ HoldsStill(q) /\ ~crowded  BY <1>2, OutsideRuns
  <2>2. Live(q)  BY <2>1 DEF Live
  <2>3. Bare(run[q])  BY <2>1, <2>2 DEF BareInv
  <2>4. MsgsOf(staged') \subseteq MsgsOf(staged)  BY <1>2, OutsideEffect
  <2> QED  BY <2>1, <2>3, <2>4 DEF Bare, HoldsStill, Holds
<1>3. CASE Pick
  <2>1. staged' = staged  BY <1>3 DEF Pick
  <2>2. CASE UNCHANGED <<run, crowded>>
    <3>1. run'[q] = run[q] /\ Live(q) /\ ~crowded  BY <2>2 DEF Live
    <3>2. Bare(run[q])  BY <3>1 DEF BareInv
    <3> QED  BY <2>1, <3>1, <3>2 DEF Bare
  <2>3. ASSUME NEW r \in Runs, Stands(r, "loading", run[r].exit, run[r].cand),
               \A p \in Runs : ~Live(p)
        PROVE  Bare(run[q])'
    <3>1. q = r  BY <2>3 DEF Stands, OnlyRun, Live
    <3> QED  BY <2>3, <3>1 DEF Bare, Stands
  <2> QED  BY <1>3, <2>2, <2>3, PickEffect
<1> QED  BY <1>1, <1>2, <1>3, Steps

LEMMA BareInit == Init => BareInv
BY DEF Init, BareInv, Live, Idle, Flights, Executing

-----------------------------------------------------------------------------
(***************************************************************************)
(* Every follow-up stays in its turn.                                      *)
(***************************************************************************)
LEMMA RunLeaves ==
  ASSUME NEW r \in Runs, RunAct(r)
  PROVE  UNCHANGED <<req, moved, overlooked>>
<1>1. CASE Proceed(r)
  BY <1>1 DEF Proceed, Load, Consume, Prompt, Post, Confirm, ReadIdle, Stop, StreamEnds,
              ReadQueue, AutoContinue, LeaveStaged, Land, Private, history
<1>2. CASE Select(r) \/ SeeCancel(r) \/ AgentTurn(r)
  BY <1>2 DEF Select, SeeCancel, AgentTurn, Private, history
<1>3. CASE RunFails(r) \/ ConfirmFails(r) \/ PostTimesOut(r) \/ AgentFails(r) \/ Kill(r)
  BY <1>3 DEF RunFails, ConfirmFails, PostTimesOut, AgentFails, Kill, history
<1>4. CASE Claim(r) \/ AppendStaged(r) \/ DropRows(r)
  BY <1>4 DEF Claim, AppendStaged, DropRows, history
<1> QED  BY <1>1, <1>2, <1>3, <1>4 DEF RunAct

\* While r is the only live run, what is to come is queued, staged or in r.
LEMMA SoloComing ==
  ASSUME NEW r \in Runs, Solo(r), OnlyRun(r), NEW n, Coming(n)'
  PROVE  \/ n \in Queued' \/ n \in MsgsOf(staged')
         \/ Live(r)' /\ n \in Holding(run[r])'
<1>1. ASSUME NEW q \in Runs, Live(q)'  PROVE q = r
  BY <1>1 DEF OnlyRun, Live, Solo
<1> QED  BY <1>1 DEF Coming

LEMMA SoloTimely ==
  ASSUME NEW r \in Runs, Solo(r), OnlyRun(r), NEW n,
         InTurn(heard', n), InTurn(staged', n), Passed(heard, n)', Passed(staged, n)',
         Placed(n)', Live(r)' => InHand(run[r], n)'
  PROVE  Timely(n)'
<1>1. ASSUME NEW q \in Runs, Live(q)'  PROVE q = r
  BY <1>1 DEF OnlyRun, Live, Solo
<1> QED  BY <1>1 DEF Timely

\* A step that POSTs nothing, and after which no more is to come.
LEMMA SoloLess ==
  ASSUME NEW r \in Runs, Solo(r), OnlyRun(r), NEW n, Timely(n), heard' = heard,
         Coming(n)' => Coming(n), InTurn(staged', n), Passed(staged, n)',
         Placed(n)', Live(r)' => InHand(run[r], n)'
  PROVE  Timely(n)'
<1>1. InTurn(heard', n) /\ Passed(heard, n)'  BY DEF Timely, Passed
<1> QED  BY <1>1, SoloTimely

LEMMA PlacedKept ==
  ASSUME IInv, RowsWell, req' \in {req, None}, NEW n, n \in Queued' => n \in Queued, Placed(n)
  PROVE  Placed(n)'
<1>1. Added' = Added  BY DEF RowsWell, Added
<1>2. \A k \in Msgs : msg'[k].pos = msg[k].pos  BY DEF RowsWell
<1>3. Queued \subseteq Msgs /\ Added \subseteq Msgs  BY DEF Queued, InState, Added
<1> QED  BY <1>1, <1>2, <1>3 DEF Placed

LEMMA InHandOf ==
  ASSUME NEW r \in Runs, Live(r), NEW n, Timely(n)
  PROVE  /\ InHand(run[r], n) /\ Placed(n)
         /\ InTurn(heard, n) /\ InTurn(staged, n) /\ Passed(heard, n) /\ Passed(staged, n)
BY DEF Timely

\* Nothing is in hand in a run that is over.
LEMMA EmptyHand ==
  ASSUME IInv', NEW r \in Runs, run'[r].pc \in Over \cup {"loading", "deciding"}, NEW n,
         run'[r].pc = "loading" => n \notin Queued' \/ n \in Pending'
  PROVE  InHand(run[r], n)' /\ Holding(run[r])' = {}
<1>1. Shape(run'[r])  BY DEF IInv, Shapes
<1>2. /\ run'[r].queue = <<>> /\ run'[r].rows = <<>>
      /\ Carried(run[r])' = <<>> /\ run'[r].cand = None
  BY <1>1 DEF Shape, Over, Executing, Carried
<1>3. run'[r].pc \notin {"setup"} \cup Executing  BY DEF Over, Executing
<1>4. Holding(run[r])' = {}  BY <1>2, MsgsEmpty DEF Holding
<1> QED  BY <1>2, <1>3, <1>4, InTurnEmpty DEF InHand, Passed

\* What a watcher may have selected.
LEMMA StaysCand ==
  ASSUME IInv, NEW r \in Runs, Stays(r)
  PROVE  \/ run'[r].cand \in {run[r].cand, None}
         \/ /\ run'[r].cand \in Pending
            /\ \A k \in Pending \ {run'[r].cand} : Before(run'[r].cand, k)
<1>1. CASE Select(r)
  <2>1. PICK m \in Pending : /\ \A k \in Pending \ {m} : Before(m, k)
                             /\ run' = [run EXCEPT ![r].cand = m]
    BY <1>1 DEF Select
  <2>2. m \in Msgs  BY DEF Pending, InState
  <2>3. run'[r].cand = m  BY <2>1, <2>2, SelectEffect DEF IInv, Stands
  <2> QED  BY <2>1, <2>3
<1>2. CASE SeeCancel(r)
  BY <1>2, SignalEffect DEF SeeCancel, IInv, Stands
<1>3. CASE AgentTurn(r)
  BY <1>3, TurnEffect DEF AgentTurn, IInv, Stands
<1>4. CASE ReadIdle(r) /\ ~Return(r, "success")
  <2>1. /\ run[r].idles > 0
        /\ run' = [run EXCEPT ![r].injected = FALSE, ![r].idles = @ - 1]
    BY <1>4 DEF ReadIdle
  <2> QED  BY <2>1, IdleEffect DEF IInv, Stands
<1>5. CASE Claim(r) /\ ~Claimable(run[r].cand)
  <2>1. run' = [run EXCEPT ![r].cand = None]  BY <1>5 DEF Claim
  <2> QED  BY <2>1, LeaveEffect DEF IInv, Stands
<1> QED  BY <1>1, <1>2, <1>3, <1>4, <1>5 DEF Stays

\* A follow-up that was typed later is not selected before a pending one.
LEMMA PlacedBefore ==
  ASSUME IInv, NEW n \in Queued, NEW m \in Added, Placed(n), Before(m, n)
  PROVE  m <= n
<1>1. n \in Msgs /\ m \in Msgs  BY DEF Queued, InState, Added
<1>2. msg[n].pos \in Nat /\ msg[m].pos \in Nat
  BY <1>1, AddedFacts, SteeringAssumption
<1>3. n \in Nat /\ m \in Nat  BY <1>1, SteeringAssumption DEF Msgs
<1> QED  BY <1>2, <1>3 DEF Placed, Before

LEMMA TimelyStays ==
  ASSUME IInv, IInv', NEW r \in Runs, Solo(r), Stays(r), NEW n \in Msgs, Timely(n)
  PROVE  Timely(n)'
<1>1. run'[r].pc = run[r].pc /\ HoldsStill(r) /\ UNCHANGED <<staged, msg, heard>>
  BY StaysEffect DEF history
<1>2. OnlyRun(r) /\ Live(r) /\ req' = req  BY StaysAct, RunActs, RunLeaves
<1>3. Queued' = Queued /\ Pending' = Pending /\ RowsWell  BY <1>1, QueueStays, Untouched
<1>4. InHand(run[r], n) /\ Placed(n) /\ InTurn(staged, n) /\ Passed(staged, n)
  BY <1>2, InHandOf
<1>5. Carried(run[r])' = Carried(run[r]) /\ Holding(run[r])' = Holding(run[r])
  BY <1>1 DEF Carried, Holding, HoldsStill, Holds
<1>6. Coming(n)' => Coming(n)
  BY <1>1, <1>2, <1>3, <1>5, SoloComing DEF Coming
<1>7. Added' = Added  BY <1>3 DEF RowsWell, Added
<1>8. run'[r].cand # None => run'[r].cand \in Added /\ (n < run'[r].cand => n \notin Pending)
  <2>1. CASE run'[r].cand \in {run[r].cand, None}  BY <1>4, <2>1 DEF InHand
  <2>2. ASSUME NEW m \in Pending, m = run'[r].cand, \A k \in Pending \ {m} : Before(m, k)
        PROVE  m \in Added /\ (n < m => n \notin Pending)
    <3>1. m \in Added  BY AddedFacts
    <3>2. ASSUME n < m, n \in Pending  PROVE FALSE
      <4>1. n \in Queued /\ m \in Nat /\ n \in Nat
        BY <3>2, SteeringAssumption DEF Queued, Pending, InState, Msgs
      <4>2. n \in Pending \ {m}  BY <3>2, <4>1
      <4>3. m <= n  BY <1>4, <2>2, <3>1, <4>1, <4>2, PlacedBefore
      <4> QED  BY <3>2, <4>1, <4>3
    <3> QED  BY <3>1, <3>2
  <2> QED  BY <2>1, <2>2, StaysCand
<1>9. InHand(run[r], n)'
  BY <1>1, <1>3, <1>4, <1>5, <1>6, <1>7, <1>8 DEF InHand, Passed, HoldsStill, Holds
<1>10. Placed(n)'  BY <1>2, <1>3, <1>4, PlacedKept
<1>11. InTurn(staged', n) /\ Passed(staged, n)'  BY <1>1, <1>4, <1>6 DEF Passed
<1> QED  BY <1>1, <1>2, <1>6, <1>9, <1>10, <1>11, SoloLess

LEMMA TimelyEnds ==
  ASSUME IInv, IInv', NEW r \in Runs, Solo(r), Ends(r), NEW n \in Msgs, Timely(n)
  PROVE  Timely(n)'
<1>1. run'[r].pc \in Over /\ UNCHANGED <<staged, msg, heard>>  BY EndsEffect
<1>2. OnlyRun(r) /\ Live(r) /\ req' = req  BY StaysAct, RunActs, RunLeaves
<1>3. Queued' = Queued /\ RowsWell  BY <1>1, QueueStays, Untouched
<1>4. Placed(n) /\ InTurn(staged, n) /\ Passed(staged, n)  BY <1>2, InHandOf
<1>5. InHand(run[r], n)' /\ Holding(run[r])' = {}  BY <1>1, EmptyHand DEF Over
<1>6. Coming(n)' => Coming(n)  BY <1>1, <1>2, <1>3, <1>5, SoloComing DEF Coming
<1>7. Placed(n)'  BY <1>2, <1>3, <1>4, PlacedKept
<1>8. InTurn(staged', n) /\ Passed(staged, n)'  BY <1>1, <1>4, <1>6 DEF Passed
<1> QED  BY <1>1, <1>2, <1>5, <1>6, <1>7, <1>8, SoloLess

LEMMA TimelyLoad ==
  ASSUME IInv, IInv', NEW r \in Runs, Solo(r), Load(r), NEW n \in Msgs, Timely(n)
  PROVE  Timely(n)'
<1>1. /\ Stands(r, "setup", run[r].exit, run[r].cand)
      /\ Holds(r, staged, run[r].queue, run[r].rows, run[r].saw)
  BY LoadEffect DEF IInv, Load
<1>2. OnlyRun(r) /\ Live(r) /\ UNCHANGED <<staged, msg, heard, req>>
  BY RunActs DEF Load, RunAct, Proceed, Private, history
<1>3. Queued' = Queued /\ Pending' = Pending /\ RowsWell  BY <1>2, QueueStays, Untouched
<1>4. /\ run[r].pc = "loading" /\ run[r].queue = <<>> /\ run[r].rows = <<>>
      /\ run[r].cand = None
  BY RunOf DEF Load, Shape, Executing
<1>5. InHand(run[r], n) /\ Placed(n) /\ InTurn(staged, n) /\ Passed(staged, n)
  BY <1>2, InHandOf
<1>6. Carried(run[r])' = staged  BY <1>1 DEF Carried, Stands, Holds
<1>7. Coming(n)' => Coming(n)
  <2>1. Holding(run[r])' = MsgsOf(staged)
    BY <1>1, <1>4, <1>6, MsgsEmpty DEF Holding, Holds
  <2> QED  BY <1>2, <1>3, <2>1, SoloComing DEF Coming
<1>8. InTurn(staged', n) /\ Passed(staged, n)'  BY <1>2, <1>5, <1>7 DEF Passed
<1>9. Passed(Carried(run[r]), n)'  BY <1>2, <1>6, <1>8 DEF Passed
<1>10. n \in Queued /\ n \notin Pending => n \in MsgsOf(run[r].queue)
  BY <1>4, <1>5 DEF InHand
<1>11. InHand(run[r], n)'
  BY <1>1, <1>3, <1>4, <1>5, <1>6, <1>9, <1>10, InTurnEmpty DEF InHand, Passed, Stands, Holds
<1>12. Placed(n)'  BY <1>2, <1>3, <1>5, PlacedKept
<1> QED  BY <1>2, <1>7, <1>8, <1>11, <1>12, SoloLess

LEMMA TimelyConsume ==
  ASSUME IInv, IInv', NEW r \in Runs, Solo(r), Consume(r), NEW n \in Msgs, Timely(n)
  PROVE  Timely(n)'
<1>1. Stands(r, "starting", run[r].exit, run[r].cand) /\ HoldsStill(r)
  <2>1. "starting" \in Pcs  BY DEF Pcs, Flights, Executing
  <2> QED  BY <2>1, StepEffect DEF IInv, Consume, Step
<1>2. OnlyRun(r) /\ Live(r) /\ UNCHANGED <<msg, heard, req>>
  BY RunActs DEF Consume, RunAct, Proceed, history
<1>3. Queued' = Queued /\ Pending' = Pending /\ RowsWell
  BY <1>2, Untouched DEF Queued, Pending, InState
<1>4. run[r].pc = "setup" /\ run[r].cand = None  BY DEF Consume, Step
<1>5. InHand(run[r], n) /\ Placed(n) /\ InTurn(staged, n) /\ Passed(staged, n)
  BY <1>2, InHandOf
<1>6. /\ Carried(run[r])' = Carried(run[r])
      /\ Holding(run[r])' = Holding(run[r])
  BY <1>1, <1>4 DEF Carried, Holding, Stands, HoldsStill, Holds
<1>7. staged' = staged \/ staged' = <<>>  BY DEF Consume
<1>8. MsgsOf(staged') \subseteq MsgsOf(staged)  BY <1>7, MsgsEmpty
<1>9. Coming(n)' => Coming(n)  BY <1>2, <1>3, <1>6, <1>8, SoloComing DEF Coming
<1>10. InTurn(staged', n) /\ Passed(staged, n)'
  BY <1>2, <1>5, <1>7, <1>9, InTurnEmpty DEF Passed
<1>11. Added' = Added  BY <1>3 DEF RowsWell, Added
<1>12. InHand(run[r], n)'
  BY <1>1, <1>2, <1>3, <1>4, <1>5, <1>6, <1>9, <1>11
     DEF InHand, Passed, Stands, HoldsStill, Holds
<1>13. Placed(n)'  BY <1>2, <1>3, <1>5, PlacedKept
<1> QED  BY <1>2, <1>9, <1>10, <1>12, <1>13, SoloLess

LEMMA TimelyPrompt ==
  ASSUME IInv, IInv', NEW r \in Runs, Solo(r), Prompt(r), NEW n \in Msgs, Timely(n), Single(n)
  PROVE  Timely(n)'
<1>1. /\ Stands(r, "exec", run[r].exit, run[r].cand)
      /\ Holds(r, <<>>, run[r].queue, run[r].rows, run[r].saw)
  BY PromptEffect DEF IInv, Prompt
<1>2. OnlyRun(r) /\ Live(r) /\ UNCHANGED <<msg, staged, req>>
  BY RunActs DEF Prompt, RunAct, Proceed
<1>3. Queued' = Queued /\ Pending' = Pending /\ RowsWell  BY <1>2, QueueStays, Untouched
<1>4. run[r].pc = "starting" /\ run[r].rows = <<>>
  BY RunOf DEF Prompt, Shape
<1>5. /\ InHand(run[r], n) /\ Placed(n) /\ InTurn(heard, n) /\ Passed(heard, n)
      /\ InTurn(staged, n) /\ Passed(staged, n)
  BY <1>2, InHandOf
<1>6. Carried(run[r]) = run[r].prompt /\ Carried(run[r])' = <<>>
  BY <1>1, <1>4 DEF Carried, Stands, Holds
<1>7. Coming(n)' => Coming(n)
  <2>1. Holding(run[r])' \subseteq Holding(run[r])
    BY <1>1, <1>6, MsgsEmpty DEF Holding, Holds
  <2> QED  BY <1>2, <1>3, <2>1, SoloComing DEF Coming
<1>8. PICK s : s = FollowUpsIn(run[r].prompt)  OBVIOUS
<1>9. /\ s \in Seq(Text) /\ heard \in Seq(Text) /\ heard' = heard \o s
      /\ MsgsOf(s) = MsgsOf(run[r].prompt)
      /\ MsgsOf(heard') = MsgsOf(heard) \cup MsgsOf(run[r].prompt)
      /\ InTurn(s, n)
  <2>1. run[r].prompt \in Texts /\ run[r].prompt \in Seq(Text)  BY RunOf DEF Shape, Texts
  <2>2. s \in Seq(FollowUps) /\ MsgsOf(s) = MsgsOf(run[r].prompt)
    BY <1>8, <2>1, FollowUpsInTexts
  <2>3. s \in Seq(Text) /\ heard \in Seq(Text)  BY <2>2, RunOf, FollowUpsAreTexts
  <2>4. heard' = heard \o s  BY <1>8 DEF Prompt
  <2>5. MsgsOf(heard') = MsgsOf(heard) \cup MsgsOf(s)  BY <2>3, <2>4, MsgsConcat
  <2>6. InTurn(run[r].prompt, n)  BY <1>5, <1>6 DEF InHand
  <2> QED  BY <1>8, <2>1, <2>2, <2>3, <2>4, <2>5, <2>6, InTurnFollowUps
<1>10. n \in MsgsOf(s) => ~Later(heard, n)
  <2>1. n \in MsgsOf(s) => Coming(n)  BY <1>2, <1>6, <1>9 DEF Coming, Holding
  <2>2. n \in MsgsOf(s) => n \notin MsgsOf(heard)
    BY <1>2, <1>6, <1>9, SoloHolds DEF HeldOnce
  <2> QED  BY <1>5, <2>1, <2>2 DEF Passed
<1>11. InTurn(heard', n)
  <2>1. InTurn(heard \o s, n)  BY <1>5, <1>9, <1>10, InTurnConcat
  <2> QED  BY <1>9, <2>1
<1>12. Passed(heard, n)'
  <2>1. Later(heard', n) => Later(heard, n) \/ Later(run[r].prompt, n)
    BY <1>9 DEF Later
  <2> QED  BY <1>5, <1>6, <1>7, <1>9, <2>1 DEF InHand, Passed
<1>13. InTurn(staged', n) /\ Passed(staged, n)'
  BY <1>2, <1>5, <1>7, <1>9 DEF Passed
<1>14. Added' = Added  BY <1>3 DEF RowsWell, Added
<1>15. InHand(run[r], n)'
  BY <1>1, <1>3, <1>4, <1>5, <1>6, <1>14, InTurnEmpty
     DEF InHand, Passed, Stands, Holds, Executing
<1>16. Placed(n)'  BY <1>2, <1>3, <1>5, PlacedKept
<1> QED  BY <1>2, <1>11, <1>12, <1>13, <1>15, <1>16, SoloTimely

LEMMA TimelyPost ==
  ASSUME IInv, IInv', NEW r \in Runs, Solo(r), Post(r), Bare(run[r]),
         NEW n \in Msgs, Timely(n), Single(n)
  PROVE  Timely(n)'
<1>1. Stands(r, "posting", run[r].exit, run[r].cand) /\ HoldsStill(r)
  BY PostEffect DEF IInv, Post
<1>2. OnlyRun(r) /\ Live(r) /\ UNCHANGED <<msg, staged, req>>
  BY RunActs DEF Post, RunAct, Proceed
<1>3. Queued' = Queued /\ Pending' = Pending /\ RowsWell  BY <1>2, QueueStays, Untouched
<1>4. /\ run[r].pc = "exec" /\ run[r].queue # <<>> /\ run[r].rows = <<>>
      /\ run[r].queue \in Seq(Text)
  BY RunOf, FollowUpsAreTexts DEF Post, Shape, RunRecords
<1>5. /\ InHand(run[r], n) /\ Placed(n) /\ InTurn(heard, n) /\ Passed(heard, n)
      /\ InTurn(staged, n) /\ MsgsOf(staged) = {}
  BY <1>2, <1>4, InHandOf DEF Bare
<1>6. Carried(run[r]) = <<>> /\ Carried(run[r])' = <<>>
  BY <1>1, <1>4 DEF Carried, Stands
<1>7. PICK x \in FollowUps : x = Head(run[r].queue) /\ x.m = Item(r)
  BY <1>4, HeadOfQueue DEF Item
<1>8. /\ heard \in Seq(Text) /\ x \in Text /\ heard' = Append(heard, x)
      /\ MsgsOf(heard') = MsgsOf(heard) \cup ({x.m} \ {0})
  <2>1. heard' = Append(heard, x)  BY <1>7 DEF Post
  <2>2. heard \in Seq(Text) /\ x \in Text  BY RunOf, FollowUpsAreTexts
  <2> QED  BY <2>1, <2>2, MsgsAppend
<1>9. x.m \in MsgsOf(run[r].queue)  BY <1>4, <1>7, HeadOfQueue
<1>10. InTurn(heard', n)
  <2>1. x.m = n => Coming(n)  BY <1>2, <1>9 DEF Coming, Holding
  <2>2. x.m = n => n \notin MsgsOf(heard)
    <3>1. HeldOnce(run[r], n)  BY <1>2, SoloHolds
    <3> QED  BY <1>4, <1>9, <3>1 DEF HeldOnce
  <2>3. x.m = n => ~Later(heard, n)  BY <1>5, <2>1, <2>2 DEF Passed
  <2>4. InTurn(Append(heard, x), n)  BY <1>5, <1>8, <2>3, InTurnAppend
  <2> QED  BY <1>8, <2>4
<1>11. Coming(n)' => n \in Queued \/ n \in MsgsOf(run[r].queue)
  <2>1. Holding(run[r])' = MsgsOf(run[r].queue)
    BY <1>1, <1>4, <1>6, MsgsEmpty DEF Holding, HoldsStill, Holds
  <2> QED  BY <1>2, <1>3, <1>5, <2>1, SoloComing
\* Nothing that is to come was typed before what is POSTed.
<1>12. Coming(n)' => ~(n < x.m)
  <2> SUFFICES ASSUME Coming(n)', n < x.m  PROVE FALSE  OBVIOUS
  <2>1. n \notin Pending  BY <1>5, <1>9 DEF InHand, Later
  <2>2. n \in MsgsOf(run[r].queue)
    BY <1>4, <1>5, <1>11, <2>1 DEF InHand, Executing
  <2>3. x.m <= n
    <3>1. InTurn(run[r].queue, n)  BY <1>5 DEF InHand
    <3> QED  BY <1>4, <1>7, <2>2, <3>1, InTurnTail
  <2>4. x.m \in Nat /\ n \in Nat  BY <1>8, TextIsNat, SteeringAssumption DEF Msgs
  <2> QED  BY <2>3, <2>4
<1>13. Passed(heard, n)'
  <2>1. Coming(n)' => Coming(n)  BY <1>2, <1>11 DEF Coming, Holding
  <2>2. Later(heard', n) => Later(heard, n) \/ n < x.m  BY <1>8 DEF Later
  <2> QED  BY <1>5, <1>8, <1>12, <2>1, <2>2 DEF Passed
<1>14. InTurn(staged', n) /\ Passed(staged, n)'
  BY <1>2, <1>5 DEF Passed, Later
<1>15. Added' = Added  BY <1>3 DEF RowsWell, Added
<1>16. InHand(run[r], n)'
  BY <1>1, <1>3, <1>4, <1>5, <1>6, <1>15, InTurnEmpty
     DEF InHand, Passed, Stands, HoldsStill, Holds, Executing
<1>17. Placed(n)'  BY <1>2, <1>3, <1>5, PlacedKept
<1> QED  BY <1>2, <1>10, <1>13, <1>14, <1>16, <1>17, SoloTimely

LEMMA TimelyTaken ==
  ASSUME IInv, IInv', NEW r \in Runs, Solo(r), Confirm(r) \/ ConfirmFails(r),
         NEW n \in Msgs \ suspect', Timely(n)
  PROVE  Timely(n)'
<1>1. run[r].pc = "posting" /\ run[r].queue # <<>> /\ Item(r) \in Added
  BY PostedRun DEF Confirm, ConfirmFails
<1>2. /\ Stands(r, "exec", run[r].exit, run[r].cand)
      /\ Holds(r, run[r].prompt, Tail(run[r].queue), run[r].rows, run[r].saw)
  BY <1>1, TakenEffect DEF Confirm, ConfirmFails, IInv
<1>3. OnlyRun(r) /\ Live(r) /\ UNCHANGED <<staged, heard, req>>
  BY RunActs DEF Confirm, ConfirmFails, RunAct, Proceed, history
<1>4. /\ RowsWell
      /\ n \in Queued' => n \in Queued /\ n # Item(r)
      /\ n \in Pending <=> n \in Pending' \/ (n \in Pending /\ n = Item(r))
  <2>1. CASE Confirm(r)
    <3>1. PICK k \in Added : k = Item(r) /\ MarkDelivered(k)  BY <1>1, <2>1 DEF Confirm
    <3> QED  BY <3>1, DeliveredQueued, DeliveredWell
  <2>2. CASE ConfirmFails(r)
    <3>1. UNCHANGED <<staged, msg>> /\ n # Item(r)  BY <2>2 DEF ConfirmFails
    <3> QED  BY <3>1, QueueStays, Untouched
  <2> QED  BY <2>1, <2>2
<1>5. /\ InHand(run[r], n) /\ Placed(n) /\ InTurn(staged, n) /\ Passed(staged, n)
  BY <1>3, InHandOf
<1>6. /\ run[r].rows = <<>> /\ Carried(run[r])' = <<>> /\ run[r].queue \in Seq(Text)
  BY <1>1, <1>2, RunOf, FollowUpsAreTexts DEF Shape, Carried, Stands, RunRecords
<1>7. /\ InTurn(Tail(run[r].queue), n)
      /\ MsgsOf(run[r].queue) = {Item(r)} \cup MsgsOf(Tail(run[r].queue))
  BY <1>1, <1>5, <1>6, InTurnTail, HeadOfQueue DEF InHand
<1>8. Coming(n)' => Coming(n)
  <2>1. Holding(run[r])' \subseteq Holding(run[r])
    BY <1>2, <1>6, <1>7, MsgsEmpty DEF Holding, Holds
  <2> QED  BY <1>3, <1>4, <2>1, SoloComing DEF Coming
<1>9. InTurn(staged', n) /\ Passed(staged, n)'  BY <1>3, <1>5, <1>8 DEF Passed
<1>10. Added' = Added  BY <1>4 DEF RowsWell, Added
<1>11. Later(Tail(run[r].queue), n) => n \notin Pending'
  BY <1>4, <1>5, <1>7 DEF InHand, Later
<1>12. n \in Queued' /\ n \notin Pending' => n \in MsgsOf(Tail(run[r].queue))
  BY <1>1, <1>4, <1>5, <1>7 DEF InHand, Executing
<1>13. InHand(run[r], n)'
  <2>1. run[r].cand # None => run[r].cand \in Added /\ (n < run[r].cand => n \notin Pending')
    BY <1>4, <1>5 DEF InHand
  <2> QED
    BY <1>2, <1>6, <1>7, <1>10, <1>11, <1>12, <2>1, InTurnEmpty DEF InHand, Passed, Stands, Holds
<1>14. Placed(n)'  BY <1>3, <1>4, <1>5, PlacedKept
<1> QED  BY <1>3, <1>8, <1>9, <1>13, <1>14, SoloLess

LEMMA TimelyClaim ==
  ASSUME IInv, IInv', NEW r \in Runs, Solo(r), Claim(r), Claimable(run[r].cand),
         NEW n \in Msgs, Timely(n)
  PROVE  Timely(n)'
<1>1. PICK m \in Pending, x \in FollowUps :
        /\ x.m = m /\ m \in Msgs /\ m = run[r].cand /\ msg' = Set({m}, "delivering")
        /\ run[r].pc \in Executing
        /\ Stands(r, run[r].pc, run[r].exit, None)
        /\ Holds(r, run[r].prompt, Append(run[r].queue, x), run[r].rows, run[r].saw)
  BY ClaimedRun
<1>2. OnlyRun(r) /\ Live(r) /\ UNCHANGED <<staged, heard, req>>
  BY RunActs DEF RunAct, Claim, history
<1>3. Queued' = Queued /\ Pending' = Pending \ {m} /\ m \in Queued /\ RowsWell
  <2>1. "delivering" \in States \ {"none"}  BY DEF States
  <2>2. m \in Queued /\ {m} \cap Msgs \subseteq Added
    BY <1>1, AddedFacts DEF Pending, Queued, InState
  <2> QED  BY <1>1, <2>1, <2>2, SetQueued, SetWell
<1>4. /\ run[r].queue \in Seq(FollowUps) /\ run[r].queue \in Seq(Text) /\ x \in Text
      /\ run[r].rows = <<>> /\ Carried(run[r])' = Carried(run[r])
  BY <1>1, RunOf, FollowUpsAreTexts
     DEF RunRecords, Shape, Executing, Carried, Stands, Holds
<1>5. /\ InHand(run[r], n) /\ Placed(n) /\ InTurn(staged, n) /\ Passed(staged, n)
  BY <1>2, InHandOf
<1>6. MsgsOf(Append(run[r].queue, x)) = MsgsOf(run[r].queue) \cup {m}
  <2>1. m # 0  BY <1>1 DEF Msgs
  <2> QED  BY <1>1, <1>4, <2>1, MsgsAppend
<1>7. Coming(n)' => Coming(n)
  <2>1. Holding(run[r])' = Holding(run[r]) \cup {m}
    BY <1>1, <1>4, <1>6 DEF Holding, Holds
  <2> QED  BY <1>2, <1>3, <2>1, SoloComing DEF Coming
<1>8. InTurn(staged', n) /\ Passed(staged, n)'  BY <1>2, <1>5, <1>7 DEF Passed
<1>9. InTurn(Append(run[r].queue, x), n)
  <2>1. x.m = n => ~Later(run[r].queue, n)  BY <1>1, <1>5 DEF InHand
  <2>2. InTurn(run[r].queue, n)  BY <1>5 DEF InHand
  <2> QED  BY <1>4, <2>1, <2>2, InTurnAppend
<1>10. Later(Append(run[r].queue, x), n) => n \notin Pending'
  <2>1. m # None => (n < m => n \notin Pending)  BY <1>1, <1>5 DEF InHand
  <2>2. m # None  BY <1>1, SteeringAssumption DEF Msgs
  <2> QED  BY <1>3, <1>5, <1>6, <2>1, <2>2 DEF InHand, Later
<1>11. n \in Queued' /\ n \notin Pending' => n \in MsgsOf(Append(run[r].queue, x))
  BY <1>1, <1>3, <1>5, <1>6 DEF InHand
<1>12. InHand(run[r], n)'
  BY <1>1, <1>2, <1>4, <1>5, <1>7, <1>9, <1>10, <1>11, InTurnEmpty, MsgsEmpty
     DEF InHand, Passed, Later, Stands, Holds
<1>13. Placed(n)'  BY <1>2, <1>3, <1>5, PlacedKept
<1> QED  BY <1>2, <1>7, <1>8, <1>12, <1>13, SoloLess

\* The drain reads every queued row, in delivery order.
LEMMA DrainedInOrder ==
  ASSUME IInv, NEW r \in Runs, ReadQueue(r),
         ~(run' = [run EXCEPT ![r] = Reset(r, "landing")])
  PROVE  \E rows \in Seq(FollowUps) :
           /\ run[r].pc = "ended" /\ UNCHANGED <<staged, msg, history>>
           /\ Stands(r, "draining", run[r].exit, None)
           /\ Holds(r, run[r].prompt, <<>>, rows, staged)
           /\ MsgsOf(rows) = Queued
           /\ \A i \in DOMAIN rows : rows[i].m \in Queued
           /\ \A i, j \in DOMAIN rows : i < j => Before(rows[i].m, rows[j].m)
<1>1. PICK order \in SetToSeqs(Drained) : \E rows \in Seq(FollowUps) :
        /\ rows = [i \in DOMAIN order |-> TextOf(order[i])]
        /\ DOMAIN order = 1..Cardinality(Drained)
        /\ \A i, j \in DOMAIN order : i # j => order[i] # order[j]
        /\ \A i \in DOMAIN order : order[i] \in Drained
        /\ \A i, j \in DOMAIN order : i < j => Before(order[i], order[j])
        /\ Stands(r, "draining", run[r].exit, None)
        /\ Holds(r, Unused(r), <<>>, rows, staged)
  BY ReadQueueEffect DEF IInv
<1>2. PICK rows \in Seq(FollowUps) :
        /\ rows = [i \in DOMAIN order |-> TextOf(order[i])]
        /\ DOMAIN order = 1..Cardinality(Drained)
        /\ \A i, j \in DOMAIN order : i # j => order[i] # order[j]
        /\ \A i \in DOMAIN order : order[i] \in Drained
        /\ \A i, j \in DOMAIN order : i < j => Before(order[i], order[j])
        /\ Stands(r, "draining", run[r].exit, None)
        /\ Holds(r, Unused(r), <<>>, rows, staged)
  BY <1>1
<1>3. run[r].pc = "ended" /\ UNCHANGED <<staged, msg, history>>
  BY DEF ReadQueue, Private
<1>4. Unused(r) = run[r].prompt  BY <1>3 DEF Unused
<1>5. /\ \A i \in DOMAIN rows : rows[i].m = order[i]
      /\ MsgsOf(rows) = {order[i] : i \in DOMAIN order}
  BY <1>2, DrainedRows DEF IInv
<1>6. DOMAIN rows = DOMAIN order  BY <1>2
<1>7. {order[i] : i \in DOMAIN order} = Drained
  <2>1. IsFiniteSet(Drained) /\ Cardinality(Drained) \in Nat
    <3>1. Drained \subseteq Msgs  BY DEF Drained, Queued, InState
    <3>2. IsFiniteSet(Msgs)  BY FS_Interval, SteeringAssumption DEF Msgs
    <3> QED  BY <3>1, <3>2, FS_Subset, FS_CardinalityType
  <2>2. PICK D : D = 1..Cardinality(Drained)  OBVIOUS
  <2>3. order \in [D -> Drained]  BY <2>2 DEF SetToSeqs
  <2>4. order \in Injection(D, Drained)
    BY <1>2, <2>2, <2>3 DEF Injection, IsInjective
  <2>5. Cardinality(D) = Cardinality(Drained)
    BY <2>1, <2>2, FS_Interval
  <2>6. order \in Surjection(D, Drained)  BY <2>1, <2>4, <2>5, FS_Injection
  <2>7. \A m \in Drained : \E i \in D : order[i] = m  BY <2>6 DEF Surjection
  <2> QED  BY <1>2, <2>2, <2>7
<1> QED  BY <1>2, <1>3, <1>4, <1>5, <1>6, <1>7 DEF Drained

LEMMA TimelyReadQueue ==
  ASSUME IInv, IInv', NEW r \in Runs, Solo(r), ReadQueue(r), Bare(run[r]),
         ~(run' = [run EXCEPT ![r] = Reset(r, "landing")]), NEW n \in Msgs, Timely(n)
  PROVE  Timely(n)'
<1>1. PICK rows \in Seq(FollowUps) :
        /\ run[r].pc = "ended" /\ UNCHANGED <<staged, msg, history>>
        /\ Stands(r, "draining", run[r].exit, None)
        /\ Holds(r, run[r].prompt, <<>>, rows, staged)
        /\ MsgsOf(rows) = Queued
        /\ \A i \in DOMAIN rows : rows[i].m \in Queued
        /\ \A i, j \in DOMAIN rows : i < j => Before(rows[i].m, rows[j].m)
  BY DrainedInOrder
<1>2. OnlyRun(r) /\ Live(r) /\ UNCHANGED <<heard, req>>
  BY <1>1, RunActs, RunLeaves DEF RunAct, Proceed, history
<1>3. Queued' = Queued /\ Pending' = Pending /\ RowsWell  BY <1>1, QueueStays, Untouched
<1>4. Placed(n) /\ MsgsOf(staged) = {}  BY <1>1, <1>2, InHandOf DEF Bare
<1>5. Carried(run[r])' = <<>>  BY <1>1 DEF Carried, Stands
<1>6. Coming(n)' => n \in Queued
  <2>1. Holding(run[r])' = Queued  BY <1>1, <1>5, MsgsEmpty DEF Holding, Holds
  <2> QED  BY <1>1, <1>2, <1>3, <1>4, <2>1, SoloComing
<1>7. InTurn(rows, n)
  <2> SUFFICES ASSUME NEW i \in DOMAIN rows, NEW j \in DOMAIN rows, i < j, rows[j].m = n
               PROVE  rows[i].m <= n
    BY DEF InTurn
  <2>1. n \in Queued /\ rows[i].m \in Added /\ Before(rows[i].m, n)
    BY <1>1, AddedFacts
  <2>2. PICK m \in Added : m = rows[i].m  BY <2>1
  <2> QED  BY <1>4, <2>1, <2>2, PlacedBefore
<1>8. InHand(run[r], n)'
  <2>1. Passed(rows, n)'  BY <1>1, <1>6 DEF Passed
  <2> QED
    BY <1>1, <1>5, <1>7, <2>1, InTurnEmpty
       DEF InHand, Passed, Stands, Holds, Executing
<1>9. InTurn(staged', n) /\ Passed(staged, n)'
  BY <1>1, <1>4, InTurnNone DEF Passed, Later
<1>10. Placed(n)'  BY <1>2, <1>3, <1>4, PlacedKept
<1> QED  BY <1>2, <1>6, <1>8, <1>9, <1>10, SoloLess DEF Coming

LEMMA TimelyAppend ==
  ASSUME IInv, IInv', NEW r \in Runs, Solo(r), AppendStaged(r), Bare(run[r]),
         NEW n \in Msgs, Timely(n)
  PROVE  Timely(n)'
<1>1. /\ run[r].pc = "draining" /\ UNCHANGED <<msg, history>>
      /\ Stands(r, "dropping", run[r].exit, run[r].cand) /\ HoldsStill(r)
      /\ run[r].saw \in Seq(Text) /\ run[r].rows \in Seq(Text)
      /\ staged' = run[r].saw \o run[r].rows
      /\ MsgsOf(staged') = MsgsOf(run[r].saw) \cup MsgsOf(run[r].rows)
  BY StagingRun
<1>2. OnlyRun(r) /\ Live(r) /\ UNCHANGED <<heard, req>>
  BY <1>1, RunActs, RunLeaves DEF RunAct, history
<1>3. Queued' = Queued /\ Pending' = Pending /\ RowsWell
  BY <1>1, Untouched DEF Queued, Pending, InState
<1>4. /\ InHand(run[r], n) /\ Placed(n) /\ MsgsOf(run[r].saw) = {}
      /\ InTurn(run[r].rows, n) /\ Passed(run[r].rows, n)
  BY <1>1, <1>2, InHandOf DEF Bare, InHand
<1>5. /\ Carried(run[r])' = <<>> /\ run[r].queue = <<>> /\ run[r].cand = None
  BY <1>1, RunOf DEF Carried, Stands, Shape, Executing
<1>6. Coming(n)' => Coming(n)
  <2>1. Holding(run[r])' = MsgsOf(run[r].rows)
    BY <1>1, <1>5, MsgsEmpty DEF Holding, HoldsStill, Holds
  <2>2. MsgsOf(run[r].rows) \subseteq Holding(run[r])  BY DEF Holding
  <2> QED  BY <1>1, <1>2, <1>3, <1>4, <2>1, <2>2, SoloComing DEF Coming
<1>7. InTurn(staged', n)
  <2>1. InTurn(run[r].saw, n) /\ ~Later(run[r].saw, n)  BY <1>4, InTurnNone DEF Later
  <2>2. InTurn(run[r].saw \o run[r].rows, n)  BY <1>1, <1>4, <2>1, InTurnConcat
  <2> QED  BY <1>1, <2>2
<1>8. Passed(staged, n)'  BY <1>1, <1>2, <1>4, <1>6 DEF Passed, Later
<1>9. InHand(run[r], n)'
  BY <1>1, <1>2, <1>4, <1>5, <1>6, InTurnEmpty
     DEF InHand, Passed, Stands, HoldsStill, Holds, Executing
<1>10. Placed(n)'  BY <1>2, <1>3, <1>4, PlacedKept
<1> QED  BY <1>2, <1>6, <1>7, <1>8, <1>9, <1>10, SoloLess

LEMMA TimelyDrop ==
  ASSUME IInv, IInv', NEW r \in Runs, Solo(r), DropRows(r), NEW n \in Msgs, Timely(n)
  PROVE  Timely(n)'
<1>1. /\ run[r].pc = "dropping" /\ UNCHANGED <<staged, history>>
      /\ Stands(r, "deciding", run[r].exit, run[r].cand)
      /\ RowsWell
      /\ Queued' = Queued \ MsgsOf(run[r].rows)
  BY DroppingRun
<1>2. OnlyRun(r) /\ Live(r) /\ UNCHANGED <<heard, req>>
  BY <1>1, RunActs, RunLeaves DEF RunAct, history
<1>3. Placed(n) /\ InTurn(staged, n) /\ Passed(staged, n)  BY <1>2, InHandOf
<1>4. InHand(run[r], n)' /\ Holding(run[r])' = {}
  <2>1. run'[r].pc = "deciding"  BY <1>1 DEF Stands
  <2> QED  BY <2>1, EmptyHand
<1>5. Coming(n)' => Coming(n)  BY <1>1, <1>2, <1>4, SoloComing DEF Coming
<1>6. Placed(n)'  BY <1>1, <1>2, <1>3, PlacedKept
<1>7. InTurn(staged', n) /\ Passed(staged, n)'  BY <1>1, <1>2, <1>3, <1>5 DEF Passed
<1> QED  BY <1>2, <1>4, <1>5, <1>6, <1>7, SoloLess

LEMMA InTurnLast ==
  ASSUME NEW s \in Seq(Text), NEW n \in Msgs, ~Later(s, n)
  PROVE  InTurn(s, n)
BY NotLater DEF InTurn

\* The steps of nobody's run claim nothing and stage no follow-up.
LEMMA OutsideClaims ==
  ASSUME IInv, Outside
  PROVE  /\ \A r \in Runs : run'[r].cand = run[r].cand
         /\ staged' \in {staged, <<Typed>>}
         /\ Added \subseteq Added'
         /\ \A m \in Queued' : m \notin Pending' => m \in Queued /\ m \notin Pending
<1>1. CASE CommitRequest
  <2>1. UNCHANGED <<staged, run>>  BY <1>1 DEF CommitRequest
  <2> QED  BY <1>1, <2>1, RequestRows
<1>2. CASE CommitSweep
  <2>1. UNCHANGED <<staged, run>>  BY <1>2 DEF CommitSweep
  <2>2. PICK S : S = stuck  OBVIOUS
  <2>3. S \subseteq Added /\ msg' = Set(S, "pending") /\ "pending" \in States \ {"none"}
    BY <1>2, <2>2 DEF CommitSweep, IInv, Known, States
  <2>4. Queued' = Queued \cup (S \cap Msgs) /\ Pending' = Pending \cup (S \cap Msgs)
    BY <2>3, SetQueued
  <2>5. RowsWell  BY <2>3, SetWell
  <2>6. Added' = Added  BY <2>5 DEF RowsWell, Added
  <2> QED  BY <2>1, <2>4, <2>6
<1>3. CASE BeginTick
  <2>1. UNCHANGED <<staged, msg>>  BY <1>3 DEF BeginTick
  <2>2. \A r \in Runs : run'[r].cand = run[r].cand  BY <1>3, TickEffect DEF BeginTick, IInv
  <2> QED  BY <2>1, <2>2 DEF Queued, Pending, InState, Added
<1>4. CASE UNCHANGED <<msg, run>> /\ staged' \in {staged, <<Typed>>}
  BY <1>4 DEF Queued, Pending, InState, Added
<1> QED
  BY <1>1, <1>2, <1>3, <1>4
     DEF Outside, RequestAdd, RequestEdit, RequestCancel, RequestReorder, Request, CancelRun,
         RunAgain, RunAgainWithMessage, vars, history

\* A new follow-up is placed behind those that are queued.
LEMMA PlacedOutside ==
  ASSUME IInv, Outside, ~moved', NEW n \in Added, n \in Queued' => n \in Queued, Placed(n)
  PROVE  Placed(n)'
<1>1. n \in Msgs /\ Queued \subseteq Added /\ Added \subseteq Msgs  BY AddedFacts
<1>2. CASE CommitRequest
  <2>1. req # None /\ req' = None /\ req \in Requests /\ req.op # "reorder"
    BY <1>2 DEF CommitRequest, IInv, TypeOK
  <2>2. CASE req.op = "add"
    <3>1. PICK m, pos : m = req.m /\ pos = req.pos  OBVIOUS
    <3>2. m \notin Added /\ Added' = Added \cup {m}
      <4>1. m \in Free /\ m \in Msgs
        BY <2>1, <2>2, <3>1, AddedFacts
           DEF IInv, InOrder, Fits, Requests, Adds, Edits, Reorders
      <4>2. m # NMsgs + 1  BY <4>1, SteeringAssumption DEF Msgs
      <4>3. msg' = [msg EXCEPT ![req.m].state = "pending", ![req.m].pos = req.pos]
        BY <1>2, <2>2 DEF CommitRequest
      <4> QED  BY <2>1, <2>2, <3>1, <4>1, <4>2, <4>3, CommitAddRows DEF Free
    <3>3. msg' = [msg EXCEPT ![m].state = "pending", ![m].pos = pos]
      BY <1>2, <2>2, <3>1 DEF CommitRequest
    <3>4. msg \in [Msgs -> Row] /\ m \in Msgs
      BY <2>1, <2>2, <3>1 DEF IInv, TypeOK, Requests, Adds, Edits, Reorders
    <3>5. PICK e : e = [msg[m] EXCEPT !.state = "pending", !.pos = pos]  OBVIOUS
    <3>6. msg' = [msg EXCEPT ![m] = e]  BY <3>3, <3>4, <3>5
    <3>7. e.pos = pos  BY <3>4, <3>5 DEF Row
    <3>8. msg'[m].pos = pos /\ \A k \in Msgs \ {m} : msg'[k] = msg[k]  BY <3>4, <3>6, <3>7
    <3> QED  BY <1>1, <2>1, <2>2, <3>1, <3>2, <3>8 DEF Placed
  <2>3. CASE req.op = "edit"
    <3>1. PICK m \in Msgs : m = req.m
      BY <2>1, <2>3 DEF Requests, Adds, Edits, Reorders
    <3>2. msg' = [msg EXCEPT ![m].edited = TRUE]  BY <1>2, <2>3, <3>1 DEF CommitRequest
    <3>3. RowsWell  BY <3>2, CommitEditRows
    <3> QED  BY <2>1, <3>3, PlacedKept
  <2>4. CASE req.op = "cancel"
    <3>1. PICK m : m = req.m  OBVIOUS
    <3>2. m \in Added  BY <2>1, <2>4, <3>1 DEF IInv, Known
    <3>3. "cancelled" \in States \ {"none"} /\ {m} \cap Msgs \subseteq Added
      BY <3>2 DEF States
    <3>4. msg' = Set({m}, "cancelled")  BY <1>2, <2>4, <3>1 DEF CommitRequest
    <3>5. RowsWell  BY <3>3, <3>4, SetWell
    <3> QED  BY <2>1, <3>5, PlacedKept
  <2> QED  BY <1>2, <2>1, <2>2, <2>3, <2>4 DEF CommitRequest
<1>3. CASE CommitSweep
  <2>1. PICK S : S = stuck  OBVIOUS
  <2>2. S \subseteq Added /\ msg' = Set(S, "pending") /\ "pending" \in States \ {"none"}
    BY <1>3, <2>1 DEF CommitSweep, IInv, Known, States
  <2>3. RowsWell /\ req' = req  BY <1>3, <2>2, SetWell DEF CommitSweep
  <2> QED  BY <2>3, PlacedKept
<1>4. CASE UNCHANGED <<msg, req>>
  BY <1>4, Untouched, PlacedKept
<1>5. ASSUME NEW q, Request(q), q.op = "add" => \A m \in Queued : msg[m].pos < q.pos
      PROVE  Placed(n)'
  <2>1. req' = q /\ msg' = msg  BY <1>5 DEF Request
  <2>2. Queued' = Queued /\ Added' = Added  BY <2>1 DEF Queued, InState, Added
  <2> QED  BY <1>5, <2>1, <2>2 DEF Placed
<1>6. CASE RequestAdd
  <2>1. PICK m \in InState({"none"}), pos \in 0..NMsgs :
          TailPosition(pos) /\ Request([op |-> "add", m |-> m, pos |-> pos])
    BY <1>6 DEF RequestAdd
  <2> QED  BY <1>5, <2>1 DEF TailPosition
<1>7. CASE RequestEdit \/ RequestCancel \/ RequestReorder
  BY <1>5, <1>7 DEF RequestEdit, RequestCancel, RequestReorder
<1> QED
  BY <1>2, <1>3, <1>4, <1>6, <1>7
     DEF Outside, CancelRun, RunAgain, RunAgainWithMessage, BeginTick, vars, history

LEMMA TimelyOutside ==
  ASSUME IInv, IInv', Outside, ~moved', NEW n \in Msgs \ suspect', Timely(n)
  PROVE  Timely(n)'
<1>1. /\ \A r \in Runs : run'[r].pc = run[r].pc /\ HoldsStill(r)
      /\ heard' = heard
  BY OutsideRuns
<1>2. /\ \A r \in Runs : run'[r].cand = run[r].cand
      /\ staged' \in {staged, <<Typed>>}
      /\ Added \subseteq Added'
      /\ n \in Queued' /\ n \notin Pending' => n \in Queued /\ n \notin Pending
  BY OutsideClaims
<1>3. \A r \in Runs : /\ Carried(run[r])' = Carried(run[r])
                      /\ Holding(run[r])' = Holding(run[r])
                      /\ Live(r)' <=> Live(r)
  BY <1>1 DEF Carried, Holding, HoldsStill, Holds, Live
<1>4. MsgsOf(staged') \subseteq MsgsOf(staged) /\ InTurn(staged', n)
  <2>1. MsgsOf(<<Typed>>) = {}  BY DEF MsgsOf, Typed
  <2>2. InTurn(<<Typed>>, n)  BY <2>1, InTurnNone
  <2>3. InTurn(staged, n)  BY DEF Timely
  <2> QED  BY <1>2, <2>1, <2>2, <2>3
<1>5. CASE n \in Added
  <2>1. /\ n \in Queued' => n \in Queued
        /\ n \in Pending' => n \in Pending \/ \A r \in Runs : ~Live(r)
    BY <1>5, OutsideEffect
  <2>2. Coming(n)' => Coming(n)  BY <1>3, <1>4, <2>1 DEF Coming
  <2>3. InTurn(heard', n) /\ Passed(heard, n)'  BY <1>1, <2>2 DEF Timely, Passed
  <2>4. Passed(staged, n)'
    <3>1. staged' = staged \/ MsgsOf(staged') = {}  BY <1>2 DEF MsgsOf, Typed
    <3> QED  BY <1>1, <2>2, <3>1 DEF Timely, Passed, Later
  <2>5. Placed(n)'  BY <1>5, <2>1, PlacedOutside DEF Timely
  <2>6. ASSUME NEW r \in Runs, Live(r)'  PROVE InHand(run[r], n)'
    <3>1. Live(r) /\ InHand(run[r], n)  BY <1>3, <2>6 DEF Timely
    <3>2. n \in Pending' => n \in Pending  BY <2>1, <3>1
    <3>3. /\ run'[r].pc = run[r].pc /\ run'[r].cand = run[r].cand
          /\ run'[r].queue = run[r].queue /\ run'[r].rows = run[r].rows
      BY <1>1, <1>2 DEF HoldsStill, Holds
    <3>4. Passed(Carried(run[r]), n)' /\ Passed(run[r].rows, n)'
      BY <1>1, <1>3, <2>2, <3>1, <3>3 DEF InHand, Passed
    <3> QED  BY <1>2, <1>3, <3>1, <3>2, <3>3, <3>4 DEF InHand
  <2> QED  BY <1>4, <2>3, <2>4, <2>5, <2>6 DEF Timely
\* Nothing was typed after a follow-up that is only now added.
<1>6. CASE n \notin Added
  <2>1. n \in Free /\ n \in Nat /\ \A k \in Added : k \in Nat /\ ~(n < k)
    <3>1. n \in Free /\ \A k \in Added : k < n  BY <1>6 DEF IInv, InOrder, Free, Ahead
    <3> QED  BY <3>1, SteeringAssumption DEF Added, Msgs
  <2>2. ASSUME NEW s \in Seq(Text), MsgsOf(s) \subseteq Added
        PROVE  InTurn(s, n) /\ ~Later(s, n)
    BY <2>1, <2>2, InTurnLast DEF Later
  <2>3. InTurn(heard, n) /\ ~Later(heard, n)
    <3>1. heard \in Seq(Text) /\ MsgsOf(heard) \subseteq Added
      BY FollowUpsAreTexts DEF IInv, TypeOK, Known
    <3> QED  BY <2>2, <3>1
  <2>4. ~Later(staged', n)
    <3>1. MsgsOf(staged) \subseteq Added  BY DEF IInv, Known
    <3> QED  BY <1>4, <2>1, <3>1 DEF Later
  <2>5. Placed(n)'
    <3>1. CASE CommitRequest
      <4>1. req # None /\ req' = None  BY <3>1 DEF CommitRequest
      <4>2. ASSUME NEW k \in Added', k \notin Added  PROVE req.op = "add" /\ k = req.m
        BY <3>1, <4>2, RequestRows
      <4>3. req.op = "add" => req.m \in Free /\ req.m <= n  BY <2>1, <4>1 DEF IInv, InOrder, Fits
      <4>4. ASSUME NEW k \in Added'  PROVE ~(n < k)
        <5>1. CASE k \in Added  BY <2>1, <5>1
        <5>2. CASE k \notin Added
          <6>1. k <= n /\ k \in Nat  BY <4>2, <4>3, <4>4, <5>2, AddedFacts
          <6> QED  BY <2>1, <6>1
        <5> QED  BY <5>1, <5>2
      <4> QED  BY <4>1, <4>4 DEF Placed
    <3>2. CASE ~CommitRequest
      <4>1. Added' = Added
        <5>1. CASE CommitSweep
          <6>1. PICK S : S = stuck  OBVIOUS
          <6>2. S \subseteq Added /\ msg' = Set(S, "pending") /\ "pending" \in States \ {"none"}
            BY <5>1, <6>1 DEF CommitSweep, IInv, Known, States
          <6>3. RowsWell  BY <6>2, SetWell
          <6> QED  BY <6>3 DEF RowsWell, Added
        <5>2. CASE UNCHANGED msg  BY <5>2 DEF Added
        <5> QED
          BY <3>2, <5>1, <5>2
             DEF Outside, RequestAdd, RequestEdit, RequestCancel, RequestReorder, Request,
                 CancelRun, RunAgain, RunAgainWithMessage, BeginTick, vars
      <4>2. Queued' \subseteq Added'  BY DEF Queued, InState, Added
      <4> QED  BY <1>6, <4>1, <4>2 DEF Placed
    <3> QED  BY <3>1, <3>2
  <2>6. ASSUME NEW r \in Runs, Live(r)'  PROVE InHand(run[r], n)'
    <3>1. Live(r) /\ InHand(run[r], n)  BY <1>3, <2>6 DEF Timely
    <3>2. /\ run'[r].pc = run[r].pc /\ run'[r].cand = run[r].cand
          /\ run'[r].queue = run[r].queue /\ run'[r].rows = run[r].rows
      BY <1>1, <1>2 DEF HoldsStill, Holds
    <3>3. /\ run[r].queue \in Seq(Text) /\ run[r].rows \in Seq(Text)
          /\ Carried(run[r]) \in Seq(Text)
      BY RunOf, FollowUpsAreTexts DEF RunRecords, Carried
    <3>4. /\ MsgsOf(run[r].queue) \subseteq Added /\ MsgsOf(run[r].rows) \subseteq Added
          /\ MsgsOf(Carried(run[r])) \subseteq Added
      BY RunOf, MsgsEmpty DEF Carries, Carried
    <3>5. /\ InTurn(run[r].queue, n) /\ InTurn(run[r].rows, n) /\ InTurn(Carried(run[r]), n)
          /\ ~Later(run[r].queue, n) /\ ~Later(run[r].rows, n) /\ ~Later(Carried(run[r]), n)
      BY <2>2, <3>3, <3>4
    <3>6. run[r].cand # None => run[r].cand \in Added /\ ~(n < run[r].cand)
      BY <2>1, <3>1 DEF InHand
    <3> QED  BY <1>2, <1>3, <3>1, <3>2, <3>5, <3>6 DEF InHand, Passed
  <2> QED  BY <1>1, <1>4, <2>3, <2>4, <2>5, <2>6 DEF Timely, Passed
<1> QED  BY <1>5, <1>6

LEMMA TimelyPick ==
  ASSUME IInv, IInv', Pick, ~crowded', NEW n \in Msgs \ overlooked', Timely(n)
  PROVE  Timely(n)'
<1>1. UNCHANGED <<staged, msg, heard, req>>  BY DEF Pick
<1>2. Queued' = Queued /\ Pending' = Pending /\ RowsWell  BY <1>1, QueueStays, Untouched
<1>3. Placed(n)'  BY <1>1, <1>2, PlacedKept DEF Timely
<1>4. CASE UNCHANGED <<run, crowded>>
  <2>1. Coming(n)' => Coming(n)  BY <1>1, <1>2, <1>4 DEF Coming, Live, Holding, Carried
  <2>2. /\ InTurn(heard', n) /\ InTurn(staged', n) /\ Passed(heard, n)' /\ Passed(staged, n)'
    BY <1>1, <2>1 DEF Timely, Passed
  <2>3. ASSUME NEW r \in Runs, Live(r)'  PROVE InHand(run[r], n)'
    <3>1. Live(r) /\ InHand(run[r], n)  BY <1>4, <2>3 DEF Timely, Live
    <3>2. run'[r] = run[r] /\ Carried(run[r])' = Carried(run[r])  BY <1>4 DEF Carried
    <3>3. Passed(Carried(run[r]), n)' /\ Passed(run[r].rows, n)'
      BY <1>1, <2>1, <3>1, <3>2 DEF InHand, Passed
    <3>4. Added' = Added  BY <1>1 DEF Added
    <3> QED  BY <1>2, <3>1, <3>2, <3>3, <3>4 DEF InHand
  <2> QED  BY <1>3, <2>2, <2>3 DEF Timely
<1>5. ASSUME NEW r \in Runs, Stands(r, "loading", run[r].exit, run[r].cand),
             run[r].pc = "free", \A q \in Runs : ~Live(q)
      PROVE  Timely(n)'
  <2>1. OnlyRun(r) /\ run'[r].pc = "loading" /\ Solo(r)  BY <1>5 DEF Stands, Solo
  <2>2. n \notin Queued' \/ n \in Pending'
    <3>1. run' # run  BY <1>5, <2>1
    <3>2. InState({"delivering"}) \subseteq overlooked'  BY <3>1 DEF Pick
    <3> QED  BY <1>2, <3>2 DEF Queued, Pending, InState
  <2>3. InHand(run[r], n)' /\ Holding(run[r])' = {}  BY <2>1, <2>2, EmptyHand
  <2>4. Coming(n)' => Coming(n)  BY <1>1, <1>2, <2>1, <2>3, SoloComing DEF Coming
  <2>5. InTurn(staged', n) /\ Passed(staged, n)'  BY <1>1, <2>4 DEF Timely, Passed
  <2> QED  BY <1>1, <1>3, <2>1, <2>3, <2>4, <2>5, SoloLess
<1> QED  BY <1>4, <1>5, PickEffect

LEMMA OrderStep ==
  IInv /\ IInv' /\ Alone /\ BareInv /\ OnceInv /\ OrderInv /\ [Next]_vars => OrderInv'
<1> SUFFICES ASSUME IInv, IInv', Alone, BareInv, OnceInv, OrderInv, [Next]_vars,
                    ~crowded', ~moved', NEW n \in Fair'
             PROVE  Timely(n)'
  BY DEF OrderInv
<1>1. n \in Msgs /\ n \in Msgs \ suspect' /\ n \in Msgs \ overlooked'  BY DEF Fair
<1>2. ASSUME NEW r \in Runs, RunAct(r)  PROVE Timely(n)'
  <2>1. Live(r) /\ ~crowded /\ ~moved /\ n \in Fair
    BY <1>1, <1>2, RunActs, RunLeaves DEF Fair
  <2>2. Solo(r) /\ Timely(n) /\ Single(n) /\ Bare(run[r])
    BY <2>1, SoloRun DEF OrderInv, OnceInv, BareInv, Fair
  <2> QED
    BY <1>1, <1>2, <2>2, StaysOrEnds, TimelyStays, TimelyEnds, TimelyLoad, TimelyConsume,
       TimelyPrompt, TimelyPost, TimelyTaken, TimelyClaim, TimelyReadQueue, TimelyAppend,
       TimelyDrop
<1>3. CASE Outside
  <2>1. ~crowded /\ suspect \subseteq suspect'  BY <1>3, OutsideRuns
  <2>2. ~moved /\ overlooked' = overlooked
    BY <1>3
       DEF Outside, RequestAdd, RequestEdit, RequestCancel, RequestReorder, Request, CancelRun,
           RunAgain, RunAgainWithMessage, CommitRequest, BeginTick, CommitSweep, vars, history,
           IInv, TypeOK
  <2>3. n \in Fair  BY <1>1, <2>1, <2>2 DEF Fair
  <2> QED  BY <1>1, <1>3, <2>1, <2>2, <2>3, TimelyOutside DEF OrderInv
<1>4. CASE Pick
  <2>1. ~crowded /\ ~moved /\ suspect' = suspect /\ overlooked \subseteq overlooked'
    BY <1>4 DEF Pick, IInv, TypeOK
  <2>2. n \in Fair  BY <1>1, <2>1 DEF Fair
  <2> QED  BY <1>1, <1>4, <2>1, <2>2, TimelyPick DEF OrderInv
<1> QED  BY <1>2, <1>3, <1>4, Steps

LEMMA OrderInit == Init => OrderInv
<1> SUFFICES ASSUME Init, NEW n \in Fair  PROVE Timely(n)
  BY DEF OrderInv
<1>1. \A r \in Runs : ~Live(r)  BY DEF Init, Idle, Live, Flights, Executing
<1>2. Queued = {} /\ heard = <<>> /\ staged = <<>>  BY DEF Init, Queued, InState
<1> QED  BY <1>1, <1>2, InTurnEmpty DEF Timely, Passed, Placed

\* Follow-ups that nobody reordered are first heard in the order they were typed,
\* injected or drained, as long as no two runs of the ticket are alive at the same
\* time, unless the earlier one is suspect or was overlooked: the run that claimed
\* it ended between the tick's look at the claims and its pick.
THEOREM HeardAsTyped == Spec => []HeardInOrder
<1> DEFINE Inv == IInv /\ Alone /\ DropInv /\ OnceInv /\ BareInv /\ OrderInv
<1>1. Init => Inv  BY IInit, AloneInit, DropInit, OnceInit, BareInit, OrderInit
<1>2. Inv /\ [Next]_vars => Inv'
  BY IStep, AloneStep, DropStep, OnceStep, BareStep, OrderStep
<1>3. Inv => HeardInOrder
  <2> SUFFICES ASSUME IInv, OrderInv, ~moved, ~crowded, NEW i \in DOMAIN heard,
                      NEW j \in DOMAIN heard, i < j, heard[j].m < heard[i].m,
                      heard[j].m \notin suspect \cup overlooked
               PROVE  FALSE
    BY DEF HeardInOrder
  <2>1. heard[i].m \in Msgs /\ heard[j].m \in Msgs
    <3>1. heard[i] \in FollowUps /\ heard[j] \in FollowUps  BY DEF IInv, TypeOK
    <3> QED  BY <3>1 DEF FollowUps
  <2>2. PICK n \in Fair : n = heard[j].m  BY <2>1 DEF Fair
  <2>3. InTurn(heard, n)  BY <2>2 DEF OrderInv, Timely
  <2>4. heard[i].m <= n  BY <2>2, <2>3 DEF InTurn
  <2>5. heard[i].m \in Nat /\ n \in Nat  BY <2>1, <2>2, SteeringAssumption DEF Msgs
  <2> QED  BY <2>2, <2>4, <2>5
<1> HIDE DEF Inv
<1> QED  BY <1>1, <1>2, <1>3, PTL DEF Spec
=============================================================================
