--------------------------- MODULE StagedRunsProofs ---------------------------
(***************************************************************************)
(* Proofs about StagedRuns, for any texts, runs, conversations and events: *)
(* no text that a request, a hand-off or a review leaves for the next run  *)
(* is lost, or told twice, without a cause that is on record, and a run    *)
(* does what the last accepted request asked for.                          *)
(***************************************************************************)
EXTENDS StagedRuns, SequenceTheorems, FiniteSetTheorems, TLAPS

-----------------------------------------------------------------------------
(* The inductive invariant.                                                *)

\* TypeOK, and the conversations named by requests, stagings and runs exist.
Continued(s) ==
  IF s.intent = "continue" THEN s.conv \in DOMAIN convs /\ convs[s.conv] ELSE s.conv = 0
Shapes ==
  /\ staged # None => Continued(staged)
  /\ req # None => Continued(req)
  /\ \A r \in DOMAIN runs :
       runs[r].pc \in {"setup", "ready", "told"} => runs[r].conv \in DOMAIN convs
Wf == TypeOK /\ Shapes

\* Nothing holds a text before it is written.
Known ==
  /\ ctx \cup prompt \cup Told \subseteq Written
  /\ \A r \in DOMAIN runs : runs[r].ctx \subseteq Written
  /\ handoff # None => handoff.text \in used /\ handoff.read \subseteq Written
  /\ req # None => req.text \in Written \cup {None}
  /\ wish # None => wish.text \in Written \cup {None}

\* The runs whose agent was told t, that hold it behind their clear, and that
\* have loaded it.
ToldBy(t) == {r \in DOMAIN runs : <<t, r>> \in told}
HeldBehind(t) == {r \in DOMAIN runs : runs[r].pc = "ready" /\ t \in runs[r].ctx}
LoadedBy(t) == {r \in DOMAIN runs : runs[r].pc = "setup" /\ t \in runs[r].ctx}

\* A run tells its agent once.
ToldAreDone ==
  \A p \in told : p[2] \in DOMAIN runs /\ runs[p[2]].pc \in {"told", "over"}

\* No text is lost without a record, and none is in two places: what a run told or
\* holds is staged no more and loaded by nobody; a staged text may be loaded by
\* one run, which has not cleared it yet.
Somewhere(t) == t \in ctx \cup prompt \cup Told \cup HeldBy("ready")
OnePlace(t) ==
  /\ \A q, r \in ToldBy(t) \cup HeldBehind(t) : q = r
  /\ \A q, r \in LoadedBy(t) : q = r
  /\ ToldBy(t) \cup HeldBehind(t) # {} => t \notin ctx \cup prompt /\ LoadedBy(t) = {}
  /\ t \in ctx \/ LoadedBy(t) # {} => t \notin prompt

NoneLost  == \A t \in Written \ dropped : Somewhere(t)
NoneTwice == \A t \in Texts \ repeated : OnePlace(t)

\* What was wished is what is staged.
WishIsStaged == wish # None => staged = [intent |-> wish.intent, conv |-> wish.conv]

Mail == Known /\ ToldAreDone /\ WishIsStaged /\ NoneLost /\ NoneTwice /\ RunFollowsRequest

IInv == Wf /\ Mail

\* What requests, and the runs of other tickets, do to the mailbox.
Request ==
  \/ \E t \in Unused \cup {None} :
       \/ \E c \in DOMAIN convs : AskToContinue(c, t)
       \/ \E looksFirst \in BOOLEAN : AskAfresh(t, looksFirst)
       \/ SetContext(t)
  \/ \E t \in Unused : AppendContext(t) \/ ReadHandoff(t)
  \/ StageRun \/ QueueRun \/ MergeContext \/ Requeue \/ Unqueue \/ WriteHandoff

-----------------------------------------------------------------------------
(* Types.                                                                  *)

\* The runs and the conversations are sequences of what they should be.
LEMMA Types ==
  ASSUME TypeOK
  PROVE  /\ Len(runs) \in Nat /\ DOMAIN runs = 1..Len(runs)
         /\ \A r \in DOMAIN runs : runs[r] \in RunRecords
         /\ Len(convs) \in Nat /\ DOMAIN convs = 1..Len(convs)
         /\ \A c \in DOMAIN convs : convs[c] \in BOOLEAN
<1>1. runs \in Seq(RunRecords) /\ convs \in Seq(BOOLEAN)  BY DEF TypeOK
<1> QED  BY <1>1, ElementOfSeq, LenProperties

\* Writing the record of one run leaves those of the others.
LEMMA RunSet ==
  ASSUME TypeOK, NEW r \in DOMAIN runs, NEW e \in RunRecords, runs' = [runs EXCEPT ![r] = e]
  PROVE  /\ runs' \in Seq(RunRecords) /\ Len(runs') = Len(runs)
         /\ DOMAIN runs' = DOMAIN runs
         /\ runs'[r] = e /\ \A q \in DOMAIN runs : q # r => runs'[q] = runs[q]
<1>1. runs \in Seq(RunRecords) BY DEF TypeOK
<1> QED  BY <1>1, ExceptSeq, LenProperties

\* Requests keep the types, and a staging that continues names what exists.
LEMMA WfRequests ==
  ASSUME StagedRunsAssumption, Wf, Request
  PROVE  Wf'
<1>0. /\ runs' = runs /\ convs' = convs
  BY DEF Request, AskToContinue, AskAfresh, SetContext, AppendContext, ReadHandoff,
         StageRun, QueueRun, MergeContext, Requeue, Unqueue, WriteHandoff
<1>9. /\ Len(convs) \in Nat /\ DOMAIN convs = 1..Len(convs) /\ Len(convs) <= MaxConvs
      /\ MaxConvs \in Nat
  BY Types DEF Wf, TypeOK, StagedRunsAssumption
<1>1. ASSUME NEW t \in Unused \cup {None}, NEW c \in DOMAIN convs, AskToContinue(c, t)
      PROVE Wf'
  BY <1>1, <1>0, <1>9
      DEF Wf, TypeOK, Shapes, Continued, AskToContinue, SetFirst, Unused, Requests,
          Intents, Resumable, StagedRunsAssumption
<1>2. ASSUME NEW t \in Unused \cup {None}, NEW looksFirst \in BOOLEAN,
             AskAfresh(t, looksFirst)
      PROVE Wf'
  BY <1>2, <1>0, <1>9
      DEF Wf, TypeOK, Shapes, Continued, AskAfresh, SetFirst, Unused, Requests, Intents,
          StagedRunsAssumption
<1>3. ASSUME NEW t \in Unused \cup {None}, SetContext(t) PROVE Wf'
  BY <1>3, <1>0, <1>9
      DEF Wf, TypeOK, Shapes, Continued, SetContext, Unused, StagedRunsAssumption
<1>4. ASSUME NEW t \in Unused, AppendContext(t) \/ ReadHandoff(t) PROVE Wf'
  BY <1>4, <1>0, <1>9
      DEF Wf, TypeOK, Shapes, Continued, AppendContext, ReadHandoff, Handoffs, Unused,
          StagedRunsAssumption
<1>5. ASSUME StageRun PROVE Wf'
  BY <1>5, <1>0, <1>9
      DEF Wf, TypeOK, Shapes, Continued, StageRun, Requests, Stagings, Wishes, Intents,
          StagedRunsAssumption
<1>6. ASSUME QueueRun \/ Requeue \/ Unqueue PROVE Wf'
  BY <1>6, <1>0, <1>9
      DEF Wf, TypeOK, Shapes, Continued, QueueRun, Requeue, Unqueue, Happens,
          StagedRunsAssumption
<1>7. ASSUME MergeContext \/ WriteHandoff PROVE Wf'
  BY <1>7, <1>0, <1>9
      DEF Wf, TypeOK, Shapes, Continued, MergeContext, WriteHandoff, Handoffs,
          StagedRunsAssumption
<1> QED  BY <1>1, <1>2, <1>3, <1>4, <1>5, <1>6, <1>7 DEF Request

\* What a load writes; the conversation it works in is the one that was staged, the
\* current one, or the next.
LEMMA LoadWf ==
  ASSUME StagedRunsAssumption, Wf, NEW r \in DOMAIN runs, Load(r)
  PROVE  /\ Wf'
         /\ DOMAIN runs' = DOMAIN runs /\ \A q \in DOMAIN runs : q # r => runs'[q] = runs[q]
         /\ runs'[r] = [pc |-> "setup", ctx |-> ctx, staged |-> staged,
              conv |-> NextConversation, wish |-> wish]
         /\ DOMAIN convs \subseteq DOMAIN convs'
         /\ \A c \in DOMAIN convs : convs'[c] = convs[c]
<1> DEFINE e == [pc |-> "setup", ctx |-> ctx, staged |-> staged, conv |-> NextConversation,
    wish |-> wish]
<1>0. /\ runs[r] \in RunRecords /\ MaxConvs \in Nat /\ Len(convs) \in Nat
      /\ DOMAIN convs = 1..Len(convs)
      /\ convs \in Seq(BOOLEAN) /\ Len(convs) <= MaxConvs
  BY Types DEF Wf, TypeOK, StagedRunsAssumption
<1>1. NextConversation \in 1..(Len(convs) + 1) /\ NextConversation <= MaxConvs
  BY <1>0 DEF Load, NextConversation, Wf, TypeOK, Shapes, Stagings, Intents, Continued
<1>2. e \in RunRecords /\ runs' = [runs EXCEPT ![r] = e]
  BY <1>0, <1>1 DEF Load, RunRecords, Wf, TypeOK
<1>3. /\ runs' \in Seq(RunRecords) /\ Len(runs') = Len(runs) /\ DOMAIN runs' = DOMAIN runs
      /\ runs'[r] = e /\ \A q \in DOMAIN runs : q # r => runs'[q] = runs[q]
  <2> HIDE DEF e
  <2> QED  BY <1>2, RunSet DEF Wf
<1>4. /\ convs' \in Seq(BOOLEAN) /\ Len(convs') <= MaxConvs
      /\ DOMAIN convs' = 1..Len(convs') /\ Len(convs') \in Nat
      /\ Len(convs) <= Len(convs') /\ NextConversation \in 1..Len(convs')
      /\ \A c \in DOMAIN convs : convs'[c] = convs[c]
  <2>1. CASE NextConversation \in DOMAIN convs
    BY <2>1, <1>0, <1>1 DEF Load
  <2>2. CASE NextConversation \notin DOMAIN convs
    <3>1. convs' = Append(convs, FALSE)
      BY <2>2 DEF Load
    <3>2. NextConversation = Len(convs) + 1
      BY <2>2, <1>0, <1>1
    <3> QED  BY <3>1, <3>2, <1>0, <1>1, AppendProperties, LenProperties
  <2> QED  BY <2>1, <2>2
<1>5. TypeOK'
  <2>1. staged' # None /\ staged'.intent = "continue" =>
             staged'.conv \in DOMAIN convs' /\ convs'[staged'.conv]
    BY <1>0, <1>4 DEF Load, Wf, TypeOK
  <2>2. current' \in 0..Len(convs')
    BY <1>4 DEF Load
  <2> QED  BY <1>3, <1>4, <2>1, <2>2 DEF Load, Wf, TypeOK
<1>6. Shapes'
  BY <1>0, <1>1, <1>3, <1>4 DEF Load, Wf, TypeOK, Shapes, Continued
<1> QED  BY <1>0, <1>3, <1>4, <1>5, <1>6 DEF Wf

\* What a clear writes.
LEMMA ClearWf ==
  ASSUME StagedRunsAssumption, Wf, NEW r \in DOMAIN runs, Clear(r)
  PROVE  /\ Wf'
         /\ DOMAIN runs' = DOMAIN runs /\ \A q \in DOMAIN runs : q # r => runs'[q] = runs[q]
         /\ runs'[r] = [runs[r] EXCEPT !.pc = "ready"]
<1> DEFINE e == [runs[r] EXCEPT !.pc = "ready"]
<1>1. runs[r] \in RunRecords /\ convs' = convs BY Types DEF Wf, Clear
<1>2. e \in RunRecords /\ runs' = [runs EXCEPT ![r] = e] /\ e.pc = "ready"
      /\ e.conv = runs[r].conv
  BY <1>1 DEF Clear, RunRecords
<1>3. /\ runs' \in Seq(RunRecords) /\ Len(runs') = Len(runs) /\ DOMAIN runs' = DOMAIN runs
      /\ runs'[r] = e /\ \A q \in DOMAIN runs : q # r => runs'[q] = runs[q]
  <2> HIDE DEF e
  <2> QED  BY <1>2, RunSet DEF Wf
<1>5. TypeOK'
  BY <1>1, <1>3 DEF Clear, LeftContext, LeftStaging, Wf, TypeOK, Shapes, Continued
<1>6. Shapes'
  <2> HIDE DEF e
  <2> QED  BY <1>1, <1>2, <1>3 DEF Clear, LeftStaging, Wf, TypeOK, Shapes, Continued
<1> QED  BY <1>3, <1>5, <1>6 DEF Wf

\* What the start of an agent writes; its conversation may be resumed from then on.
LEMMA TellWf ==
  ASSUME StagedRunsAssumption, Wf, NEW r \in DOMAIN runs, Tell(r)
  PROVE  /\ Wf'
         /\ DOMAIN runs' = DOMAIN runs /\ \A q \in DOMAIN runs : q # r => runs'[q] = runs[q]
         /\ runs'[r] = [runs[r] EXCEPT !.pc = "told"]
<1> DEFINE e == [runs[r] EXCEPT !.pc = "told"]
<1>1. /\ runs[r] \in RunRecords /\ convs \in Seq(BOOLEAN) /\ Len(convs) \in Nat
      /\ DOMAIN convs = 1..Len(convs)
      /\ runs[r].conv \in DOMAIN convs /\ Len(runs) <= MaxRuns
      /\ DOMAIN runs = 1..Len(runs) /\ Len(runs) \in Nat
      /\ MaxRuns \in Nat
  BY Types DEF Wf, TypeOK, Tell, Shapes, StagedRunsAssumption
<1>2. e \in RunRecords /\ runs' = [runs EXCEPT ![r] = e] /\ e.pc = "told"
      /\ e.conv = runs[r].conv
  BY <1>1 DEF Tell, RunRecords
<1>3. /\ runs' \in Seq(RunRecords) /\ Len(runs') = Len(runs) /\ DOMAIN runs' = DOMAIN runs
      /\ runs'[r] = e /\ \A q \in DOMAIN runs : q # r => runs'[q] = runs[q]
  <2> HIDE DEF e
  <2> QED  BY <1>2, RunSet DEF Wf
<1>4. PICK s \in BOOLEAN : convs' = [convs EXCEPT ![runs[r].conv] = @ \/ s]
  BY DEF Tell
<1>5. /\ convs' \in Seq(BOOLEAN) /\ Len(convs') = Len(convs)
      /\ \A c \in DOMAIN convs : convs[c] => convs'[c]
  <2>1. PICK b \in BOOLEAN : b = (convs[runs[r].conv] \/ s)
    BY <1>1, ElementOfSeq
  <2>2. convs' = [convs EXCEPT ![runs[r].conv] = b]
    BY <1>4, <2>1
  <2>3. /\ convs' \in Seq(BOOLEAN) /\ Len(convs') = Len(convs)
        /\ \A c \in 1..Len(convs) : convs'[c] = IF c = runs[r].conv THEN b ELSE convs[c]
    BY <1>1, <2>2, ExceptSeq
  <2> QED  BY <1>1, <2>1, <2>3
<1>6. DOMAIN convs' = DOMAIN convs
  BY <1>1, <1>5, LenProperties
<1>7. TypeOK'
  <2>1. told' \subseteq Texts \X (1..MaxRuns)
    BY <1>1 DEF Tell, Wf, TypeOK, RunRecords
  <2>2. staged' # None /\ staged'.intent = "continue" =>
             staged'.conv \in DOMAIN convs' /\ convs'[staged'.conv]
    BY <1>5, <1>6 DEF Wf, TypeOK, Tell
  <2> QED  BY <1>1, <1>3, <1>5, <2>1, <2>2 DEF Tell, Wf, TypeOK
<1>8. Shapes'
  <2>1. \A x : Continued(x) => Continued(x)'
    BY <1>5, <1>6 DEF Continued
  <2>2. \A q \in DOMAIN runs' : runs'[q].pc \in {"setup", "ready", "told"} =>
             runs'[q].conv \in DOMAIN convs'
    <3> HIDE DEF e
    <3> QED  BY <1>1, <1>2, <1>3, <1>6 DEF Wf, Shapes
  <2> QED  BY <2>1, <2>2 DEF Wf, Shapes, Tell
<1> QED  BY <1>3, <1>7, <1>8 DEF Wf

\* What a run that ends, fails or is killed writes.
LEMMA LeaveWf ==
  ASSUME StagedRunsAssumption, Wf, NEW r \in DOMAIN runs,
         Finish(r) \/ SetupFails(r) \/ Killed(r)
  PROVE  /\ Wf'
         /\ DOMAIN runs' = DOMAIN runs /\ \A q \in DOMAIN runs : q # r => runs'[q] = runs[q]
         /\ runs'[r] = Gone
<1>1. /\ runs[r] \in RunRecords /\ convs' = convs /\ runs' = [runs EXCEPT ![r] = Gone]
      /\ MaxEvents \in Nat
  BY Types DEF Wf, Finish, SetupFails, Killed, Land, StagedRunsAssumption
<1>2. Gone \in RunRecords /\ Gone.pc = "over"
  BY DEF Gone, Blank, RunRecords, StagedRunsAssumption
<1>3. /\ runs' \in Seq(RunRecords) /\ Len(runs') = Len(runs) /\ DOMAIN runs' = DOMAIN runs
      /\ runs'[r] = Gone /\ \A q \in DOMAIN runs : q # r => runs'[q] = runs[q]
  BY <1>1, <1>2, RunSet DEF Wf
<1>4. TypeOK'
  BY <1>1, <1>3 DEF Finish, SetupFails, Killed, Land, Happens, Wf, TypeOK, RunRecords
<1>5. Shapes'
  BY <1>1, <1>2, <1>3 DEF Finish, SetupFails, Killed, Wf, Shapes, Continued
<1> QED  BY <1>3, <1>4, <1>5 DEF Wf

\* What a dispatch writes.
LEMMA DispatchWf ==
  ASSUME StagedRunsAssumption, Wf, Dispatch
  PROVE  /\ Wf'
         /\ DOMAIN runs' = DOMAIN runs \cup {Len(runs) + 1}
         /\ Len(runs) + 1 \notin DOMAIN runs
         /\ \A q \in DOMAIN runs : runs'[q] = runs[q]
         /\ runs'[Len(runs) + 1] = Blank("spawned")
<1>1. /\ runs \in Seq(RunRecords) /\ Len(runs) \in Nat /\ DOMAIN runs = 1..Len(runs)
      /\ runs' = Append(runs, Blank("spawned")) /\ convs' = convs
  BY Types DEF Wf, TypeOK, Dispatch
<1>2. Blank("spawned") \in RunRecords /\ Blank("spawned").pc = "spawned"
  BY DEF Blank, RunRecords, StagedRunsAssumption
<1>3. /\ runs' \in Seq(RunRecords) /\ Len(runs') = Len(runs) + 1
      /\ \A q \in 1..Len(runs) : runs'[q] = runs[q]
      /\ runs'[Len(runs) + 1] = Blank("spawned")
  BY <1>1, <1>2, AppendProperties
<1>4. DOMAIN runs' = DOMAIN runs \cup {Len(runs) + 1} /\ Len(runs) + 1 \notin DOMAIN runs
  BY <1>1, <1>3, LenProperties
<1>5. TypeOK'
  BY <1>1, <1>3 DEF Dispatch, Wf, TypeOK, StagedRunsAssumption
<1>6. Shapes'
  BY <1>1, <1>2, <1>3, <1>4 DEF Dispatch, Wf, Shapes, Continued
<1> QED  BY <1>1, <1>3, <1>4, <1>5, <1>6 DEF Wf

-----------------------------------------------------------------------------
(* What requests do to the texts.                                          *)

\* Requests do not touch the runs, nor what agents were told.
LEMMA QuietRuns ==
  ASSUME Request
  PROVE  /\ runs' = runs /\ told' = told
         /\ \A t : ToldBy(t)' = ToldBy(t) /\ HeldBehind(t)' = HeldBehind(t)
              /\ LoadedBy(t)' = LoadedBy(t)
         /\ Told' = Told /\ \A pc : HeldBy(pc)' = HeldBy(pc)
<1>0. /\ runs' = runs /\ told' = told
  BY DEF Request, AskToContinue, AskAfresh, SetContext, AppendContext, ReadHandoff,
         StageRun, QueueRun, MergeContext, Requeue, Unqueue, WriteHandoff
<1> QED  BY <1>0 DEF ToldBy, HeldBehind, LoadedBy, Told, HeldBy

\* Nothing holds a text before it is written.
LEMMA KnownRequests ==
  ASSUME StagedRunsAssumption, TypeOK, Known, Request
  PROVE Known'
<1>0. /\ runs' = runs /\ told' = told /\ Told' = Told
  BY QuietRuns
<1>9. None \notin Texts /\ used \subseteq Texts BY DEF StagedRunsAssumption, TypeOK
<1>1. ASSUME NEW t \in Unused \cup {None}, NEW c \in DOMAIN convs, AskToContinue(c, t)
      PROVE Known'
  BY <1>1, <1>0, <1>9 DEF Known, AskToContinue, SetFirst, Unused, Written
<1>2. ASSUME NEW t \in Unused \cup {None}, NEW looksFirst \in BOOLEAN,
             AskAfresh(t, looksFirst)
      PROVE Known'
  BY <1>2, <1>0, <1>9 DEF Known, AskAfresh, SetFirst, Unused, Written
<1>3. ASSUME NEW t \in Unused \cup {None}, SetContext(t) PROVE Known'
  BY <1>3, <1>0, <1>9 DEF Known, SetContext, Unused, Written
<1>4. ASSUME NEW t \in Unused, AppendContext(t) \/ ReadHandoff(t) PROVE Known'
  BY <1>4, <1>0, <1>9 DEF Known, AppendContext, ReadHandoff, Unused, Written
<1>5. ASSUME StageRun \/ QueueRun \/ Requeue \/ Unqueue PROVE Known'
  BY <1>5, <1>0, <1>9
      DEF Known, StageRun, QueueRun, Requeue, Unqueue, Written, TypeOK, Requests
<1>7. ASSUME MergeContext \/ WriteHandoff PROVE Known'
  BY <1>7, <1>0, <1>9 DEF Known, MergeContext, WriteHandoff, Written
<1> QED  BY <1>1, <1>2, <1>3, <1>4, <1>5, <1>7 DEF Request

\* A request that replaces the staged texts puts them on record as dropped; one
\* that writes late only adds.
LEMMA NoneLostRequests ==
  ASSUME StagedRunsAssumption, TypeOK, Known, NoneLost, Request
  PROVE NoneLost'
<1>0. /\ Told' = Told /\ HeldBy("ready")' = HeldBy("ready")
  BY QuietRuns
<1>9. None \notin Texts /\ used \subseteq Texts BY DEF StagedRunsAssumption, TypeOK
<1>1. ASSUME NEW t \in Unused \cup {None}, NEW c \in DOMAIN convs, AskToContinue(c, t)
      PROVE NoneLost'
  BY <1>1, <1>0, <1>9 DEF NoneLost, Somewhere, AskToContinue, SetFirst, Unused, Written
<1>2. ASSUME NEW t \in Unused \cup {None}, NEW looksFirst \in BOOLEAN,
             AskAfresh(t, looksFirst)
      PROVE NoneLost'
  BY <1>2, <1>0, <1>9 DEF NoneLost, Somewhere, AskAfresh, SetFirst, Unused, Written
<1>3. ASSUME NEW t \in Unused \cup {None}, SetContext(t) PROVE NoneLost'
  BY <1>3, <1>0, <1>9 DEF NoneLost, Somewhere, SetContext, Unused, Written
<1>4. ASSUME NEW t \in Unused, AppendContext(t) PROVE NoneLost'
  BY <1>4, <1>0, <1>9 DEF NoneLost, Somewhere, AppendContext, Unused, Written
<1>6. ASSUME NEW t \in Unused, ReadHandoff(t) PROVE NoneLost'
   <2>1. Written' \subseteq Written
     BY <1>6 DEF ReadHandoff, Written, Handoffs, TypeOK, StagedRunsAssumption, Unused, Known
   <2> QED  BY <1>6, <1>0, <2>1 DEF NoneLost, Somewhere, ReadHandoff
<1>5. ASSUME StageRun \/ QueueRun \/ Requeue \/ Unqueue PROVE NoneLost'
  BY <1>5, <1>0, <1>9 DEF NoneLost, Somewhere, StageRun, QueueRun, Requeue, Unqueue, Written
<1>7. ASSUME MergeContext \/ WriteHandoff PROVE NoneLost'
  BY <1>7, <1>0, <1>9 DEF NoneLost, Somewhere, MergeContext, WriteHandoff, Written
<1> QED  BY <1>1, <1>2, <1>3, <1>4, <1>5, <1>6, <1>7 DEF Request

\* A text that is not written is nowhere.
LEMMA UnwrittenIsNowhere ==
  ASSUME StagedRunsAssumption, TypeOK, Known, NEW t \in Texts, t \notin Written
  PROVE t \notin ctx \cup prompt /\ ToldBy(t) = {} /\ HeldBehind(t) = {} /\ LoadedBy(t) = {}
BY DEF Known, ToldBy, HeldBehind, LoadedBy, Told

\* A request writes a text once: the texts it adds were nowhere.  Merging the
\* context into the prompt is what takes it elsewhere, and a hand-off that writes
\* back what was taken meanwhile has put it on record as repeated.
LEMMA NoneTwiceRequests ==
  ASSUME StagedRunsAssumption, TypeOK, Known, NoneTwice, Request
  PROVE NoneTwice'
<1>0. /\ \A t : ToldBy(t)' = ToldBy(t) /\ HeldBehind(t)' = HeldBehind(t)
           /\ LoadedBy(t)' = LoadedBy(t)
  BY QuietRuns
<1>9. None \notin Texts /\ used \subseteq Texts /\ Unused \subseteq Texts
      /\ Unused \cap Written = {} BY DEF StagedRunsAssumption, TypeOK, Unused, Written
<1>1. ASSUME NEW t \in Unused \cup {None}, NEW c \in DOMAIN convs, AskToContinue(c, t)
      PROVE NoneTwice'
  BY <1>1, <1>0, <1>9, UnwrittenIsNowhere DEF NoneTwice, OnePlace, AskToContinue, SetFirst
<1>2. ASSUME NEW t \in Unused \cup {None}, NEW looksFirst \in BOOLEAN,
             AskAfresh(t, looksFirst)
      PROVE NoneTwice'
  BY <1>2, <1>0, <1>9, UnwrittenIsNowhere DEF NoneTwice, OnePlace, AskAfresh, SetFirst
<1>3. ASSUME NEW t \in Unused \cup {None}, SetContext(t) PROVE NoneTwice'
  BY <1>3, <1>0, <1>9, UnwrittenIsNowhere DEF NoneTwice, OnePlace, SetContext
<1>4. ASSUME NEW t \in Unused, AppendContext(t) \/ ReadHandoff(t) PROVE NoneTwice'
  BY <1>4, <1>0, <1>9, UnwrittenIsNowhere
      DEF NoneTwice, OnePlace, AppendContext, ReadHandoff
<1>5. ASSUME StageRun \/ QueueRun \/ Requeue \/ Unqueue PROVE NoneTwice'
  BY <1>5, <1>0, <1>9 DEF NoneTwice, OnePlace, StageRun, QueueRun, Requeue, Unqueue
<1>6. ASSUME MergeContext PROVE NoneTwice'
  BY <1>6, <1>0, <1>9 DEF NoneTwice, OnePlace, MergeContext, HeldBy, HeldBehind, LoadedBy
<1>7. ASSUME WriteHandoff PROVE NoneTwice'
   <2>1. handoff.text \in Texts /\ handoff.text \notin Written
     BY <1>7 DEF WriteHandoff, TypeOK, Handoffs, Written, Known
   <2> QED
     BY <1>7, <1>0, <1>9, <2>1, UnwrittenIsNowhere DEF NoneTwice, OnePlace, WriteHandoff
<1> QED  BY <1>1, <1>2, <1>3, <1>4, <1>5, <1>6, <1>7 DEF Request

\* What is wished is what is staged: both change in one commit.
LEMMA WishRequests ==
  ASSUME StagedRunsAssumption, TypeOK, WishIsStaged, Request
  PROVE WishIsStaged'
<1>1. CASE StageRun
  BY <1>1 DEF WishIsStaged, StageRun
<1>2. CASE ~StageRun
  BY <1>2
      DEF WishIsStaged, Request, AskToContinue, AskAfresh, SetContext, AppendContext,
          ReadHandoff, QueueRun, MergeContext, Requeue, Unqueue, WriteHandoff
<1> QED  BY <1>1, <1>2

\* Texts leave the prompt and the records for nowhere.
LEMMA FollowsRequests ==
  ASSUME RunFollowsRequest, Request
  PROVE RunFollowsRequest'
<1>1. /\ runs' = runs /\ told' = told /\ Told' = Told /\ HeldBy("ready")' = HeldBy("ready")
  BY QuietRuns
<1>2. prompt \subseteq prompt' /\ dropped \subseteq dropped' /\ repeated \subseteq repeated'
  BY DEF Request, AskToContinue, AskAfresh, SetFirst, SetContext, AppendContext,
         ReadHandoff, StageRun, QueueRun, MergeContext, Requeue, Unqueue, WriteHandoff
<1> QED  BY <1>1, <1>2 DEF RunFollowsRequest

-----------------------------------------------------------------------------
(* What runs do to them.                                                   *)

\* A run that was just dispatched holds nothing.
LEMMA DispatchMail ==
  ASSUME StagedRunsAssumption, Wf, Mail, Dispatch
  PROVE Mail'
<1>0. /\ DOMAIN runs' = DOMAIN runs \cup {Len(runs) + 1} /\ Len(runs) + 1 \notin DOMAIN runs
      /\ \A q \in DOMAIN runs : runs'[q] = runs[q]
      /\ runs'[Len(runs) + 1] = Blank("spawned")
      /\ runs'[Len(runs) + 1].ctx = {} /\ runs'[Len(runs) + 1].pc = "spawned"
  BY DispatchWf DEF Blank
<1>1. UNCHANGED <<ctx, prompt, staged, req, handoff, used, told, wish, dropped,
           repeated>> /\ Written' = Written
  BY DEF Dispatch, Written
<1>2. Told' = Told /\ HeldBy("ready")' = HeldBy("ready")
  BY <1>0, <1>1 DEF Told, HeldBy
<1>3. ToldAreDone'
  BY <1>0, <1>1 DEF Mail, ToldAreDone
<1>4. \A t : ToldBy(t)' = ToldBy(t) /\ HeldBehind(t)' = HeldBehind(t)
           /\ LoadedBy(t)' = LoadedBy(t)
  BY <1>0, <1>1 DEF Mail, ToldAreDone, ToldBy, HeldBehind, LoadedBy
<1>5. Known'
  BY <1>0, <1>1, <1>2 DEF Mail, Known
<1>6. NoneLost'
  BY <1>1, <1>2 DEF Mail, NoneLost, Somewhere
<1>7. NoneTwice'
  BY <1>1, <1>4 DEF Mail, NoneTwice, OnePlace
<1>8. RunFollowsRequest'
  BY <1>0, <1>1, <1>2 DEF Mail, RunFollowsRequest
<1> QED  BY <1>1, <1>3, <1>5, <1>6, <1>7, <1>8 DEF Mail, WishIsStaged

\* Two loads of one text, or a load between a load and its clear, are on record as
\* repeated.  A run that loads a staging loads the wish with it.
LEMMA LoadMail ==
  ASSUME StagedRunsAssumption, Wf, Mail, NEW r \in DOMAIN runs, Load(r)
  PROVE Mail'
<1>0. /\ DOMAIN runs' = DOMAIN runs /\ \A q \in DOMAIN runs : q # r => runs'[q] = runs[q]
      /\ runs'[r] = [pc |-> "setup", ctx |-> ctx, staged |-> staged,
           conv |-> NextConversation, wish |-> wish]
      /\ runs'[r].pc = "setup" /\ runs'[r].ctx = ctx /\ runs'[r].wish = wish
      /\ runs'[r].staged = staged
      /\ runs'[r].conv = NextConversation /\ runs[r].pc = "spawned"
  BY LoadWf DEF Load
<1>1. /\ UNCHANGED <<ctx, prompt, staged, req, handoff, used, told, wish, dropped>>
      /\ Written' = Written
      /\ repeated' = repeated \cup (ctx \cap (HeldBy("setup") \cup HeldBy("ready")))
  BY DEF Load, Written
<1>2. Told' = Told /\ HeldBy("ready")' = HeldBy("ready")
  BY <1>0, <1>1 DEF Told, HeldBy
<1>3. ToldAreDone' /\ \A p \in told : p[2] # r
  BY <1>0, <1>1 DEF Mail, ToldAreDone
<1>4. \A t : /\ ToldBy(t)' = ToldBy(t) /\ HeldBehind(t)' = HeldBehind(t)
             /\ LoadedBy(t)' = IF t \in ctx THEN LoadedBy(t) \cup {r} ELSE LoadedBy(t)
  BY <1>0, <1>1 DEF ToldBy, HeldBehind, LoadedBy
<1>5. Known'
  BY <1>0, <1>1, <1>2 DEF Mail, Known
<1>6. NoneLost'
  BY <1>1, <1>2 DEF Mail, NoneLost, Somewhere
<1>7. NoneTwice'
  <2>1. \A t \in ctx \ repeated' : LoadedBy(t) = {} /\ HeldBehind(t) = {}
    BY <1>1 DEF LoadedBy, HeldBehind, HeldBy
  <2> QED  BY <1>1, <1>4, <2>1 DEF Mail, NoneTwice, OnePlace
<1>8. RunFollowsRequest'
  <2> DEFINE w == wish
  <2>1. wish # None => /\ staged = [intent |-> wish.intent, conv |-> wish.conv]
                       /\ wish.conv # 0 => NextConversation = wish.conv
    <3>1. wish # None => staged = [intent |-> wish.intent, conv |-> wish.conv]
      BY DEF Mail, WishIsStaged
    <3>2. wish # None /\ wish.conv # 0 => staged # None /\ staged.conv # 0
      BY <3>1 DEF Wf, TypeOK, StagedRunsAssumption, Stagings, Wishes
    <3> QED  BY <3>1, <3>2 DEF NextConversation
  <2>2. wish # None /\ wish.text # None =>
             wish.text \in ctx \cup prompt \cup dropped \cup Told \cup HeldBy("ready")
    BY DEF Mail, Known, NoneLost, Somewhere
  <2>3. \A q \in DOMAIN runs : q # r => runs'[q] = runs[q] BY <1>0
  <2> QED  BY <1>0, <1>1, <1>2, <2>1, <2>2 DEF Mail, RunFollowsRequest
<1> QED  BY <1>1, <1>3, <1>5, <1>6, <1>7, <1>8 DEF Mail, WishIsStaged

\* A clear takes what the run has loaded, and drops what came since.
LEMMA ClearMail ==
  ASSUME StagedRunsAssumption, Wf, Mail, NEW r \in DOMAIN runs, Clear(r)
  PROVE Mail'
<1>0. /\ DOMAIN runs' = DOMAIN runs /\ \A q \in DOMAIN runs : q # r => runs'[q] = runs[q]
      /\ runs'[r].pc = "ready" /\ runs'[r].ctx = runs[r].ctx /\ runs[r].pc = "setup"
      /\ runs[r].ctx \subseteq Texts
  <2>1. runs[r] \in RunRecords BY Types DEF Wf
  <2> QED  BY <2>1, ClearWf DEF Clear, RunRecords
<1>1. /\ UNCHANGED <<prompt, req, handoff, used, told, repeated>> /\ Written' = Written
      /\ ctx' = IF runs[r].ctx # {} THEN {} ELSE ctx
      /\ dropped' = IF runs[r].ctx # {} THEN dropped \cup (ctx \ runs[r].ctx) ELSE dropped
  BY DEF Clear, LeftContext, Written
<1>2. Told' = Told /\ HeldBy("ready")' = HeldBy("ready") \cup runs[r].ctx
  BY <1>0, <1>1 DEF Told, HeldBy
<1>3. ToldAreDone' /\ \A p \in told : p[2] # r
  BY <1>0, <1>1 DEF Mail, ToldAreDone
<1>4. \A t : /\ ToldBy(t)' = ToldBy(t)
             /\ HeldBehind(t)' = IF t \in runs[r].ctx THEN HeldBehind(t) \cup {r} ELSE HeldBehind(t)
             /\ LoadedBy(t)' = LoadedBy(t) \ {r}
             /\ (t \in runs[r].ctx <=> r \in LoadedBy(t))
  BY <1>0, <1>1 DEF ToldBy, HeldBehind, LoadedBy
<1>5. Known'
  BY <1>0, <1>1, <1>2 DEF Mail, Known, Clear
<1>6. NoneLost'
  BY <1>1, <1>2 DEF Mail, NoneLost, Somewhere
<1>7. NoneTwice'
  BY <1>1, <1>4 DEF Mail, NoneTwice, OnePlace
<1>8. RunFollowsRequest'
  BY <1>0, <1>1, <1>2 DEF Mail, RunFollowsRequest
<1>9. WishIsStaged'
  BY DEF Mail, WishIsStaged, Clear, LeftStaging
<1> QED  BY <1>3, <1>5, <1>6, <1>7, <1>8, <1>9 DEF Mail

\* An agent is told what its run holds, and the run holds it no more.
LEMMA TellMail ==
  ASSUME StagedRunsAssumption, Wf, Mail, NEW r \in DOMAIN runs, Tell(r)
  PROVE Mail'
<1>0. /\ DOMAIN runs' = DOMAIN runs /\ \A q \in DOMAIN runs : q # r => runs'[q] = runs[q]
      /\ runs'[r].pc = "told" /\ runs'[r].ctx = runs[r].ctx /\ runs[r].pc = "ready"
  <2>1. runs[r] \in RunRecords BY Types DEF Wf
  <2> QED  BY <2>1, TellWf DEF Tell, RunRecords
<1>1. /\ UNCHANGED <<ctx, prompt, staged, req, handoff, used, wish, dropped, repeated>>
      /\ Written' = Written
      /\ told' = told \cup (runs[r].ctx \X {r})
  BY DEF Tell, Written
<1>2. Told' = Told \cup runs[r].ctx
      /\ HeldBy("ready") \subseteq HeldBy("ready")' \cup runs[r].ctx
      /\ HeldBy("ready")' \subseteq HeldBy("ready")
  <2>1. Told' = Told \cup runs[r].ctx
    <3>1. ASSUME NEW t, t \in Told' PROVE t \in Told \cup runs[r].ctx
      BY <1>1, <3>1 DEF Told
    <3>2. ASSUME NEW t, t \in Told \cup runs[r].ctx PROVE t \in Told'
      <4>1. CASE t \in Told BY <1>1, <4>1 DEF Told
      <4>2. CASE t \in runs[r].ctx
        <5>1. <<t, r>> \in told' /\ <<t, r>>[1] = t BY <1>1, <4>2
        <5> QED  BY <5>1 DEF Told
      <4> QED  BY <3>2, <4>1, <4>2
    <3> QED  BY <3>1, <3>2
  <2>2. ASSUME NEW t, t \in HeldBy("ready")' PROVE t \in HeldBy("ready")
    BY <1>0, <2>2 DEF HeldBy
  <2>3. ASSUME NEW t, t \in HeldBy("ready") PROVE t \in HeldBy("ready")' \cup runs[r].ctx
    BY <1>0, <2>3 DEF HeldBy
  <2> QED  BY <2>1, <2>2, <2>3
<1>3. ToldAreDone'
  BY <1>0, <1>1 DEF Mail, ToldAreDone
<1>4. \A t : /\ ToldBy(t)' = IF t \in runs[r].ctx THEN ToldBy(t) \cup {r} ELSE ToldBy(t)
             /\ HeldBehind(t)' = HeldBehind(t) \ {r}
             /\ (t \in runs[r].ctx <=> r \in HeldBehind(t))
             /\ LoadedBy(t)' = LoadedBy(t)
  BY <1>0, <1>1 DEF ToldBy, HeldBehind, LoadedBy
<1>5. Known'
  BY <1>0, <1>1, <1>2 DEF Mail, Known
<1>6. NoneLost'
  BY <1>1, <1>2 DEF Mail, NoneLost, Somewhere
<1>7. NoneTwice'
  BY <1>1, <1>4 DEF Mail, NoneTwice, OnePlace
<1>8. RunFollowsRequest'
  BY <1>0, <1>1, <1>2 DEF Mail, RunFollowsRequest
<1> QED  BY <1>1, <1>3, <1>5, <1>6, <1>7, <1>8 DEF Mail, WishIsStaged

\* A run that ends between its clear and its agent drops what it holds.
LEMMA LeaveMail ==
  ASSUME StagedRunsAssumption, Wf, Mail, NEW r \in DOMAIN runs,
         Finish(r) \/ SetupFails(r) \/ Killed(r)
  PROVE Mail'
<1>0. /\ DOMAIN runs' = DOMAIN runs /\ \A q \in DOMAIN runs : q # r => runs'[q] = runs[q]
      /\ runs'[r].pc = "over" /\ runs'[r].ctx = {}
  BY LeaveWf DEF Gone, Blank
<1>1. /\ UNCHANGED <<ctx, prompt, staged, req, handoff, used, told, wish, repeated>>
      /\ Written' = Written
      /\ dropped' = IF runs[r].pc = "ready" THEN dropped \cup runs[r].ctx ELSE dropped
  BY DEF Finish, SetupFails, Killed, Written
<1>2. Told' = Told /\ HeldBy("ready")' \subseteq HeldBy("ready")
      /\ HeldBy("ready") \subseteq HeldBy("ready")' \cup dropped'
  <2>1. Told' = Told BY <1>1 DEF Told
  <2>2. ASSUME NEW t, t \in HeldBy("ready")' PROVE t \in HeldBy("ready")
    BY <1>0, <2>2 DEF HeldBy
  <2>3. ASSUME NEW t, t \in HeldBy("ready") PROVE t \in HeldBy("ready")' \cup dropped'
    BY <1>0, <1>1, <2>3 DEF HeldBy
  <2> QED  BY <2>1, <2>2, <2>3
<1>3. ToldAreDone'
  BY <1>0, <1>1 DEF Mail, ToldAreDone
<1>4. \A t : /\ ToldBy(t)' = ToldBy(t) /\ HeldBehind(t)' = HeldBehind(t) \ {r}
             /\ LoadedBy(t)' = LoadedBy(t) \ {r}
  BY <1>0, <1>1 DEF ToldBy, HeldBehind, LoadedBy
<1>5. Known'
  BY <1>0, <1>1, <1>2 DEF Mail, Known
<1>6. NoneLost'
  BY <1>1, <1>2 DEF Mail, NoneLost, Somewhere
<1>7. NoneTwice'
  BY <1>1, <1>4 DEF Mail, NoneTwice, OnePlace
<1>8. RunFollowsRequest'
  BY <1>0, <1>1, <1>2 DEF Mail, RunFollowsRequest
<1> QED  BY <1>1, <1>3, <1>5, <1>6, <1>7, <1>8 DEF Mail, WishIsStaged

-----------------------------------------------------------------------------
(* The invariant implies that texts have one fate, and holds.              *)

\* Counting a set of runs: none, at least one, at most one.
LEMMA AtMostOne ==
  ASSUME NEW n \in Nat, NEW S, S \subseteq 1..n
  PROVE  /\ Cardinality(S) \in Nat
         /\ S = {} => Cardinality(S) = 0
         /\ S # {} => Cardinality(S) >= 1
         /\ (\A q, r \in S : q = r) => Cardinality(S) <= 1
<1>1. IsFiniteSet(S) /\ Cardinality(S) \in Nat
  <2>1. IsFiniteSet(1..n) /\ S \in SUBSET (1..n) BY FS_Interval
  <2>2. IsFiniteSet(S) BY <2>1, FS_Subset
  <2> QED  BY <2>2, FS_CardinalityType
<1>2. (\A q, r \in S : q = r) /\ S # {} => \E x : S = {x}
  <2> SUFFICES ASSUME \A q, r \in S : q = r, NEW x \in S PROVE S = {x}
    OBVIOUS
  <2> QED OBVIOUS
<1>3. S = {} <=> Cardinality(S) = 0
  BY <1>1, FS_EmptySet
<1>4. (\E x : S = {x}) => Cardinality(S) = 1
  BY <1>1, FS_Singleton
<1>5. (\A q, r \in S : q = r) => Cardinality(S) <= 1
  <2>1. CASE S = {} BY <2>1, <1>3
  <2>2. CASE S # {} BY <2>2, <1>2, <1>4
  <2> QED  BY <2>1, <2>2
<1>6. S # {} => Cardinality(S) >= 1
  <2> DEFINE c == Cardinality(S)
  <2>1. c \in Nat /\ (S # {} => c # 0) BY <1>1, <1>3
  <2> HIDE DEF c
  <2>2. S # {} => c >= 1 BY <2>1
  <2> QED  BY <2>2 DEF c
<1> QED  BY <1>1, <1>3, <1>5, <1>6

\* From the places where a text may be to their number.
LEMMA OneFateHolds ==
  ASSUME StagedRunsAssumption, IInv
  PROVE  OneFate
<1> USE DEF IInv
<1> SUFFICES ASSUME NEW t \in Written
             PROVE  /\ t \notin dropped => Fates(t) >= 1
                    /\ t \notin repeated => Fates(t) <= 1
  BY DEF OneFate
<1> DEFINE T == Cardinality(ToldBy(t))
           H == Cardinality(HeldBehind(t))
           C == IF t \in ctx THEN 1 ELSE 0
           P == IF t \in prompt THEN 1 ELSE 0
<1>1. Fates(t) = T + H + C + P
  BY DEF Fates, ToldBy, HeldBehind
<1>2. PICK n \in Nat : DOMAIN runs = 1..n
  BY Types DEF Wf
<1>3. ToldBy(t) \subseteq 1..n /\ HeldBehind(t) \subseteq 1..n
  BY <1>2 DEF ToldBy, HeldBehind
<1>4. /\ T \in Nat /\ (ToldBy(t) = {} => T = 0) /\ (ToldBy(t) # {} => T >= 1)
      /\ (\A q, r \in ToldBy(t) : q = r) => T <= 1
  BY <1>3, AtMostOne
<1>5. /\ H \in Nat /\ (HeldBehind(t) = {} => H = 0) /\ (HeldBehind(t) # {} => H >= 1)
      /\ (\A q, r \in HeldBehind(t) : q = r) => H <= 1
  BY <1>3, AtMostOne
<1>6. ToldBy(t) = {} \/ HeldBehind(t) = {} \/ t \in repeated
  <2>1. \A r \in ToldBy(t) : r \notin HeldBehind(t)
    BY DEF ToldBy, HeldBehind, Mail, ToldAreDone
  <2>2. t \in Texts BY DEF Wf, TypeOK, Written
  <2> QED  BY <2>1, <2>2 DEF Mail, NoneTwice, OnePlace
<1>7. t \notin repeated => OnePlace(t)
  BY DEF Mail, NoneTwice, Wf, TypeOK, Written
<1>8. t \notin dropped => Somewhere(t)
  BY DEF Mail, NoneLost
<1>9. t \in Told => ToldBy(t) # {}
  <2> SUFFICES ASSUME NEW p \in told, p[1] = t PROVE p[2] \in ToldBy(t)
    BY DEF Told
  <2>1. p = <<p[1], p[2]>> BY DEF Wf, TypeOK
  <2> QED  BY <2>1 DEF ToldBy, Mail, ToldAreDone
<1>10. t \in HeldBy("ready") => HeldBehind(t) # {}
  BY DEF HeldBy, HeldBehind
<1> HIDE DEF T, H
<1>11. t \notin dropped => T + H + C + P >= 1
  BY <1>4, <1>5, <1>8, <1>9, <1>10 DEF Somewhere
<1>12. t \notin repeated => T + H + C + P <= 1
  BY <1>4, <1>5, <1>6, <1>7 DEF OnePlace
<1> QED  BY <1>1, <1>11, <1>12

\* The initial states satisfy the invariant.
LEMMA InitStaged ==
  ASSUME StagedRunsAssumption, Init
  PROVE  IInv
<1>1. /\ 1 <= MaxConvs /\ 0 <= MaxRuns /\ 0 \in 0..MaxEvents
      /\ convs \in Seq(BOOLEAN) /\ Len(convs) = 1 /\ 1 \in 0..Len(convs)
      /\ Len(<<>>) = 0 /\ runs = <<>> /\ DOMAIN runs = {}
  <2>1. <<TRUE>> \in Seq(BOOLEAN) /\ <<FALSE>> \in Seq(BOOLEAN) /\ Len(<<TRUE>>) = 1
        /\ Len(<<FALSE>>) = 1
    OBVIOUS
  <2>2. runs = <<>> /\ (convs = <<TRUE>> \/ convs = <<FALSE>>)
    BY DEF Init
  <2>3. convs \in Seq(BOOLEAN) /\ Len(convs) = 1 BY <2>1, <2>2
  <2>4. Len(<<>>) = 0 /\ DOMAIN runs = {} BY <2>2
  <2>5. 1 <= MaxConvs /\ 0 <= MaxRuns /\ 0 \in 0..MaxEvents BY DEF StagedRunsAssumption
  <2> QED  BY <2>2, <2>3, <2>4, <2>5
<1>2. Wf
  BY <1>1, EmptySeq DEF Init, Wf, TypeOK, Shapes, StagedRunsAssumption
<1>3. Mail
  BY <1>1
      DEF Init, Mail, Known, Written, Told, ToldAreDone, WishIsStaged, NoneLost, NoneTwice,
          OnePlace, ToldBy, HeldBehind, LoadedBy, RunFollowsRequest
<1> QED  BY <1>2, <1>3 DEF IInv

\* Every step keeps it.
LEMMA NextStaged ==
  ASSUME StagedRunsAssumption, IInv, Next
  PROVE  IInv'
<1>0. Wf /\ Mail  BY DEF IInv
<1>1. ASSUME Request  PROVE Wf' /\ Mail'
  BY <1>0, <1>1, WfRequests, KnownRequests, NoneLostRequests, NoneTwiceRequests,
         WishRequests, FollowsRequests, QuietRuns
    DEF Request, Wf, Mail, ToldAreDone
<1>2. ASSUME Dispatch  PROVE Wf' /\ Mail'
  BY <1>0, <1>2, DispatchWf, DispatchMail
<1>3. ASSUME NEW r \in DOMAIN runs,
             Load(r) \/ Clear(r) \/ Tell(r) \/ Finish(r) \/ SetupFails(r) \/ Killed(r)
      PROVE Wf' /\ Mail'
  BY <1>0, <1>3, LoadWf, LoadMail, ClearWf, ClearMail, TellWf, TellMail, LeaveWf, LeaveMail
<1> QED  BY <1>1, <1>2, <1>3 DEF Next, Request, IInv

\* A step of others keeps it.
LEMMA StutterStaged ==
  ASSUME IInv, UNCHANGED vars
  PROVE  IInv'
<1>1. UNCHANGED <<status, ctx, prompt, staged, current, convs, runs, req, handoff, used,
           told,
                  wish, dropped, repeated, events>>
  BY DEF vars
<1>2. Written' = Written /\ Told' = Told /\ \A pc : HeldBy(pc)' = HeldBy(pc)
  BY <1>1 DEF Written, Told, HeldBy
<1>3. \A t : ToldBy(t)' = ToldBy(t) /\ HeldBehind(t)' = HeldBehind(t)
           /\ LoadedBy(t)' = LoadedBy(t)
  BY <1>1 DEF ToldBy, HeldBehind, LoadedBy
<1>4. TypeOK' /\ Shapes'  BY <1>1 DEF IInv, Wf, TypeOK, Shapes, Continued
<1>5. Known' /\ ToldAreDone' /\ WishIsStaged'
  BY <1>1, <1>2 DEF IInv, Mail, Known, ToldAreDone, WishIsStaged
<1>6. NoneLost' /\ NoneTwice'
  BY <1>1, <1>2, <1>3 DEF IInv, Mail, NoneLost, NoneTwice, Somewhere, OnePlace
<1>7. RunFollowsRequest'  BY <1>1, <1>2 DEF IInv, Mail, RunFollowsRequest
<1> QED  BY <1>4, <1>5, <1>6, <1>7 DEF IInv, Wf, Mail

-----------------------------------------------------------------------------
(* The theorems.                                                           *)

\* The mailbox is well formed, and accounts for every text.
THEOREM Inductive == StagedRunsAssumption => (Spec => []IInv)
<1> SUFFICES ASSUME StagedRunsAssumption  PROVE Spec => []IInv  OBVIOUS
<1>1. Init => IInv  BY InitStaged
<1>2. IInv /\ [Next]_vars => IInv'
  <2> SUFFICES ASSUME IInv, [Next]_vars  PROVE IInv'  OBVIOUS
  <2>1. CASE Next  BY <2>1, NextStaged
  <2>2. CASE UNCHANGED vars  BY <2>2, StutterStaged
  <2> QED  BY <2>1, <2>2
<1> QED  BY <1>1, <1>2, PTL DEF Spec

\* A text that was left for the next run is staged, in the prompt, held by a run
\* that is about to tell it, or told: in one of these places, once, unless a race
\* or a replacement is on record for it.
THEOREM TextsHaveOneFate == StagedRunsAssumption => (Spec => []OneFate)
<1> SUFFICES ASSUME StagedRunsAssumption  PROVE Spec => []OneFate  OBVIOUS
<1>1. IInv => OneFate  BY OneFateHolds
<1> QED  BY <1>1, Inductive, PTL

\* A run loads the intent, the conversation and the message of the last accepted
\* request.
THEOREM RunsFollowRequests == StagedRunsAssumption => (Spec => []RunFollowsRequest)
<1> SUFFICES ASSUME StagedRunsAssumption  PROVE Spec => []RunFollowsRequest  OBVIOUS
<1>1. IInv => RunFollowsRequest  BY DEF IInv, Mail
<1> QED  BY <1>1, Inductive, PTL

=============================================================================
