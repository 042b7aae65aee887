------------------------------ MODULE MCServices ------------------------------
(***************************************************************************)
(* The services that share no state, in one state space for TLC: each      *)
(* initial state picks the one that runs.  Its variables are the registers *)
(* v1, v2, ...; those it does not need are None.                           *)
(***************************************************************************)
EXTENDS Integers, Sequences, FiniteSets, TLC

CONSTANTS None,
          Services,                               \* those to check
          Pair, Others,                           \* tickets, texts, sessions, users, items, ...
          Tickets, MaxRequests,                   \* TicketQueue
          MaxRuns, MaxConvs, MaxEvents,           \* StagedRuns
          Pods, MaxMishaps,                       \* PodRuns
          Backend, MaxLines, MaxDrops,            \* Transcripts
          Subjects, MaxMoves,                     \* Outcomes
          Ids, MaxClock,                          \* ActivityFeed
          Endpoints, MaxEdits,                    \* Providers
          Repos, MaxTries, MaxFaults,             \* Workspaces
          Presets, MaxChanges,                    \* EffectiveConfig
          MaxBufferRecoveries, MaxSaid, PipeRoom, \* ClaudeTurns
          Replies, MaxTold,                       \* OpencodeTurns
          PerPage, MaxIids, MaxRevisions, MaxCalls,  \* ExternalLinks
          Ttl, MaxTime,                           \* Browsing
          TreeNames, MaxAsks,                     \* TicketForms
          PageLimit, MaxStirs,                    \* TicketPages
          PriceTtl, PriceTime, MaxVersions,       \* Pricing
          Margin, TurnTime, MaxTurnEvents,        \* TurnLatency
          SpendTime, MaxMeddling,                 \* Analytics
          MaxTurns, MaxStarts,                    \* ResidentTurns
          MaxFileLines, MaxHosts, MaxSyncs,       \* SessionImport
          TokenTime, MaxUses                        \* AccessTokens

VARIABLES service, v1, v2, v3, v4, v5, v6, v7, v8, v9, v10, v11, v12, v13, v14, v15

vars == <<service, v1, v2, v3, v4, v5, v6, v7, v8, v9, v10, v11, v12, v13, v14, v15>>

-----------------------------------------------------------------------------
(* The instances.                                                          *)

\* The tie-breaker of the queue, two windows that overlap, one of them over
\* midnight, and the times at which the scheduler looks.
ByName == CHOOSE f \in [Tickets -> 1..Cardinality(Tickets)] :
            \A t, u \in Tickets : f[t] = f[u] => t = u
Night == << [days |-> {1}, start |-> 22, end |-> 2, cap |-> 1],
            [days |-> {1, 2}, start |-> 0, end |-> 0, cap |-> 2] >>
Looks == {[day |-> 1, time |-> 23], [day |-> 1, time |-> 12], [day |-> 3, time |-> 1]}

Queue == INSTANCE TicketQueue WITH
  Rank <- ByName, Windows <- Night, Times <- Looks,
  col <- v1, pos <- v2, forced <- v3, deps <- v4, ok <- v5, tick <- v6, requests <- v7, asked <- v8

Staged == INSTANCE StagedRuns WITH
  Texts <- Pair,
  status <- v1, ctx <- v2, prompt <- v3, staged <- v4, current <- v5, convs <- v6, runs <- v7,
  req <- v8, handoff <- v9, used <- v10, told <- v11, wish <- v12, dropped <- v13,
  repeated <- v14, events <- v15

Pod == INSTANCE PodRuns WITH
  Runs <- Pods, MaxEvents <- MaxMishaps,
  run <- v1, row <- v2, onBoard <- v3, cancelled <- v4, token <- v5, secret <- v6, pod <- v7,
  agent <- v8, sidecar <- v9, sweep <- v10, mishaps <- v11, spoiled <- v12

\* The executors of two turns of one conversation.
PodThenClaude == <<"pod", "claude">>

Stream == INSTANCE Transcripts WITH
  file <- v1, torn <- v2, turn <- v3, running <- v4, conn <- v5, client <- v6, drops <- v7,
  crowded <- v8

Digest == INSTANCE Outcomes WITH
  Tickets <- Subjects,
  status <- v1, acked <- v2, log <- v3, work <- v4, digest <- v5, moves <- v6, outcome <- v7,
  seen <- v8, slipped <- v9

Feed == INSTANCE ActivityFeed WITH
  Limit <- 1,
  rows <- v1, clock <- v2, filter <- v3, cursor <- v4, done <- v5, shown <- v6, there <- v7

\* Endpoints the Claude SDK alone, both backends, and opencode alone may dial;
\* a configuration without and with a named agent; a ticket that overrides
\* nothing, the backend, or the configuration.
Kinds == {[protocol |-> "anthropic", lock |-> "claude_sdk", model |-> None],
          [protocol |-> "anthropic_compat", lock |-> None, model |-> "glm"],
          [protocol |-> "openai", lock |-> None, model |-> None]}
WithAgent(e) == [second |-> "small", agent |-> [endpoint |-> e, model |-> None]]
Files == {[second |-> None, agent |-> None]} \cup {WithAgent(e) : e \in Endpoints}
OneFile == {WithAgent(CHOOSE e \in Endpoints : TRUE)}
Ovs == {[backend |-> b, config |-> c] : b \in {None, "opencode"}, c \in {None} \cup OneFile}
         \ {[backend |-> "opencode", config |-> c] : c \in OneFile}

Dial == INSTANCE Providers WITH
  Surfaces <- Kinds, Configs <- Files, Overrides <- Ovs,
  endpoint <- v1, gone <- v2, profile <- v3, override <- v4, run <- v5, edits <- v6,
  ungated <- v7, moved <- v8

\* Worktrees are kept as they are, or committed and removed.
Ways == {[cleanup |-> FALSE, commit |-> FALSE], [cleanup |-> TRUE, commit |-> TRUE]}

Trees == INSTANCE Workspaces WITH
  Tickets <- Pair, Policies <- Ways, MaxRuns <- MaxTries,
  same <- v1, policy <- v2, rows <- v3, ran <- v4, intent <- v5, run <- v6, trees <- v7,
  branches <- v8, runs <- v9, faults <- v10, clones <- v11, failed <- v12, lost <- v13

\* Two presets, the second one relative; projects with and without defaults,
\* a profile that names the git directory, and tickets that ask for nothing, for
\* values of their own, for the second preset, and against the first.
Go == CHOOSE p \in Presets : TRUE
Uv == CHOOSE p \in Presets : p # Go
GlobalRows == [base : {None, "main"}, presets : {Presets, {Go}}]
Desks == [mode : {None, "git_worktree"}, base : {None, "main"}, tools : {{Go}}, linked : {"read_only"}]
           \cup {[mode |-> None, base |-> None, tools |-> s, linked |-> None] : s \in {{}, Presets}}
Roles == {[reads |-> {}, writes |-> {"lib"}, level |-> "plan"],
          [reads |-> {"lib", "meta"}, writes |-> {}, level |-> "auto"]}
Plain == [reads |-> {}, writes |-> {}, level |-> None, push |-> FALSE, dir |-> None, tools |-> None]
Wants == {Plain,
          [Plain EXCEPT !.reads = {"lib"}, !.level = "auto", !.push = TRUE],
          [Plain EXCEPT !.dir = "read_write", !.tools = [enable |-> {Uv}, disable |-> {}]],
          [Plain EXCEPT !.tools = [enable |-> {}, disable |-> {Go}]]}

Context == INSTANCE EffectiveConfig WITH
  Relative <- {Uv}, Globals <- GlobalRows, Projects <- Desks, Profiles <- Roles, Settings <- Wants,
  MaxEdits <- MaxChanges,
  global <- v1, project <- v2, profile <- v3, draft <- v4, ticket <- v5, edits <- v6

Claude == INSTANCE ClaudeTurns WITH
  Sessions <- Pair,
  runner <- v1, rc <- v2, attempt <- v3, sid <- v4, said <- v5, pipe <- v6, cancel <- v7,
  drain <- v8, heard <- v9, conversation <- v10, file <- v11, turn <- v12

Opencode == INSTANCE OpencodeTurns WITH
  server <- v1, phase <- v2, session <- v3, agent <- v4, sent <- v5, stream <- v6, state <- v7,
  cancel <- v8, file <- v9, outcome <- v10

Linked == INSTANCE ExternalLinks WITH
  Tickets <- Pair, Items <- Others, Batches <- Others,
  batch <- v1, revision <- v2, recent <- v3, ticket <- v4, link <- v5, api <- v6, pass <- v7,
  calls <- v8, crossed <- v9, missed <- v10

Browse == INSTANCE Browsing WITH
  Users <- Pair,
  clock <- v1, user <- v2, reviewer <- v3, status <- v4, kept <- v5, answer <- v6

Forms == INSTANCE TicketForms WITH
  Tickets <- Pair, Names <- TreeNames, MaxCalls <- MaxAsks,
  rows <- v1, bulk <- v2, ungated <- v3, renamed <- v4, copied <- v5, quiet <- v6, calls <- v7

Pages == INSTANCE TicketPages WITH
  Limit <- PageLimit, MaxChanges <- MaxStirs,
  born <- v1, touched <- v2, match <- v3, client <- v4, page <- v5, stay <- v6, left <- v7,
  changes <- v8

\* A model of the vendor its name suggests, in the first half of the file and in
\* the bundled table; one that is resold under another name, in the second half.
\* Runs of one, of the other, which a third vendor may serve, or without a plan.
Rates == [opus |-> [tags |-> {"anthropic"}, table |-> {"anthropic"}, half |-> 1, claude |-> TRUE,
                    looks |-> "anthropic"],
          glm  |-> [tags |-> {"reseller"}, table |-> {}, half |-> 2, claude |-> FALSE, looks |-> "zai"]]
Assigned == {[vendors |-> [opus |-> "anthropic"], primary |-> "opus"],
             [vendors |-> [glm |-> "ollama"], primary |-> "glm"],
             [vendors |-> << >>, primary |-> None]}
Used == {[models |-> {"opus"}, several |-> FALSE], [models |-> {"glm"}, several |-> FALSE],
         [models |-> {"glm"}, several |-> TRUE], [models |-> {"opus", "glm"}, several |-> TRUE]}

Prices == INSTANCE Pricing WITH
  Resolvers <- Pair, Book <- Rates, Plans <- Assigned, Usages <- Used, Models <- DOMAIN Rates,
  Ttl <- PriceTtl, MaxTime <- PriceTime,
  clock <- v1, since <- v2, files <- v3, path <- v4, tmp <- v5, proc <- v6, cost <- v7

Calls == {"t1"}

Latency == INSTANCE TurnLatency WITH
  Tools <- Calls, MaxTime <- TurnTime, MaxEvents <- MaxTurnEvents,
  clock <- v1, file <- v2, runs <- v3, latency <- v4

\* A ticket without and one with a project; days of three hours; the clocks of the
\* zones are set back, or forward, on the first day.
Desk == [t1 |-> None, t2 |-> "web"]
Known == [glm |-> 3]
Zs == {[at |-> 2, before |-> 6, after |-> 5], [at |-> 2, before |-> 5, after |-> 6]}

Spend == INSTANCE Analytics WITH
  Tickets <- DOMAIN Desk, Project <- Desk, Price <- Known, Models <- DOMAIN Known,
  Day <- 3, Windows <- {2}, Zones <- Zs, Limit <- 1, MaxTime <- SpendTime,
  clock <- v1, zone <- v2, runs <- v3, query <- v4, shown <- v5

Talk == INSTANCE ResidentTurns WITH
  Backends <- {"claude", "opencode"}, MaxTokens <- 1, MaxFaults <- 2,
  backend <- v1, turns <- v2, host <- v3, inner <- v4, server <- v5, stream <- v6, queue <- v7,
  saved <- v8, total <- v9, truth <- v10, marks <- v11, faults <- v12

Imported == INSTANCE SessionImport WITH
  MaxLines <- MaxFileLines,
  file <- v1, half <- v2, lag <- v3, pipe <- v4, told <- v5, watermark <- v6, known <- v7,
  host <- v8, call <- v9, lines <- v10, hosts <- v11, syncs <- v12, ghost <- v13

\* A limited bundle that expires, a list with a scope for humans only, a list that
\* comes with a bundle; a profile of an import; what needs one gate, or two.
Minted == {[bundle |-> "pm_agent", scopes |-> None, profiles |-> {"web"}, days |-> 2],
           [bundle |-> None, scopes |-> {"config.read", "config.write"}, profiles |-> {}, days |-> None],
           [bundle |-> "observer", scopes |-> {"tickets.create"}, profiles |-> {}, days |-> None]}
Added == {{}, {"ticket.create", "tokens.admin"}}
Call(gates, t, p) == [gates |-> gates, ticket |-> t, profile |-> p]
Called == {Call(<<"tickets.create">>, None, "web"), Call(<<"tickets.create">>, None, "lib"),
           Call(<<"config.read", "config.write">>, None, None), Call(<<"config.read", "config.read">>, None, None),
           Call(<<"run.mark_done.self">>, "t2", None)}
Own == [r1 |-> "t1"]

Access == INSTANCE AccessTokens WITH
  Agents <- {"k1"}, Runs <- DOMAIN Own, Ticket <- Own, Clients <- {"c1"},
  Wishes <- Minted, Extras <- Added, Calls <- Called,
  Resolution <- 1, RunLife <- TokenTime, MaxTime <- TokenTime, MaxCalls <- MaxUses,
  clock <- v1, api <- v2, run <- v3, call <- v4, granted <- v5, seen <- v6, done <- v7, calls <- v8

ASSUME ServicesAssumption ==
  /\ Queue!TicketQueueAssumption /\ Staged!StagedRunsAssumption
  /\ Pod!PodRunsAssumption /\ Stream!TranscriptsAssumption
  /\ Digest!OutcomesAssumption /\ Feed!ActivityFeedAssumption
  /\ Dial!ProvidersAssumption /\ Trees!WorkspacesAssumption
  /\ Context!EffectiveConfigAssumption
  /\ Claude!ClaudeTurnsAssumption /\ Opencode!OpencodeTurnsAssumption
  /\ Linked!ExternalLinksAssumption
  /\ Browse!BrowsingAssumption
  /\ Forms!TicketFormsAssumption
  /\ Pages!TicketPagesAssumption
  /\ Prices!PricingAssumption
  /\ Latency!TurnLatencyAssumption
  /\ Spend!AnalyticsAssumption
  /\ Talk!ResidentTurnsAssumption
  /\ Imported!SessionImportAssumption
  /\ Access!AccessTokensAssumption

\* (The tickets of the queue are not interchangeable: it breaks ties by their rank.)
Symmetry == Permutations(Pair) \cup Permutations(Others)

-----------------------------------------------------------------------------
(* The registers from the fifth on, unused.                                 *)

Rest15 == v15 = None
Rest14 == v14 = None /\ Rest15
Rest13 == v13 = None /\ v14 = None /\ v15 = None
Rest11 == v11 = None /\ v12 = None /\ Rest13
Rest10 == v10 = None /\ Rest11
Rest9  == v9 = None /\ Rest10
Rest8  == v8 = None /\ Rest9
Rest7  == v7 = None /\ Rest8
Rest6  == v6 = None /\ Rest7
Rest5  == v5 = None /\ Rest6

Init ==
  /\ service \in Services
  /\ \/ service = "queue" /\ Queue!Init /\ Rest9
     \/ service = "staged" /\ Staged!Init
     \/ service = "pod" /\ Pod!Init /\ Rest13
     \/ service = "stream" /\ Stream!Init /\ Rest9
     \/ service = "digest" /\ Digest!Init /\ Rest10
     \/ service = "feed" /\ Feed!Init /\ Rest8
     \/ service = "dial" /\ Dial!Init /\ Rest9
     \/ service = "trees" /\ Trees!Init /\ Rest14
     \/ service = "context" /\ Context!Init /\ Rest7
     \/ service = "claude" /\ Claude!Init /\ Rest13
     \/ service = "opencode" /\ Opencode!Init /\ Rest11
     \/ service = "links" /\ Linked!Init /\ Rest11
     \/ service = "browse" /\ Browse!Init /\ Rest7
     \/ service = "forms" /\ Forms!Init /\ Rest8
     \/ service = "pages" /\ Pages!Init /\ Rest9
     \/ service = "prices" /\ Prices!Init /\ Rest8
     \/ service = "latency" /\ Latency!Init /\ Rest5
     \/ service = "spend" /\ Spend!Init /\ Rest6
     \/ service = "turns" /\ Talk!Init /\ Rest13
     \/ service = "import" /\ Imported!Init /\ Rest14
     \/ service = "access" /\ Access!Init /\ Rest9

Next ==
  /\ UNCHANGED service
  /\ \/ service = "queue" /\ Queue!Next /\ UNCHANGED <<v9, v10, v11, v12, v13, v14, v15>>
     \/ service = "staged" /\ Staged!Next
     \/ service = "pod" /\ Pod!Next /\ UNCHANGED <<v13, v14, v15>>
     \/ service = "stream" /\ Stream!Next /\ UNCHANGED <<v9, v10, v11, v12, v13, v14, v15>>
     \/ service = "digest" /\ Digest!Next /\ UNCHANGED <<v10, v11, v12, v13, v14, v15>>
     \/ service = "feed" /\ Feed!Next /\ UNCHANGED <<v8, v9, v10, v11, v12, v13, v14, v15>>
     \/ service = "dial" /\ Dial!Next /\ UNCHANGED <<v9, v10, v11, v12, v13, v14, v15>>
     \/ service = "trees" /\ Trees!Next /\ UNCHANGED <<v14, v15>>
     \/ service = "context" /\ Context!Next /\ UNCHANGED <<v7, v8, v9, v10, v11, v12, v13, v14, v15>>
     \/ service = "claude" /\ Claude!Next /\ UNCHANGED <<v13, v14, v15>>
     \/ service = "opencode" /\ Opencode!Next /\ UNCHANGED <<v11, v12, v13, v14, v15>>
     \/ service = "links" /\ Linked!Next /\ UNCHANGED <<v11, v12, v13, v14, v15>>
     \/ service = "browse" /\ Browse!Next /\ UNCHANGED <<v7, v8, v9, v10, v11, v12, v13, v14, v15>>
     \/ service = "forms" /\ Forms!Next /\ UNCHANGED <<v8, v9, v10, v11, v12, v13, v14, v15>>
     \/ service = "pages" /\ Pages!Next /\ UNCHANGED <<v9, v10, v11, v12, v13, v14, v15>>
     \/ service = "prices" /\ Prices!Next /\ UNCHANGED <<v8, v9, v10, v11, v12, v13, v14, v15>>
     \/ service = "latency" /\ Latency!Next /\ UNCHANGED <<v5, v6, v7, v8, v9, v10, v11, v12, v13, v14, v15>>
     \/ service = "spend" /\ Spend!Next /\ UNCHANGED <<v6, v7, v8, v9, v10, v11, v12, v13, v14, v15>>
     \/ service = "turns" /\ Talk!Next /\ UNCHANGED <<v13, v14, v15>>
     \/ service = "import" /\ Imported!Next /\ UNCHANGED <<v14, v15>>
     \/ service = "access" /\ Access!Next /\ UNCHANGED <<v9, v10, v11, v12, v13, v14, v15>>

Spec == Init /\ [][Next]_vars

-----------------------------------------------------------------------------
(* What the modules state.                                                 *)

\* The type invariants of the modules.
TypeOK ==
  CASE service = "queue"  -> Queue!TypeOK
    [] service = "staged" -> Staged!TypeOK
    [] service = "pod"    -> Pod!TypeOK
    [] service = "stream" -> Stream!TypeOK
    [] service = "digest" -> Digest!TypeOK
    [] service = "feed"   -> Feed!TypeOK
    [] service = "dial"   -> Dial!TypeOK
    [] service = "trees"  -> Trees!TypeOK
    [] service = "context" -> Context!TypeOK
    [] service = "claude" -> Claude!TypeOK
    [] service = "opencode" -> Opencode!TypeOK
    [] service = "links" -> Linked!TypeOK
    [] service = "browse" -> Browse!TypeOK
    [] service = "forms" -> Forms!TypeOK
    [] service = "pages" -> Pages!TypeOK
    [] service = "prices" -> Prices!TypeOK
    [] service = "latency" -> Latency!TypeOK
    [] service = "spend" -> Spend!TypeOK
    [] service = "turns" -> Talk!TypeOK
    [] service = "import" -> Imported!TypeOK
    [] service = "access" -> Access!TypeOK

\* TicketQueue: no chain of requests closes a cycle of dependencies, and a ticket
\* is where its move between columns put it.  TicketForms: what is on the board
\* can run, through edits, clones and the archive, and comes back as it should.
BoardHolds ==
  /\ service = "queue" => Queue!Acyclic /\ Queue!MovesTakeEffect
  /\ service = "forms" => Forms!BoardIsRunnable /\ Forms!LinkedFollowPrimary /\ Forms!ComesBackQuietly
                           /\ Forms!StagedIsOwn /\ Forms!BulkAnswerIsTrue

\* TicketQueue: a step keeps the order of the tickets it does not move.
OrderKept == [][service = "queue" => Queue!KeepsOrder]_vars

\* StagedRuns: no staged text is lost or told twice without a cause, and a run
\* does what the last accepted request asked for.
OneFate == service = "staged" => Staged!OneFate
RunFollowsRequest == service = "staged" => Staged!RunFollowsRequest

\* PodRuns: the recorded outcome is the reported one, and the pod of a run that
\* works is not deleted.  ClaudeTurns and OpencodeTurns: a turn reports how its
\* agent ended, keeps the session it can be continued in, and leaves no server.
\* ResidentTurns: so do the turns of a resident agent, through restarts and sleeps.
ReportStands ==
  /\ service = "pod" => Pod!ReportStands
  /\ service = "claude" => Claude!VerdictIsTrue /\ Claude!SessionIsKept /\ Claude!ResumesAreSound
  /\ service = "opencode" => Opencode!IdleVerdictIsTrue /\ Opencode!ServerIsStopped
  /\ service = "turns" => Talk!VerdictIsTold /\ Talk!ConversationIsKept
WorkIsNotCutOff == [][service = "pod" => Pod!LeavesWorkAlone]_vars

\* Transcripts: seqs increase through a file, and clients get every line once.
\* ClaudeTurns and OpencodeTurns: the file tells what the agent said, once.
\* SessionImport: so does that of a resident agent, with what a terminal added.
StreamIsExact ==
  /\ service = "stream" => Stream!SeqsIncrease /\ Stream!StreamIsExact
  /\ service = "claude" => Claude!TurnIsTold
  /\ service = "opencode" => Opencode!IdleTurnIsTold
  /\ service = "import" => Imported!ToldOnce /\ Imported!NothingPassed /\ Imported!ToldInOrder

\* Outcomes and ActivityFeed: acknowledged outcomes were seen, the event log
\* tells the status, pages of the feed neither skip nor repeat, and its rollups
\* count its rows.  ExternalLinks and Browsing: a link shows a state its item has
\* had since it was synced, a pass refreshes what it can, and readers see merge
\* requests as they were a short time ago.  TicketPages: the last page of the
\* list of tickets is the last.  Pricing: the rates of a run were in effect while
\* it ran, its cost counts all it used, and the prices page tells of its models.
\* TurnLatency: a run's latencies are of its own turn.  Analytics: the figures of
\* one dashboard agree, and its days hold the runs of its window.  ResidentTurns: a
\* resident agent's turn is charged with what it used, once.  AccessTokens: a token
\* was last used when the list says.
RecordsAreTrue ==
  /\ service = "digest" => Digest!AckedWasSeen /\ Digest!LogTellsStatus
  /\ service = "feed" => Feed!PagesAreExact /\ Feed!RollupsMatchTheFeed
  /\ service = "links" => Linked!SyncedIsTrue /\ Linked!PassIsComplete
  /\ service = "browse" => Browse!AnswersAreRecent
  /\ service = "pages" => Pages!LastPageIsLast
  /\ service = "prices" => Prices!RatesWereInEffect /\ Prices!CostIsWhole /\ Prices!PageFollowsRuns
  /\ service = "latency" => Latency!LatencyIsOwn
  /\ service = "spend" => Spend!RollupsAgree /\ Spend!LaterReadsGrow /\ Spend!SeriesIsWhole
  /\ service = "turns" => Talk!UsageIsSliced
  /\ service = "access" => Access!UsesAreRecorded

\* Providers and EffectiveConfig: profiles refer to endpoints that exist, a run
\* is refused only as the preview said, and dials what it resolved; the preview
\* of a draft is that of its ticket, and that of a ticket what its run gets.
\* AccessTokens: a token does what it was given, and not after it was taken back.
ConfigurationHolds ==
  /\ service = "dial" => Dial!ReferencesHold /\ Dial!RefusalsAreForeseen /\ Dial!AssignedIsResolved
  /\ service = "context" => Context!DraftIsTold /\ Context!PreviewIsRun
  /\ service = "access" => Access!CallsAreGranted /\ Access!RevocationStands

\* Workspaces: tickets work in their own trees, which keep uncommitted work,
\* and a retry finds them if no preparation failed and no tree was removed.
WorktreesHold ==
  service = "trees" => Trees!TreesAreOwn /\ Trees!WorkIsKept /\ Trees!KeptTreesAreFound

\* A retry always finds its tree.
RetryFindsItsTree == service = "trees" => Trees!RetryFindsItsTree
=============================================================================
