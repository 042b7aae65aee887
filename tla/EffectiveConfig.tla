--------------------------- MODULE EffectiveConfig ---------------------------
(***************************************************************************)
(* What a run may touch, and what its preview says (domain/                *)
(* effective_config.py against worker/run_one.py, worker/sandbox.py).      *)
(*                                                                         *)
(* Settings come in layers: the global row, the project's defaults, the    *)
(* profile, the ticket.  Some defaults are copied into a ticket when it is *)
(* created, others looked up when it runs; all of them are edited in the   *)
(* meantime.  The preview of a draft or a ticket tells each value, the     *)
(* layer it comes from, and what is wrong; the worker puts the same values *)
(* together on its own when a run starts.                                  *)
(*                                                                         *)
(* One project, one profile, one ticket, whose repository is "repo", its   *)
(* git directory "meta" and its worktree "tree".  fs_read and fs_write     *)
(* stand for the additive lists, permission_mode for the replaced values.  *)
(***************************************************************************)
EXTENDS Naturals, Sequences, FiniteSetsExt

CONSTANTS Presets, None,
          Relative,   \* the presets whose directory is relative to the workspace
          Globals,    \* the global row: [base, presets]
          Projects,   \* a project: [mode, base, tools, linked]
          Profiles,   \* a profile: [reads, writes, level]
          Settings,    \* what a ticket sets: [reads, writes, level, push, dir, tools]
          MaxEdits    \* bound: requests

Paths == {"repo", "tree", "meta", "lib"}
Modes == {"directory", "git_worktree"}
Bases == {None, "main", "develop"}
Accesses == {None, "read_write", "read_only"}

EffectiveConfigAssumption ==
  /\ None \notin Presets /\ Relative \subseteq Presets
  /\ \A g \in Globals : g.base \in Bases /\ g.presets \subseteq Presets
  /\ \A p \in Projects : /\ p.mode \in Modes \cup {None} /\ p.base \in Bases
                         /\ p.tools \subseteq Presets /\ p.linked \in Accesses
  /\ \A p \in Profiles : p.reads \subseteq Paths /\ p.writes \subseteq Paths
  /\ \A c \in Settings :
       /\ c.reads \subseteq Paths /\ c.writes \subseteq Paths
       /\ c.push \in BOOLEAN /\ c.dir \in Accesses
       /\ c.tools = None \/ c.tools.enable \cup c.tools.disable \subseteq Presets
  /\ MaxEdits \in Nat

VARIABLES
  global, project, profile,
  draft,    \* the form: [mode, profiled, choice], or None
  ticket,   \* [row, linked, choice], or None
  edits

vars == <<global, project, profile, draft, ticket, edits>>

-----------------------------------------------------------------------------
\* The primary workspace of a ticket; path is None until a run has made it.
Rows == [mode : Modes, base : Bases, path : {None, "tree"}]
TicketRows == [row : Rows, linked : Accesses, choice : Settings]
Captured(tools) == [enable |-> tools, disable |-> {}]

TypeOK ==
  /\ global \in Globals /\ project \in Projects /\ profile \in Profiles
  /\ draft = None \/ draft.mode \in Modes \cup {None}
  /\ ticket = None \/ (ticket.row \in Rows /\ ticket.linked \in Accesses)
  /\ edits \in 0..MaxEdits

Init ==
  /\ global \in Globals /\ project \in Projects /\ profile \in Profiles
  /\ project.tools \subseteq global.presets
  /\ draft = None /\ ticket = None /\ edits = 0

Asks == edits < MaxEdits /\ edits' = edits + 1

-----------------------------------------------------------------------------
(* Creation.                                                               *)

\* apply_project_defaults, then create_ticket: the workspaces, and the tools if
\* the draft says nothing about them.
WithoutDefaults(d) ==   \* wrong: shows the form as it is
  [row |-> [mode |-> IF d.mode = None THEN "directory" ELSE d.mode, base |-> None, path |-> None],
   linked |-> None, choice |-> d.choice]
WithDefaults(d) ==
  LET modes == <<d.mode, project.mode, "directory">>
      capture == project.tools # {} /\ d.choice.tools = None
  IN [row |-> [mode |-> modes[Min({i \in 1..3 : modes[i] # None})], base |-> project.base, path |-> None],
      linked |-> project.linked,
      choice |-> IF capture THEN [d.choice EXCEPT !.tools = Captured(project.tools)] ELSE d.choice]

Enabled(choice) == IF choice.tools = None THEN {} ELSE choice.tools.enable
Disabled(choice) == IF choice.tools = None THEN {} ELSE choice.tools.disable

\* assert_known_toolchains, and a profile is required.
Refused(d) == ~d.profiled \/ ~(Enabled(WithDefaults(d).choice) \subseteq global.presets)

-----------------------------------------------------------------------------
(* The worker, when it starts a run of t.                                  *)

Workspace(t) == IF t.row.mode = "git_worktree" THEN "tree" ELSE "repo"
\* The linked workspace and the additional directory.
Shared(t, access) == IF access \in {t.linked, t.choice.dir} THEN {"lib"} ELSE {}

\* _profile_to_spec, _apply_workspace_permissions.
FsRead(t) == profile.reads \cup t.choice.reads \cup Shared(t, "read_only")
FsWrite(t) == profile.writes \cup t.choice.writes \cup {Workspace(t)} \cup Shared(t, "read_write")

\* build_bwrap_argv: reads are mounted first, then writes, then the git directory
\* of a worktree unless one of the two lists names it.
Writable(t) ==
  FsWrite(t) \cup (IF t.row.mode = "git_worktree" THEN {"meta"} \ FsRead(t) ELSE {})

Level(t) == IF t.choice.level # None THEN t.choice.level ELSE profile.level

\* The executor's rules against git push.
Denied(t) == IF t.choice.push THEN {} ELSE {"push"}

\* resolve_tool_paths.
SelectedWithDisabled(t) == project.tools \cup Enabled(t.choice)   \* wrong: forgets disable
Selected(t) == (project.tools \cup Enabled(t.choice)) \ Disabled(t.choice)
Place(preset, base) == <<preset, IF preset \in Relative THEN base ELSE "/">>
ToolPaths(t, base) == {Place(p, base) : p \in Selected(t) \cap global.presets}

-----------------------------------------------------------------------------
(* The preview.                                                            *)

\* _merge_items: each value with the first of the layers that has it.
Layered(groups) ==
  [v \in UNION {groups[i].values : i \in DOMAIN groups} |->
     groups[Min({i \in DOMAIN groups : v \in groups[i].values})].source]
From(source, values) == [source |-> source, values |-> values]

\* _additional_dir_items, _workspace_reach, _git_meta_derived_writes.
Dir(t, access) == IF t.choice.dir = access THEN {"lib"} ELSE {}
Reach(t) == IF t.row.path # None THEN t.row.path ELSE "repo"
Meta(t) == IF t.row.mode = "git_worktree" THEN {"meta"} ELSE {}

ShownReads(t) ==
  Layered(<<From("profile", profile.reads), From("ticket", t.choice.reads),
            From("ticket", Dir(t, "read_only")), From("derived", Shared(t, "read_only"))>>)
ShownWrites(t) ==
  Layered(<<From("profile", profile.writes), From("ticket", t.choice.writes),
            From("ticket", Dir(t, "read_write")),
            From("derived", {Reach(t)} \cup Shared(t, "read_write")), From("derived", Meta(t))>>)

\* _replace_field.
ShownLevel(t) ==
  IF t.choice.level # None THEN From("ticket", t.choice.level) ELSE From("profile", profile.level)

\* _resolve_toolchains.
ShownTools(t) ==
  Layered(<<From("project", project.tools \ Disabled(t.choice)),
            From("ticket", Enabled(t.choice) \ Disabled(t.choice))>>)

\* The base of a worktree: the row's, credited to the default it equals, else
\* the default.
ShownBase(t) ==
  LET own == t.row.base
      inherited == IF project.base # None THEN From("project", project.base)
                   ELSE IF global.base # None THEN From("global", global.base)
                   ELSE From("derived", None)
  IN IF own = None \/ own = inherited.values THEN inherited ELSE From("ticket", own)
ShownMode(t) == From(IF t.row.mode = project.mode THEN "project" ELSE "ticket", t.row.mode)

\* push is one of the denied tools.
ShownDenied(t) == Layered(<<From("derived", IF t.choice.push THEN {} ELSE {"push"})>>)

\* _collect_issues.
Issues(t) == {p \in Enabled(t.choice) \cup project.tools : p \notin global.presets}

Preview(t) ==
  [reads |-> ShownReads(t), writes |-> ShownWrites(t), level |-> ShownLevel(t),
   tools |-> ShownTools(t), paths |-> ToolPaths(t, "repo"), denied |-> ShownDenied(t),
   mode |-> ShownMode(t), base |-> IF t.row.mode = "git_worktree" THEN ShownBase(t) ELSE None,
   issues |-> Issues(t)]

\* input_from_draft.
Drafted(d) == WithDefaults(d)

-----------------------------------------------------------------------------
(* Requests and runs.                                                      *)

SetGlobal(g) ==
  /\ Asks /\ g # global
  /\ global' = g
  /\ UNCHANGED <<project, profile, draft, ticket>>

SetProject(p) ==
  /\ Asks /\ p # project
  /\ p.tools # project.tools => p.tools \subseteq global.presets
  /\ project' = p
  /\ UNCHANGED <<global, profile, draft, ticket>>

SetProfile(p) ==
  /\ Asks /\ p # profile
  /\ profile' = p
  /\ UNCHANGED <<global, project, draft, ticket>>

Fill(mode, profiled, choice) ==
  /\ Asks /\ ticket = None
  /\ draft' = [mode |-> mode, profiled |-> profiled, choice |-> choice]
  /\ UNCHANGED <<global, project, profile, ticket>>

Create ==
  /\ draft # None /\ ~Refused(draft)
  /\ ticket' = WithDefaults(draft)
  /\ draft' = None
  /\ UNCHANGED <<global, project, profile, edits>>

\* update_ticket.
Change(choice) ==
  /\ Asks /\ ticket # None /\ choice # ticket.choice
  /\ choice.tools # ticket.choice.tools => Enabled(choice) \subseteq global.presets
  /\ ticket' = [ticket EXCEPT !.choice = choice]
  /\ UNCHANGED <<global, project, profile, draft>>

\* _apply_workspaces: new rows.
Rearrange(mode, base, linked) ==
  /\ Asks /\ ticket # None
  /\ ticket' = [ticket EXCEPT !.row = [mode |-> mode, base |-> base, path |-> None], !.linked = linked]
  /\ UNCHANGED <<global, project, profile, draft>>

\* A run makes the worktree and records its path.
Prepare ==
  /\ ticket # None /\ ticket.row.mode = "git_worktree" /\ ticket.row.path = None
  /\ ticket' = [ticket EXCEPT !.row.path = "tree"]
  /\ UNCHANGED <<global, project, profile, draft, edits>>

Next ==
  \/ \E g \in Globals : SetGlobal(g)
  \/ \E p \in Projects : SetProject(p)
  \/ \E p \in Profiles : SetProfile(p)
  \/ \E c \in Settings : Change(c) \/ \E m \in Modes \cup {None}, b \in BOOLEAN : Fill(m, b, c)
  \/ \E m \in Modes, b \in Bases, a \in Accesses : Rearrange(m, b, a)
  \/ Create \/ Prepare

Spec == Init /\ [][Next]_vars

-----------------------------------------------------------------------------
(* Correctness.                                                            *)

\* The preview of a draft is that of the ticket it becomes, and a draft that
\* would be refused shows why.
DraftIsTold ==
  draft # None =>
    /\ Preview(Drafted(draft)) = Preview(WithDefaults(draft))
    /\ Refused(draft) => ~draft.profiled \/ Issues(Drafted(draft)) # {}

\* What the preview of a ticket shows is what its run gets, and a preset the run
\* would pass over is an issue; except that
\*   - a worktree that is not there yet is shown as its repository,
\*   - the git directory is not writable for a run that names it as readable,
\*   - relative tool paths are shown below the repository, not the worktree,
\*   - a default base the ticket has not captured is shown, but not used.
PreviewIsRun ==
  ticket # None =>
    LET shown == Preview(ticket)
        future == ticket.row.mode = "git_worktree" /\ ticket.row.path = None
        except == (IF future THEN {"repo", "tree"} ELSE {}) \cup ({"meta"} \cap FsRead(ticket))
    IN /\ DOMAIN shown.reads = FsRead(ticket)
       /\ DOMAIN shown.writes \ except = Writable(ticket) \ except
       /\ shown.level.values = Level(ticket)
       /\ DOMAIN shown.denied = Denied(ticket)
       /\ DOMAIN shown.tools = Selected(ticket)
       /\ Workspace(ticket) = "repo" \/ Selected(ticket) \cap Relative = {} =>
            shown.paths = ToolPaths(ticket, Workspace(ticket))
       /\ ticket.row.base # None /\ shown.base # None => shown.base.values = ticket.row.base
       /\ Selected(ticket) \ global.presets \subseteq shown.issues
=============================================================================
