----------------------------- MODULE ProjectRuns -----------------------------
(***************************************************************************)
(* Project mode of the command line: which workspace a command is about    *)
(* (cli/core/invocation.py), which directory a run may replace             *)
(* (cli/project/layout.py), and what `ecc-fe run` does to the files        *)
(* (_run_project of cli/commands.py).                                      *)
(*                                                                         *)
(* An absolute path is the sequence of its names.  fs maps every path that *)
(* exists to a node: a directory, a file, a link to a path without links,  *)
(* or "home", a directory with the three files that make a workspace.      *)
(***************************************************************************)
EXTENDS Integers, Sequences, SequencesExt

Runs == <<"runs">>
Template == <<".ecc-fe", "template">>

-----------------------------------------------------------------------------
(* Paths. *)

\* os.path.abspath: names are put together without a look at the files.
Normalized(path) ==
    FoldLeft(LAMBDA done, name : CASE name = "." -> done
                                   [] name = ".." -> SubSeq(done, 1, Len(done) - 1)
                                   [] OTHER -> Append(done, name), <<>>, path)

\* os.path.realpath.
Real(fs, path) ==
    FoldLeft(LAMBDA done, name :
                LET here == Append(done, name)
                IN IF here \in DOMAIN fs /\ fs[here].kind = "link" THEN fs[here].to ELSE here,
             <<>>, path)

\* The place of a path itself, of which only the directories are followed.
Place(fs, path) == IF path = <<>> THEN <<>> ELSE Append(Real(fs, Front(path)), Last(path))
Lexists(fs, path) == path = <<>> \/ Place(fs, path) \in DOMAIN fs
IsLink(fs, path) == Lexists(fs, path) /\ path # <<>> /\ fs[Place(fs, path)].kind = "link"
IsDir(fs, path) ==
    \/ Real(fs, path) = <<>>
    \/ Real(fs, path) \in DOMAIN fs /\ fs[Real(fs, path)].kind \in {"dir", "home"}

Inside(fs, path) == {q \in DOMAIN fs : IsPrefix(path, q)}

\* is_workspace: the markers are there, also behind links.
IsWorkspace(fs, path) ==
    LET home == Real(fs, Append(Real(fs, path), "home"))
    IN home \in DOMAIN fs /\ fs[home].kind = "home"

\* resolve_run_dir: id is <<>> if there is none, else the way it is spelled and its names.
RunDir(project, id) ==
    CASE id = <<>> \/ id[1].names = <<>> \/ id[1].names = <<"default">> -> project \o Runs \o <<"default">>
      [] OTHER -> Normalized(CASE id[1].spelled = "absolute" -> id[1].names
                               [] id[1].spelled = "relative" -> project \o id[1].names
                               [] OTHER -> project \o Runs \o id[1].names)

\* resolves_as_spelled: no link between the project and the run.
ResolvesAsSpelled(fs, path, project) ==
    IF IsPrefix(project, path)
    THEN Real(fs, path) = Real(fs, project) \o SubSeq(path, Len(project) + 1, Len(path))
    ELSE Real(fs, path) = path

\* is_protected_run_target, of the paths as they are spelled and of the real ones.
Protected(fs, path, project) ==
    LET guarded(target, top) ==
            \/ IsPrefix(target, top) \/ target = top \o Runs
            \/ IsPrefix(target, top \o Template) \/ IsPrefix(top \o Template, target)
        real == Real(fs, path)
        template == Real(fs, project \o Template)
    IN \/ guarded(path, project)
       \/ IsPrefix(real, Real(fs, project)) \/ real = Real(fs, project) \o Runs
       \/ IsPrefix(real, template) \/ IsPrefix(template, real)

\* is_safe_run_directory.
Safe(fs, path) ==
    LET home == Append(Real(fs, path), "home") IN
    /\ IsDir(fs, path) /\ ~IsLink(fs, path)
    /\ \/ Inside(fs, Real(fs, path)) \subseteq {Real(fs, path)}
       \/ home \in DOMAIN fs /\ fs[home].kind = "home"

-----------------------------------------------------------------------------
(* A command's target.  i has the options as they are given: workspace and *)
(* project empty or a path, id as above; config is empty or has the run id *)
(* of ecc-fe.toml and whether that has a [flow] at all.                    *)

\* execute_command.
Context(fs, cwd, i, config) ==
    LET project == IF i.project = <<>> THEN cwd ELSE i.project[1]
        layout == \/ i.id # <<>>
                  \/ config # <<>> /\ config[1].flow
                  \/ IsDir(fs, project \o Template)
        id == IF i.id = <<>> /\ config # <<>> /\ config[1].run # <<>> /\ config[1].run[1].names # <<"default">>
              THEN config[1].run ELSE i.id
        is(mode, path, name) == [ok |-> TRUE, workspaceMode |-> mode, project |-> i.project, id |-> name,
                                 workspace |-> IF mode THEN Real(fs, path) ELSE path]
    IN CASE i.workspace # <<>> /\ (i.project # <<>> \/ i.id # <<>>) -> [ok |-> FALSE]
         [] i.workspace # <<>> /\ i.project = <<>> /\ i.id = <<>> -> is(TRUE, i.workspace[1], <<>>)
         [] OTHER ->
              IF ~(IsWorkspace(fs, project) /\ ~layout) /\ (layout \/ i.project # <<>>)
              THEN is(FALSE, RunDir(project, id), id)
              ELSE is(TRUE, project, <<>>)

\* _target_cmd: the options of the commands that an answer suggests.
Suggested(c) ==
    [workspace |-> IF c.workspaceMode THEN <<c.workspace>> ELSE <<>>,
     project |-> IF c.workspaceMode THEN <<>> ELSE c.project,
     id |-> c.id]

-----------------------------------------------------------------------------
(* run, in project mode. *)

Node(kind) == [kind |-> kind, to |-> <<>>]
Without(fs, path) == [q \in DOMAIN fs \ Inside(fs, path) |-> fs[q]]

\* clone_workspace_template: the directories above the run stay when it fails.
Cloned(fs, run, whole) ==
    LET above == {SubSeq(run, 1, k) : k \in 1..Len(run) - 1}
        made == IF whole THEN {run, Append(run, "home"), Append(run, "origin")} ELSE {}
    IN [q \in DOMAIN fs \cup above \cup made |->
            CASE q \in DOMAIN fs -> fs[q]
              [] q \notin DOMAIN fs /\ q = Append(run, "home") -> Node("home")
              [] OTHER -> Node("dir")]

\* _run_project.  fault says whether it fails while it copies or writes the parameters;
\* a file in the place of the directory above is taken for the run.
Run(fs, project, run, overwrite, fault) ==
    LET answer(files, said) == [fs |-> files, said |-> said]
        emptied == IF Lexists(fs, run) THEN Without(fs, Real(fs, run)) ELSE fs
        at == Real(emptied, run)
        blocking == {k \in 1..Len(at) - 1 : SubSeq(at, 1, k) \in DOMAIN fs /\ fs[SubSeq(at, 1, k)].kind = "file"}
        template == IsWorkspace(emptied, project \o Template)
    IN CASE Protected(fs, run, project) -> answer(fs, "invalid_run_id")
         [] ~Protected(fs, run, project) /\ Lexists(fs, run) /\ ~overwrite -> answer(fs, "run_exists")
         [] ~Protected(fs, run, project) /\ Lexists(fs, run) /\ overwrite
            /\ ~(ResolvesAsSpelled(fs, run, project) /\ Safe(fs, run)) -> answer(fs, "overwrite_refused")
         [] ~Protected(fs, run, project) /\ ~Lexists(fs, run)
            /\ ~ResolvesAsSpelled(fs, run, project) -> answer(fs, "run_path_refused")
         [] OTHER ->
              CASE ~template -> answer(emptied, "workspace_failed")
                [] template /\ blocking # {} ->
                     answer(emptied, IF Len(at) - 1 \in blocking THEN "run_exists" ELSE "workspace_failed")
                [] template /\ blocking = {} /\ fault # "none" ->
                     answer(Cloned(emptied, at, FALSE), "workspace_failed")
                [] OTHER -> answer(Cloned(emptied, at, TRUE), "run")

-----------------------------------------------------------------------------
(* Properties. *)

\* cli-design.md:178.  Whatever links lead where, a run that is answered takes away
\* nothing but one whole directory, only with --overwrite, which was empty or a
\* workspace and is no part of the template, and what it adds is the run and the
\* directories above it; project, runs, template and everything else stay.  It leaves
\* the whole run or nothing of it, and a refusal changes nothing.  No link below the
\* project, and none outside of it, leads a run elsewhere.
RunsReplaceRunsOnly(fs, project, run, overwrite, fault) ==
    LET r == Run(fs, project, run, overwrite, fault)
        at == Real(fs, run)
        lost == {q \in DOMAIN fs : q \notin DOMAIN r.fs \/ r.fs[q] # fs[q]}
        kept == {project, project \o Runs, project \o Template, project \o Template \o <<"home">>}
    IN /\ lost # {} =>
            /\ overwrite /\ lost \subseteq Inside(fs, at)
            /\ IsWorkspace(fs, run) \/ Inside(fs, at) = {at}
            /\ \A link \in DOMAIN fs : fs[link].kind = "link" => link # Place(fs, run)
       /\ r.fs # fs => \A k \in 1..Len(run) :
            IsLink(fs, SubSeq(run, 1, k)) => IsPrefix(SubSeq(run, 1, k), project)
       /\ \A p \in kept : Lexists(fs, p) => /\ Lexists(r.fs, p) /\ Real(r.fs, p) = Real(fs, p)
                                            /\ Real(fs, p) \in DOMAIN fs => r.fs[Real(fs, p)] = fs[Real(fs, p)]
       /\ \A q \in DOMAIN r.fs \ DOMAIN fs : IsPrefix(q, at) \/ IsPrefix(at, q)
       /\ r.said = "run" => IsWorkspace(r.fs, run) /\ at \in DOMAIN r.fs
       /\ r.said = "workspace_failed" => ~Lexists(r.fs, run)
       /\ r.said \notin {"run", "workspace_failed"} => r.fs = fs

\* invocation.py:45.  The command that an answer suggests is about the workspace of
\* the command that it answers, whichever of the options, the project's configuration
\* and the working directory had chosen it.
SuggestionsKeepTheTarget(fs, cwd, i, config) ==
    LET c == Context(fs, cwd, i, config)
        again == Context(fs, cwd, Suggested(c), config)
    IN c.ok => again.ok /\ again.workspace = c.workspace /\ again.workspaceMode = c.workspaceMode
=============================================================================
