--------------------------- MODULE ResourceInstall ---------------------------
(***************************************************************************)
(* Installing managed tools (fecompiler/cli/resource_manager.py): several  *)
(* `ecc-fe resource install` processes share one tools directory and one   *)
(* resource manifest.  Only the manifest is protected by a lock; the       *)
(* directory tools/<tool>/<version> is replaced with two renames.          *)
(*                                                                         *)
(* An installer is one process, which runs one command and ends; a retry   *)
(* is another installer that starts later.                                 *)
(***************************************************************************)
EXTENDS Integers, Sequences

CONSTANTS
    Installers, \* processes
    Tools,
    Versions,
    Latest,     \* the version the registry lists first for every tool
    Requires,   \* Requires[t]: the tools t needs, in the registry's order
    Root,       \* the tool whose requirements are the required set (ecc-fe)
    Found,      \* what the directories may hold when the first installer starts
    Faults,     \* what may go wrong, a subset of AllFaults
    None        \* nothing there

AllFaults == {"stage", "place", "record", "remove", "interrupt", "crash"}

ASSUME LatestAssumption == Latest \in Versions /\ Root \in Tools
ASSUME RequiresAssumption == Requires \in [Tools -> Seq(Tools)]
ASSUME FaultsAssumption == Faults \subseteq AllFaults

\* The checksum the registry gives now, and another one it gave before.
Shas == {"current", "earlier"}
Contents == [sha : Shas, whole : BOOLEAN]
Payload == [sha |-> "current", whole |-> TRUE]
Entries == [ver : Versions, sha : Shas]
Places == Tools \X Versions

ASSUME FoundAssumption == Found \subseteq Contents \cup {None}
ASSUME NoneAssumption == None \notin Entries \cup Contents /\ None \notin Installers

VARIABLES
    manifest,   \* manifest.json: the installed tools, the required set
    lock,       \* who holds manifest.json.lock
    dir,        \* dir[<<t, v>>]: the directory tools/t/v
    backup,     \* backup[p]: the .backup-* directory of p
    pc,         \* pc[p]: where p is
    roots,      \* roots[p]: the tools the command of p has still to install
    stack,      \* stack[p]: the calls of install in progress, innermost first
    copy,       \* copy[p]: the manifest as p read it
    records,    \* records[p]: what p has reported as installed
    prior       \* prior[p]: what the directory and the entry were when p began
                \* to replace them (history)

vars == <<manifest, lock, dir, backup, pc, roots, stack, copy, records, prior>>

Ended == {"done", "failed", "dead"}
Manifests == [installed : [Tools -> Entries \cup {None}], required : BOOLEAN]
NoPrior == [place |-> <<>>, dir |-> None, entry |-> None]

\* What a machine may hold: nothing, tools of this or an earlier registry, and
\* directories that a user or a crash has damaged.
Init ==
    /\ manifest \in Manifests
    /\ manifest.required = FALSE
    /\ lock = None
    /\ dir \in [Places -> Found]
    /\ backup = [p \in Installers |-> None]
    /\ pc = [p \in Installers |-> "idle"]
    /\ roots = [p \in Installers |-> <<>>]
    /\ stack = [p \in Installers |-> <<>>]
    /\ copy = [p \in Installers |-> None]
    /\ records = [p \in Installers |-> {}]
    /\ prior = [p \in Installers |-> NoPrior]

-----------------------------------------------------------------------------
(* Helpers. *)

Frame(t, v) == [tool |-> t, ver |-> v, todo |-> Requires[t]]
Top(p) == Head(stack[p])
Here(p) == <<Top(p).tool, Top(p).ver>>

\* The tools whose installation is in progress up the call stack.
Visiting(p) == {stack[p][i].tool : i \in 1..Len(stack[p])}

\* Frames are changed by calls and returns only; goto leaves them alone.
Goto(p, label) == pc' = [pc EXCEPT ![p] = label]

Healthy(t, entry) ==
    /\ dir[<<t, entry.ver>>] # None
    /\ dir[<<t, entry.ver>>].whole

\* Mutant of AlreadyInstalled: the entry is trusted without the health check.
EntryMatches(t, v) == manifest.installed[t] = [ver |-> v, sha |-> Payload.sha]

\* An entry of this version and checksum whose directory passes its health check.
AlreadyInstalled(t, v) ==
    /\ manifest.installed[t] = [ver |-> v, sha |-> Payload.sha]
    /\ Healthy(t, manifest.installed[t])

\* The exception leaves every call of install: nothing catches it on the way.
Fail(p) ==
    /\ Goto(p, "failed")
    /\ stack' = [stack EXCEPT ![p] = <<>>]

\* _install_one returns, and with it the innermost install.
Finish(p) ==
    /\ Goto(p, "resolving")
    /\ stack' = [stack EXCEPT ![p] = Tail(@)]
    /\ records' = [records EXCEPT ![p] = @ \cup {Here(p)}]

Release(p) == lock' = IF lock = p THEN None ELSE lock

-----------------------------------------------------------------------------
(* install and install_required: dependency-first recursion. *)

InstallCommand(p, t, v) ==
    /\ pc[p] = "idle"
    /\ stack' = [stack EXCEPT ![p] = <<Frame(t, v)>>]
    /\ Goto(p, "resolving")
    /\ UNCHANGED <<manifest, lock, dir, backup, roots, copy, records, prior>>

\* `resource install` without a name: the set ecc-fe requires is recorded
\* before anything is downloaded.
InstallRequired(p) ==
    /\ pc[p] = "idle"
    /\ roots' = [roots EXCEPT ![p] = Requires[Root]]
    /\ Goto(p, "recording")
    /\ UNCHANGED <<manifest, lock, dir, backup, stack, copy, records, prior>>

NextRoot(p) ==
    /\ pc[p] = "resolving" /\ stack[p] = <<>>
    /\ IF roots[p] = <<>>
       THEN Goto(p, "done") /\ UNCHANGED <<roots, stack>>
       ELSE /\ stack' = [stack EXCEPT ![p] = <<Frame(Head(roots[p]), Latest)>>]
            /\ roots' = [roots EXCEPT ![p] = Tail(@)]
            /\ UNCHANGED pc
    /\ UNCHANGED <<manifest, lock, dir, backup, copy, records, prior>>

Waiting(p) == pc[p] = "resolving" /\ stack[p] # <<>> /\ Top(p).todo # <<>>

\* The calls in progress once the innermost has taken its next requirement.
Caller(p) == [stack[p] EXCEPT ![1].todo = Tail(@)]

Descend(p) ==
    /\ Waiting(p)
    /\ LET d == Head(Top(p).todo)
       IN  IF d \in Visiting(p)
           THEN Fail(p)
           ELSE /\ stack' = [stack EXCEPT ![p] = <<Frame(d, Latest)>> \o Caller(p)]
                /\ UNCHANGED pc
    /\ UNCHANGED <<manifest, lock, dir, backup, roots, copy, records, prior>>

\* The registry cannot be read, or has no such tool, version or platform.
ResolveRaises(p) ==
    /\ "stage" \in Faults
    /\ pc[p] = "resolving" /\ stack[p] # <<>>
    /\ Fail(p)
    /\ UNCHANGED <<manifest, lock, dir, backup, roots, copy, records, prior>>

\* Mutant of Resolved: a tool does not wait for the tools it requires.
ResolvedEarly(p) == pc[p] = "resolving" /\ stack[p] # <<>>

Resolved(p) == pc[p] = "resolving" /\ stack[p] # <<>> /\ Top(p).todo = <<>>

-----------------------------------------------------------------------------
(* _install_one. *)

ReportInstalled(p) ==
    /\ Resolved(p)
    /\ AlreadyInstalled(Top(p).tool, Top(p).ver)
    /\ Finish(p)
    /\ UNCHANGED <<manifest, lock, dir, backup, roots, copy, prior>>

BeginReplace(p) ==
    /\ Resolved(p)
    /\ ~AlreadyInstalled(Top(p).tool, Top(p).ver)
    /\ prior' = [prior EXCEPT ![p] =
                    [place |-> Here(p), dir |-> dir[Here(p)],
                     entry |-> manifest.installed[Top(p).tool]]]
    /\ Goto(p, "staging")
    /\ UNCHANGED <<manifest, lock, dir, backup, roots, stack, copy, records>>

\* Download, size and checksum, extraction, supplements, post-install commands
\* and the health check of the payload.
Stage(p) ==
    /\ pc[p] = "staging"
    /\ Goto(p, "staged")
    /\ UNCHANGED <<manifest, lock, dir, backup, roots, stack, copy, records, prior>>

StageRaises(p) ==
    /\ "stage" \in Faults
    /\ pc[p] = "staging"
    /\ Goto(p, "unwinding")
    /\ UNCHANGED <<manifest, lock, dir, backup, roots, stack, copy, records, prior>>

\* Mutant of LookAtDestination: the destination is taken to be there.
AssumeDestination(p) ==
    /\ pc[p] = "staged"
    /\ Goto(p, "moving")
    /\ UNCHANGED <<manifest, lock, dir, backup, roots, stack, copy, records, prior>>

\* destination.exists()
LookAtDestination(p) ==
    /\ pc[p] = "staged"
    /\ Goto(p, IF dir[Here(p)] = None THEN "placing" ELSE "moving")
    /\ UNCHANGED <<manifest, lock, dir, backup, roots, stack, copy, records, prior>>

\* os.replace(destination, backup_path); it raises when another installer has
\* moved the destination in the meantime.
MoveAside(p) ==
    /\ pc[p] = "moving"
    /\ IF dir[Here(p)] = None
       THEN Goto(p, "unwinding") /\ UNCHANGED <<dir, backup>>
       ELSE /\ backup' = [backup EXCEPT ![p] = dir[Here(p)]]
            /\ dir' = [dir EXCEPT ![Here(p)] = None]
            /\ Goto(p, "placing")
    /\ UNCHANGED <<manifest, lock, roots, stack, copy, records, prior>>

\* os.replace(payload, destination): a rename over a directory needs an empty
\* one, which only a directory that is being removed can be.
Place(p) ==
    /\ pc[p] = "placing"
    /\ dir[Here(p)] # None => ~dir[Here(p)].whole
    /\ dir' = [dir EXCEPT ![Here(p)] = Payload]
    /\ Goto(p, "recording")
    /\ UNCHANGED <<manifest, lock, backup, roots, stack, copy, records, prior>>

\* The rename fails; what was moved aside is put back if nothing took its place.
\* (Between exists() and the rename another installer can only make the rename
\* fail, which leads to the same finally clause.)
PlaceRaises(p) ==
    /\ pc[p] = "placing"
    /\ "place" \in Faults \/ dir[Here(p)] # None
    /\ IF backup[p] # None /\ dir[Here(p)] = None
       THEN /\ dir' = [dir EXCEPT ![Here(p)] = backup[p]]
            /\ backup' = [backup EXCEPT ![p] = None]
       ELSE UNCHANGED <<dir, backup>>
    /\ Goto(p, "unwinding")
    /\ UNCHANGED <<manifest, lock, roots, stack, copy, records, prior>>

-----------------------------------------------------------------------------
(* _record_install and _record_required_resources: read, change and        *)
(* replace the manifest under its lock.                                    *)

\* Mutant of LockManifest: on a platform without flock nobody waits.
EnterWithoutLock(p) ==
    /\ pc[p] = "recording"
    /\ lock' = p
    /\ Goto(p, "locked")
    /\ UNCHANGED <<manifest, dir, backup, roots, stack, copy, records, prior>>

LockManifest(p) ==
    /\ pc[p] = "recording" /\ lock = None
    /\ lock' = p
    /\ Goto(p, "locked")
    /\ UNCHANGED <<manifest, dir, backup, roots, stack, copy, records, prior>>

ReadManifest(p) ==
    /\ pc[p] = "locked"
    /\ copy' = [copy EXCEPT ![p] = manifest]
    /\ Goto(p, "writing")
    /\ UNCHANGED <<manifest, lock, dir, backup, roots, stack, records, prior>>

\* Mutant of WriteManifest: the entry is written, required_resources forgotten.
WriteEntryOnly(p) ==
    /\ pc[p] = "writing" /\ stack[p] # <<>>
    /\ manifest' = [installed |-> [copy[p].installed EXCEPT
                        ![Top(p).tool] = [ver |-> Top(p).ver, sha |-> Payload.sha]]]
    /\ Goto(p, "committing")
    /\ Release(p)
    /\ UNCHANGED <<dir, backup, roots, stack, copy, records, prior>>

\* _atomic_write_json, and the end of the with statement.
WriteManifest(p) ==
    /\ pc[p] = "writing"
    /\ IF stack[p] = <<>>
       THEN /\ manifest' = [copy[p] EXCEPT !.required = TRUE]
            /\ Goto(p, "resolving")
       ELSE /\ manifest' = [copy[p] EXCEPT !.installed[Top(p).tool] =
                                [ver |-> Top(p).ver, sha |-> Payload.sha]]
            /\ Goto(p, "committing")
    /\ Release(p)
    /\ UNCHANGED <<dir, backup, roots, stack, copy, records, prior>>

\* Mutant of RecordRaises: the lock survives the exception.
RecordRaisesHoldingLock(p) ==
    /\ "record" \in Faults
    /\ pc[p] \in {"locked", "writing"}
    /\ Goto(p, IF stack[p] = <<>> THEN "failed" ELSE "undoing")
    /\ UNCHANGED <<manifest, lock, dir, backup, roots, stack, copy, records, prior>>

RecordRaises(p) ==
    /\ "record" \in Faults
    /\ pc[p] \in {"locked", "writing"}
    /\ Goto(p, IF stack[p] = <<>> THEN "failed" ELSE "undoing")
    /\ Release(p)
    /\ UNCHANGED <<manifest, dir, backup, roots, stack, copy, records, prior>>

-----------------------------------------------------------------------------
(* Undoing a placement that could not be recorded, and the finally clause. *)

\* shutil.rmtree(destination) takes files away one by one.
RemoveNew(p) ==
    /\ pc[p] = "undoing"
    /\ IF dir[Here(p)] = None
       THEN Goto(p, "putting back") /\ UNCHANGED dir
       ELSE /\ dir' = [dir EXCEPT ![Here(p)] = [@ EXCEPT !.whole = FALSE]]
            /\ Goto(p, "removing")
    /\ UNCHANGED <<manifest, lock, backup, roots, stack, copy, records, prior>>

RemovedNew(p) ==
    /\ pc[p] = "removing"
    /\ dir' = [dir EXCEPT ![Here(p)] = None]
    /\ Goto(p, "putting back")
    /\ UNCHANGED <<manifest, lock, backup, roots, stack, copy, records, prior>>

RemoveRaises(p) ==
    /\ "remove" \in Faults
    /\ pc[p] \in {"removing", "committing"}
    /\ Goto(p, "unwinding")
    /\ UNCHANGED <<manifest, lock, dir, backup, roots, stack, copy, records, prior>>

\* Mutant of PutBack: the new directory goes, the backup is dropped with it.
DropBackup(p) ==
    /\ pc[p] = "putting back"
    /\ backup' = [backup EXCEPT ![p] = None]
    /\ Goto(p, "unwinding")
    /\ UNCHANGED <<manifest, lock, dir, roots, stack, copy, records, prior>>

PutBack(p) ==
    /\ pc[p] = "putting back"
    /\ IF backup[p] # None /\ dir[Here(p)] = None
       THEN /\ dir' = [dir EXCEPT ![Here(p)] = backup[p]]
            /\ backup' = [backup EXCEPT ![p] = None]
       ELSE UNCHANGED <<dir, backup>>
    /\ Goto(p, "unwinding")
    /\ UNCHANGED <<manifest, lock, roots, stack, copy, records, prior>>

\* The entry is written: the old directory goes and _install_one returns.
Commit(p) ==
    /\ pc[p] = "committing"
    /\ backup' = [backup EXCEPT ![p] = None]
    /\ prior' = [prior EXCEPT ![p] = NoPrior]
    /\ Finish(p)
    /\ UNCHANGED <<manifest, lock, dir, roots, copy>>

\* finally, with an exception on its way up.
Unwind(p) ==
    /\ pc[p] = "unwinding"
    /\ dir' = IF backup[p] # None /\ dir[Here(p)] = None
              THEN [dir EXCEPT ![Here(p)] = backup[p]] ELSE dir
    /\ backup' = [backup EXCEPT ![p] = None]
    /\ Fail(p)
    /\ UNCHANGED <<manifest, lock, roots, copy, records, prior>>

\* Removing the staging directory or the backup fails: the rest of the finally
\* clause is not executed.
UnwindRaises(p) ==
    /\ "remove" \in Faults
    /\ pc[p] = "unwinding"
    /\ Fail(p)
    /\ UNCHANGED <<manifest, lock, dir, backup, roots, copy, records, prior>>

-----------------------------------------------------------------------------
(* Interrupts and crashes. *)

\* The try statement of _install_one, whose except clauses do not catch
\* KeyboardInterrupt.
TryPoints == {"staging", "staged", "moving", "placing", "recording", "locked",
              "writing", "undoing", "removing", "putting back", "committing"}

Interrupt(p) ==
    /\ "interrupt" \in Faults
    /\ pc[p] \notin Ended \cup {"idle"}
    /\ IF pc[p] \in TryPoints /\ stack[p] # <<>>
       THEN Goto(p, "unwinding") /\ UNCHANGED stack
       ELSE Fail(p)
    /\ Release(p)
    /\ UNCHANGED <<manifest, dir, backup, roots, copy, records, prior>>

\* SIGKILL or power: the kernel releases the lock, everything else stays.
Crash(p) ==
    /\ "crash" \in Faults
    /\ pc[p] \notin Ended \cup {"idle"}
    /\ Goto(p, "dead")
    /\ stack' = [stack EXCEPT ![p] = <<>>]
    /\ Release(p)
    /\ UNCHANGED <<manifest, dir, backup, roots, copy, records, prior>>

-----------------------------------------------------------------------------

Continue(p) ==
    \/ NextRoot(p) \/ Descend(p) \/ ResolveRaises(p)
    \/ ReportInstalled(p) \/ BeginReplace(p)
    \/ Stage(p) \/ StageRaises(p) \/ LookAtDestination(p) \/ MoveAside(p)
    \/ Place(p) \/ PlaceRaises(p)
    \/ LockManifest(p) \/ ReadManifest(p) \/ WriteManifest(p) \/ RecordRaises(p)
    \/ RemoveNew(p) \/ RemovedNew(p) \/ RemoveRaises(p) \/ PutBack(p)
    \/ Commit(p) \/ Unwind(p) \/ UnwindRaises(p)

\* A command names a tool and perhaps a version, or asks for the required set.
Command(p) ==
    \/ \E t \in Tools, v \in Versions : InstallCommand(p, t, v)
    \/ InstallRequired(p)

Next == \E p \in Installers : Command(p) \/ Continue(p) \/ Interrupt(p) \/ Crash(p)

\* A process goes on until it ends; downloads have timeouts, the lock wakes a
\* waiter, and a post-install command is taken to end.
Fairness == \A p \in Installers : WF_vars(Continue(p))

Spec == Init /\ [][Next]_vars /\ Fairness

-----------------------------------------------------------------------------
(* Properties. *)

PCs == TryPoints \cup Ended \cup {"idle", "resolving", "unwinding"}
Frames == [tool : Tools, ver : Versions, todo : Seq(Tools)]

\* Type correctness: the manifest always has the shape the desktop reads, and
\* every directory holds a payload of one registry, whole or not.
TypeOK ==
    /\ manifest \in Manifests
    /\ lock \in Installers \cup {None}
    /\ dir \in [Places -> Contents \cup {None}]
    /\ backup \in [Installers -> Contents \cup {None}]
    /\ pc \in [Installers -> PCs]
    /\ roots \in [Installers -> Seq(Tools)]
    /\ stack \in [Installers -> Seq(Frames)]
    /\ copy \in [Installers -> Manifests \cup {None}]

\* Read-modify-write of the manifest loses nothing: an entry appears or changes
\* only when an installer of that very tool writes it, and neither an entry nor
\* the recorded required set ever goes away (_record_install,
\* _record_required_resources, _manifest_lock).
ManifestKept ==
    /\ \A t \in Tools : manifest'.installed[t] # manifest.installed[t] =>
         /\ manifest'.installed[t] # None
         /\ \E p \in Installers : stack[p] # <<>> /\ Top(p).tool = t
    /\ manifest.required => manifest'.required
EntriesSurvive == [][ManifestKept]_vars

\* Install order is dependency-first: a tool enters the manifest when all it
\* requires is there, so a tool in a requirement cycle never does (install).
DependenciesFirst ==
    [][\A t \in Tools : manifest'.installed[t] # manifest.installed[t] =>
          \A i \in DOMAIN Requires[t] : manifest.installed[Requires[t][i]] # None]_vars

\* A failed installation, wherever it failed, leaves the directory and the
\* manifest entry it was to replace exactly as it found them (_install_one).
FailureKeepsPrior ==
    \A p \in Installers :
        pc[p] = "failed" /\ prior[p] # NoPrior =>
            /\ dir[prior[p].place] = prior[p].dir
            /\ manifest.installed[prior[p].place[1]] = prior[p].entry

\* What a command reported as installed is there when nobody is installing any
\* more, whoever replaced the same directories in the meantime: of any number of
\* installers if the directories found at the start were whole, of two that nothing
\* fails for whatever they found.
Quiet == \A p \in Installers : pc[p] \in {"idle", "done", "failed"}
ReportedIsUsable ==
    Quiet => \A p \in Installers : \A place \in records[p] : dir[place] # None /\ dir[place].whole

\* Two installers that race for the same directory without locking it can make one
\* another fail, but not both of them.
SomeRacerSucceeds ==
    (\A p \in Installers : pc[p] \in Ended) => \E p \in Installers : pc[p] = "done"

\* Every command ends, with success or an error; nobody waits for the manifest
\* lock for ever (_manifest_lock under exceptions, interrupts and kills).
EveryCommandEnds ==
    \A p \in Installers : (pc[p] # "idle") ~> (pc[p] \in Ended)

=============================================================================
