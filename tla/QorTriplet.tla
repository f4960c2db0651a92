----------------------------- MODULE QorTriplet -----------------------------
(***************************************************************************)
(* The three QoR files of one step (fecompiler/analysis/qor.py): written   *)
(* one after another by the process that runs the step, with a rollback    *)
(* when one of the renames fails, removed one after another before a run   *)
(* and after an interrupt, and read one after another by `ecc-fe report    *)
(* qor` in another process, at any time.                                   *)
(*                                                                         *)
(* A generation is the hash of the contents of the three files, so it      *)
(* stands for the contents.  Staging (temporary files) is one step per     *)
(* file; a rename is atomic.                                               *)
(***************************************************************************)
EXTENDS Integers

CONSTANTS
    Generations,    \* contents a run may publish
    MaxRuns,        \* bound on the runs of the step
    None            \* no file, no generation

ASSUME NoneAssumption == None \notin Generations
ASSUME MaxRunsAssumption == MaxRuns \in Nat

\* qor_metrics.json, qor_summary.json and qor_hotspots.json, in this order.
Files == 1..3
Triplets == [Files -> Generations \cup {None}]
Nothing == [k \in Files |-> None]

VARIABLES
    file,       \* the three files
    detail,     \* their copy in report/frontend_detail.json
    ongoing,    \* the step is Ongoing in flow.json
    pc,         \* where run_step is
    at,         \* the file whose turn it is
    gen,        \* the generation being written
    original,   \* the files as _write_qor_triplet_atomic found them
    handling,   \* the exception handler of run_step is writing or clearing
    failed,     \* a rollback failed
    ended,      \* how the last run ended
    runs,       \* how many there were
    reader,     \* where the reader is
    got         \* what it has read

writer == <<pc, at, gen, original, handling, failed>>
history == <<ended, runs>>
reading == <<reader, got>>
vars == <<file, detail, ongoing, writer, history, reading>>

Init ==
    /\ file = Nothing
    /\ detail = Nothing
    /\ ongoing = FALSE
    /\ pc = "idle" /\ at = 1 /\ gen = None /\ original = Nothing
    /\ handling = FALSE /\ failed = FALSE
    /\ ended = "never" /\ runs = 0
    /\ reader = "idle" /\ got = Nothing

Uniform(t) == \A k \in Files : t[k] = t[1]

-----------------------------------------------------------------------------
(* clear_step_qor: three unlinks and that of the frontend detail.  It runs  *)
(* before a run, after an interrupt, in recovery, and when an exception     *)
(* leaves nothing to report.                                                *)

BeginRun ==
    /\ pc = "idle" /\ runs < MaxRuns
    /\ runs' = runs + 1
    /\ ended' = "running"
    /\ pc' = "starting" /\ at' = 1
    /\ handling' = FALSE /\ failed' = FALSE
    /\ UNCHANGED <<file, detail, ongoing, gen, original, reading>>

ClearFile ==
    /\ pc \in {"starting", "clearing"} /\ at \in Files
    /\ file' = [file EXCEPT ![at] = None]
    /\ at' = at + 1
    /\ UNCHANGED <<detail, ongoing, pc, gen, original, handling, failed, history, reading>>

\* Mutant of ClearDetail: the snapshot embedded in the frontend detail stays.
KeepDetail ==
    /\ pc \in {"starting", "clearing"} /\ at \notin Files
    /\ pc' = IF pc = "starting" THEN "running" ELSE "settling"
    /\ ongoing' = TRUE
    /\ UNCHANGED <<file, detail, at, gen, original, handling, failed, history, reading>>

\* _start_step makes the step Ongoing once its old QoR is gone; at the end of
\* a run _finish_step settles it.
ClearDetail ==
    /\ pc \in {"starting", "clearing"} /\ at \notin Files
    /\ detail' = Nothing
    /\ pc' = IF pc = "starting" THEN "running" ELSE "settling"
    /\ ongoing' = TRUE
    /\ UNCHANGED <<file, at, gen, original, handling, failed, history, reading>>

\* The step leaves Ongoing after its handler has cleared the QoR.
Settle ==
    /\ pc = "settling"
    /\ ongoing' = FALSE
    /\ pc' = IF ended = "interrupted" THEN "idle" ELSE "snapshot"
    /\ UNCHANGED <<file, detail, at, gen, original, handling, failed, history, reading>>

-----------------------------------------------------------------------------
(* write_step_qor and _write_qor_triplet_atomic. *)

Write(g) ==
    /\ gen' = g
    /\ original' = Nothing
    /\ pc' = "staging" /\ at' = 1

\* The tool has run; the exception handler writes a failure QoR of a report of
\* this run.
PublishQor(g) ==
    /\ pc = "running" \/ pc = "handling"
    /\ Write(g)
    /\ handling' = (pc = "handling")
    /\ UNCHANGED <<file, detail, ongoing, failed, history, reading>>

StageFile ==
    /\ pc = "staging"
    /\ original' = [original EXCEPT ![at] = file[at]]
    /\ IF at = 3 THEN pc' = "publishing" /\ at' = 1 ELSE pc' = pc /\ at' = at + 1
    /\ UNCHANGED <<file, detail, ongoing, gen, handling, failed, history, reading>>

StageRaises ==
    /\ pc = "staging"
    /\ pc' = "raised"
    /\ UNCHANGED <<file, detail, ongoing, at, gen, original, handling, failed, history, reading>>

PublishFile ==
    /\ pc = "publishing"
    /\ file' = [file EXCEPT ![at] = gen]
    /\ IF at = 3 THEN pc' = "published" /\ at' = 1 ELSE pc' = pc /\ at' = at + 1
    /\ UNCHANGED <<detail, ongoing, gen, original, handling, failed, history, reading>>

\* Mutant of PublishRaises: the rollback misses the file published last.
PublishRaisesOffByOne ==
    /\ pc = "publishing"
    /\ at' = IF at > 1 THEN at - 2 ELSE 0
    /\ pc' = "undoing"
    /\ UNCHANGED <<file, detail, ongoing, gen, original, handling, failed, history, reading>>

\* A rename fails: what has been published is rolled back, last file first.
PublishRaises ==
    /\ pc = "publishing"
    /\ at' = at - 1
    /\ pc' = "undoing"
    /\ UNCHANGED <<file, detail, ongoing, gen, original, handling, failed, history, reading>>

\* Restoring a file may fail too; the rollback goes on with the next.
RollBackFile ==
    /\ pc = "undoing" /\ at \in Files
    /\ \/ file' = [file EXCEPT ![at] = original[at]] /\ UNCHANGED failed
       \/ failed' = TRUE /\ UNCHANGED file
    /\ at' = at - 1
    /\ UNCHANGED <<detail, ongoing, pc, gen, original, handling, history, reading>>

RolledBack ==
    /\ pc = "undoing" /\ at = 0
    /\ pc' = "raised"
    /\ UNCHANGED <<file, detail, ongoing, at, gen, original, handling, failed, history, reading>>

-----------------------------------------------------------------------------
(* The end of a run. *)

\* The handler, the check of its result or the save after the publication
\* raises.
RunRaises ==
    /\ pc = "running" \/ (pc = "published" /\ ~handling)
    /\ pc' = "raised"
    /\ UNCHANGED <<file, detail, ongoing, at, gen, original, handling, failed, history, reading>>

\* Mutant of HandleException: when the failure QoR cannot be written either,
\* what is there is left.
HandleExceptionLeaving ==
    /\ pc = "raised"
    /\ pc' = IF handling THEN "settling" ELSE "handling"
    /\ at' = 1
    /\ UNCHANGED <<file, detail, ongoing, gen, original, handling, failed, history, reading>>

\* except Exception: a report of this run gets a failure QoR, otherwise, and
\* when that cannot be written, the QoR is removed.
HandleException ==
    /\ pc = "raised"
    /\ pc' \in IF handling THEN {"clearing"} ELSE {"clearing", "handling"}
    /\ at' = 1
    /\ UNCHANGED <<file, detail, ongoing, gen, original, handling, failed, history, reading>>

\* _finish_step with the QoR published.
Finish ==
    /\ pc = "published"
    /\ ongoing' = FALSE
    /\ pc' = "snapshot"
    /\ UNCHANGED <<file, detail, at, gen, original, handling, failed, history, reading>>

\* Mutant of Snapshot: the metrics in the place of the three files.
SnapshotMetrics ==
    /\ pc = "snapshot"
    /\ detail' = file[1]
    /\ pc' = "idle" /\ ended' = "returned"
    /\ UNCHANGED <<file, ongoing, at, gen, original, handling, failed, runs, reading>>

\* run_step has returned; _write_frontend_step_detail copies the QoR into the
\* frontend detail.  Nothing is copied when json_write fails, or when the run is
\* the automatic refresh of prepare, which does not write the detail.
Snapshot ==
    /\ pc = "snapshot"
    /\ detail' \in {file, detail}
    /\ pc' = "idle" /\ ended' = "returned"
    /\ UNCHANGED <<file, ongoing, at, gen, original, handling, failed, runs, reading>>

InTry == {"running", "staging", "publishing", "undoing", "published", "raised"}

\* SIGINT or SIGTERM in the try statement: no rollback, the QoR is removed and
\* the step settled.
Interrupt ==
    /\ pc \in InTry /\ ~handling
    /\ pc' = "clearing" /\ at' = 1
    /\ ended' = "interrupted"
    /\ UNCHANGED <<file, detail, ongoing, gen, original, handling, failed, runs, reading>>

\* What is raised outside the try statement, an interrupt in a handler or a
\* failing unlink or save in one, leaves run_step with nothing undone.
Escape ==
    /\ \/ pc \in {"starting", "clearing", "handling", "settling"}
       \/ pc \in InTry /\ handling
    /\ pc' = "idle" /\ ended' = "raised"
    /\ UNCHANGED <<file, detail, ongoing, at, gen, original, handling, failed, runs, reading>>

Crash ==
    /\ pc # "idle"
    /\ pc' = "idle" /\ ended' = "crashed"
    /\ UNCHANGED <<file, detail, ongoing, at, gen, original, handling, failed, runs, reading>>

\* Loading the workspace again: an Ongoing step loses its QoR.
Recover ==
    /\ pc = "idle" /\ ongoing
    /\ pc' = "clearing" /\ at' = 1
    /\ ended' = "interrupted"
    /\ UNCHANGED <<file, detail, ongoing, gen, original, handling, failed, runs, reading>>

-----------------------------------------------------------------------------
(* _read_qor_artifacts of the report command. *)

\* Which of the files exist decides first (three is_file calls: whatever they
\* miss of a concurrent write ends in an error, or in the comparison below).
LookForFiles ==
    /\ reader = "idle"
    /\ reader' = IF file = Nothing THEN "none"
                 ELSE IF \E k \in Files : file[k] = None THEN "error" ELSE "reading1"
    /\ got' = Nothing
    /\ UNCHANGED <<file, detail, ongoing, writer, history>>

ReadFile(k) ==
    /\ reader = <<"reading1", "reading2", "reading3">>[k]
    /\ got' = [got EXCEPT ![k] = file[k]]
    /\ reader' = IF file[k] = None THEN "error"
                 ELSE <<"reading2", "reading3", "comparing">>[k]
    /\ UNCHANGED <<file, detail, ongoing, writer, history>>

\* Mutant of Compare: three readable files are enough.
AcceptAnything ==
    /\ reader = "comparing"
    /\ reader' = "accepted"
    /\ UNCHANGED <<file, detail, ongoing, writer, history, got>>

Compare ==
    /\ reader = "comparing"
    /\ reader' = IF Uniform(got) THEN "accepted" ELSE "error"
    /\ UNCHANGED <<file, detail, ongoing, writer, history, got>>

ReadAgain ==
    /\ reader \in {"none", "error", "accepted"}
    /\ reader' = "idle"
    /\ got' = Nothing
    /\ UNCHANGED <<file, detail, ongoing, writer, history>>

-----------------------------------------------------------------------------

Clear == BeginRun \/ Recover \/ ClearFile \/ ClearDetail \/ Settle

Publish ==
    \/ \E g \in Generations : PublishQor(g)
    \/ StageFile \/ StageRaises \/ PublishFile \/ PublishRaises
    \/ RollBackFile \/ RolledBack

Read == LookForFiles \/ (\E k \in Files : ReadFile(k)) \/ Compare \/ ReadAgain

Next ==
    \/ Clear \/ Publish \/ Read
    \/ RunRaises \/ HandleException \/ Finish \/ Snapshot
    \/ Interrupt \/ Escape \/ Crash

Spec == Init /\ [][Next]_vars

-----------------------------------------------------------------------------
(* Properties. *)

\* Type correctness of the files, the writer and the reader.
TypeOK ==
    /\ file \in Triplets /\ detail \in Triplets /\ original \in Triplets
    /\ got \in Triplets
    /\ ongoing \in BOOLEAN /\ handling \in BOOLEAN /\ failed \in BOOLEAN
    /\ gen \in Generations \cup {None}
    /\ at \in 0..4 /\ runs \in 0..MaxRuns
    /\ pc \in {"idle", "starting", "clearing", "running", "staging", "publishing",
               "undoing", "published", "raised", "handling", "settling", "snapshot"}
    /\ ended \in {"never", "running", "returned", "raised", "interrupted", "crashed"}
    /\ reader \in {"idle", "none", "error", "reading1", "reading2", "reading3",
                   "comparing", "accepted"}

\* A report never combines the metrics of one run with the summary or the
\* hotspots of another, however the reads interleave with writes, rollbacks,
\* removals and crashes (_read_qor_artifacts).
ReportIsOneGeneration ==
    reader = "accepted" => Uniform(got) /\ got[1] # None

\* A publication that raises, with no failure in its rollback, leaves the three
\* files as it found them (_write_qor_triplet_atomic).
RollbackRestores ==
    pc = "undoing" /\ at = 0 /\ ~failed => file = original

\* However a run returns, with its QoR published, with a failure QoR or with
\* none, the three files belong together, and the frontend detail embeds them or
\* no QoR at all: never that of an earlier run, also when it could not be written
\* or was not (run_step, clear_step_qor, _write_frontend_step_detail).
ReturnedRunIsConsistent ==
    pc = "idle" /\ ended = "returned" => Uniform(file) /\ detail \in {file, Nothing}

\* After an interrupt that was handled, or a recovery, nothing of the run is
\* left to be read: neither QoR files nor their copy in the frontend detail.
InterruptedRunLeavesNothing ==
    pc = "idle" /\ ended = "interrupted" => file = Nothing /\ detail = Nothing

=============================================================================
