----------------------------- MODULE FlowEngine -----------------------------
(***************************************************************************)
(* One frontend workspace and the EngineFlow that drives it                *)
(* (fecompiler/engine/flow.py): the durable flow.json, the engine's copy   *)
(* of it, the QoR artifacts and outputs of every step, and the inputs that *)
(* a user edits while a step runs.  Each call of EngineFlow.run_step is    *)
(* split where it touches the disk, so that a crash, an interrupt or an    *)
(* edit of the inputs may come between any two of its effects.             *)
(*                                                                         *)
(* The tools (slang, verilator, yosys) are reduced to what the engine sees *)
(* of them: they read the inputs, they overwrite the step's outputs, and   *)
(* they succeed, fail or raise.                                            *)
(***************************************************************************)
EXTENDS Integers

CONSTANTS
    NumSteps,   \* steps of the selected profile, in flow order
    Outputs,    \* what a step may leave in its output directory
    Ops,        \* operation ids the desktop runtime gives to a run
    MaxEdits,   \* bound on the edits of the sources and of each configuration
    None        \* absent provenance, output, QoR or runtime marker

ASSUME NumStepsAssumption == NumSteps \in Nat \ {0}
ASSUME MaxEditsAssumption == MaxEdits \in Nat

Steps == 1..NumSteps
States == {"Unstart", "Success", "Ongoing", "Incomplete"}

VARIABLES
    source,     \* version of RTL, filelists, tools and resources on disk
    config,     \* config[s]: version of the parameters of step s on disk
    loaded,     \* loaded[s]: that version as the engine loaded it
    disk,       \* the steps in home/flow.json
    torn,       \* flow.json was cut short by a crash in the middle of a write
    flow,       \* EngineFlow.flow["steps"]
    qor,        \* qor[s]: the published QoR triplet of step s
    artifact,   \* artifact[s]: the outputs of step s on disk
    used,       \* used[s]: the inputs those outputs were computed from
    readUp,     \* readUp[s]: the outputs of step s-1 they were computed from
    pc,         \* where the process that owns the workspace is
    run         \* the local variables of the run_step call in progress

environment == <<source, config>>
results == <<artifact, used, readUp>>
vars == <<source, config, loaded, disk, torn, flow, qor, artifact, used,
          readUp, pc, run>>

-----------------------------------------------------------------------------
(* Steps, provenance and staleness. *)

NewStep == [state |-> "Unstart", prov |-> None, stale |-> FALSE, marker |-> None]

Inputs(s) == [src |-> source, cfg |-> loaded[s]]

\* The provenance a step's signature is chained to: that of the step before,
\* if that step succeeded.
Upstream(f, s) ==
    IF s > 1 /\ f[s - 1].state = "Success" THEN f[s - 1].prov ELSE None

Signature(f, s) == [env |-> Inputs(s), up |-> Upstream(f, s)]

\* Flows written before provenance existed are trusted as a whole.
Tracked(f) == \E s \in Steps : f[s].prov # None

Outdated(f, s) ==
    /\ f[s].state = "Success"
    /\ IF f[s].prov = None THEN Tracked(f)
                           ELSE f[s].prov.sig # Signature(f, s)

\* A step that is not outdated itself is stale when an earlier one is.
StaleSteps(f) == {s \in Steps : \E t \in 1..s : Outdated(f, t)}

NothingToInvalidate(r) == r.state = "Unstart" /\ r.prov = None /\ ~r.stale

MarkStale(f, S) ==
    [s \in Steps |->
        IF s \notin S \/ f[s].state = "Ongoing" \/ NothingToInvalidate(f[s])
        THEN f[s]
        ELSE [f[s] EXCEPT !.state = "Unstart", !.prov = None, !.stale = TRUE]]

\* _mark_step_stale deletes the QoR files of every step it is called for,
\* except of one that is Ongoing.
WithoutStaleQor(f, S) ==
    [s \in Steps |-> IF s \in S /\ f[s].state # "Ongoing" THEN None ELSE qor[s]]

Refreshed(f) == MarkStale(f, StaleSteps(f))

Downstream(s) == {t \in Steps : t > s}

\* refresh_stale_states leaves step s a Success: run_step will not run it again.
Cached(f, s) == Refreshed(f)[s].state = "Success"

\* Mutant of Settle: the state of a failed step takes a name no reader knows.
SettleAsInvalid(r) == [r EXCEPT !.state = "Invalid", !.marker = None]

Settle(r) == [r EXCEPT !.state = "Incomplete", !.marker = None]

-----------------------------------------------------------------------------
(* Initial states. *)

NoRun == [step |-> 0, rerun |-> FALSE, op |-> None, sig |-> None, ok |-> FALSE,
          fresh |-> FALSE, caught |-> FALSE, aborting |-> FALSE]

\* init_default_steps, or a workspace whose first k steps an older release ran.
LegacyFlow(k) ==
    [s \in Steps |-> IF s <= k THEN [NewStep EXCEPT !.state = "Success"] ELSE NewStep]

\* No engine, nothing loaded.
Unloaded == [s \in Steps |-> 0]

Init ==
    /\ source = 0
    /\ config = [s \in Steps |-> 0]
    /\ loaded = Unloaded
    /\ \E k \in 0..NumSteps : disk = LegacyFlow(k)
    /\ torn = FALSE
    /\ flow = disk
    /\ qor = [s \in Steps |-> None]
    /\ artifact = [s \in Steps |-> None]
    /\ used = [s \in Steps |-> [src |-> 0, cfg |-> 0]]
    /\ readUp = [s \in Steps |-> None]
    /\ pc = "closed"
    /\ run = NoRun

-----------------------------------------------------------------------------
(* Edits made outside the engine: by the user, by an installer, by a       *)
(* parameter update of the desktop application.                            *)

EditSource ==
    /\ source < MaxEdits
    /\ source' = source + 1
    /\ UNCHANGED <<config, loaded, disk, torn, flow, qor, results, pc, run>>

EditConfig(s) ==
    /\ config[s] < MaxEdits
    /\ config' = [config EXCEPT ![s] = @ + 1]
    /\ UNCHANGED <<source, loaded, disk, torn, flow, qor, results, pc, run>>

-----------------------------------------------------------------------------
(* Loading, recovering and resetting a workspace. *)

\* A torn flow.json makes json.load raise: nothing below is possible then.
Open ==
    /\ pc = "closed" /\ ~torn
    /\ flow' = disk
    /\ loaded' = config
    /\ pc' = "loaded"
    /\ UNCHANGED <<environment, disk, torn, qor, results, run>>

\* Mutant of Recover: the QoR of an interrupted run is kept.
RecoverKeepingQor(orphans) ==
    /\ pc = "closed" /\ ~torn
    /\ loaded' = config
    /\ flow' = [s \in Steps |-> IF s \in orphans THEN Settle(disk[s]) ELSE disk[s]]
    /\ pc' = "recovering"
    /\ UNCHANGED <<environment, disk, torn, qor, results, run>>

Recover(orphans) ==
    /\ pc = "closed" /\ ~torn
    /\ loaded' = config
    /\ flow' = [s \in Steps |-> IF s \in orphans THEN Settle(disk[s]) ELSE disk[s]]
    /\ qor' = [s \in Steps |-> IF s \in orphans THEN None ELSE qor[s]]
    /\ pc' = "recovering"
    /\ UNCHANGED <<environment, disk, torn, results, run>>

Orphans == {s \in Steps : disk[s].state = "Ongoing"}

\* load_workspace of the command line: every Ongoing step is an orphan.
OpenAndRecover == Recover(Orphans)

\* workspace.recover_interrupted of the desktop runtime, for one operation or
\* for all of them.
RecoverInterrupted(op) == Recover({s \in Orphans : op = None \/ disk[s].marker = op})

\* clear_states
Reset ==
    /\ pc = "loaded"
    /\ qor' = [s \in Steps |-> None]
    /\ flow' = [s \in Steps |-> NewStep]
    /\ pc' = "resetting"
    /\ UNCHANGED <<environment, loaded, disk, torn, results, run>>

Close ==
    /\ pc = "loaded"
    /\ pc' = "closed"
    /\ loaded' = Unloaded
    /\ UNCHANGED <<environment, disk, torn, flow, qor, results, run>>

-----------------------------------------------------------------------------
(* EngineFlow.save.  Every operation changes the engine's copy first and   *)
(* writes flow.json afterwards; the file is truncated before it is filled. *)

SavePoints == {"refreshing", "marking", "starting", "finishing", "rejecting",
               "dropping", "recovering", "resetting"}

AfterSave ==
    CASE pc = "refreshing" -> "refreshed"
      [] pc = "marking" -> "marked"
      [] pc = "starting" -> "running"
      [] pc = "finishing" -> "returning"
      [] pc = "rejecting" -> "rejected"
      [] pc = "dropping" -> IF run.aborting THEN "closed" ELSE "returning"
      [] OTHER -> "loaded"

\* A refresh, a marking or a recovery that changed nothing does not write.
Writing ==
    /\ pc \in SavePoints
    /\ pc \in {"refreshing", "marking", "recovering"} => flow # disk

Save ==
    /\ pc \in SavePoints
    /\ disk' = flow
    /\ torn' = FALSE
    /\ pc' = AfterSave
    /\ run' = IF AfterSave = "closed" THEN NoRun ELSE run
    /\ loaded' = IF AfterSave = "closed" THEN Unloaded ELSE loaded
    /\ UNCHANGED <<environment, flow, qor, results>>

-----------------------------------------------------------------------------
(* EngineFlow.run_step. *)

\* A request for step s: refresh_stale_states comes first.
RequestStep(s, rerun, op) ==
    /\ pc = "loaded"
    /\ run' = [NoRun EXCEPT !.step = s, !.rerun = rerun, !.op = op]
    /\ flow' = Refreshed(flow)
    /\ qor' = WithoutStaleQor(flow, StaleSteps(flow))
    /\ pc' = "refreshing"
    /\ UNCHANGED <<environment, loaded, disk, torn, results>>

ServeCached ==
    /\ pc = "refreshed"
    /\ ~run.rerun /\ flow[run.step].state = "Success"
    /\ pc' = "loaded"
    /\ run' = NoRun
    /\ UNCHANGED <<environment, loaded, disk, torn, flow, qor, results>>

\* Mutant of MarkDownstream: a rerun leaves the later results alone.
MarkNothing ==
    /\ pc = "refreshed"
    /\ run.rerun \/ flow[run.step].state # "Success"
    /\ pc' = "marking"
    /\ UNCHANGED <<environment, loaded, disk, torn, flow, qor, results, run>>

MarkDownstream ==
    /\ pc = "refreshed"
    /\ run.rerun \/ flow[run.step].state # "Success"
    /\ flow' = MarkStale(flow, Downstream(run.step))
    /\ qor' = WithoutStaleQor(flow, Downstream(run.step))
    /\ pc' = "marking"
    /\ UNCHANGED <<environment, loaded, disk, torn, results, run>>

\* Mutant of StartStep: a rerun keeps the state of the step it replaces.
StartStepInPlace ==
    /\ pc = "marked"
    /\ run' = [run EXCEPT !.sig = Signature(flow, run.step)]
    /\ flow' = [flow EXCEPT ![run.step].stale = FALSE, ![run.step].marker = run.op]
    /\ qor' = [qor EXCEPT ![run.step] = None]
    /\ pc' = "starting"
    /\ UNCHANGED <<environment, loaded, disk, torn, results>>

\* The provenance is computed before the tool starts; what the step had
\* recorded of an earlier run stays until this one ends.
StartStep ==
    /\ pc = "marked"
    /\ run' = [run EXCEPT !.sig = Signature(flow, run.step)]
    /\ flow' = [flow EXCEPT ![run.step].state = "Ongoing",
                            ![run.step].stale = FALSE,
                            ![run.step].marker = run.op]
    /\ qor' = [qor EXCEPT ![run.step] = None]
    /\ pc' = "starting"
    /\ UNCHANGED <<environment, loaded, disk, torn, results>>

ReadInputs ==
    /\ pc = "running"
    /\ used' = [used EXCEPT ![run.step] = Inputs(run.step)]
    /\ readUp' = [readUp EXCEPT ![run.step] =
                     IF run.step = 1 THEN None ELSE artifact[run.step - 1]]
    /\ pc' = "reading"
    /\ UNCHANGED <<environment, loaded, disk, torn, flow, qor, artifact, run>>

\* The tool ends; check_result accepts its outputs or not.
WriteOutputs(out, ok) ==
    /\ pc = "reading"
    /\ artifact' = [artifact EXCEPT ![run.step] = out]
    /\ run' = [run EXCEPT !.ok = ok, !.fresh = TRUE]
    /\ pc' = "checked"
    /\ UNCHANGED <<environment, loaded, disk, torn, flow, qor, used, readUp>>

\* The handler raises before or after it has produced a report.
ToolRaises(out) ==
    /\ pc \in {"running", "reading"}
    /\ \/ UNCHANGED <<artifact, run>>
       \/ /\ pc = "reading"
          /\ artifact' = [artifact EXCEPT ![run.step] = out]
          /\ run' = [run EXCEPT !.fresh = TRUE]
    /\ pc' = "raised"
    /\ UNCHANGED <<environment, loaded, disk, torn, flow, qor, used, readUp>>

\* write_step_qor: quality "pass" needs a successful step; a failed quality
\* gate denies it even then.
PublishQor(pass) ==
    /\ pc = "checked"
    /\ pass => run.ok
    /\ qor' = [qor EXCEPT ![run.step] = [pass |-> pass, sig |-> run.sig]]
    /\ pc' = "published"
    /\ UNCHANGED <<environment, loaded, disk, torn, flow, results, run>>

\* Mutant of PublishRaises: the failure to publish QoR is swallowed.
PublishFailureSwallowed ==
    /\ pc = "checked"
    /\ pc' = "published"
    /\ UNCHANGED <<environment, loaded, disk, torn, flow, qor, results, run>>

PublishRaises ==
    /\ pc = "checked"
    /\ pc' = "raised"
    /\ UNCHANGED <<environment, loaded, disk, torn, flow, qor, results, run>>

\* Mutant of Accept: the provenance is computed when the tool has finished.
AcceptWithLateProvenance ==
    /\ pc = "published" /\ run.ok
    /\ flow' = [flow EXCEPT ![run.step].state = "Success",
                            ![run.step].prov = [sig |-> Signature(flow, run.step),
                                                out |-> artifact[run.step]],
                            ![run.step].marker = None]
    /\ pc' = "finishing"
    /\ UNCHANGED <<environment, loaded, disk, torn, qor, results, run>>

Accept ==
    /\ pc = "published" /\ run.ok
    /\ flow' = [flow EXCEPT ![run.step].state = "Success",
                            ![run.step].prov = [sig |-> run.sig, out |-> artifact[run.step]],
                            ![run.step].marker = None]
    /\ pc' = "finishing"
    /\ UNCHANGED <<environment, loaded, disk, torn, qor, results, run>>

Reject ==
    /\ pc = "published" /\ ~run.ok
    /\ flow' = [flow EXCEPT ![run.step] = Settle(@)]
    /\ pc' = "rejecting"
    /\ UNCHANGED <<environment, loaded, disk, torn, qor, results, run>>

\* Writing the Success fails (disk full): the file may be left cut short.
SaveRaises ==
    /\ pc = "finishing"
    /\ torn' \in {torn, TRUE}
    /\ pc' = "raised"
    /\ UNCHANGED <<environment, loaded, disk, flow, qor, results, run>>

\* Mutant of HandleException: the exception is reported, the step left Ongoing.
ReportException ==
    /\ pc = "raised"
    /\ pc' = "returning"
    /\ UNCHANGED <<environment, loaded, disk, torn, flow, qor, results, run>>

\* except Exception: QoR is written for a report of this run only, and never
\* as a pass; if that fails too, it is deleted.
HandleException ==
    /\ pc = "raised"
    /\ \E q \in {None, [pass |-> FALSE, sig |-> run.sig]} :
          /\ q # None => run.fresh
          /\ qor' = [qor EXCEPT ![run.step] = q]
    /\ flow' = [flow EXCEPT ![run.step] = Settle(@)]
    /\ run' = [run EXCEPT !.caught = TRUE]
    /\ pc' = "rejecting"
    /\ UNCHANGED <<environment, loaded, disk, torn, results>>

\* The step is saved as Incomplete first; its provenance goes with a second
\* write.
DropProvenance ==
    /\ pc = "rejected"
    /\ flow' = [flow EXCEPT ![run.step].prov = None]
    /\ pc' = "dropping"
    /\ UNCHANGED <<environment, loaded, disk, torn, qor, results, run>>

Return ==
    /\ pc = "returning"
    /\ pc' = "loaded"
    /\ run' = NoRun
    /\ UNCHANGED <<environment, loaded, disk, torn, flow, qor, results>>

-----------------------------------------------------------------------------
(* Interrupts and crashes. *)

\* The body of run_step's try statement, up to its return.
TryPoints == {"running", "reading", "checked", "published", "finishing",
              "rejecting", "rejected", "dropping", "returning"}

\* SIGINT or SIGTERM while the handlers of run_step are installed.
Interrupt ==
    /\ pc \in TryPoints /\ ~run.caught
    /\ torn' \in {torn, torn \/ Writing}
    /\ qor' = [qor EXCEPT ![run.step] = None]
    /\ flow' = [flow EXCEPT ![run.step] = Settle(@)]
    /\ run' = [run EXCEPT !.caught = TRUE, !.aborting = TRUE]
    /\ pc' = "rejecting"
    /\ UNCHANGED <<environment, loaded, disk, results>>

\* The process dies (SIGKILL, power, a signal outside the handlers).
Crash ==
    /\ pc # "closed"
    /\ torn' \in {torn, torn \/ Writing}
    /\ flow' = disk
    /\ pc' = "closed"
    /\ run' = NoRun
    /\ loaded' = Unloaded
    /\ UNCHANGED <<environment, disk, qor, results>>

-----------------------------------------------------------------------------

RunStep ==
    \/ ServeCached \/ MarkDownstream \/ StartStep \/ ReadInputs
    \/ \E out \in Outputs, ok \in BOOLEAN : WriteOutputs(out, ok)
    \/ \E out \in Outputs : ToolRaises(out)
    \/ \E pass \in BOOLEAN : PublishQor(pass)
    \/ PublishRaises \/ Accept \/ Reject \/ SaveRaises
    \/ HandleException \/ DropProvenance \/ Return

Request ==
    \/ Open \/ OpenAndRecover \/ Reset \/ Close
    \/ \E op \in Ops \cup {None} : RecoverInterrupted(op)
    \/ \E s \in Steps, rerun \in BOOLEAN, op \in Ops \cup {None} :
          RequestStep(s, rerun, op)

Edit == EditSource \/ \E s \in Steps : EditConfig(s)

Next == Save \/ RunStep \/ Request \/ Edit \/ Interrupt \/ Crash

\* A process that has started a request keeps running it: the calls of run_step
\* follow one another.  That the tool itself ends is assumed: the runners of the
\* compiler and of the simulator do not bound it.
Fairness == WF_vars(Save \/ RunStep)

Spec == Init /\ [][Next]_vars /\ Fairness
-----------------------------------------------------------------------------
(* Properties. *)

Versions == 0..MaxEdits
InputVersions == [src : Versions, cfg : Versions]

\* What the fields of a step in flow.json may hold (_new_flow_step, set_state,
\* _start_step), in the engine's copy and on disk.
StepOK(r) ==
    /\ DOMAIN r = {"state", "prov", "stale", "marker"}
    /\ r.state \in States /\ r.stale \in BOOLEAN
    /\ r.marker \in Ops \cup {None}
    /\ r.prov # None => r.prov.out \in Outputs /\ r.prov.sig.env \in InputVersions

\* Type correctness of the durable and of the in-memory state of EngineFlow.
TypeOK ==
    /\ source \in Versions
    /\ config \in [Steps -> Versions] /\ loaded \in [Steps -> Versions]
    /\ torn \in BOOLEAN
    /\ DOMAIN disk = Steps /\ DOMAIN flow = Steps
    /\ \A s \in Steps : StepOK(disk[s]) /\ StepOK(flow[s])
    /\ \A s \in Steps : qor[s] # None =>
          qor[s].pass \in BOOLEAN /\ qor[s].sig.env \in InputVersions
    /\ artifact \in [Steps -> Outputs \cup {None}]
    /\ used \in [Steps -> InputVersions]
    /\ readUp \in [Steps -> Outputs \cup {None}]
    /\ pc \in SavePoints \cup TryPoints
             \cup {"closed", "loaded", "refreshed", "marked", "raised"}
    /\ DOMAIN run = DOMAIN NoRun
    /\ run.step \in Steps \cup {0} /\ run.op \in Ops \cup {None}
    /\ pc \in {"closed", "loaded", "recovering", "resetting"} => run = NoRun

\* A result that run_step would return from its cache (refresh_stale_states
\* leaves it a Success, with provenance) was computed from the inputs and from
\* the upstream outputs that are there now, whatever was edited, killed or
\* interrupted while it and the steps before it ran.
CachedResultIsFresh ==
    \A s \in Steps :
        pc # "closed" /\ Cached(flow, s) /\ flow[s].prov # None =>
            /\ used[s] = Inputs(s)
            /\ s > 1 => readUp[s] = artifact[s - 1]

\* The QoR triplet next to a successful step is the one its recorded run
\* published: write_step_qor, clear_step_qor and the two writes of flow.json
\* never leave the QoR of another run there, whichever of them a crash cuts off.
QorMatchesProvenance ==
    \A s \in Steps :
        disk[s].state = "Success" /\ qor[s] # None =>
            disk[s].prov # None /\ disk[s].prov.sig = qor[s].sig

\* A published quality "pass" is backed by flow.json: its step is a Success, or
\* it is Ongoing and recovery will delete the artifacts with the marker.
PassIsBacked ==
    \A s \in Steps :
        qor[s] # None /\ qor[s].pass => disk[s].state \in {"Success", "Ongoing"}

\* The outputs of a step change only when flow.json no longer holds a Success
\* for it or for any later step: _mark_downstream_stale and _start_step are
\* durable before the tool touches anything.
InvalidatedBeforeOverwritten ==
    [][\A s \in Steps : artifact'[s] # artifact[s] =>
          \A t \in s..NumSteps : disk[t].state # "Success"]_vars

\* flow.json records a new Success only for a step whose QoR was published by
\* the same run (a QoR publication failure cannot finish a step successfully).
SuccessNeedsQor ==
    [][\A s \in Steps : disk'[s].state = "Success" /\ disk'[s] # disk[s] =>
          qor[s] # None /\ qor[s].sig = disk'[s].prov.sig]_vars

\* A step that run_step has started does not stay Ongoing in flow.json under a
\* live process: success, failure, exception and interruption all settle it.
StartedStepSettles ==
    \A s \in Steps :
        (pc \in TryPoints /\ run.step = s /\ disk[s].state = "Ongoing")
            ~> (disk[s].state # "Ongoing" \/ pc = "closed")

=============================================================================
