# TLA+ models of ECC-FE

ECC-FE (`src/fecompiler`) takes a CPU or RTL design through a fixed frontend
flow: *prepare* merges the sources, *review* checks them, *lint*/*elaborate*
run slang, *sim* builds a verilator model and runs its test suite. The same
Python code serves a command line (`ecc-fe`) and a desktop application, which
talks JSON-RPC to one sidecar process. This directory models the parts of it in
which the order of steps, concurrent processes, failures and kills matter, and
the rules by which the tools, the catalog and the reports judge a design, checks
both with TLC and proves the central ones with TLAPS.

Contents: 1 inventory, 2 modules, 3 runs, 4 proofs, 5 disagreements with the
documentation, 6 abstractions, 7 not modelled and next.

## 1. Inventory

| Component | State it keeps | Operations | What is hard | What makes it correct |
| --- | --- | --- | --- | --- |
| Flow engine (`engine/flow.py`, `engine/provenance.py`) | `home/flow.json` (state, provenance, stale flag, runtime marker of each step) and the engine's copy of it | `run_step`, `refresh_stale_states`, `clear_states`, `clear_stale_ongoing_states` | inputs edited while a tool runs; kill or signal between two writes; exceptions in every phase; reruns in any order | a cached result is current; invalidation precedes overwriting; no Success without QoR; nothing stays Ongoing |
| Recovery (`runtime/recovery.py`) | the same | `recover_interrupted_operations` | which Ongoing steps are orphans | a pass on disk is backed by the flow |
| QoR artifacts (`analysis/qor.py`, `cli/handlers/report.py`) | three JSON files per step, a copy in the frontend detail | publish, roll back, clear; `report qor` | three renames are not one; the reader is another process | files of one generation only; a rollback restores |
| Resource installer (`cli/resource_manager.py`, `resources.py`) | `manifest.json`, its lock, `tools/<tool>/<version>` | `install`, `install_required`, `status` | several processes, only the manifest is locked; failure at any of some ten points | no entry lost; a failure restores the prior directory; dependency-first |
| Workspace parameters (`cli/project/config.py`, `params.py`, `cli/handlers/param.py`) | `ecc-fe.toml`, `home/parameters.json` | `param set`, `param unset`, `run` | two files and the flow, no transaction; manual edits | overrides recorded; the flow reset before a change; the baseline kept |
| Application service (`application/workspace_service.py`) | the workspace's files, step details, events, the answer | create, load, run-flow, run-step, reset, get-info | a stale prepare step is refreshed inside a run; kills between steps; events, details and answer are written apart | a success is of the sources that are there; events, details and answer agree |
| Runtime (`runtime/server.py`, `stdio_server.py`, `transport.py`, `sessions.py`, `workspace_api.py`, `events.py`) | sessions, byte buffer, active operations, locks | `rpc.*`, `workspace.*`, `frontend.*` | frames cut into chunks, session replacement, order of events and responses, a client that dies | requests served in order, answered once; a handle keeps its workspace; nothing held between requests |
| Workspace creation (`application/workspace_service.py`, `data/workspace.py`) | `origin/`, `parameters.json` | create, load, repair, suite selection | three ways to give sources; repair of defaults at every load; contracts that may be absent | what is asked for is what prepare reads; a repair comes to rest; no suite that is not supported |
| Catalog and compatibility (`catalog/*`, `soc/`, `cpu/`) | none | merge, validate, match, check | two descriptions of one rule: matrix and validation, validation and prepare | they accept the same |
| Prepare (`tools/prepare`, `tools/common`) | the merged list, `prepared_inputs.json` | collect, scan, compare with the contract | recursive lists; two parsers of one list; conditionals | every named file once, every file read is watched; a pass means the same interface |
| Review (`tools/review`) | report, previous report, waivers, yosys outputs | choose sources, probe, scan, merge, finalise | yosys missing, timed out or failing; outputs of an earlier probe; issues followed from run to run | verdict, gate and score agree; each issue is new, known or resolved |
| Elaborate, lint (`tools/slang`, `tools/verilator`) | reports | run, parse, count, judge | a tool that is absent, crashes or prints nothing; owners of files | step, report, gate and score come to one verdict |
| Simulation (`tools/verilator`) | images, case reports, previous run | build, run cases, compare with the previous run | names that collide, difftest requested or not, one of several cases failing | a case is accepted for the right reason; one verdict; points are earned |
| Run directories (`cli/project/layout.py`, `cli/commands.py`, `cli/core/invocation.py`) | `runs/<id>`, the template | choose the target, overwrite, clone | a tree is removed by a path that a user spells, with links; partial clone | only a run is replaced; whole or not at all; a suggested command keeps the target |
| Command line, rendering, subflow records, utilities, packaging | none of their own | - | - | not modelled |

Interactions. The command line and the JSON-RPC server both call the application
service; it builds one `EngineFlow` per request from the files of the workspace.
The engine calls a tool handler per step and then the QoR writer. `report`
commands read the files those leave, in a process of their own. `param` commands
write the two configuration files and call the service's reset. The installer
shares nothing with a workspace but the tools, whose identity is part of the
provenance. The desktop serialises its operations in one queue and cancels by
killing the sidecar (`src/README.md:104-107`), so that crash and recovery are the
ordinary way to stop a run.

The hazards found in this code, each with its line, are the list `hazards` of
`PROJECT.json`; the properties below are aimed at them. Two kinds of hazard call for
two kinds of model: state machines where order, failure and concurrency matter,
and, for the large share of this program that is rules over descriptions (a
verdict, a selection, a score), operators that are compared with one another over
bounded inputs.

## 2. Modules

| Module | Models | Variables | Granularity |
| --- | --- | --- | --- |
| `FlowEngine` | one workspace, one process at a time | `disk` = flow.json, `flow` = the engine's copy, `qor`, `artifact` (with `used`, `readUp`: what the outputs were really computed from), `source`/`config`/`loaded` = versions of the inputs on disk and as loaded, `pc`, `run` = locals of `run_step` | every change of disk is a step; each operation changes the copy, then `Save` writes it |
| `QorTriplet` | one writer and one reader of a step's QoR files | `file`, `detail`, `ongoing`, the writer's locals, the reader's progress `got` | each unlink, staging, rename, rollback and read is a step |
| `ResourceInstall` (`MCResourceInstall`: registries) | several installer processes | `manifest`, `lock`, `dir`, and per process `backup`, `pc`, `roots`, `stack` (the recursive calls of `install`), `copy`, with the histories `records` and `prior` | each rename, lock, read and write is a step; `rmtree` is two |
| `ParamConfig` (`MCParamConfig`: the workspaces of one and of two processes) | several processes running param and run commands | `toml`, `params`, `result` (the parameters the successes of flow.json were computed with), `cmd`, the history `original` | each read and each atomic replacement is a step |
| `WorkspaceFlow` | requests on one workspace, above `run_step` | `source` = versions of the listed sources and of headers, `suite`, `manifest` = prepared_inputs.json, `flow`, `built` (what outputs were computed from), `detail`, `pc`, `req`, `events`, `answer` | a step of the flow starts, reads and ends; prepare reads its sources twice; a kill or an edit anywhere |
| `RequestService` | what the desktop relies on: requests in order, answered once | `queue`, `log`, `stopped` | abstract |
| `RuntimeServer` (`MCRuntimeServer`: requests) | the sidecar: stream, decoder, dispatch, sessions | `wire`, `buffer`, `messages`, `session`, `byDirectory`, `nextId`, `holding`, `active`, `log`, the history `given` | each read, each message cut out, each handler and each frame written |
| `Lists` | what a pass over a list collects: elements in order, the first of each, those that a test picks | operators | - |
| `RtlInputs`, `TopContract` | prepare: file lists, where their files are found, fingerprint; conditionals, port contracts, the check of the top | operators | - |
| `CatalogRules` (extends these two) | manifests, compatibility, validation, the catalog check | operators | - |
| `SimulationRules` | drivers, programs, cases, regressions, verdict and score of sim | operators | - |
| `ReportRules` | prepare, elaborate and lint: report, gates, score | operators | - |
| `ReviewRules` | sources, yosys, netlist, issues, verdict and score of review | operators | - |
| `WorkspaceSetup` | create request, origin, repair of defaults, suites | operators | - |
| `ProjectRuns` | target of a command, protected and safe directories, `run` in a project | operators | - |
| `MCRules` | - | `subject`, `input`: one state per input of one rule | the inputs of the run `rules` |

The theorems about a module with state are in the module of its name with `Proofs`
behind it (`FlowEngineProofs`, `QorTripletProofs`, `ResourceInstallProofs`,
`ParamConfigProofs`, `WorkspaceFlowProofs`, `RuntimeServerProofs`). `RuleProofs` has
those of `RtlInputs`, `TopContract`, `CatalogRules`, `SimulationRules` and
`WorkspaceSetup`, for every input; `MCRulesProofs` those of the specification `MCRules`,
for every input that it enumerates.

The operator modules have no state. `MCRules` enumerates inputs: an initial state
names a subject, one step chooses an input for it, and the invariants evaluate the
code's rules on that input. The properties are written in the modules themselves
and compare what one part of the code computes with what another takes it for
(validation and preparation, step and report and gate, first and second load), or
with a definition of what the rule means (`Meaning` of conditionals, `Reachable`
files, `Chains` of a netlist).

How actions correspond to code: the actions carry the name of the method or of
the part of it they stand for, and `map` in `PROJECT.json` gives the lines. A
multi-step method is one control point after another (`pc`); its exception paths
are actions `...Raises`, its `except` and `finally` clauses `HandleException`,
`RollBackFile`, `PutBack`, `Unwind`; `Interrupt` is a signal that the code turns
into a `BaseException`, `Crash` a kill that runs no clause at all. Definitions
whose comment begins with "Mutant of" are faults kept on purpose: no specification
uses them; substituting one for the definition it names makes the property fail
that `PROJECT.json` lists with it.

`QorTriplet` is the detail of what `FlowEngine` takes for one step (`PublishQor`,
the removal in `StartStep` and in the handlers), and `FlowEngine` is the detail of
`result` in `ParamConfig`; `WorkspaceFlow` takes `run_step` as three steps and has
the loop, the refresh and the answer around it. These are not composed: each
abstraction is stated in section 6. `RuntimeServer` is shown to implement
`RequestService` (`Service == INSTANCE RequestService WITH ...`,
`ImplementsRequestService`): the queue of the service is the request being served
followed by the messages that the decoder has cut out of the stream. TLC checks the
refinement on three requests, `RuntimeServerProofs!ServesInOrder` proves it.

## 3. Runs

| Run | Instance | Shows |
| --- | --- | --- |
| `flow_edits` | 2 steps, 1 edit of the sources and of each configuration, 3.6 million states | `CachedResultIsFresh`, `QorMatchesProvenance`: whatever is edited, killed or interrupted, a result served from the cache was computed from what is there now, and the QoR next to a Success is that of its own run |
| `flow_outputs` | 2 steps, 2 outputs, a runtime marker, 1.5 million states | `InvalidatedBeforeOverwritten`, `SuccessNeedsQor`, `PassIsBacked`; `StartedStepSettles` under fairness |
| `qor_triplet` | 2 contents, 2 runs, whose frontend detail is written or not, a reader that never stops | `ReportIsOneGeneration`, `RollbackRestores`, `ReturnedRunIsConsistent`, `InterruptedRunLeavesNothing` |
| `install_faults` | 1 installer, a tool, and another that needs it and then itself, 2 versions, any machine, exceptions in staging, renames and manifest | `FailureKeepsPrior` |
| `install_race` | 2 installers, 1 tool, 2 versions, any machine, no faults | `ReportedIsUsable`, `SomeRacerSucceeds` |
| `install_manifest` | 2 installers, a chain of two tools, every fault | `EntriesSurvive`, `DependenciesFirst`, `EveryCommandEnds` |
| `install_interrupt` | 1 installer, 1 recorded tool, no second interrupt in `finally` | a violation, section 5 |
| `param_commands` | 1 process, 2 parameters, 2 values, manual edits; in another workspace 2 processes whose commands overlap, 1 parameter | `RunReflectsConfig`, `OverridesStayRecorded`, `NamedParameterResetsFlow` of the one process; `RacingBaselineIsKept` of the two: what two first commands capture is the same |
| `runtime_requests` | 3 of 10 requests, 2 workspaces, chunks of up to 4 cells, a client that may die, 0.4 million states | `ImplementsRequestService`, `HandlesKeepTheirWorkspace`, `NothingHeldBetweenRequests`, `RequestsSettle` |
| `workspace_flow` | 3 steps, 2 suites, 2 edits, kills, 4.7 million states | `CachedStepIsCurrent`, `SuccessIsUpToDate`, `EventsMatchAnswer`, `DetailIsOfLastRun` |
| `workspace_headers` | 2 steps, 1 edit of a header | a violation, section 5 |
| `rules` | 29 subjects, 0.98 million inputs | six invariants, see below |

The subjects of `rules`:

| Invariant | Subjects and the property of each |
| --- | --- |
| `InputsAreFoundAndWatched` | file lists: `CollectsWhatIsNamed`, `WatchesWhatItReads`; conditionals: `ConditionalsAreResolved`; interfaces: `StyleDoesNotMatter`; tops: `PassMeansSameInterface` |
| `CatalogIsConsistent` | configurations: `MatrixMeansCreatable`; entries: `CheckedEntriesFit`; CPU lists: `WhatIsValidatedIsPrepared`; manifests: `LastManifestCounts`; selections: `GeneratedListIsReadBack` |
| `SimulationIsJudgedAlike` | one case: `VerdictFitsTermination`; images: `NamesAreDistinct`; programs: `ProgramsAreRun`; drivers: `DriverFitsArguments`; steps: `RunIsJudgedAlike`; two runs: `ScoreIsEarned` |
| `ReportsAreJudgedAlike` | prepare: `PrepareIsScoredFairly`; slang: `ElabVerdictsAgree`; Verilator: `LintVerdictsAgree` |
| `ReviewIsJudgedAlike` | sources: `SourcesAreReviewed`; netlists: `GraphIsMeasured`; modules: `RisksAreIssues`; yosys: `PrecheckVerdictsAgree`; issues: `IssuesAreFollowed` |
| `WorkspaceIsSetUp` | requests: `RequestedIsPrepared`; defaults: `RepairSettles`; contracts: `SuitesNeverWiden`; suites: `LastSuiteCounts`; runs of a project: `RunsReplaceRunsOnly`; targets: `SuggestionsKeepTheTarget` |

Bounds, and why they are enough.

* `NumSteps = 2`: staleness and invalidation relate a step to the one before it
  (chained provenance) and to all after it; two steps have one of each. The
  theorems hold for every number of steps.
* `MaxEdits = 1`: a run sees each input before or after a change. The theorems
  hold for every bound. `Outputs` has two values where a property tells a rerun's
  output from the earlier one.
* `Ops`: one runtime operation and `None` (the command line) distinguish selective
  recovery from recovery of everything.
* QoR: `MaxRuns = 2` with two contents gives an old and a new generation, which
  is what a reader can mix.
* Installers: two processes have every pairwise race, and three have one more
  (`resource_manager.py:349` in the hazards). The first moves a damaged directory aside; the
  second places its own and reports; the first fails to rename; the third moves the second's
  directory aside; the first puts the damaged one back; the third fails to rename, finds a
  directory in the place and drops its backup, which was the good one. So `ReportedIsUsable`
  is false of three installers that find a damaged directory; it is proved for two, and for
  any number that find whole ones. One tool is enough for the directory, a chain and a
  self-requirement for the recursion. `Found` is any machine where directories matter, an
  empty one where only the manifest does. The faults of a run are those its properties are
  promised under.
* Parameters: two, so that one may be pending while the other is set; two values,
  one of which is the schema's default.
* Requests: three are two that compete for a directory or a handle and one that
  uses it; chunks of four cells split a frame anywhere, hold two, or hold the end of
  one and the beginning of the next. A payload that contains a blank line is one
  of the requests.
* Workspace: three steps have prepare, one step after it and sim; two edits let
  one happen before and one during a refresh.
* Rules: lists of up to two or three elements (files, images, cases, diagnostics,
  issues) have the empty, the single, the repeated and the mixed ones; a threshold
  is approached from both sides; conditionals are five lines, netlists four
  cells. A project has three lists and two RTL files, of which a list and a file may be missing
  or have moved into a bundle, and as roots a CPU list, a CPU and a SoC list, the
  input list of a generic workspace, or a single file. A catalog's files exist in
  the SoC's directory, in a bundle or nowhere, and its manifest lists C++ sources or
  does not. Cycles are 1000 to 1002, on both sides of what rounding forgives. The
  cuts of review are those of the code, which these inputs do not reach, and two
  sets of smaller ones, which they do. What an input may be is restricted only by
  what the tools before it can produce (a comment in `MCRules` says so where it is).
* Deadlock checking is off where the system may stop: flow.json cut short, edits
  and installers used up.

Fairness. `FlowEngine`: weak fairness of `Save \/ RunStep`, since `run_step` is
sequential code and its next statement is executed while the process lives; that
a tool ends is an assumption. Requests, edits, interrupts and crashes have none.
`RuntimeServer`: weak fairness of `Server`, the loop of a single process whose next
statement is executed while it lives; that a flow ends is the same assumption.
What the client sends has none: `RequestsSettle` says nothing of a frame that the
client never completes, for then the stream is closed and the server ends.
`ResourceInstall`: weak fairness of each process's next step; downloads have
timeouts, `flock` wakes a waiter, post-install commands are assumed to end. The
other modules are checked for safety only.

## 4. Proofs

| Theorem | Statement | Argument |
| --- | --- | --- |
| `FlowEngineProofs!TypeCorrect` | `Spec => []TypeOK` | inductive `TypeInv`: the types, plus the types of `run`'s locals at the points where they are set |
| `FlowEngineProofs!CachedResultsAreFresh` | `Spec => []CachedResultIsFresh` | inductive `FreshInv`: (`Dated`) the signature recorded with a Success is never newer in the sources than what the outputs were computed from, and equal in the configuration; (`Sourced`) a Success behind another step was computed from the outputs that are there; (`Invalidated`) from the marking to the tool's end no later step is a Success. If such a signature equals the current one, the sources have not changed since: the result is current. Needed because the invariant speaks of a state in which an engine *would* serve the result, while the signature was taken many steps before |
| `FlowEngineProofs!InvalidationComesFirst` | `Spec => InvalidatedBeforeOverwritten` | the conjunct `Invalidated`, on disk |
| `FlowEngineProofs!QorIsOfTheRecordedRun`, `PassesAreBacked`, `SuccessesHaveQor` | `NoneIsNoRecord` implies `Spec => []QorMatchesProvenance`, `[]PassIsBacked`, `SuccessNeedsQor` | inductive `QorInv`: both properties hold of the engine's copy of the flow as well as of flow.json (`Matched`, `Backed`), since `Save` can come at any time; a QoR is written only while flow.json has its step Ongoing (`Announced`, `Started`), and at "published" it is that of the run about to be recorded (`Published`) |
| `ResourceInstallProofs!TypeCorrect` | `Spec => []TypeOK` | with `LockInv`: inside the lock only its holder, which has the current manifest in its copy |
| `ResourceInstallProofs!EntriesAreNeverLost` | `Spec => EntriesSurvive` | `LockInv` makes `WriteManifest` a change of one entry of the current manifest |
| `ResourceInstallProofs!DependenciesComeFirst` | `Spec => DependenciesFirst`, any registry, cyclic ones included | `DepsInv`: each requirement of each call in progress is still on its worklist, is the tool of the call above it, or is in the manifest, where it stays (`Covered`); a call records its tool when its worklist is empty and nothing is above it |
| `ResourceInstallProofs!FailuresRestore` | `Undisturbed` implies `Spec => []FailureKeepsPrior` | `PriorInv`: at each stage of a replacement the directory and entry found at its beginning are in place, or in the backup and nowhere else; `prior` is `NoPrior` outside |
| `ResourceInstallProofs!RacesAreWon` | `Race` implies `Spec => []SomeRacerSucceeds` | `RaceInv`: some installer is ahead (it has placed or found its tool and can fail no more), or nobody is, and then whoever is beaten was beaten by one that stands before its rename with the place free (`NobodyAhead`) |
| `ResourceInstallProofs!ReportsStayUsable` | `Intact` implies `Spec => []ReportedIsUsable`, any number of installers | `ReportInv`: nothing damaged is anywhere (`AllWhole`), and a place that has been reported is occupied or about to be by somebody who will rename or put back (`Promised`), unless a process was killed (of which the property says nothing) |
| `ResourceInstallProofs!TwoReportTruly` | `Race` and `Two` imply `Spec => []ReportedIsUsable` | `TwoInv`: what one of two has placed or found, only the other can have moved aside, and that other has a whole payload and will rename it into the free place or put the backup back |
| `QorTripletProofs!TypeCorrect`, `RollbackIsExact`, `ReturnsConsistent`, `InterruptsClear` | `Spec => []TypeOK`, `[]RollbackRestores`, `[]ReturnedRunIsConsistent`, `[]InterruptedRunLeavesNothing` | `WriterInv`: how far the writer has come with the three files at each of its points, and that nothing of an earlier run is in the frontend detail while one is on its way; `EndedInv`: what the run that ended last has left |
| `QorTripletProofs!ReportsAreUniform` | `Spec => []ReportIsOneGeneration` | `ReaderInv`: the comparison sees three files that were read, not files that are there |
| `ParamConfigProofs!TypeCorrect` | `Spec => []TypeOK` | `CmdInv`: which command can be at which label, and what it has read there |
| `ParamConfigProofs!BaselineSurvivesRaces` | `Spec => []BaselineIsKept`, which `param_commands` checks of two processes as `RacingBaselineIsKept` | `CmdBaseline`: while there is no ecc-fe.toml nobody has written parameters.json, so a command about to create the file holds the original parameters, whoever else is about to |
| `ParamConfigProofs!RunsUseTheConfig`, `OverridesStayVisible`, `NamedParameterResets` | `Solo` implies `Spec => []RunReflectsConfig`, `OverridesStayRecorded`, `NamedParameterResetsFlow` | inductive `SoloInv`: what the command has read is still what the files hold (`InStep`), what it is about to write differs from them where it has decided (`Planned`), the flow is reset or of the same value before parameters.json changes (`ResetOrSame`), and a run that goes on has the two files in step (`Synchronised`, which needs that applying the overrides leaves none pending, `AppliedSettles`) |
| `WorkspaceFlowProofs!TypeCorrect` | `Spec => []TypeOK` | `TypeInv` (`Typed`, and `Placed`: which locals are set where) with `EventsInv`, without which the bound on the number of events is not inductive |
| `WorkspaceFlowProofs!EventsTellTheAnswer` | `Spec => []EventsMatchAnswer` | `EventsInv`: the events are the pairs of the finished steps in order, then perhaps the start of the one at work |
| `WorkspaceFlowProofs!DetailsAreOfLastRun` | `Spec => []DetailIsOfLastRun` | each action that ends a step writes its detail or removes it, and no other changes what the detail is of; inductive with `TypeInv` |
| `WorkspaceFlowProofs!CachedStepsAreCurrent` | `~EditsWhileCollecting` and `"header" \notin Editable` imply `Spec => []CachedStepIsCurrent` | `DatedInv`: the results of a Success are not older than its signature, and of one moment, and the signature is not newer than the sources. If the signature is current, all three are of the same version |
| `WorkspaceFlowProofs!SuccessesAreUpToDate` | under the same conditions, `Spec => SuccessIsUpToDate` | `PreparedInv`: a successful prepare left the manifest that is there; `ProgressInv`: once a step of the request is announced prepare is not refreshed any more, so a step that it finished stays a success of its signature, and none before the one at work is outdated |
| `RuntimeServerProofs!ServesInOrder` | `Spec => ImplementsRequestService` | `StreamInv`: what is in the buffer and on the wire is a sequence of frames as they were written, of which the last may be cut short, and numbered in order, so the decoder cuts out whole requests; `QueueInv`: what is being served, waits or is still in the stream, and what has been logged, are in that order; then one lemma for each kind of step, each of which is a step of the service or a stutter |
| `RuntimeServerProofs!TypeCorrect` | `Spec => []TypeOK` | with `Numbered`: each request takes one handle at most, so there are enough |
| `RuntimeServerProofs!HandlesStayTrue` | `Spec => []HandlesKeepTheirWorkspace` | `RegistryInv`: whatever handle is in use is below `nextId`, so it is never given again, and the two tables are inverse |
| `RuntimeServerProofs!LocksAreGivenUp` | `Spec => []NothingHeldBetweenRequests` | `LockInv`: at work, the lock of the request's session and no other is held; else none |
| `RuleProofs!ListsAreCollected` | `CollectsWhatIsNamed`, any finite project (`IsProject`), lists that include each other or themselves among them | the walk is a recursion over the number of lists not yet entered (`Reads`): what it has collected after each line is what the lines so far reach, and a list that was entered before is one whose files are in already |
| `RuleProofs!ReadFilesAreWatched` | `WatchesWhatItReads` under `IsProject` | prepare walks the lists as redirected to bundles (`Relocated`), the fingerprint as they are written; a path between them stays in what is written until the first file that has moved, and behind it everything is reached from a copy (`Copied`) |
| `RuleProofs!ConditionalsAreMeant` | `ConditionalsAreResolved`, any sequence of lines | induction over the lines: the parser's stack is in step with the enclosing conditionals (`Nested`, `Framed`, `InStep`), so it is active where `Meaning` says that the line counts |
| `RuleProofs!StylesAreRead`, `TopsAreAccepted` | `StyleDoesNotMatter`, `PassMeansSameInterface`, any ports with names of their own | the table of a header is the table of its ports, whichever style names them (`CarryIs`: what a pass carries from one declaration to the next); in the style that repeats a range without its direction a port has the range of the port before it, so the table is right exactly if no such range is new |
| `MCRulesProofs!InputsAreRight` | `Spec => []InputsAreFoundAndWatched` | inductive `InputsAreFormed`: each input that a step chooses is one that the theorems above speak of (`FilelistsAreFormed`, `ConditionalsAreFormed`, `InterfacesAreFormed`, `TopsAreFormed`) |
| `MCRulesProofs!CatalogIsRight` | `Spec => []CatalogIsConsistent` | inductive `CatalogIsFormed`, in the same way |
| `RuleProofs!MatrixIsTheValidation` | `MatrixMeansCreatable`, any catalog with `Indexed` suites and any user's list | the rules that the validation has in addition to those of the pair follow from them: a suite that both entries offer is declared by both and not planned |
| `RuleProofs!CheckedCatalogsFit` | `CheckedEntriesFit`, any two entries with `EmptyIsNoFile` | by cases of what the check asks of the socket and of the manifest's fields; what the options name is a checked field, a checked source or a default driver |
| `RuleProofs!LastManifestsCount` | `LastManifestCounts`, any entries, the built-in ones with ids of their own | the fold as a function of the number of manifests merged: the ids so far, one entry of each, its value that of the last with the id (`MergedFirst`) |
| `RuleProofs!ValidatedListsArePrepared` | `WhatIsValidatedIsPrepared`, any finite project with a CPU list and no SoC list | two parsers of one list: where no option is glued they pass the same lines in the same order until the first missing file, at which prepare fails and the validation notes it (`UserParsing`, `SameWalk`) |
| `RuleProofs!GeneratedListsAreReadBack` | `GeneratedListIsReadBack`, any selection of files that are there | the written list is flat, so after k lines each parser has the files of the first k (`FlatAt`, `FlatStays`) |
| `RuleProofs!SuitesAreNarrowed` | `SuitesNeverWiden`, any workspace | by cases of what the core and the SoC say |
| `RuleProofs!VerdictsFit` | `VerdictFitsTermination`, any arguments and any run that `MayRun` | what the simulator prints for each ending (`Printed`) |
| `RuleProofs!StepsAreJudgedAlike` | `RunIsJudgedAlike`, any number of `JudgedCase`s | each of the four judgements is "there is a case and all are ok"; that every case report of the step is a `JudgedCase` is the lemma `ReportJudged` |
| `RuleProofs!CasesAreDistinct` | `NamesAreDistinct`, any list of images | the later of two images with one stem has the higher number (`LaterIsHigher`), so the names are in bijection with the images |

Everything is for arbitrary constants: any number of steps, processes, tools,
parameters, requests, edits. What is assumed:

* The named `ASSUME`s of the modules, which TLC evaluates in every run: a flow with
  steps, bounds that are naturals, a registry that maps tools to sequences of tools,
  and `None` different from the values it stands beside (`NoneAssumption`).
* `NoneIsNoRecord`: the same of records that the model builds over unbounded sets.
* `Undisturbed` is what `cli-design.md` promises restoration for, minus what section
  5 shows of interrupts: one process, and `rmtree`, a kill or a signal do not break
  into the cleanup. `Race`: nothing fails of itself and no tool requires another.
  `Intact`: the directories found are whole; staging, renames and kills may fail.
  `Two`: two installers. `install_faults` is an instance of `Undisturbed`, and
  `install_race` of `Race` with `Two`.
* `Solo`: one process at a time, as the commands have no lock (section 6 names what two
  can lose). The workspace with one process of `param_commands` is an instance.
* `~EditsWhileCollecting` and `"header" \notin Editable`: prepare reads its sources twice
  and the fingerprint has no headers. Without either a cached result can be older than the
  sources; section 5 has the run for headers. `workspace_flow` is an instance.
* `Indexed`: suites have ids of their own (`LastManifestCounts` says that the merge
  leaves one of each). `EmptyIsNoFile`: the empty path is no file, in the SoC's
  directory or in a bundle; a manifest has one list of C++ sources or none. A field of
  a contract that is not empty is there. `MayRun`: how a simulation of the repository's SoC
  can end; a mismatch ends it by `$finish` before a validation is printed.
* `IsProject`: files are finitely many, each is here, moved or absent, a list is a sequence
  of lines and the roots are files or none. `MCRules` assumes that the paths of its own
  projects are so (`PathsAssumption`, which the run evaluates). The ports of an interface
  have names of their own, as a compiler demands.

The induction that these theorems need is over a number (of lines, of lists not yet
entered, of elements passed) and is done with sets of numbers: `Least` (a nonempty set of
numbers has a least one), `StepByStep` (a set that has 0 and the next of each has all),
`Recursion` and `Fold` (what a recursive function and `FoldLeft` are at each number).

Only model-checked:

* the liveness properties (`StartedStepSettles`, `EveryCommandEnds`, `RequestsSettle`):
  TLAPS has no rules for fairness and ENABLED in this version;
* the rules of simulation that pick with a test of their own or accumulate a score
  (`ScoreIsEarned`, `ProgramsAreRun`, `DriverFitsArguments`), and `ReportsAreJudgedAlike`,
  `ReviewIsJudgedAlike` and `WorkspaceIsSetUp` except `SuitesNeverWiden`. They use
  `SelectSeq` with a condition of their own, which the provers cannot unfold, or
  recursive operators; the way is that of `Lists!Picked`, which replaced them in the
  inputs and the catalog.

The two runs that expect a violation have no theorem.

## 5. Disagreements with the documentation

* `install_interrupt`: `cli-design.md:105` says "On failure, the prior installed
  directory and manifest entry remain available". The clauses that restore the
  directory catch `Exception`; a `KeyboardInterrupt` after the second rename runs
  only `finally`, which deletes the backup. `RecordedSpec` of `MCResourceInstall`
  starts from a tool that is whole and recorded and has no second interrupt during
  the clean-up, so the trace is `MoveAside`, `Place`, `Interrupt`, `Unwind`: the
  entry names a directory whose content is no longer what was recorded.
  `install_faults` shows the sentence true of exceptions.
* `workspace_headers`: `engine/flow.py:99` invalidates "successful steps whose
  inputs, config, tools, or upstream changed". A header found through an include
  directory is an input of every tool and in no fingerprint: after an edit the
  step is served from the cache.

Met while modelling, and not runs of their own:

* Installer. `cli-design.md:103` lists "atomic directory replacement"; the code
  renames the old directory away and the new one into place, and a kill between
  the two leaves no directory.
* Parameters. `cli-design.md:140` says "A semantic change resets the frontend
  flow". A `param set` of the value that a parameter already has applies the
  pending manual edit of another one without a reset; the next run recomputes.
* Workspace flow. With `EditsWhileCollecting = TRUE` `CachedStepIsCurrent` fails:
  prepare parses the lists before it takes their fingerprint
  (`prepare/runner.py:89-186`), so an edit in between is recorded as seen. `run`
  never clears an orphaned Ongoing step, only a load does. A run of the whole
  flow applies the smoke suite over a CoreMark selection.
* Runtime. Bytes that are no UTF-8 raise outside the `try` (`server.py:146-151`)
  although the clause after it names `UnicodeDecodeError`; a bad header loses the
  complete messages before it (`transport.py:21-38`). Handles start at 1 again in
  a new process.
* Prepare. A listed file that is not there is read from a third-party bundle
  (`prepare/runner.py:615`, `648`), but the fingerprint does not look there and hashes
  "<missing>" (`rtl_inputs.py:84-99`, `160`): an edit of the bundle's copy does not
  make prepare stale (`Copied`). Nor does one of the input list of a CPU workspace that
  has no CPU or SoC list, which prepare reads (`prepare/runner.py:137`) and the
  fingerprint leaves out.
* Catalog. A file listed twice is two definitions for the validation and one for prepare;
  the validation also reads glued `-f` options and several files on a line. The roots of
  resources are documented in order of priority, but the last manifest wins. The contract
  check does not look at a manifest's `sim_ready`; it checks the C++ sources that a manifest
  lists and looks for files in the bundles (`contract.py:174`, `375-383`), while the options
  of the SoC have default drivers where none are listed, which nobody checks, and do not
  look in the bundles (`soc/registry.py:164`, `210`). It reads the manifest of the
  directory, the options that of the id.
* Top contract. `input logic a, logic [3:0] b` gives `b` the width 1
  (`StyleDoesNotMatter` says exactly when); the contract is
  parsed without the defines of the flow.
* Simulation. Stems `a, a, a_2` give two cases one name. The simulator returns 1 without a
  trap message when difftest is incomplete, which is reported as a process error. With
  `--timeout-ok` CoreMark is accepted at the cycle limit, unscored. Of two programs with one
  stem only the last is run (`verilator/runner.py:1194-1266`). `sim_reuse_binary` may run a
  binary of earlier RTL. The compile settings of CoreMark stay after another suite is
  chosen. A score of 100.0 allows a case to be up to 0.1 % slower than before, since the
  points are rounded (`qor.py:566`, `1581-1590`).
* Reports. When slang crashes without output the log says "Build succeeded"
  (`slang/runner.py:171`), while the step fails. Verilator's last line
  `%Error: Exiting` is counted as an error.
* Review. The probe looks for missing modules four times and adds 32 files at most
  (`structural_probe.py:327`, `344`), so a module can be reported as missing whose file lies
  beside the sources. The report keeps 12 risks (1225), 20 modules with cycles and 40
  structures (931-932). A cell that drives itself is no cycle (1051). When yosys fails,
  metrics of an earlier probe are read (`structural_probe.py`), without points. Files with
  one name outside the list's directory share a fingerprint, hence a waiver. The line of an
  issue is too small after a block comment that spans lines.
* Workspace. Creating over a directory that was in use keeps what is in `origin/`,
  and a load without an input parameter takes the first list found there (the
  condition of `RequestedIsPrepared`); the older form of CPU sources writes a list
  that no load finds. A load takes over a SoC's support for difftest at once and the
  matching driver only at the next load (the condition of `RepairSettles`). A list of
  flags with one built-in path is replaced as a whole.
* Run directories. `--overwrite` removes the old run before the template is checked
  (`commands.py:464-495`): with a bad template the run is lost and none is made. A
  file in place of `runs` is reported as `run_exists`. Where `runs` is a link,
  the directory that it leads to may be named as a run when it is empty or a
  workspace. A workspace inside a replaced run goes with it.

## 6. Abstractions

FlowEngine
* A hash is injective: a signature is the record of what is hashed (`env`: version
  of the sources, loaded configuration; `up`: provenance of the step before).
* `source` stands for all that is read from disk when the provenance is built:
  RTL, file lists, tools, managed resources. `config[s]` is the part of the
  workspace dictionary, read when the workspace is loaded.
* The fields hashed are taken to cover what a step reads. (One exception noted
  while reading: `review` looks up `"Frequency max [MHz]"` in the workspace,
  `tools/review/analyzer.py:499`, which `load_workspace` does not put there.)
* Edits only produce new versions: a change and its exact reversal during one run
  is not considered.
* `refresh_stale_states` reads its inputs in one step; a crash does not split the
  deletion of several steps' QoR.
* A crash between the deletion of QoR and the write of flow.json can leave a
  Success without QoR. No property denies it.
* An exception or an interrupt inside an exception handler is in `QorTriplet`
  (`Escape`), not here.
* Two processes in one workspace and `_sync_flow_steps` are not modelled;
  `run_flow`'s loop is `WorkspaceFlow`.

QorTriplet
* A generation is the hash of the contents, hence stands for them.
* The reader's three `is_file` calls are one step; the reads and the comparison
  that follow decide.
* `Snapshot` may leave the detail as it is: `json_write` fails, or the run is the
  automatic refresh of prepare (`workspace_service.py:905`), which writes none. A file
  that a failed `json_write` has truncated cannot be parsed and counts as nothing.

ResourceInstall
* A directory holds a payload of the current or of an earlier registry, whole or
  damaged. Download, verification, extraction, post-install and health check of
  the payload are one step that succeeds or raises.
* `exists()` and the rename after it are one step in the restoring clauses only;
  in the replacement they are two.
* `install_manifest` has a chain of requirements and `install_faults` a cycle, which
  ends in an error; that a tool of a cycle is never recorded is `DependenciesComeFirst`.
* A retry is another installer. `executable` of an entry and Windows (no
  `flock`) are left out. The undo of one installer after a failed record can remove
  what another has placed; `install_race` has no faults.

ParamConfig
* Workspace mode. Values are normalised members of a small set.
* The flow is the set of parameters its results used. This is sound for what
  the properties say because sim's provenance covers all parameters.
* Manual edits concern `[params]` and happen between commands. The desktop's and
  the prepare step's own writes to `parameters.json` are left out.
* `[params]` is rewritten from the overrides read at the start of the command: with
  two processes an override can be lost, which nothing promises against.

WorkspaceFlow
* `run_step` is three steps: its exceptions and its QoR are `FlowEngine` and
  `QorTriplet`. The later steps read the list of `prepared_inputs.json` and the
  texts of the files it names; headers have a version of their own.
* The details, events and answer are their step, state and order; their texts
  are left out. A suite changes the provenance of sim alone.
* Sources are edited forwards; the workspace dictionary of a request is that of
  its start.

RuntimeServer
* A frame is a cell with the length, a blank line and a payload of one or two cells.
  The client writes while the server waits to read: only a read depends on what is
  in the stream.
* Handlers of the catalog, `rpc.hello` and unknown methods are one action that
  succeeds or fails. What an operation does to its workspace is `WorkspaceFlow`.
* One thread, as in the code; `mutation_lock` is there because the code takes it.

Rules
* A file is a name with what is found in it (kind, modules declared and used, lines
  by their kind); lexing, regular expressions and command lines are abstracted to
  what they find. A message is the class the code matches it to.
* Scores are in tenths of a point, computed exactly and rounded once, halves to the
  even tenth (`Rounded`), where the code rounds a double; suites of 100 cases and more,
  in which rounding can hide a case, are not distinguished. Weights and thresholds
  are the code's. Titles and recommendations are left out, except that an issue's
  title identifies it.
* `Slang`, `Verilator` and yosys are external: a list of diagnostics and the way
  the process ends. `Simulator` is translated from `driver/main.cpp`.
* A path is the sequence of its names, a tree of files maps paths to nodes; a link
  leads to a path without links. A clone is the run with its `home` and `origin`.
* A moved file has one copy in a bundle. Include directories are redirected in the same way,
  but nothing here depends on what they hold. Paths in SoC manifests are relative, so the
  redirection of absolute ones is left out. After a prepare the `input_filelist` of
  a CPU workspace is the merged list (`prepare/runner.py:561-569`), which the fingerprint
  does not follow either; that replacement is left out.
* The limits of review (rounds, files, cycles, structures, risks) are a parameter of its
  rules, with the code's values in `Limits`. What review finds in the text of a line
  (`_scan_source`) is not modelled.
* `MCRules` gives SoCs and CPUs of its own, which differ in each field that a rule
  reads.

## 7. Not modelled, and next

Not modelled:

* `init` of a project, the rewriting of paths in a clone, and two runs of one name at
  the same time, which nothing in the code or its documents promises to be safe.
* Subflow and checklist files: records of progress for display.
* Two processes on one workspace (desktop and command line): the code has no lock
  and no document promises one; the hazards at `workspace_service.py:672`,
  `config.py:157` and `prepare/runner.py:566` are of this kind.
* Command line, rendering, logging, packaging: no state.
* Download, checksum and extraction of resources beyond success or exception;
  metrics and hotspots of the QoR files beyond what a gate or a score uses.

What theorems could say more:

1. `ReportedIsUsable` with faults for two installers that find a damaged directory
   (`TwoReportTruly` is for `Race`).
2. `RunReflectsConfig` for several processes is false as it stands (section 6); what
   several do keep is `BaselineIsKept`, checked of two and proved of any number.
3. The rules of simulation, reports, reviews and workspaces that are only model-checked,
   in the way of `RuleProofs`: the state of a pass as a function of the number of elements
   passed, and an invariant of that number.
