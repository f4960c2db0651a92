---------------------------- MODULE WorkspaceFlow ----------------------------
(***************************************************************************)
(* The application service's requests on one CPU workspace                 *)
(* (fecompiler/application/workspace_service.py): run-flow, run-step,      *)
(* load, reset-flow and create, on top of EngineFlow.run_step and of the   *)
(* prepared manifest that the later steps take their RTL from.             *)
(*                                                                         *)
(* EngineFlow.run_step has a module of its own (FlowEngine); here it is    *)
(* three steps: it starts, its tool reads, it ends.  Sources are edited    *)
(* and the process dies between any two steps of a request.                *)
(***************************************************************************)
EXTENDS Integers, Sequences

CONSTANTS
    NumSteps,           \* steps of the profile; the first is prepare, the last sim
    Suites,             \* test suites of the sim step
    Smoke,              \* the suite of a run-flow request
    Editable,           \* which of Sources a user edits
    EditsWhileCollecting, \* whether prepare can be overtaken between its two reads
    MaxEdits,           \* bound on the edits of each of Sources
    None                \* absent signature, manifest, detail, suite or answer

ASSUME NumStepsAssumption == NumSteps \in Nat /\ NumSteps > 1
ASSUME SuitesAssumption == Smoke \in Suites /\ None \notin Suites

Steps == 1..NumSteps
Prepare == 1
Sim == NumSteps

\* Filelists and the RTL they list, and headers found through include paths.
Sources == {"listed", "header"}

ASSUME EditsAssumption == Editable \subseteq Sources /\ MaxEdits \in Nat
                          /\ EditsWhileCollecting \in BOOLEAN

\* What stands for no manifest is not one.
ASSUME NoneAssumption == None \notin [list : 0..MaxEdits, listed : 0..MaxEdits]

VARIABLES
    source,     \* version of each of Sources on disk
    suite,      \* the suite in home/parameters.json
    manifest,   \* prepared_inputs.json: the RTL list and its source fingerprint
    flow,       \* home/flow.json
    built,      \* built[s]: what the outputs of step s were computed from
    detail,     \* detail[s]: frontend_detail.json of step s
    pc,         \* where the request in progress is
    req,        \* its arguments and local variables
    events,     \* the events it has emitted
    answer      \* the answer to the last request

data == <<manifest, flow, built, detail>>
vars == <<source, suite, data, pc, req, events, answer>>

-----------------------------------------------------------------------------
(* Provenance, as in FlowEngine. *)

NewStep == [state |-> "Unstart", sig |-> None]

Upstream(f, s) ==
    IF s > Prepare /\ f[s - 1].state = "Success" THEN f[s - 1].sig ELSE None

\* Headers are in no filelist: workspace_input_fingerprint does not see them.
Signature(f, s) ==
    [listed |-> source.listed, suite |-> IF s = Sim THEN suite ELSE None,
     up |-> Upstream(f, s)]

Outdated(f, s) == f[s].state = "Success" /\ f[s].sig # Signature(f, s)

Stale(f) == {s \in Steps : \E t \in 1..s : Outdated(f, t)}
Downstream(s) == {t \in Steps : t > s}

\* _mark_step_stale, which deletes the detail with the QoR.
Mark(f, S) ==
    [s \in Steps |-> IF s \in S /\ f[s].state # "Ongoing" THEN NewStep ELSE f[s]]
Unmarked(f, S) ==
    [s \in Steps |-> IF s \in S /\ f[s].state # "Ongoing" THEN None ELSE detail[s]]

\* Mutant of PreparedCurrent: the fingerprint of the manifest is not compared.
ManifestExists == manifest # None

PreparedCurrent == manifest # None /\ manifest.listed = source.listed

-----------------------------------------------------------------------------
(* Initial state, and what happens outside a request. *)

NoRequest ==
    [kind |-> "none", from |-> Prepare, last |-> 0, rerun |-> FALSE, suite |-> None,
     refreshed |-> FALSE, next |-> 0, step |-> 0, read |-> 0, usable |-> TRUE,
     began |-> [k \in Sources |-> 0]]

Init ==
    /\ source = [k \in Sources |-> 0]
    /\ suite = Smoke
    /\ manifest = None
    /\ flow = [s \in Steps |-> NewStep]
    /\ built = [s \in Steps |-> None]
    /\ detail = [s \in Steps |-> None]
    /\ pc = "idle" /\ req = NoRequest
    /\ events = <<>> /\ answer = None

Edit(k) ==
    /\ k \in Editable /\ source[k] < MaxEdits
    /\ pc = "collecting" => EditsWhileCollecting
    /\ source' = [source EXCEPT ![k] = @ + 1]
    /\ UNCHANGED <<suite, data, pc, req, events, answer>>

\* The process dies; a step that was running stays Ongoing in flow.json.
Crash ==
    /\ pc # "idle"
    /\ pc' = "idle" /\ req' = NoRequest
    /\ events' = <<>> /\ answer' = None
    /\ UNCHANGED <<source, suite, data>>

-----------------------------------------------------------------------------
(* Requests. *)

\* Mutant of Load: a recovered step gets a state that no reader knows.
LoadAsInvalid ==
    /\ pc = "idle"
    /\ flow' = [s \in Steps |-> IF flow[s].state = "Ongoing"
                                THEN [flow[s] EXCEPT !.state = "Invalid"]
                                ELSE flow[s]]
    /\ events' = <<>> /\ answer' = None
    /\ UNCHANGED <<source, suite, manifest, built, detail, pc, req>>

\* load: steps that an interrupted run left Ongoing become Incomplete.
Load ==
    /\ pc = "idle"
    /\ flow' = [s \in Steps |-> IF flow[s].state = "Ongoing"
                                THEN [flow[s] EXCEPT !.state = "Incomplete"]
                                ELSE flow[s]]
    /\ detail' = [s \in Steps |-> IF flow[s].state = "Ongoing" THEN None ELSE detail[s]]
    /\ events' = <<>> /\ answer' = None
    /\ UNCHANGED <<source, suite, manifest, built, pc, req>>

ResetFlow ==
    /\ pc = "idle"
    /\ flow' = [s \in Steps |-> NewStep]
    /\ detail' = [s \in Steps |-> None]
    /\ events' = <<>> /\ answer' = None
    /\ UNCHANGED <<source, suite, manifest, built, pc, req>>

\* create, over a workspace that is there: home/ is written anew, the step
\* directories stay.
Create ==
    /\ pc = "idle"
    /\ flow' = [s \in Steps |-> NewStep]
    /\ manifest' = None
    /\ suite' = Smoke
    /\ events' = <<>> /\ answer' = None
    /\ UNCHANGED <<source, built, detail, pc, req>>

Request(kind, from, last, rerun, suiteName) ==
    [NoRequest EXCEPT !.kind = kind, !.from = from, !.next = from, !.last = last,
                      !.rerun = rerun, !.suite = suiteName, !.began = source]

\* run-flow, from a step that the user names or from the first.  A rerun
\* clears everything; from-step only the details of the steps from there on.
RunFlow(rerun, named, from) ==
    /\ pc = "idle" /\ (~named => from = Prepare)
    /\ req' = Request(IF named THEN "from" ELSE "flow", from, NumSteps, rerun, Smoke)
    /\ flow' = IF rerun THEN [s \in Steps |-> NewStep] ELSE flow
    /\ detail' = [s \in Steps |-> IF rerun \/ (named /\ s >= from) THEN None ELSE detail[s]]
    /\ events' = <<>> /\ answer' = None
    /\ pc' = "choosing"
    /\ UNCHANGED <<source, suite, manifest, built>>

\* run-step: a suite that is named is applied, and forces the step to run.
RunStep(s, rerun, name) ==
    /\ pc = "idle" /\ (s # Sim => name = None)
    /\ req' = Request("step", s, s, rerun \/ name # None,
                      IF name = None THEN Smoke ELSE name)
    /\ events' = <<>> /\ answer' = None
    /\ pc' = "choosing"
    /\ UNCHANGED <<source, suite, data>>

-----------------------------------------------------------------------------
(* The loop of a request over its steps. *)

Emit(phase) == events' = Append(events, [phase |-> phase, step |-> req.next])

MustRefresh == ~req.refreshed /\ req.next # Prepare /\ ~PreparedCurrent

\* _refresh_prepare_if_stale: before the step is announced.
Refresh ==
    /\ pc = "choosing" /\ req.next <= req.last /\ MustRefresh
    /\ req' = [req EXCEPT !.step = Prepare]
    /\ pc' = "starting"
    /\ UNCHANGED <<source, suite, data, events, answer>>

Announce ==
    /\ pc = "choosing" /\ req.next <= req.last /\ ~MustRefresh
    /\ suite' = IF req.next = Sim THEN req.suite ELSE suite
    /\ Emit("started")
    /\ detail' = IF req.kind = "step" /\ req.rerun
                 THEN [detail EXCEPT ![req.next] = None] ELSE detail
    /\ req' = [req EXCEPT !.step = req.next]
    /\ pc' = "starting"
    /\ UNCHANGED <<source, manifest, flow, built, answer>>

\* The step in progress is prepare, for the sake of the step that is next.
Refreshing == req.step # req.next

Rerun == req.rerun \/ Refreshing \/ (req.kind = "from" /\ req.step = req.from)

ServeCached ==
    /\ pc = "starting" /\ ~Rerun
    /\ LET f == Mark(flow, Stale(flow)) IN
          /\ f[req.step].state = "Success"
          /\ flow' = f
          /\ detail' = Unmarked(flow, Stale(flow))
    /\ pc' = "reporting"
    /\ UNCHANGED <<source, suite, manifest, built, req, events, answer>>

\* Mutant of StartStep: the detail of the step that starts is kept.
StartStepKeepingDetail ==
    /\ pc = "starting"
    /\ LET stale == Stale(flow)
           f == Mark(flow, stale \cup Downstream(req.step)) IN
          /\ Rerun \/ f[req.step].state # "Success"
          /\ flow' = [f EXCEPT ![req.step] = [state |-> "Ongoing", sig |-> Signature(f, req.step)]]
          /\ detail' = Unmarked(flow, Downstream(req.step))
    /\ pc' = "running"
    /\ UNCHANGED <<source, suite, manifest, built, req, events, answer>>

\* The signature is computed before the tool runs.
StartStep ==
    /\ pc = "starting"
    /\ LET stale == Stale(flow)
           f == Mark(flow, stale \cup Downstream(req.step)) IN
          /\ Rerun \/ Mark(flow, stale)[req.step].state # "Success"
          /\ flow' = [f EXCEPT ![req.step] = [state |-> "Ongoing", sig |-> Signature(f, req.step)]]
          /\ detail' = [Unmarked(flow, stale \cup Downstream(req.step)) EXCEPT ![req.step] = None]
    /\ pc' = "running"
    /\ UNCHANGED <<source, suite, manifest, built, req, events, answer>>

\* PrepareStep parses the filelists, and only then takes their fingerprint.
PrepareReads ==
    /\ pc = "running" /\ req.step = Prepare
    /\ req' = [req EXCEPT !.read = source.listed]
    /\ pc' = "collecting"
    /\ UNCHANGED <<source, suite, data, events, answer>>

\* The manifest holds the list of files; prepare itself reads no header.
PrepareWrites ==
    /\ pc = "collecting"
    /\ manifest' = [list |-> req.read, listed |-> source.listed]
    /\ built' = [built EXCEPT ![Prepare] =
                    [list |-> req.read, text |-> source.listed, header |-> None, suite |-> None]]
    /\ pc' = "ending"
    /\ UNCHANGED <<source, suite, flow, detail, req, events, answer>>

PrepareRaises ==
    /\ pc = "collecting"
    /\ req' = [req EXCEPT !.usable = FALSE]
    /\ pc' = "ending"
    /\ UNCHANGED <<source, suite, data, events, answer>>

\* The later steps take the files of a manifest that is current, and their
\* text from the disk; without one there is no RTL and the tool fails.
ToolReads ==
    /\ pc = "running" /\ req.step # Prepare
    /\ IF PreparedCurrent
       THEN /\ built' = [built EXCEPT ![req.step] =
                  [list |-> manifest.list, text |-> source.listed,
                   header |-> source.header, suite |-> IF req.step = Sim THEN suite ELSE None]]
            /\ UNCHANGED req
       ELSE /\ req' = [req EXCEPT !.usable = FALSE]
            /\ UNCHANGED built
    /\ pc' = "ending"
    /\ UNCHANGED <<source, suite, manifest, flow, detail, events, answer>>

\* Mutant of EndStep: the signature is computed when the tool has ended.
EndStepSigningLate(ok) ==
    /\ pc = "ending" /\ (ok => req.usable)
    /\ flow' = [flow EXCEPT ![req.step] =
                   IF ok THEN [state |-> "Success", sig |-> Signature(flow, req.step)]
                         ELSE [state |-> "Incomplete", sig |-> None]]
    /\ req' = [req EXCEPT !.usable = TRUE]
    /\ pc' = "reporting"
    /\ UNCHANGED <<source, suite, manifest, built, detail, events, answer>>

EndStep(ok) ==
    /\ pc = "ending" /\ (ok => req.usable)
    /\ flow' = [flow EXCEPT ![req.step] =
                   IF ok THEN [@ EXCEPT !.state = "Success"]
                         ELSE [state |-> "Incomplete", sig |-> None]]
    /\ req' = [req EXCEPT !.usable = TRUE]
    /\ pc' = "reporting"
    /\ UNCHANGED <<source, suite, manifest, built, detail, events, answer>>

Answer(response, step) ==
    /\ answer' = [response |-> response, step |-> step, req |-> req]
    /\ req' = NoRequest
    /\ pc' = "idle"

\* After an automatic refresh nothing is reported: it succeeded, or the
\* request is refused before its step was announced.
AfterRefresh ==
    /\ pc = "reporting" /\ Refreshing
    /\ IF flow[Prepare].state = "Success"
       THEN /\ req' = [req EXCEPT !.refreshed = TRUE]
            /\ pc' = "choosing"
            /\ UNCHANGED answer
       ELSE Answer("refused", req.next)
    /\ UNCHANGED <<source, suite, data, events>>

\* Mutant of Report: the loop over the steps goes on after a failure.
ReportAndGoOn ==
    /\ pc = "reporting" /\ ~Refreshing
    /\ LET state == flow[req.step].state IN
          /\ detail' = [detail EXCEPT ![req.step] = [state |-> state, built |-> built[req.step]]]
          /\ Emit(IF state = "Success" THEN "completed" ELSE "failed")
    /\ req' = [req EXCEPT !.next = @ + 1]
    /\ pc' = "choosing"
    /\ UNCHANGED <<source, suite, manifest, flow, built, answer>>

\* The detail of the step is written, its event emitted.
Report ==
    /\ pc = "reporting" /\ ~Refreshing
    /\ LET state == flow[req.step].state IN
          /\ detail' = [detail EXCEPT ![req.step] = [state |-> state, built |-> built[req.step]]]
          /\ Emit(IF state = "Success" THEN "completed" ELSE "failed")
          /\ IF state = "Success"
             THEN /\ req' = [req EXCEPT !.next = @ + 1]
                  /\ pc' = "choosing"
                  /\ UNCHANGED answer
             ELSE Answer("failed", req.step)
    /\ UNCHANGED <<source, suite, manifest, flow, built>>

Finish ==
    /\ pc = "choosing" /\ req.next > req.last
    /\ Answer("success", 0)
    /\ UNCHANGED <<source, suite, data, events>>

-----------------------------------------------------------------------------

Service ==
    \/ Load \/ ResetFlow \/ Create
    \/ \E rerun, named \in BOOLEAN, from \in Steps : RunFlow(rerun, named, from)
    \/ \E s \in Steps, rerun \in BOOLEAN, name \in Suites \cup {None} : RunStep(s, rerun, name)
    \/ Refresh \/ Announce \/ ServeCached \/ StartStep
    \/ PrepareReads \/ PrepareWrites \/ PrepareRaises \/ ToolReads
    \/ \E ok \in BOOLEAN : EndStep(ok)
    \/ AfterRefresh \/ Report \/ Finish

Next == Service \/ Crash \/ \E k \in Sources : Edit(k)

Spec == Init /\ [][Next]_vars

-----------------------------------------------------------------------------
(* Properties. *)

Versions == 0..MaxEdits
Built == [list : Versions, text : Versions, header : Versions \cup {None},
          suite : Suites \cup {None}]
Places == {"idle", "choosing", "starting", "running", "collecting", "ending", "reporting"}

\* The types of the service's state, durable and local.
TypeOK ==
    /\ source \in [Sources -> Versions] /\ suite \in Suites
    /\ manifest = None \/ manifest \in [list : Versions, listed : Versions]
    /\ \A s \in Steps :
          /\ flow[s].state \in {"Unstart", "Ongoing", "Success", "Incomplete"}
          /\ built[s] = None \/ built[s] \in Built
          /\ detail[s] = None \/ detail[s].state \in {"Success", "Incomplete"}
    /\ pc \in Places
    /\ req.next \in 0..NumSteps + 1 /\ req.step \in 0..NumSteps /\ req.from \in Steps
    /\ DOMAIN events \subseteq 1..2 * NumSteps

\* What step s would be computed from if it ran now.
Current(s) ==
    [list |-> source.listed, text |-> source.listed,
     header |-> IF s = Prepare THEN None ELSE source.header,
     suite |-> IF s = Sim THEN suite ELSE None]

Cached(s) == flow[s].state = "Success" /\ s \notin Stale(flow)

\* flow.py:99.  A step that the next request would serve from the cache was
\* computed from the sources that are there now, however requests, edits,
\* automatic refreshes of prepare and crashes have followed each other.
CachedStepIsCurrent == \A s \in Steps : Cached(s) => built[s] = Current(s)

\* workspace_service.py:803.  When a request answers success and nothing was
\* edited since it began, every step it selected is a Success of the sources,
\* the prepared list and the suite that are there now; for a run of the whole
\* flow these are all the steps.
SuccessIsUpToDate ==
    [][answer' # answer /\ answer' # None /\ answer'.response = "success" /\ req.began = source =>
          \A s \in req.from..req.last :
              flow[s].state = "Success" /\ built[s] = Current(s)]_vars

\* The events of a request and its answer tell the same: every selected step
\* was started and completed in order, or the last event is the failure of the
\* step that the answer names, or the request was refused before that step.
EventsMatchAnswer ==
    answer # None =>
        LET done == IF answer.response = "success" THEN answer.req.last ELSE answer.step - 1
            n == done - answer.req.from + 1
            told == [i \in 1..2 * n |->
                        [phase |-> IF i % 2 = 1 THEN "started" ELSE "completed",
                         step |-> answer.req.from + (i - 1) \div 2]]
            failure == <<[phase |-> "started", step |-> answer.step],
                         [phase |-> "failed", step |-> answer.step]>>
        IN events = IF answer.response = "failed" THEN told \o failure ELSE told

\* A detail next to a step that flow.json says has ended is of its last run.
DetailIsOfLastRun ==
    \A s \in Steps :
        detail[s] # None /\ flow[s].state \in {"Success", "Incomplete"} =>
            /\ detail[s].state = flow[s].state
            /\ detail[s].built = built[s]
=============================================================================
