------------------------- MODULE WorkspaceFlowProofs -------------------------
(***************************************************************************)
(* Theorems about WorkspaceFlow, for any number of steps, suites and edits: *)
(* its types, its events and answers, the details of its steps, and that   *)
(* what is cached or answered as a success is of the current sources.      *)
(***************************************************************************)
EXTENDS WorkspaceFlow, SequenceTheorems, TLAPS

\* The types of the service's state.
States == {"Unstart", "Ongoing", "Success", "Incomplete"}
Ended == {"Success", "Incomplete"}
Manifests == [list : Versions, listed : Versions]
Details == [state : Ended, built : Built \cup {None}]
EventTypes == [phase : {"started", "completed", "failed"}, step : Nat]
RequestTypes ==
    [kind : {"none", "flow", "from", "step"}, from : Steps, last : 0..NumSteps,
     rerun : BOOLEAN, suite : Suites \cup {None}, refreshed : BOOLEAN,
     next : 0..NumSteps + 1, step : 0..NumSteps, read : Versions, usable : BOOLEAN,
     began : [Sources -> Versions]]

\* The places at which a request works on a step.
Tool == {"running", "collecting", "ending"}
Busy == Tool \cup {"starting", "reporting"}

\* A step of flow.json; its signature is dated by DatedInv.
StepOK(r) == DOMAIN r = {"state", "sig"} /\ r.state \in States

Typed ==
    /\ source \in [Sources -> Versions] /\ suite \in Suites
    /\ manifest \in Manifests \cup {None}
    /\ DOMAIN flow = Steps /\ \A s \in Steps : StepOK(flow[s])
    /\ built \in [Steps -> Built \cup {None}]
    /\ detail \in [Steps -> Details \cup {None}]
    /\ pc \in Places /\ req \in RequestTypes
    /\ events \in Seq(EventTypes)

\* Where a request is in its range of steps, and what its current step is.
Placed ==
    /\ pc # "idle" => /\ answer = None /\ req.suite \in Suites
                      /\ req.from <= req.next /\ req.next <= req.last + 1
    /\ pc \in Busy => req.next <= req.last /\ req.step \in {req.next, Prepare}
    /\ pc \in Tool => flow[req.step].state = "Ongoing" /\ detail[req.step] = None
    /\ pc = "collecting" => req.step = Prepare
    /\ pc = "reporting" => flow[req.step].state \in Ended

\* What a request has told so far: its finished steps, then its current one.
Announced == pc \in Busy /\ req.step = req.next
Told(from, i) ==
    [phase |-> IF i % 2 = 1 THEN "started" ELSE "completed", step |-> from + (i - 1) \div 2]
ToldOf(from, n) == [i \in 1..2 * n |-> Told(from, i)]
EventsInv ==
    /\ Len(events) <= 2 * NumSteps
    /\ pc # "idle" =>
          LET n == req.next - req.from IN
          /\ Len(events) = IF Announced THEN 2 * n + 1 ELSE 2 * n
          /\ \A i \in 1..2 * n : events[i] = Told(req.from, i)
          /\ Announced => events[2 * n + 1] = [phase |-> "started", step |-> req.next]

TypeInv == Typed /\ Placed

-----------------------------------------------------------------------------
(* Types and places. *)

LEMMA StepsType ==
    /\ Steps \subseteq Nat /\ Steps \subseteq 1..NumSteps /\ Prepare \in Steps /\ Sim \in Steps
    /\ Prepare # Sim /\ NumSteps \in Nat /\ 0 \in Versions /\ Versions \subseteq Nat
BY NumStepsAssumption, EditsAssumption DEF Steps, Prepare, Sim, Versions

LEMMA StepOrder ==
    \A s, t \in Steps :
        /\ s <= s /\ (s < t => s <= t /\ s # t) /\ (s < t + 1 => s < t \/ s = t)
        /\ s > Prepare => s - 1 \in Steps
        /\ s > Prepare /\ s <= t => s - 1 < t
BY NumStepsAssumption DEF Steps, Prepare

LEMMA NewStepType == StepOK(NewStep)
BY DEF StepOK, NewStep, States

LEMMA NoRequestType == NoRequest \in RequestTypes
BY StepsType, SuitesAssumption DEF NoRequest, RequestTypes

LEMMA MarkType ==
    ASSUME NEW f, NEW S, \A s \in Steps : StepOK(f[s])
    PROVE  DOMAIN Mark(f, S) = Steps /\ \A s \in Steps : StepOK(Mark(f, S)[s])
BY NewStepType DEF Mark

\* A step that Mark leaves as it was keeps its detail; another one is new.
LEMMA MarkKeeps ==
    ASSUME NEW f, NEW S, NEW s \in Steps
    PROVE  /\ \/ Mark(f, S)[s] = f[s] /\ Unmarked(f, S)[s] = detail[s]
              \/ Mark(f, S)[s] = NewStep /\ Unmarked(f, S)[s] = None /\ s \in S
           /\ Mark(f, S)[s].state # "Unstart" => Mark(f, S)[s] = f[s]
           /\ s \notin S \/ f[s].state = "Ongoing" => Mark(f, S)[s] = f[s]
BY DEF Mark, Unmarked, NewStep

LEMMA RequestType ==
    ASSUME Typed, NEW kind \in {"flow", "from", "step"}, NEW from \in Steps,
           NEW last \in 0..NumSteps, NEW rerun \in BOOLEAN, NEW name \in Suites
    PROVE  Request(kind, from, last, rerun, name) \in RequestTypes
<1>1. from \in 0..NumSteps + 1 /\ kind \in {"none", "flow", "from", "step"}
  BY StepsType
<1>2. source \in [Sources -> Versions] /\ name \in Suites \cup {None}
  BY DEF Typed
<1>3. \A r \in RequestTypes :
          [r EXCEPT !.kind = kind, !.from = from, !.next = from, !.last = last,
                    !.rerun = rerun, !.suite = name, !.began = source] \in RequestTypes
  BY <1>1, <1>2 DEF RequestTypes
<1> QED BY <1>3, NoRequestType DEF Request

LEMMA InitType == Init => TypeInv
<1> SUFFICES ASSUME Init PROVE TypeInv
  OBVIOUS
<1> USE DEF Init
<1>1. Typed
  BY StepsType, NewStepType, NoRequestType, SuitesAssumption DEF Typed, Places
<1>2. Placed
  BY DEF Placed, Busy, Tool
<1> QED BY <1>1, <1>2 DEF TypeInv

\* Requests that come in while none is in progress.
LEMMA TypeRequests ==
    ASSUME TypeInv,
           \/ Load \/ ResetFlow \/ Create
           \/ \E rerun, named \in BOOLEAN, from \in Steps : RunFlow(rerun, named, from)
           \/ \E s \in Steps, rerun \in BOOLEAN, name \in Suites \cup {None} : RunStep(s, rerun, name)
    PROVE  TypeInv'
<1> USE DEF TypeInv
<1>e. <<>> \in Seq(EventTypes)
  OBVIOUS
<1>1. CASE Load
  <2>1. DOMAIN flow' = Steps /\ \A s \in Steps : StepOK(flow'[s])
    BY <1>1 DEF Load, Typed, StepOK, States
  <2>2. detail' \in [Steps -> Details \cup {None}]
    BY <1>1 DEF Load, Typed
  <2> QED BY <1>1, <1>e, <2>1, <2>2 DEF Load, Typed, Placed, Busy, Tool
<1>2. CASE ResetFlow
  BY <1>2, <1>e, NewStepType DEF ResetFlow, Typed, Placed, Busy, Tool
<1>3. CASE Create
  BY <1>3, <1>e, NewStepType, SuitesAssumption DEF Create, Typed, Placed, Busy, Tool
<1>4. ASSUME NEW rerun \in BOOLEAN, NEW named \in BOOLEAN, NEW from \in Steps, RunFlow(rerun, named, from)
      PROVE  TypeInv'
  <2>1. req' \in RequestTypes
    BY <1>4, RequestType, StepsType, SuitesAssumption DEF RunFlow
  <2>2. req'.from = from /\ req'.next = from /\ req'.last = NumSteps /\ req'.suite = Smoke
    BY <1>4 DEF RunFlow, Request, NoRequest
  <2>3. DOMAIN flow' = Steps /\ \A s \in Steps : StepOK(flow'[s])
    BY <1>4, NewStepType DEF RunFlow, Typed
  <2>4. detail' \in [Steps -> Details \cup {None}]
    BY <1>4 DEF RunFlow, Typed
  <2>5. Typed'
    BY <1>4, <1>e, <2>1, <2>3, <2>4 DEF RunFlow, Typed, Places
  <2>6. Placed'
    BY <1>4, <2>2, StepsType, SuitesAssumption DEF RunFlow, Placed, Busy, Tool
  <2> QED BY <2>5, <2>6
<1>5. ASSUME NEW s \in Steps, NEW rerun \in BOOLEAN, NEW name \in Suites \cup {None}, RunStep(s, rerun, name)
      PROVE  TypeInv'
  <2>n. /\ (IF name = None THEN Smoke ELSE name) \in Suites
        /\ (rerun \/ name # None) \in BOOLEAN /\ s \in 0..NumSteps
    BY StepsType, SuitesAssumption
  <2>1. req' \in RequestTypes
    BY <1>5, <2>n, RequestType DEF RunStep
  <2>2. req'.from = s /\ req'.next = s /\ req'.last = s /\ req'.suite \in Suites
    BY <1>5, <2>n DEF RunStep, Request, NoRequest
  <2>3. Typed'
    BY <1>5, <1>e, <2>1 DEF RunStep, data, Typed, Places
  <2>4. Placed'
    BY <1>5, <2>2, StepsType DEF RunStep, Placed, Busy, Tool
  <2> QED BY <2>3, <2>4
<1> QED BY <1>1, <1>2, <1>3, <1>4, <1>5

\* The parts of a request that change on its way keep its type.
LEMMA RequestKept ==
    ASSUME Typed
    PROVE  /\ \A s \in 0..NumSteps : [req EXCEPT !.step = s] \in RequestTypes
           /\ \A v \in Versions : [req EXCEPT !.read = v] \in RequestTypes
           /\ \A b \in BOOLEAN : /\ [req EXCEPT !.usable = b] \in RequestTypes
                                 /\ [req EXCEPT !.refreshed = b] \in RequestTypes
           /\ \A n \in 0..NumSteps + 1 : [req EXCEPT !.next = n] \in RequestTypes
BY DEF Typed, RequestTypes

LEMMA EmitType ==
    ASSUME Typed, NEW phase \in {"started", "completed", "failed"}, Emit(phase)
    PROVE  /\ events' \in Seq(EventTypes) /\ Len(events') = Len(events) + 1
           /\ \A i \in 1..Len(events) : events'[i] = events[i]
           /\ events'[Len(events) + 1] = [phase |-> phase, step |-> req.next]
<1>1. [phase |-> phase, step |-> req.next] \in EventTypes
  BY StepsType DEF EventTypes, Typed, RequestTypes
<1> QED BY <1>1, AppendProperties DEF Emit, Typed

\* The choice of the next step.
LEMMA TypeChoice ==
    ASSUME TypeInv, Refresh \/ Announce \/ AfterRefresh \/ Report \/ Finish
    PROVE  TypeInv'
<1> USE DEF TypeInv
<1>r. /\ req.next \in 0..NumSteps + 1 /\ req.last \in 0..NumSteps /\ req.from \in Steps
      /\ req.step \in 0..NumSteps /\ req.next \in Nat
  BY StepsType DEF Typed, RequestTypes
<1>1. CASE Refresh
  <2>1. req' \in RequestTypes /\ req' = [req EXCEPT !.step = Prepare]
    BY <1>1, RequestKept, StepsType DEF Refresh
  <2>2. /\ req'.from = req.from /\ req'.next = req.next /\ req'.last = req.last
        /\ req'.step = Prepare /\ req'.suite = req.suite
    BY <2>1 DEF Typed, RequestTypes
  <2> QED BY <1>1, <2>1, <2>2 DEF Refresh, data, Typed, Placed, Places, Busy, Tool
<1>2. CASE Announce
  <2>0. req.next \in Steps
    BY <1>2, <1>r, StepsType DEF Announce, Placed, Steps
  <2>1. req' \in RequestTypes /\ req' = [req EXCEPT !.step = req.next]
    BY <1>2, <2>0, RequestKept, StepsType DEF Announce, Steps
  <2>2. /\ req'.from = req.from /\ req'.next = req.next /\ req'.last = req.last
        /\ req'.step = req.next /\ req'.suite = req.suite
    BY <2>1 DEF Typed, RequestTypes
  <2>3. detail' \in [Steps -> Details \cup {None}]
    BY <1>2, <2>0 DEF Announce, Typed
  <2>4. suite' \in Suites
    BY <1>2 DEF Announce, Typed, Placed
  <2>5. events' \in Seq(EventTypes)
    BY <1>2, EmitType DEF Announce
  <2> QED BY <1>2, <2>1, <2>2, <2>3, <2>4, <2>5 DEF Announce, Typed, Placed, Places, Busy, Tool
<1>3. CASE AfterRefresh
  <2>1. CASE flow[Prepare].state = "Success"
    <3>1. req' \in RequestTypes /\ req' = [req EXCEPT !.refreshed = TRUE]
      BY <1>3, <2>1, RequestKept DEF AfterRefresh
    <3>2. /\ req'.from = req.from /\ req'.next = req.next /\ req'.last = req.last
          /\ req'.step = req.step /\ req'.suite = req.suite
      BY <3>1 DEF Typed, RequestTypes
    <3> QED BY <1>3, <2>1, <3>1, <3>2 DEF AfterRefresh, data, Typed, Placed, Places, Busy, Tool
  <2>2. CASE flow[Prepare].state # "Success"
    BY <1>3, <2>2, NoRequestType DEF AfterRefresh, Answer, data, Typed, Placed, Places, Busy, Tool
  <2> QED BY <2>1, <2>2
<1>4. CASE Report
  <2>0. req.step \in Steps /\ req.step = req.next /\ req.next + 1 \in 0..NumSteps + 1
    BY <1>4, <1>r, StepsType DEF Report, Refreshing, Placed, Busy, Steps
  <2>1. detail' \in [Steps -> Details \cup {None}]
    <3>1. [state |-> flow[req.step].state, built |-> built[req.step]] \in Details
      BY <1>4, <2>0 DEF Report, Placed, Typed, Details
    <3> QED BY <1>4, <3>1, <2>0 DEF Report, Typed
  <2>2. events' \in Seq(EventTypes)
    BY <1>4, EmitType DEF Report
  <2>3. CASE flow[req.step].state = "Success"
    <3>1. req' \in RequestTypes /\ req' = [req EXCEPT !.next = req.next + 1]
      BY <1>4, <2>0, <2>3, RequestKept DEF Report
    <3>2. /\ req'.from = req.from /\ req'.next = req.next + 1 /\ req'.last = req.last
          /\ req'.suite = req.suite
      BY <3>1 DEF Typed, RequestTypes
    <3>3. req'.from <= req'.next /\ req'.next <= req'.last + 1
      BY <1>4, <1>r, <3>2, StepsType DEF Report, Placed, Busy
    <3> QED BY <1>4, <2>1, <2>2, <2>3, <3>1, <3>2, <3>3 DEF Report, Typed, Placed, Places, Busy, Tool
  <2>4. CASE flow[req.step].state # "Success"
    BY <1>4, <2>1, <2>2, <2>4, NoRequestType DEF Report, Answer, Typed, Placed, Places, Busy, Tool
  <2> QED BY <2>3, <2>4
<1>5. CASE Finish
  BY <1>5, NoRequestType DEF Finish, Answer, data, Typed, Placed, Places, Busy, Tool
<1> QED BY <1>1, <1>2, <1>3, <1>4, <1>5

\* run_step: from its choice between cache and tool to its end.
LEMMA TypeRun ==
    ASSUME TypeInv,
           \/ ServeCached \/ StartStep \/ PrepareReads \/ PrepareWrites \/ PrepareRaises
           \/ ToolReads \/ \E ok \in BOOLEAN : EndStep(ok)
    PROVE  TypeInv'
<1> USE DEF TypeInv
<1>r. /\ req.step \in Steps /\ req.next \in 0..NumSteps + 1 /\ req.last \in 0..NumSteps
      /\ req.from \in Steps /\ req.next <= req.last /\ pc \in Busy
  BY StepsType DEF Typed, RequestTypes, Placed, Busy, Tool, ServeCached, StartStep, PrepareReads,
                   PrepareWrites, PrepareRaises, ToolReads, EndStep, Steps
<1>s. /\ \A f \in {req} : f.from = req.from
      /\ \A x : /\ [req EXCEPT !.read = x].from = req.from /\ [req EXCEPT !.read = x].next = req.next
                /\ [req EXCEPT !.read = x].last = req.last /\ [req EXCEPT !.read = x].step = req.step
                /\ [req EXCEPT !.read = x].suite = req.suite
                /\ [req EXCEPT !.usable = x].from = req.from /\ [req EXCEPT !.usable = x].next = req.next
                /\ [req EXCEPT !.usable = x].last = req.last /\ [req EXCEPT !.usable = x].step = req.step
                /\ [req EXCEPT !.usable = x].suite = req.suite
  BY DEF Typed, RequestTypes
<1>1. CASE ServeCached
  <2>1. DOMAIN flow' = Steps /\ \A s \in Steps : StepOK(flow'[s])
    BY <1>1, MarkType DEF ServeCached, Typed
  <2>2. detail' \in [Steps -> Details \cup {None}]
    BY <1>1 DEF ServeCached, Unmarked, Typed
  <2>3. flow'[req.step].state \in Ended
    BY <1>1 DEF ServeCached, Ended
  <2> QED BY <1>1, <2>1, <2>2, <2>3 DEF ServeCached, Typed, Placed, Places, Busy, Tool
<1>2. CASE StartStep
  <2> DEFINE marked == Mark(flow, Stale(flow) \cup Downstream(req.step))
             new == [state |-> "Ongoing", sig |-> Signature(marked, req.step)]
  <2>1. flow' = [marked EXCEPT ![req.step] = new]
    BY <1>2 DEF StartStep
  <2>2. StepOK(new)
    BY DEF StepOK, States
  <2>3. DOMAIN flow' = Steps /\ (\A s \in Steps : StepOK(flow'[s])) /\ flow'[req.step] = new
    <3> HIDE DEF marked, new
    <3>1. DOMAIN marked = Steps /\ \A s \in Steps : StepOK(marked[s])
      BY MarkType DEF Typed, marked
    <3> QED BY <1>r, <2>1, <2>2, <3>1
  <2>4. detail' \in [Steps -> Details \cup {None}] /\ detail'[req.step] = None
    BY <1>2, <1>r DEF StartStep, Unmarked, Typed
  <2>5. flow'[req.step].state = "Ongoing"
    BY <2>3
  <2>6. /\ pc = "starting" /\ pc' = "running"
        /\ UNCHANGED <<source, suite, manifest, built, req, events, answer>>
    BY <1>2 DEF StartStep
  <2> HIDE DEF marked, new
  <2> QED BY <2>3, <2>4, <2>5, <2>6 DEF Typed, Placed, Places, Busy, Tool
<1>3. CASE PrepareReads
  <2>1. req' \in RequestTypes /\ req' = [req EXCEPT !.read = source.listed]
    BY <1>3, RequestKept DEF PrepareReads, Typed, Sources
  <2> QED BY <1>3, <1>s, <2>1 DEF PrepareReads, data, Typed, Placed, Places, Busy, Tool
<1>4. CASE PrepareWrites
  <2>1. manifest' \in Manifests
    BY <1>4 DEF PrepareWrites, Manifests, Typed, RequestTypes, Sources
  <2>2. [list |-> req.read, text |-> source.listed, header |-> None, suite |-> None] \in Built
    BY DEF Built, Typed, RequestTypes, Sources
  <2>3. built' \in [Steps -> Built \cup {None}]
    BY <1>4, <2>2 DEF PrepareWrites, Typed
  <2> QED BY <1>4, <2>1, <2>3 DEF PrepareWrites, Typed, Placed, Places, Busy, Tool
<1>5. CASE PrepareRaises
  <2>1. req' \in RequestTypes /\ req' = [req EXCEPT !.usable = FALSE]
    BY <1>5, RequestKept DEF PrepareRaises
  <2> QED BY <1>5, <1>s, <2>1 DEF PrepareRaises, data, Typed, Placed, Places, Busy, Tool
<1>6. CASE ToolReads
  <2>1. CASE PreparedCurrent
    <3>1. [list |-> manifest.list, text |-> source.listed, header |-> source.header,
           suite |-> IF req.step = Sim THEN suite ELSE None] \in Built
      BY <2>1 DEF PreparedCurrent, Built, Manifests, Typed, Sources
    <3>2. built' \in [Steps -> Built \cup {None}]
      BY <1>6, <2>1, <3>1 DEF ToolReads, Typed
    <3> QED BY <1>6, <2>1, <3>2 DEF ToolReads, Typed, Placed, Places, Busy, Tool
  <2>2. CASE ~PreparedCurrent
    <3>1. req' \in RequestTypes /\ req' = [req EXCEPT !.usable = FALSE]
      BY <1>6, <2>2, RequestKept DEF ToolReads
    <3> QED BY <1>6, <2>2, <1>s, <3>1 DEF ToolReads, Typed, Placed, Places, Busy, Tool
  <2> QED BY <2>1, <2>2
<1>7. ASSUME NEW ok \in BOOLEAN, EndStep(ok) PROVE TypeInv'
  <2>1. req' \in RequestTypes /\ req' = [req EXCEPT !.usable = TRUE]
    BY <1>7, RequestKept DEF EndStep
  <2>2. DOMAIN flow' = Steps /\ (\A s \in Steps : StepOK(flow'[s])) /\ flow'[req.step].state \in Ended
    BY <1>7, <1>r DEF EndStep, Typed, StepOK, States, Ended
  <2>3. /\ pc = "ending" /\ pc' = "reporting"
        /\ UNCHANGED <<source, suite, manifest, built, detail, events, answer>>
    BY <1>7 DEF EndStep
  <2> QED BY <1>s, <2>1, <2>2, <2>3 DEF Typed, Placed, Places, Busy, Tool
<1> QED BY <1>1, <1>2, <1>3, <1>4, <1>5, <1>6, <1>7

LEMMA TypeOutside ==
    ASSUME TypeInv, Crash \/ (\E k \in Sources : Edit(k)) \/ UNCHANGED vars
    PROVE  TypeInv'
<1>1. CASE Crash
  BY <1>1, NoRequestType DEF Crash, data, TypeInv, Typed, Placed, Places, Busy, Tool
<1>2. ASSUME NEW k \in Sources, Edit(k) PROVE TypeInv'
  <2>1. source' \in [Sources -> Versions]
    BY <1>2, EditsAssumption DEF Edit, TypeInv, Typed, Versions
  <2> QED BY <1>2, <2>1 DEF Edit, data, TypeInv, Typed, Placed
<1>3. CASE UNCHANGED vars
  BY <1>3 DEF vars, data, TypeInv, Typed, Placed
<1> QED BY <1>1, <1>2, <1>3

LEMMA TypeStep == TypeInv /\ [Next]_vars => TypeInv'
BY TypeRequests, TypeChoice, TypeRun, TypeOutside DEF Next, Service

-----------------------------------------------------------------------------
(* Events and answers. *)

LEMMA RequestNumbers ==
    ASSUME Typed
    PROVE  /\ req.next \in 0..NumSteps + 1 /\ req.last \in 0..NumSteps /\ req.from \in 1..NumSteps
           /\ req.step \in 0..NumSteps /\ req.next \in Int /\ req.last \in Int /\ req.from \in Int
           /\ NumSteps \in Int
BY StepsType DEF Typed, RequestTypes, Steps

\* The steps between which neither an event is emitted nor the place among the
\* steps of the request changes.
LEMMA QuietEvents ==
    ASSUME EventsInv, events' = events, pc' # "idle" => pc # "idle",
           pc' # "idle" => Announced' = Announced /\ req'.next = req.next /\ req'.from = req.from
    PROVE  EventsInv'
BY DEF EventsInv

LEMMA ToldNext ==
    ASSUME NEW from \in Int, NEW n \in Nat
    PROVE  /\ Told(from, 2 * n + 1) = [phase |-> "started", step |-> from + n]
           /\ Told(from, 2 * n + 2) = [phase |-> "completed", step |-> from + n]
<1>1. (2 * n + 1) % 2 = 1 /\ (2 * n + 2) % 2 = 0
  OBVIOUS
<1>2. (2 * n + 1 - 1) \div 2 = n /\ (2 * n + 2 - 1) \div 2 = n
  OBVIOUS
<1> QED BY <1>1, <1>2 DEF Told

LEMMA EventsStep == TypeInv /\ EventsInv /\ [Next]_vars => EventsInv'
<1> SUFFICES ASSUME TypeInv, EventsInv, [Next]_vars PROVE EventsInv'
  OBVIOUS
<1>r. /\ req.next \in 0..NumSteps + 1 /\ req.last \in 0..NumSteps /\ req.from \in 1..NumSteps
      /\ req.next \in Int /\ req.last \in Int /\ req.from \in Int /\ NumSteps \in Nat
      /\ pc # "idle" => req.from <= req.next
  BY StepsType, RequestNumbers DEF TypeInv, Placed
<1> DEFINE n == req.next - req.from
<1>n. pc # "idle" => n \in Nat /\ Len(events) = (IF Announced THEN 2 * n + 1 ELSE 2 * n)
  BY <1>r DEF EventsInv
<1>1. ASSUME events' = <<>>, pc' \in {"idle", "choosing"},
             pc' # "idle" => req'.next \in Nat /\ req'.next = req'.from
      PROVE  EventsInv'
  <2>1. Len(<<>>) <= 2 * NumSteps /\ Len(<<>>) = 0
    BY StepsType
  <2>2. Announced' = FALSE
    BY <1>1 DEF Announced, Busy, Tool
  <2>4. pc' # "idle" => req'.next - req'.from = 0
    BY <1>1
  <2> QED BY <1>1, <2>1, <2>2, <2>4 DEF EventsInv
<1>2. CASE Load \/ ResetFlow \/ Create \/ Crash
  <2>1. events' = <<>> /\ pc' = "idle"
    BY <1>2 DEF Load, ResetFlow, Create, Crash
  <2> QED BY <1>1, <2>1
<1>3. ASSUME NEW rerun \in BOOLEAN, NEW named \in BOOLEAN, NEW from \in Steps, RunFlow(rerun, named, from)
      PROVE  EventsInv'
  <2>1. events' = <<>> /\ pc' = "choosing" /\ req'.next = from /\ req'.from = from /\ from \in Nat
    BY <1>3, StepsType DEF RunFlow, Request, NoRequest
  <2> QED BY <1>1, <2>1
<1>4. ASSUME NEW s \in Steps, NEW rerun \in BOOLEAN, NEW name \in Suites \cup {None}, RunStep(s, rerun, name)
      PROVE  EventsInv'
  <2>1. events' = <<>> /\ pc' = "choosing" /\ req'.next = s /\ req'.from = s /\ s \in Nat
    BY <1>4, StepsType DEF RunStep, Request, NoRequest
  <2> QED BY <1>1, <2>1
<1>5. CASE Refresh
  <2>1. /\ req'.next = req.next /\ req'.from = req.from /\ req'.step = Prepare
        /\ events' = events /\ pc = "choosing" /\ pc' = "starting" /\ req.next # Prepare
    BY <1>5 DEF Refresh, MustRefresh, TypeInv, Typed, RequestTypes
  <2>2. Announced = FALSE /\ Announced' = FALSE
    BY <2>1 DEF Announced, Busy, Tool
  <2> QED BY <2>1, <2>2, QuietEvents
<1>6. CASE Announce
  <2>1. /\ req'.next = req.next /\ req'.from = req.from /\ req'.step = req.next
        /\ pc = "choosing" /\ pc' = "starting" /\ Emit("started") /\ req.next <= req.last
    BY <1>6 DEF Announce, TypeInv, Typed, RequestTypes
  <2>2. ~Announced /\ Announced'
    BY <2>1 DEF Announced, Busy, Tool
  <2>3. Len(events) = 2 * n /\ \A i \in 1..2 * n : events[i] = Told(req.from, i)
    BY <2>1, <2>2 DEF EventsInv
  <2>4. /\ Len(events') = 2 * n + 1 /\ \A i \in 1..2 * n : events'[i] = Told(req.from, i)
        /\ events'[2 * n + 1] = [phase |-> "started", step |-> req.next]
    BY <2>1, <2>3, EmitType DEF TypeInv
  <2>5. 2 * n + 1 <= 2 * NumSteps
    BY <2>1, <1>r
  <2> QED BY <2>1, <2>2, <2>4, <2>5 DEF EventsInv
<1>7. CASE \/ ServeCached \/ StartStep \/ PrepareReads \/ PrepareWrites \/ PrepareRaises
           \/ ToolReads \/ \E ok \in BOOLEAN : EndStep(ok)
  <2>1. /\ events' = events /\ pc \in Busy /\ pc' \in Busy
        /\ req'.next = req.next /\ req'.from = req.from /\ req'.step = req.step
    BY <1>7 DEF ServeCached, StartStep, PrepareReads, PrepareWrites, PrepareRaises, ToolReads,
                EndStep, Busy, Tool, data, TypeInv, Typed, RequestTypes
  <2>2. Announced' = Announced
    BY <2>1 DEF Announced
  <2> QED BY <2>1, <2>2, QuietEvents DEF Busy, Tool
<1>8. CASE AfterRefresh
  <2>1. /\ events' = events /\ pc # "idle" /\ pc' \in {"idle", "choosing"} /\ req.step # req.next
        /\ pc' # "idle" => req'.next = req.next /\ req'.from = req.from
    BY <1>8 DEF AfterRefresh, Answer, Refreshing, TypeInv, Typed, RequestTypes
  <2>2. Announced = FALSE /\ Announced' = FALSE
    BY <2>1 DEF Announced, Busy, Tool
  <2> QED BY <2>1, <2>2, QuietEvents
<1>9. CASE Report
  <2> DEFINE phase == IF flow[req.step].state = "Success" THEN "completed" ELSE "failed"
  <2>1. Announced /\ pc # "idle" /\ req.next <= req.last /\ Emit(phase)
    BY <1>9 DEF Report, Refreshing, Announced, Busy, Tool, TypeInv, Placed
  <2>2. /\ Len(events) = 2 * n + 1 /\ \A i \in 1..2 * n : events[i] = Told(req.from, i)
        /\ events[2 * n + 1] = [phase |-> "started", step |-> req.next]
    BY <2>1 DEF EventsInv
  <2>3. n \in Nat /\ 2 * n + 2 <= 2 * NumSteps /\ req.next = req.from + n
    BY <2>1, <1>r
  <2>4. /\ Len(events') = 2 * n + 2 /\ \A i \in 1..2 * n : events'[i] = Told(req.from, i)
        /\ events'[2 * n + 1] = [phase |-> "started", step |-> req.next]
        /\ events'[2 * n + 2] = [phase |-> phase, step |-> req.next]
    BY <2>1, <2>2, <2>3, EmitType DEF TypeInv
  <2>5. CASE flow[req.step].state = "Success"
    <3>1. pc' = "choosing" /\ req'.from = req.from /\ req'.next = req.next + 1 /\ ~Announced'
      BY <1>9, <2>5 DEF Report, Announced, Busy, Tool, TypeInv, Typed, RequestTypes
    <3>2. 2 * (req'.next - req'.from) = 2 * n + 2
      BY <3>1, <1>r
    <3>3. ASSUME NEW i \in 1..2 * n + 2 PROVE events'[i] = Told(req.from, i)
      <4>1. i \in 1..2 * n \/ i = 2 * n + 1 \/ i = 2 * n + 2
        BY <2>3
      <4> QED BY <4>1, <2>3, <2>4, <2>5, ToldNext, <1>r
    <3> QED BY <2>3, <2>4, <3>1, <3>2, <3>3 DEF EventsInv
  <2>6. CASE flow[req.step].state # "Success"
    BY <1>9, <2>3, <2>4, <2>6 DEF Report, Answer, EventsInv
  <2> QED BY <2>5, <2>6
<1>10. CASE Finish
  BY <1>10 DEF Finish, Answer, EventsInv
<1>11. CASE UNCHANGED <<pc, req, events>>
  BY <1>11, QuietEvents DEF Announced
<1> QED
  BY <1>2, <1>3, <1>4, <1>5, <1>6, <1>7, <1>8, <1>9, <1>10, <1>11 DEF Next, Service, Edit, vars

LEMMA EventsInit == Init => EventsInv
BY StepsType DEF Init, EventsInv

LEMMA TypeOKHolds == TypeInv /\ EventsInv => TypeOK
<1> SUFFICES ASSUME TypeInv, EventsInv PROVE TypeOK
  OBVIOUS
<1>1. \A s \in Steps : detail[s] = None \/ detail[s].state \in Ended
  BY DEF TypeInv, Typed, Details
<1>2. DOMAIN events \subseteq 1..2 * NumSteps
  BY LenProperties, StepsType DEF EventsInv, TypeInv, Typed
<1> QED BY <1>1, <1>2 DEF TypeOK, TypeInv, Typed, Manifests, StepOK, States, Ended, RequestTypes

\* Type correctness of the service's durable and local state: whatever is
\* requested, edited or killed, and no request emits more than two events a step.
THEOREM TypeCorrect == Spec => []TypeOK
<1> QED BY InitType, TypeStep, EventsInit, EventsStep, TypeOKHolds, PTL DEF Spec

\* The events of n finished steps, and what it takes to be equal to them.
LEMMA ToldType ==
    ASSUME NEW from \in Nat, NEW n \in Nat
    PROVE  /\ ToldOf(from, n) \in Seq(EventTypes)
           /\ Len(ToldOf(from, n)) = 2 * n
<1> DEFINE told == ToldOf(from, n)
<1> USE DEF ToldOf
<1>1. ASSUME NEW i \in 1..2 * n PROVE Told(from, i) \in EventTypes
  BY DEF Told, EventTypes
<1>2. told \in [1..2 * n -> EventTypes]
  BY <1>1
<1>3. told \in Seq(EventTypes)
  BY <1>2, SeqDef
<1>4. DOMAIN told = 1..Len(told)
  BY <1>3, LenProperties
<1> QED BY <1>2, <1>3, <1>4, LenProperties

LEMMA ToldAll ==
    ASSUME NEW from \in Nat, NEW n \in Nat, NEW es \in Seq(EventTypes),
           Len(es) = 2 * n, \A i \in 1..2 * n : es[i] = Told(from, i)
    PROVE  es = ToldOf(from, n)
<1> DEFINE told == ToldOf(from, n)
<1>1. \A i \in 1..Len(es) : es[i] = told[i]
  BY DEF ToldOf
<1>2. told \in Seq(EventTypes) /\ Len(told) = 2 * n
  BY ToldType
<1> HIDE DEF told
<1>3. es = told
  BY <1>1, <1>2, SeqEqual
<1> QED BY <1>3 DEF told

LEMMA ToldFailure ==
    ASSUME NEW from \in Nat, NEW n \in Nat, NEW es \in Seq(EventTypes),
           NEW a \in EventTypes, NEW b \in EventTypes,
           Len(es) = 2 * n + 2, \A i \in 1..2 * n : es[i] = Told(from, i),
           es[2 * n + 1] = a, es[2 * n + 2] = b
    PROVE  es = ToldOf(from, n) \o <<a, b>>
<1> DEFINE told == ToldOf(from, n)
           two == <<a, b>>
<1>1. two \in Seq(EventTypes) /\ Len(two) = 2 /\ two[1] = a /\ two[2] = b
  OBVIOUS
<1>2. \A i \in 1..2 * n : es[i] = told[i]
  BY DEF ToldOf
<1>3. told \in Seq(EventTypes) /\ Len(told) = 2 * n
  BY ToldType
<1> HIDE DEF told, two
<1>4. /\ told \o two \in Seq(EventTypes) /\ Len(told \o two) = 2 * n + 2
      /\ \A i \in 1..2 * n + 2 : (told \o two)[i] = IF i <= 2 * n THEN told[i] ELSE two[i - 2 * n]
  <2>1. /\ told \o two \in Seq(EventTypes) /\ Len(told \o two) = Len(told) + Len(two)
        /\ \A i \in 1..Len(told) + Len(two) :
               (told \o two)[i] = IF i <= Len(told) THEN told[i] ELSE two[i - Len(told)]
    BY <1>1, <1>3, ConcatProperties
  <2> QED BY <1>1, <1>3, <2>1
<1>5. ASSUME NEW i \in 1..2 * n PROVE es[i] = (told \o two)[i]
  <2>1. i \in 1..2 * n + 2 /\ i <= 2 * n
    OBVIOUS
  <2>2. (told \o two)[i] = IF i <= 2 * n THEN told[i] ELSE two[i - 2 * n]
    BY <1>4, <2>1
  <2> QED BY <1>2, <2>1, <2>2
<1>6. es[2 * n + 1] = (told \o two)[2 * n + 1] /\ es[2 * n + 2] = (told \o two)[2 * n + 2]
  <2>1. 2 * n + 1 \in 1..2 * n + 2 /\ 2 * n + 1 - 2 * n = 1 /\ ~(2 * n + 1 <= 2 * n)
    OBVIOUS
  <2>2. 2 * n + 2 \in 1..2 * n + 2 /\ 2 * n + 2 - 2 * n = 2 /\ ~(2 * n + 2 <= 2 * n)
    OBVIOUS
  <2>3. (told \o two)[2 * n + 1] = IF 2 * n + 1 <= 2 * n THEN told[2 * n + 1] ELSE two[2 * n + 1 - 2 * n]
    BY <1>4, <2>1
  <2>4. (told \o two)[2 * n + 2] = IF 2 * n + 2 <= 2 * n THEN told[2 * n + 2] ELSE two[2 * n + 2 - 2 * n]
    BY <1>4, <2>2
  <2>5. (told \o two)[2 * n + 1] = a
    BY <1>1, <2>1, <2>3
  <2>6. (told \o two)[2 * n + 2] = b
    BY <1>1, <2>2, <2>4
  <2> QED BY <2>5, <2>6
<1>7. \A i \in 1..Len(es) : i \in 1..2 * n \/ i = 2 * n + 1 \/ i = 2 * n + 2
  OBVIOUS
<1>8. \A i \in 1..Len(es) : es[i] = (told \o two)[i]
  BY <1>5, <1>6, <1>7
<1>9. es = told \o two
  BY <1>4, <1>8, SeqEqual
<1> QED BY <1>9 DEF told, two

LEMMA AnswerStep ==
    TypeInv /\ EventsInv /\ EventsMatchAnswer /\ [Next]_vars => EventsMatchAnswer'
<1> SUFFICES ASSUME TypeInv, EventsInv, EventsMatchAnswer, [Next]_vars, answer' # None
             PROVE  EventsMatchAnswer'
  BY DEF EventsMatchAnswer
<1>r. /\ req.next \in Nat /\ req.from \in Nat /\ req.last \in Nat
      /\ events \in Seq(EventTypes)
  BY RequestNumbers DEF TypeInv, Typed
<1>1. CASE answer' = answer
  <2>1. pc = "idle" /\ events' = events
    <3>1. pc = "idle"
      BY <1>1 DEF TypeInv, Placed
    <3> QED BY <1>1, <3>1 DEF Next, Service, Load, ResetFlow, Create, RunFlow, RunStep, Refresh,
           Announce, ServeCached, StartStep, PrepareReads, PrepareWrites, PrepareRaises, ToolReads,
           EndStep, AfterRefresh, Report, Finish, Crash, Edit, vars
  <2> QED BY <1>1, <2>1 DEF EventsMatchAnswer
<1>2. CASE answer' # answer
  <2>1. Report \/ AfterRefresh \/ Finish
    BY <1>2 DEF Next, Service, Load, ResetFlow, Create, RunFlow, RunStep, Refresh,
           Announce, ServeCached, StartStep, PrepareReads, PrepareWrites, PrepareRaises, ToolReads,
           EndStep, Crash, Edit, vars
  <2> DEFINE n == req.next - req.from
             told == ToldOf(req.from, n)
  <2>2. pc # "idle" /\ n \in Nat
    BY <2>1, <1>r DEF Report, AfterRefresh, Finish, TypeInv, Placed
  <2>3. CASE Finish
    <3>1. /\ answer'.response = "success" /\ answer'.req = req /\ events' = events
          /\ req.next = req.last + 1 /\ ~Announced
      BY <2>3, <1>r DEF Finish, Answer, Announced, Busy, Tool, TypeInv, Placed
    <3>2. events = told
      BY <1>r, <2>2, <3>1, ToldAll DEF EventsInv
    <3>3. req.last - req.from + 1 = n
      BY <3>1, <1>r
    <3> QED BY <3>1, <3>2, <3>3 DEF EventsMatchAnswer, ToldOf, Told
  <2>4. CASE AfterRefresh
    <3>1. /\ answer'.response = "refused" /\ answer'.step = req.next /\ answer'.req = req
          /\ events' = events /\ ~Announced
      BY <1>2, <2>4 DEF AfterRefresh, Answer, Announced, Refreshing
    <3>2. events = told
      BY <1>r, <2>2, <3>1, ToldAll DEF EventsInv
    <3>3. req.next - 1 - req.from + 1 = n
      BY <1>r
    <3> QED BY <3>1, <3>2, <3>3 DEF EventsMatchAnswer, ToldOf, Told
  <2>5. CASE Report
    <3> DEFINE a == [phase |-> "started", step |-> req.next]
               b == [phase |-> "failed", step |-> req.next]
    <3>1. /\ answer'.response = "failed" /\ answer'.step = req.next /\ answer'.req = req
          /\ Emit("failed") /\ Announced
      BY <1>2, <2>5 DEF Report, Answer, Announced, Refreshing, Busy, Tool
    <3>2. /\ Len(events) = 2 * n + 1 /\ \A i \in 1..2 * n : events[i] = Told(req.from, i)
          /\ events[2 * n + 1] = a
      BY <2>2, <3>1 DEF EventsInv
    <3>3. /\ events' \in Seq(EventTypes) /\ Len(events') = 2 * n + 2
          /\ \A i \in 1..2 * n : events'[i] = Told(req.from, i)
          /\ events'[2 * n + 1] = a /\ events'[2 * n + 2] = b
      BY <2>2, <3>1, <3>2, EmitType DEF TypeInv
    <3>4. a \in EventTypes /\ b \in EventTypes
      BY <1>r DEF EventTypes
    <3>5. events' = told \o <<a, b>>
      <4> HIDE DEF n, a, b, told
      <4>1. \A es \in Seq(EventTypes) :
                /\ Len(es) = 2 * n + 2 /\ \A i \in 1..2 * n : es[i] = Told(req.from, i)
                /\ es[2 * n + 1] = a /\ es[2 * n + 2] = b
                => es = ToldOf(req.from, n) \o <<a, b>>
        BY <1>r, <2>2, <3>4, ToldFailure
      <4> QED BY <3>3, <4>1 DEF told
    <3>6. req.next - 1 - req.from + 1 = n
      BY <1>r
    <3> QED BY <3>1, <3>5, <3>6 DEF EventsMatchAnswer, ToldOf, Told
  <2> QED BY <2>1, <2>3, <2>4, <2>5
<1> QED BY <1>1, <1>2

\* The events that a request has emitted and the answer that it gives tell the
\* same, for any profile, wherever it stops.
THEOREM EventsTellTheAnswer == Spec => []EventsMatchAnswer
<1>1. Init => EventsMatchAnswer
  BY DEF Init, EventsMatchAnswer
<1> QED BY <1>1, InitType, TypeStep, EventsInit, EventsStep, AnswerStep, PTL DEF Spec
-----------------------------------------------------------------------------
(* Details. *)

LEMMA DetailStep ==
    TypeInv /\ DetailIsOfLastRun /\ [Next]_vars => DetailIsOfLastRun'
<1> SUFFICES ASSUME TypeInv, DetailIsOfLastRun, [Next]_vars,
                    NEW s \in Steps, detail'[s] # None, flow'[s].state \in Ended
             PROVE  detail'[s].state = flow'[s].state /\ detail'[s].built = built'[s]
  BY DEF DetailIsOfLastRun, Ended
<1> USE DEF TypeInv
<1>1. ASSUME detail'[s] = detail[s], flow'[s] = flow[s], built'[s] = built[s]
      PROVE  detail'[s].state = flow'[s].state /\ detail'[s].built = built'[s]
  BY <1>1 DEF DetailIsOfLastRun, Ended
<1>n. NewStep.state \notin Ended
  BY DEF NewStep, Ended
<1>2. CASE Load
  BY <1>1, <1>2 DEF Load
<1>3. CASE ResetFlow \/ Create
  BY <1>3, <1>n DEF ResetFlow, Create
<1>4. ASSUME NEW rerun \in BOOLEAN, NEW named \in BOOLEAN, NEW from \in Steps, RunFlow(rerun, named, from)
      PROVE  detail'[s].state = flow'[s].state /\ detail'[s].built = built'[s]
  BY <1>1, <1>4 DEF RunFlow
<1>5. CASE Announce
  BY <1>1, <1>5 DEF Announce, Typed
<1>6. CASE ServeCached
  BY <1>1, <1>6, <1>n, MarkKeeps DEF ServeCached
<1>7. CASE StartStep
  <2> DEFINE S == Stale(flow) \cup Downstream(req.step)
             new == [state |-> "Ongoing", sig |-> Signature(Mark(flow, S), req.step)]
  <2>1. /\ flow' = [Mark(flow, S) EXCEPT ![req.step] = new]
        /\ detail' = [Unmarked(flow, S) EXCEPT ![req.step] = None] /\ built' = built
    BY <1>7 DEF StartStep
  <2>2. DOMAIN Mark(flow, S) = Steps /\ DOMAIN Unmarked(flow, S) = Steps
    BY DEF Mark, Unmarked
  <2>3. s # req.step
    BY <2>1, <2>2
  <2>4. flow'[s] = Mark(flow, S)[s] /\ detail'[s] = Unmarked(flow, S)[s]
    BY <2>1, <2>2, <2>3
  <2>5. Unmarked(flow, S)[s] = detail[s] /\ Mark(flow, S)[s] = flow[s]
    BY <2>4, <1>n, MarkKeeps
  <2> QED BY <1>1, <2>1, <2>4, <2>5
<1>8. CASE PrepareWrites \/ ToolReads
  <2>1. /\ pc \in Tool /\ flow' = flow /\ detail' = detail
        /\ \A t \in Steps : t # req.step => built'[t] = built[t]
    BY <1>8 DEF PrepareWrites, ToolReads, Tool, Placed, Typed
  <2>2. flow[req.step].state = "Ongoing"
    BY <2>1 DEF Placed
  <2>3. s # req.step
    BY <2>1, <2>2 DEF Ended
  <2> QED BY <1>1, <2>1, <2>3
<1>9. ASSUME NEW ok \in BOOLEAN, EndStep(ok)
      PROVE  detail'[s].state = flow'[s].state /\ detail'[s].built = built'[s]
  <2>1. detail[req.step] = None /\ detail' = detail
    BY <1>9 DEF EndStep, Placed, Tool
  <2>2. s # req.step
    BY <2>1
  <2> QED BY <1>1, <1>9, <2>2 DEF EndStep, Typed
<1>10. CASE Report
  <2>1. CASE s = req.step
    BY <1>10, <2>1 DEF Report, Typed
  <2>2. CASE s # req.step
    BY <1>1, <1>10, <2>2 DEF Report, Typed
  <2> QED BY <2>1, <2>2
<1>11. CASE UNCHANGED <<flow, built, detail>>
  BY <1>1, <1>11
<1> QED
  BY <1>2, <1>3, <1>4, <1>5, <1>6, <1>7, <1>8, <1>9, <1>10, <1>11
  DEF Next, Service, RunStep, Refresh, PrepareReads, PrepareRaises, AfterRefresh, Finish, Crash,
      Edit, vars, data

\* A detail shown next to a step that flow.json calls ended is of the run that
\* ended it, whatever was requested, edited or killed since.
THEOREM DetailsAreOfLastRun == Spec => []DetailIsOfLastRun
<1>1. Init => DetailIsOfLastRun
  BY DEF Init, DetailIsOfLastRun
<1> QED BY <1>1, InitType, TypeStep, DetailStep, PTL DEF Spec

-----------------------------------------------------------------------------
(* Cached results. *)

\* The results of step s are not older than the signature that flow.json has
\* of it, and of one moment.
Dated(s) ==
    /\ built[s] \in Built /\ flow[s].sig.listed \in Versions
    /\ flow[s].sig.listed <= built[s].text /\ built[s].text <= source.listed
    /\ built[s].list = built[s].text
    /\ built[s].header = IF s = Prepare THEN None ELSE source.header
    /\ built[s].suite = flow[s].sig.suite

\* The signature of a step at work, made when it started, is no newer than the sources.
Signed(s) ==
    /\ flow[s].sig.listed \in Versions /\ flow[s].sig.listed <= source.listed
    /\ flow[s].sig.suite = IF s = Sim THEN suite ELSE None

\* What is a success, or is about to be one, was computed from what its signature names.
DatedInv ==
    /\ manifest # None => manifest.list = manifest.listed
    /\ pc = "collecting" => req.read = source.listed
    /\ pc \in Tool => Signed(req.step)
    /\ pc = "ending" /\ req.usable => Dated(req.step)
    /\ \A s \in Steps : flow[s].state = "Success" => Dated(s)

\* A signature is of the sources that are there when it is made.
LEMMA SignatureIsCurrent ==
    ASSUME NEW f, NEW s
    PROVE  /\ Signature(f, s).listed = source.listed
           /\ Signature(f, s).suite = IF s = Sim THEN suite ELSE None
BY DEF Signature

\* The order of versions, without arithmetic at the places that use it.
LEMMA VersionOrder ==
    \A v, w \in Versions : v <= v /\ (v <= w => v <= w + 1) /\ (v <= w /\ w <= v => v = w)
BY EditsAssumption DEF Versions

LEMMA DatedInit == Init => DatedInv
BY DEF Init, DatedInv, Tool, NewStep

\* Every step of the service keeps it, if no edit falls between the reads of prepare.
LEMMA DatedStep ==
    ASSUME ~EditsWhileCollecting, "header" \notin Editable
    PROVE  TypeInv /\ DatedInv /\ [Next]_vars => DatedInv'
<1> SUFFICES ASSUME TypeInv, DatedInv, [Next]_vars PROVE DatedInv'
  OBVIOUS
<1> USE DEF TypeInv
<1>v. source.listed \in Versions /\ source.header \in Versions /\ source.listed <= source.listed
  BY VersionOrder DEF Typed, Sources
<1>n. NewStep.state # "Success"
  BY DEF NewStep
\* Requests and answers: no step becomes a success.
<1>1. ASSUME source' = source, built' = built, pc' \notin Tool,
             manifest' = manifest \/ manifest' = None,
             \A s \in Steps : flow'[s] = flow[s] \/ flow'[s].state # "Success"
      PROVE  DatedInv'
  <2>1. \A s \in Steps : flow'[s].state = "Success" => Dated(s)'
    BY <1>1 DEF DatedInv, Dated
  <2>2. manifest' # None => manifest'.list = manifest'.listed
    BY <1>1 DEF DatedInv
  <2> QED BY <1>1, <2>1, <2>2 DEF DatedInv, Tool
<1>2. CASE Load \/ ResetFlow \/ Create
  <2>1. pc' \notin Tool /\ source' = source /\ built' = built
    BY <1>2 DEF Load, ResetFlow, Create, Tool
  <2>2. manifest' = manifest \/ manifest' = None
    BY <1>2 DEF Load, ResetFlow, Create
  <2>3. \A s \in Steps : flow'[s] = flow[s] \/ flow'[s].state # "Success"
    BY <1>2, <1>n DEF Load, ResetFlow, Create, Typed, StepOK
  <2> QED BY <1>1, <2>1, <2>2, <2>3
<1>3. ASSUME NEW rerun \in BOOLEAN, NEW named \in BOOLEAN, NEW from \in Steps, RunFlow(rerun, named, from)
      PROVE  DatedInv'
  BY <1>1, <1>3, <1>n DEF RunFlow, Tool
<1>4. CASE ServeCached
  BY <1>1, <1>4, <1>n, MarkKeeps DEF ServeCached, Tool
<1>5. CASE StartStep
  <2> DEFINE S == Stale(flow) \cup Downstream(req.step)
             new == [state |-> "Ongoing", sig |-> Signature(Mark(flow, S), req.step)]
  <2>1. /\ flow' = [Mark(flow, S) EXCEPT ![req.step] = new] /\ pc' = "running"
        /\ UNCHANGED <<source, suite, manifest, built, req>>
    BY <1>5 DEF StartStep
  <2>2. DOMAIN Mark(flow, S) = Steps /\ req.step \in Steps
    BY <1>5, StepsType DEF StartStep, Mark, Placed, Busy, Typed, RequestTypes, Steps
  <2>3. flow'[req.step] = new /\ \A s \in Steps : s # req.step => flow'[s] = Mark(flow, S)[s]
    BY <2>1, <2>2
  <2>4. \A s \in Steps : flow'[s] = flow[s] \/ flow'[s].state # "Success"
    BY <2>3, <1>n, MarkKeeps
  <2>5. Signed(req.step)'
    <3>1. /\ flow'[req.step].sig.listed = source.listed
          /\ flow'[req.step].sig.suite = IF req.step = Sim THEN suite ELSE None
      BY <2>3, SignatureIsCurrent
    <3> QED BY <2>1, <3>1, <1>v DEF Signed
  <2>6. \A s \in Steps : flow'[s].state = "Success" => Dated(s)'
    BY <2>1, <2>4 DEF DatedInv, Dated
  <2> QED BY <2>1, <2>5, <2>6 DEF DatedInv
<1>6. CASE PrepareReads
  <2>1. /\ pc = "running" /\ pc' = "collecting" /\ req'.read = source.listed /\ req'.step = req.step
        /\ UNCHANGED <<source, suite, manifest, flow, built>>
    BY <1>6 DEF PrepareReads, data, Typed, RequestTypes
  <2> QED BY <2>1 DEF DatedInv, Dated, Signed, Tool
<1>7. CASE PrepareWrites
  <2>1. /\ pc = "collecting" /\ pc' = "ending" /\ req.step = Prepare /\ req' = req
        /\ UNCHANGED <<source, suite, flow>> /\ req.read = source.listed
        /\ flow[Prepare].state = "Ongoing"
    BY <1>7 DEF PrepareWrites, Placed, DatedInv, Tool
  <2>2. /\ manifest'.list = manifest'.listed
        /\ built' = [built EXCEPT ![Prepare] = [list |-> source.listed, text |-> source.listed,
                                                header |-> None, suite |-> None]]
    BY <1>7, <2>1 DEF PrepareWrites
  <2>3. Signed(Prepare)
    BY <2>1 DEF DatedInv, Tool
  <2>4. built'[Prepare] = [list |-> source.listed, text |-> source.listed, header |-> None, suite |-> None]
    BY <2>2, StepsType DEF Typed
  <2>5. Dated(Prepare)'
    BY <2>1, <2>3, <2>4, <1>v, StepsType DEF Dated, Signed, Built
  <2>6. \A s \in Steps : flow'[s].state = "Success" => Dated(s)'
    BY <2>1, <2>2 DEF DatedInv, Dated, Typed
  <2> QED BY <2>1, <2>2, <2>3, <2>5, <2>6 DEF DatedInv, Signed
<1>8. CASE PrepareRaises
  <2>1. /\ pc = "collecting" /\ pc' = "ending" /\ ~req'.usable /\ req'.step = req.step
        /\ UNCHANGED <<source, suite, manifest, flow, built>>
    BY <1>8 DEF PrepareRaises, data, Typed, RequestTypes
  <2> QED BY <2>1 DEF DatedInv, Dated, Signed, Tool
<1>9. CASE ToolReads
  <2>1. /\ pc = "running" /\ pc' = "ending" /\ req.step # Prepare /\ req'.step = req.step
        /\ UNCHANGED <<source, suite, manifest, flow>> /\ flow[req.step].state = "Ongoing"
        /\ req.step \in Steps
    BY <1>9, StepsType DEF ToolReads, Placed, Tool, Busy, Typed, RequestTypes, Steps
  <2>2. Signed(req.step)
    BY <2>1 DEF DatedInv, Tool
  <2>3. CASE PreparedCurrent
    <3>1. manifest.list = source.listed
      BY <2>3 DEF PreparedCurrent, DatedInv
    <3> DEFINE new == [list |-> source.listed, text |-> source.listed, header |-> source.header,
                       suite |-> IF req.step = Sim THEN suite ELSE None]
    <3>2. built' = [built EXCEPT ![req.step] = new] /\ req' = req
      BY <1>9, <2>3, <3>1 DEF ToolReads
    <3>3. built'[req.step] = new /\ \A s \in Steps : s # req.step => built'[s] = built[s]
      BY <2>1, <3>2 DEF Typed
    <3>4. new \in Built
      BY <1>v DEF Built, Typed
    <3>5. Dated(req.step)'
      BY <2>1, <2>2, <3>2, <3>3, <3>4, <1>v DEF Dated, Signed
    <3>6. \A s \in Steps : flow'[s].state = "Success" => Dated(s)'
      BY <2>1, <3>3 DEF DatedInv, Dated
    <3> QED BY <2>1, <2>2, <3>2, <3>5, <3>6 DEF DatedInv, Signed
  <2>4. CASE ~PreparedCurrent
    <3>1. ~req'.usable /\ built' = built
      BY <1>9, <2>4 DEF ToolReads, Typed, RequestTypes
    <3> QED BY <2>1, <2>2, <3>1 DEF DatedInv, Dated, Signed
  <2> QED BY <2>3, <2>4
<1>10. ASSUME NEW ok \in BOOLEAN, EndStep(ok) PROVE DatedInv'
  <2>1. /\ pc = "ending" /\ pc' = "reporting" /\ (ok => req.usable)
        /\ UNCHANGED <<source, suite, manifest, built>> /\ req.step \in Steps
        /\ DOMAIN flow[req.step] = {"state", "sig"}
    BY <1>10, StepsType DEF EndStep, Placed, Busy, Tool, Typed, RequestTypes, Steps, StepOK
  <2>2. \A s \in Steps : s # req.step => flow'[s] = flow[s]
    BY <1>10 DEF EndStep, Typed
  <2>3. CASE ok
    <3>1. flow' = [flow EXCEPT ![req.step] = [flow[req.step] EXCEPT !.state = "Success"]]
      BY <1>10, <2>3 DEF EndStep
    <3>2. flow'[req.step].sig = flow[req.step].sig
      BY <2>1, <3>1 DEF Typed
    <3>3. Dated(req.step)
      BY <2>1, <2>3 DEF DatedInv
    <3> QED BY <2>1, <2>2, <3>2, <3>3 DEF DatedInv, Dated, Tool
  <2>4. CASE ~ok
    <3>1. flow' = [flow EXCEPT ![req.step] = [state |-> "Incomplete", sig |-> None]]
      BY <1>10, <2>4 DEF EndStep
    <3>2. flow'[req.step].state = "Incomplete"
      BY <2>1, <3>1 DEF Typed
    <3> QED BY <2>1, <2>2, <3>2 DEF DatedInv, Dated, Tool
  <2> QED BY <2>3, <2>4
<1>11. CASE Refresh \/ Announce \/ AfterRefresh \/ Report \/ Finish \/ Crash
           \/ \E s \in Steps, rerun \in BOOLEAN, name \in Suites \cup {None} : RunStep(s, rerun, name)
  <2>1. pc' \notin Tool /\ UNCHANGED <<source, manifest, flow, built>>
    BY <1>11 DEF Refresh, Announce, AfterRefresh, Report, Finish, Answer, Crash, RunStep, Tool, data
  <2> QED BY <1>1, <2>1
<1>12. ASSUME NEW k \in Sources, Edit(k) PROVE DatedInv'
  <2>1. /\ k = "listed" /\ pc # "collecting"
        /\ UNCHANGED <<suite, manifest, flow, built, pc, req>>
    BY <1>12 DEF Edit, data, Sources
  <2>2. source'.listed = source.listed + 1 /\ source'.header = source.header
    BY <1>12, <2>1 DEF Edit, Typed, Sources
  <2>3. ASSUME NEW s, Dated(s) PROVE Dated(s)'
    <3>1. built[s].text \in Versions /\ built[s].text <= source.listed
      BY <2>3 DEF Dated, Built
    <3>2. built[s].text <= source'.listed
      BY <1>v, <2>2, <3>1, VersionOrder
    <3> QED BY <2>1, <2>2, <2>3, <3>2 DEF Dated
  <2>4. ASSUME NEW s, Signed(s) PROVE Signed(s)'
    <3>1. flow[s].sig.listed <= source'.listed
      BY <1>v, <2>2, <2>4, VersionOrder DEF Signed
    <3> QED BY <2>1, <2>4, <3>1 DEF Signed
  <2> QED BY <2>1, <2>3, <2>4 DEF DatedInv
<1>13. CASE UNCHANGED vars
  BY <1>13 DEF vars, data, DatedInv, Dated, Signed
<1> QED
  BY <1>2, <1>3, <1>4, <1>5, <1>6, <1>7, <1>8, <1>9, <1>10, <1>11, <1>12, <1>13 DEF Next, Service

LEMMA CachedIsCurrent == TypeInv /\ DatedInv => CachedStepIsCurrent
<1> SUFFICES ASSUME TypeInv, DatedInv, NEW s \in Steps, Cached(s) PROVE built[s] = Current(s)
  BY DEF CachedStepIsCurrent
<1>1. Dated(s) /\ flow[s].sig = Signature(flow, s)
  <2>1. flow[s].state = "Success" /\ s \notin Stale(flow)
    BY DEF Cached
  <2>2. s \in 1..s
    BY StepsType
  <2> QED BY <2>1, <2>2 DEF DatedInv, Stale, Outdated
<1>2. flow[s].sig.listed = source.listed /\ flow[s].sig.suite = IF s = Sim THEN suite ELSE None
  BY <1>1, SignatureIsCurrent
<1>3. source.listed \in Versions /\ built[s].text \in Versions
  BY <1>1 DEF TypeInv, Typed, Sources, Dated, Built
<1>4. built[s].text = source.listed /\ built[s].list = source.listed
  BY <1>1, <1>2, <1>3, VersionOrder DEF Dated
<1> QED BY <1>1, <1>2, <1>3, <1>4 DEF Dated, Built, Current

\* What the next request would take from the cache was computed from the
\* sources that are there, if nothing is edited between the two reads of
\* prepare and only files that a filelist names are edited at all; the finding
\* about headers is that without the second condition it does not hold.
THEOREM CachedStepsAreCurrent ==
    ASSUME ~EditsWhileCollecting, "header" \notin Editable
    PROVE  Spec => []CachedStepIsCurrent
<1> QED BY InitType, TypeStep, DatedInit, DatedStep, CachedIsCurrent, PTL DEF Spec

-----------------------------------------------------------------------------
(* A request that succeeds while nothing is edited. *)

\* A prepare step that has succeeded left the manifest that is there.
Manifested == manifest # None /\ manifest.listed = built[Prepare].text
PreparedInv ==
    /\ flow[Prepare].state = "Success" => Manifested
    /\ pc = "ending" /\ req.step = Prepare /\ req.usable => Manifested

\* Nothing was edited since the request began.
Untouched == pc # "idle" /\ req.began = source

\* Once a step of the request is announced prepare is not refreshed any more,
\* so a step that the request has finished stays a success of its signature.
ProgressInv ==
    /\ pc # "idle" => \A k \in Sources : req.began[k] <= source[k]
    /\ Untouched /\ (req.next > req.from \/ Announced) /\ req.next # Prepare =>
          req.refreshed \/ PreparedCurrent
    /\ Untouched /\ pc \in Busy /\ req.next > req.from => req.step = req.next
    /\ Untouched => \A s \in Steps : req.from <= s /\ s < req.next => flow[s].state = "Success"
    /\ Untouched /\ (req.next > req.from \/ (Announced /\ pc # "starting")) =>
          \A t \in Steps : t < req.next => ~Outdated(flow, t)
    /\ Untouched /\ Announced /\ pc \in Tool => flow[req.next].sig = Signature(flow, req.next)
    /\ Untouched /\ Announced /\ pc = "reporting" => ~Outdated(flow, req.next)

LEMMA PreparedInit == Init => PreparedInv
BY StepsType DEF Init, PreparedInv, NewStep

\* Only prepare writes the manifest, and its start takes its success away.
LEMMA PreparedStep == TypeInv /\ PreparedInv /\ [Next]_vars => PreparedInv'
<1> SUFFICES ASSUME TypeInv, PreparedInv, [Next]_vars PROVE PreparedInv'
  OBVIOUS
<1> USE StepsType DEF TypeInv
<1>n. NewStep.state # "Success"
  BY DEF NewStep
<1>1. ASSUME \/ manifest' = manifest /\ built'[Prepare] = built[Prepare]
             \/ flow'[Prepare].state # "Success",
             pc' # "ending",
             flow'[Prepare] = flow[Prepare] \/ flow'[Prepare].state # "Success"
      PROVE  PreparedInv'
  BY <1>1 DEF PreparedInv, Manifested
<1>2. CASE Load \/ ResetFlow \/ Create
  BY <1>1, <1>2, <1>n DEF Load, ResetFlow, Create, Typed, StepOK
<1>3. ASSUME NEW rerun \in BOOLEAN, NEW named \in BOOLEAN, NEW from \in Steps, RunFlow(rerun, named, from)
      PROVE  PreparedInv'
  BY <1>1, <1>3, <1>n DEF RunFlow
<1>4. CASE ServeCached
  BY <1>1, <1>4, <1>n, MarkKeeps DEF ServeCached
<1>5. CASE StartStep
  <2> DEFINE S == Stale(flow) \cup Downstream(req.step)
             new == [state |-> "Ongoing", sig |-> Signature(Mark(flow, S), req.step)]
  <2>1. /\ flow' = [Mark(flow, S) EXCEPT ![req.step] = new] /\ pc' = "running"
        /\ UNCHANGED <<manifest, built>>
    BY <1>5 DEF StartStep
  <2>2. flow'[Prepare] = new \/ flow'[Prepare] = Mark(flow, S)[Prepare]
    BY <2>1 DEF Mark
  <2>3. flow'[Prepare] = flow[Prepare] \/ flow'[Prepare].state # "Success"
    BY <2>2, <1>n, MarkKeeps
  <2> QED BY <1>1, <2>1, <2>3
<1>6. CASE PrepareWrites
  <2>1. flow'[Prepare].state = "Ongoing" /\ req.step = Prepare
    BY <1>6 DEF PrepareWrites, Placed, Tool
  <2>2. manifest' \in Manifests /\ manifest'.listed = built'[Prepare].text
    BY <1>6 DEF PrepareWrites, Manifests, Typed, RequestTypes, Sources
  <2>3. Manifested'
    BY <2>2, NoneAssumption DEF Manifested, Manifests, Versions
  <2> QED BY <2>1, <2>3 DEF PreparedInv
<1>7. CASE PrepareRaises
  BY <1>7 DEF PrepareRaises, data, PreparedInv, Manifested, Typed, RequestTypes
<1>8. CASE ToolReads
  <2>1. /\ flow' = flow /\ manifest' = manifest /\ req.step # Prepare /\ req'.step = req.step
        /\ built'[Prepare] = built[Prepare]
    BY <1>8 DEF ToolReads, Typed, RequestTypes
  <2> QED BY <2>1 DEF PreparedInv, Manifested
<1>9. ASSUME NEW ok \in BOOLEAN, EndStep(ok) PROVE PreparedInv'
  <2>1. /\ pc = "ending" /\ pc' = "reporting" /\ (ok => req.usable)
        /\ UNCHANGED <<manifest, built>>
    BY <1>9 DEF EndStep
  <2>2. CASE req.step = Prepare
    <3>1. ~ok => flow'[Prepare].state # "Success"
      BY <1>9, <2>2 DEF EndStep, Typed
    <3> QED BY <2>1, <2>2, <3>1 DEF PreparedInv, Manifested
  <2>3. CASE req.step # Prepare
    BY <1>9, <2>3 DEF EndStep, PreparedInv, Manifested, Typed
  <2> QED BY <2>2, <2>3
<1>10. CASE \/ Refresh \/ Announce \/ PrepareReads \/ AfterRefresh \/ Report \/ Finish \/ Crash
            \/ \E s \in Steps, rerun \in BOOLEAN, name \in Suites \cup {None} : RunStep(s, rerun, name)
  <2>1. pc' # "ending" /\ UNCHANGED <<manifest, flow, built>>
    BY <1>10 DEF Refresh, Announce, PrepareReads, AfterRefresh, Report, Finish, Answer, Crash, RunStep, data
  <2> QED BY <1>1, <2>1
<1>11. CASE UNCHANGED <<manifest, flow, built, pc, req>>
  BY <1>11 DEF PreparedInv, Manifested
<1> QED
  BY <1>2, <1>3, <1>4, <1>5, <1>6, <1>7, <1>8, <1>9, <1>10, <1>11 DEF Next, Service, Edit, vars, data

\* The signature of a step depends on the step before it only.
LEMMA SignatureOfBoth ==
    ASSUME NEW f, NEW g, NEW t \in Steps, f[t] = g[t], t > Prepare => f[t - 1] = g[t - 1]
    PROVE  Signature(f, t) = Signature(g, t) /\ (Outdated(f, t) <=> Outdated(g, t))
BY DEF Signature, Upstream, Outdated

\* What is not marked has nothing marked before it.
LEMMA MarkedUpward ==
    ASSUME NEW f, NEW s \in Steps, NEW t \in Steps, t > Prepare,
           NEW S, S = Stale(f) \/ S = Stale(f) \cup Downstream(s), t \notin S
    PROVE  t - 1 \in Steps /\ t - 1 \notin S
<1>1. t - 1 \in Steps /\ \A u \in 1..t - 1 : u \in 1..t
  BY StepsType DEF Steps, Prepare
<1>2. t \notin Stale(f) => t - 1 \notin Stale(f)
  BY <1>1 DEF Stale
<1>3. t \notin Downstream(s) => t - 1 \notin Downstream(s)
  BY <1>1, StepsType DEF Downstream, Steps
<1> QED BY <1>1, <1>2, <1>3

\* Once the stale steps are marked no success is outdated.
LEMMA MarkStale ==
    ASSUME NEW f, NEW s \in Steps, NEW S, S = Stale(f) \/ S = Stale(f) \cup Downstream(s),
           NEW t \in Steps
    PROVE  ~Outdated(Mark(f, S), t)
<1> SUFFICES ASSUME Mark(f, S)[t].state = "Success"
             PROVE  Mark(f, S)[t].sig = Signature(Mark(f, S), t)
  BY DEF Outdated
<1>1. Mark(f, S)[t] = f[t] /\ t \notin S
  BY DEF Mark, NewStep
<1>2. ~Outdated(f, t)
  <2>1. t \in 1..t /\ t \notin Stale(f)
    BY <1>1, StepsType
  <2> QED BY <2>1 DEF Stale
<1>3. t > Prepare => Mark(f, S)[t - 1] = f[t - 1]
  BY <1>1, MarkedUpward, MarkKeeps
<1>4. Signature(Mark(f, S), t) = Signature(f, t)
  BY <1>1, <1>3, SignatureOfBoth
<1> QED BY <1>1, <1>2, <1>4 DEF Outdated

LEMMA ProgressInit == Init => ProgressInv
BY DEF Init, ProgressInv, Untouched

\* Steps in which the request stays where it is, and what it relies on too.
LEMMA ProgressQuiet ==
    ASSUME ProgressInv, source' = source, suite' = suite, flow' = flow,
           pc # "idle", pc' \in Tool, pc \in Tool,
           manifest' = manifest \/ req.step = Prepare,
           \A f \in {"from", "next", "step", "refreshed", "began"} : req'[f] = req[f]
    PROVE  ProgressInv'
<1>1. Untouched' = Untouched /\ Announced' = Announced /\ pc \in Busy /\ pc' \in Busy
  BY DEF Untouched, Announced, Busy, Tool
<1>2. \A t : (Outdated(flow, t)' <=> Outdated(flow, t)) /\ Signature(flow, t)' = Signature(flow, t)
  BY DEF Outdated, Signature, Upstream
<1>3. Untouched /\ (req.next > req.from \/ Announced) /\ req.next # Prepare =>
          (req.refreshed \/ PreparedCurrent)'
  BY <1>1 DEF ProgressInv, PreparedCurrent, Announced
<1> QED BY <1>1, <1>2, <1>3 DEF ProgressInv, Tool

\* A request that begins, or that refreshes prepare before its first step.
LEMMA ProgressAtFirst ==
    ASSUME Typed', pc' # "idle" => \A k \in Sources : req'.began[k] <= source'[k],
           Untouched' => req'.next = req'.from /\ ~Announced'
    PROVE  ProgressInv'
<1>0. req'.from \in Int /\ Steps \subseteq Int
  BY NumStepsAssumption DEF Typed, RequestTypes, Steps
<1>1. Untouched' => \A s \in Steps : ~(req'.from <= s /\ s < req'.next)
  BY <1>0
<1>2. Untouched' => ~(req'.next > req'.from)
  BY <1>0
<1> QED BY <1>1, <1>2 DEF ProgressInv

LEMMA ProgressStep ==
    TypeInv /\ PreparedInv /\ CachedStepIsCurrent /\ ProgressInv /\ [Next]_vars => ProgressInv'
<1> SUFFICES ASSUME TypeInv, TypeInv', PreparedInv, CachedStepIsCurrent, ProgressInv, [Next]_vars
             PROVE  ProgressInv'
  BY TypeStep
<1>r. /\ req.next \in Int /\ req.last \in Int /\ req.from \in 1..NumSteps /\ NumSteps \in Int
      /\ req.step \in Int
  BY RequestNumbers DEF TypeInv
<1>t. Typed /\ Typed' /\ Placed
  BY DEF TypeInv
<1>v. \A k \in Sources : source[k] \in Int /\ req.began[k] \in Int
  <2>1. \A k \in Sources : source[k] \in Versions /\ req.began[k] \in Versions
    BY <1>t DEF Typed, RequestTypes
  <2>2. \A v \in Versions : v \in Int
    BY DEF Versions
  <2> QED BY <2>1, <2>2
<1>1. CASE pc' = "idle"
  BY <1>1 DEF ProgressInv, Untouched, Announced, Busy, Tool
<1>2. ASSUME NEW rerun \in BOOLEAN, NEW named \in BOOLEAN, NEW from \in Steps, RunFlow(rerun, named, from)
      PROVE  ProgressInv'
  <2>1. /\ pc' = "choosing" /\ source' = source /\ req'.began = source
        /\ req'.next = req'.from
    BY <1>2 DEF RunFlow, Request, NoRequest
  <2> QED BY <1>t, <1>v, <2>1, ProgressAtFirst DEF Announced, Busy, Tool
<1>3. ASSUME NEW s \in Steps, NEW rerun \in BOOLEAN, NEW name \in Suites \cup {None}, RunStep(s, rerun, name)
      PROVE  ProgressInv'
  <2>1. /\ pc' = "choosing" /\ source' = source /\ req'.began = source
        /\ req'.next = req'.from
    BY <1>3 DEF RunStep, Request, NoRequest
  <2> QED BY <1>t, <1>v, <2>1, ProgressAtFirst DEF Announced, Busy, Tool
<1>4. ASSUME NEW k \in Sources, Edit(k), pc # "idle" PROVE ProgressInv'
  <2>1. /\ source' = [source EXCEPT ![k] = source[k] + 1] /\ req' = req /\ pc' = pc
    BY <1>4 DEF Edit
  <2>2. \A j \in Sources : req.began[j] <= source[j]
    BY <1>4 DEF ProgressInv
  <2>3. source'[k] = source[k] + 1 /\ \A j \in Sources : j # k => source'[j] = source[j]
    BY <1>t, <2>1 DEF Typed
  <2>4. \A j \in Sources : req.began[j] <= source'[j]
    BY <1>v, <2>2, <2>3
  <2>5. req.began[k] # source'[k]
    BY <1>v, <2>2, <2>3
  <2>6. Untouched' = FALSE
    BY <2>1, <2>5 DEF Untouched
  <2> QED BY <1>t, <2>1, <2>4, <2>6, ProgressAtFirst
<1>5. CASE Refresh
  <2>1. /\ source' = source /\ pc = "choosing" /\ pc' = "starting" /\ req'.began = req.began
        /\ req'.next = req.next /\ req'.from = req.from /\ req'.step = Prepare
        /\ ~req.refreshed /\ req.next # Prepare /\ ~PreparedCurrent
    BY <1>5, <1>t DEF Refresh, MustRefresh, Typed, RequestTypes
  <2>2. Untouched => ~(req.next > req.from)
    BY <2>1 DEF ProgressInv
  <2>3. Untouched' = Untouched /\ Announced' = FALSE
    BY <2>1 DEF Untouched, Announced
  <2>4. Untouched' => req'.next = req'.from
    BY <1>r, <1>t, <2>1, <2>2, <2>3 DEF Placed
  <2> QED BY <1>t, <2>1, <2>3, <2>4, ProgressAtFirst DEF ProgressInv
<1>6. CASE AfterRefresh /\ pc' = "choosing"
  <2>1. /\ source' = source /\ pc = "reporting" /\ req'.began = req.began /\ req.step # req.next
        /\ req'.next = req.next /\ req'.from = req.from
    BY <1>6, <1>t DEF AfterRefresh, Answer, Refreshing, Typed, RequestTypes
  <2>2. Untouched => ~(req.next > req.from)
    BY <2>1 DEF ProgressInv, Busy
  <2>3. Untouched' = Untouched /\ Announced' = FALSE
    BY <1>6, <2>1 DEF Untouched, Announced, Busy, Tool
  <2>4. Untouched' => req'.next = req'.from
    BY <1>r, <1>t, <2>1, <2>2, <2>3 DEF Placed
  <2> QED BY <1>t, <2>1, <2>3, <2>4, ProgressAtFirst DEF ProgressInv
<1>7. CASE Announce
  <2>1. /\ source' = source /\ pc = "choosing" /\ pc' = "starting" /\ req'.began = req.began
        /\ req'.next = req.next /\ req'.from = req.from /\ req'.step = req.next
        /\ req'.refreshed = req.refreshed /\ flow' = flow /\ manifest' = manifest
        /\ (req.refreshed \/ req.next = Prepare \/ PreparedCurrent)
        /\ suite' = IF req.next = Sim THEN req.suite ELSE suite
    BY <1>7, <1>t DEF Announce, MustRefresh, Typed, RequestTypes
  <2>2. Untouched' = Untouched /\ Announced' /\ ~Announced
    BY <2>1 DEF Untouched, Announced, Busy, Tool
  <2>3. \A s \in Steps : s < req.next => s # Sim \/ suite' = suite
    BY <1>r, <2>1 DEF Sim, Steps
  <2>4. \A s \in Steps : s < req.next => (Outdated(flow, s)' <=> Outdated(flow, s))
    BY <2>1, <2>3 DEF Outdated, Signature, Upstream
  <2>5. Untouched' /\ req.next # Prepare => (req.refreshed \/ PreparedCurrent)'
    BY <2>1 DEF PreparedCurrent
  <2> QED BY <1>t, <2>1, <2>2, <2>4, <2>5 DEF ProgressInv, Tool
<1>8. CASE \/ PrepareReads \/ PrepareWrites \/ PrepareRaises \/ ToolReads
  <2>1. /\ source' = source /\ suite' = suite /\ flow' = flow /\ pc \in Tool /\ pc' \in Tool
        /\ manifest' = manifest \/ req.step = Prepare
        /\ \A f \in {"from", "next", "step", "refreshed", "began"} : req'[f] = req[f]
    BY <1>8, <1>t DEF PrepareReads, PrepareWrites, PrepareRaises, ToolReads, Tool, data, Placed, Typed, RequestTypes
  <2> QED BY <2>1, ProgressQuiet DEF Tool
\* From here on flow.json changes, or the request goes on to its next step.
<1>9. ASSUME pc \in Busy, pc' \in Busy, UNCHANGED <<source, suite, manifest>>,
             \A f \in {"from", "next", "step", "refreshed", "began"} : req'[f] = req[f],
             Untouched /\ Announced => req.next \in Steps,
             Untouched /\ Announced => \A s \in Steps : s < req.next /\ req.next > req.from => flow'[s] = flow[s],
             Untouched /\ Announced => pc' # "starting" /\ \A s \in Steps : s < req.next => ~Outdated(flow', s),
             Untouched /\ Announced /\ pc' \in Tool => flow'[req.next].sig = Signature(flow', req.next),
             Untouched /\ Announced /\ pc' = "reporting" => ~Outdated(flow', req.next)
      PROVE  ProgressInv'
  <2>1. Untouched' = Untouched /\ Announced' = Announced /\ pc # "idle"
    BY <1>9 DEF Untouched, Announced, Busy, Tool
  <2>2. CASE Untouched /\ ~Announced
    <3>1. ~(req.next > req.from)
      BY <1>9, <2>2 DEF ProgressInv, Announced
    <3>2. req.next = req.from
      BY <1>r, <1>t, <2>1, <3>1 DEF Placed
    <3> QED BY <1>t, <1>9, <2>1, <2>2, <3>2, ProgressAtFirst DEF ProgressInv
  <2>3. CASE ~Untouched
    BY <1>9, <2>1, <2>3 DEF ProgressInv
  <2>4. CASE Untouched /\ Announced
    <3>1. \A t : (Outdated(flow, t)' <=> Outdated(flow', t)) /\ Signature(flow, t)' = Signature(flow', t)
      BY <1>9 DEF Outdated, Signature, Upstream
    <3>2. req.next # Prepare => (req.refreshed \/ PreparedCurrent)'
      BY <1>9, <2>4 DEF ProgressInv, PreparedCurrent
    <3>3. \A s \in Steps : req.from <= s /\ s < req.next => flow'[s].state = "Success"
      BY <1>r, <1>9, <2>4, StepsType DEF ProgressInv
    <3>4. req'.step = req'.next
      BY <1>9, <2>4 DEF Announced
    <3> QED BY <1>9, <2>1, <2>4, <3>1, <3>2, <3>3, <3>4 DEF ProgressInv
  <2> QED BY <2>2, <2>3, <2>4
<1>s. pc \in Busy => req.step \in Steps
  <2>1. pc \in Busy => req.step \in {req.next, Prepare} /\ req.next <= req.last /\ req.from <= req.next
    BY <1>t DEF Placed, Busy, Tool
  <2>2. req.last <= NumSteps
    BY <1>t, RequestNumbers
  <2> QED BY <1>r, <2>1, <2>2, StepsType DEF Steps
<1>10. CASE ServeCached
  <2>1. /\ flow' = Mark(flow, Stale(flow)) /\ pc = "starting" /\ pc' = "reporting"
        /\ UNCHANGED <<source, suite, manifest, req>>
    BY <1>10 DEF ServeCached
  <2>2. Announced => req.next \in Steps
    BY <1>s, <2>1 DEF Announced
  <2>3. \A s \in Steps : ~Outdated(flow', s)
    BY <2>1, MarkStale
  <2>4. ASSUME Untouched, Announced, NEW s \in Steps, s < req.next, req.next > req.from
        PROVE  flow'[s] = flow[s]
    <3>1. \A t \in Steps : t < req.next => ~Outdated(flow, t)
      BY <2>4 DEF ProgressInv
    <3>2. \A t \in 1..s : t \in Steps /\ t < req.next
      BY <1>r, <2>4, StepsType DEF Steps
    <3>3. s \notin Stale(flow)
      BY <3>1, <3>2 DEF Stale
    <3> QED BY <2>1, <3>3, MarkKeeps
  <2> QED BY <1>9, <2>1, <2>2, <2>3, <2>4 DEF Busy, Tool
<1>11. CASE StartStep
  <2> DEFINE S == Stale(flow) \cup Downstream(req.step)
             new == [state |-> "Ongoing", sig |-> Signature(Mark(flow, S), req.step)]
  <2>1. /\ flow' = [Mark(flow, S) EXCEPT ![req.step] = new] /\ pc = "starting" /\ pc' = "running"
        /\ UNCHANGED <<source, suite, manifest, req>>
    BY <1>11 DEF StartStep
  <2>2. Announced => req.next \in Steps /\ req.step = req.next
    BY <1>s, <2>1 DEF Announced
  <2>3. DOMAIN Mark(flow, S) = Steps /\ req.step \in Steps
    BY <1>s, <2>1 DEF Mark, Busy
  <2>4. flow'[req.step] = new /\ \A s \in Steps : s # req.step => flow'[s] = Mark(flow, S)[s]
    BY <2>1, <2>3
  <2>5. \A s \in Steps : s < req.step => flow'[s] = Mark(flow, S)[s]
    BY <2>3, <2>4, StepOrder
  <2>6. \A s \in Steps : s > Prepare /\ s <= req.step => s - 1 \in Steps /\ s - 1 < req.step
    BY <2>3, StepOrder
  <2>7. ASSUME Announced, NEW s \in Steps, s < req.next PROVE ~Outdated(flow', s)
    <3>1. flow'[s] = Mark(flow, S)[s] /\ (s > Prepare => flow'[s - 1] = Mark(flow, S)[s - 1])
      BY <2>2, <2>3, <2>5, <2>6, <2>7, StepOrder
    <3>2. ~Outdated(Mark(flow, S), s)
      BY <2>3, MarkStale
    <3> QED BY <3>1, <3>2, SignatureOfBoth
  <2>8. Announced => flow'[req.next].sig = Signature(flow', req.next)
    <3>1. req.step > Prepare => flow'[req.step - 1] = Mark(flow, S)[req.step - 1]
      BY <2>3, <2>5, <2>6, StepOrder
    <3>2. Signature(flow', req.step) = Signature(Mark(flow, S), req.step)
      BY <3>1 DEF Signature, Upstream
    <3> QED BY <2>2, <2>4, <3>2
  <2>9. ASSUME Untouched, Announced, NEW s \in Steps, s < req.next, req.next > req.from
        PROVE  flow'[s] = flow[s]
    <3>1. \A t \in Steps : t < req.next => ~Outdated(flow, t)
      BY <2>9 DEF ProgressInv
    <3>2. \A t \in 1..s : t \in Steps /\ t < req.next
      BY <1>r, <2>9, StepsType DEF Steps
    <3>3. s \notin Stale(flow)
      BY <3>1, <3>2 DEF Stale
    <3>4. s \notin Downstream(req.step)
      BY <1>r, <2>2, <2>9, StepsType DEF Downstream
    <3> QED BY <2>2, <2>5, <2>9, <3>3, <3>4, MarkKeeps
  <2> HIDE DEF S, new
  <2> QED BY <1>9, <2>1, <2>2, <2>7, <2>8, <2>9 DEF Busy, Tool
<1>12. ASSUME NEW ok \in BOOLEAN, EndStep(ok) PROVE ProgressInv'
  <2>1. /\ pc = "ending" /\ pc' = "reporting" /\ UNCHANGED <<source, suite, manifest>>
        /\ \A f \in {"from", "next", "step", "refreshed", "began"} : req'[f] = req[f]
        /\ req.step \in Steps
    BY <1>12, <1>s, <1>t DEF EndStep, Typed, RequestTypes, Busy, Tool
  <2>2. \A s \in Steps : s # req.step => flow'[s] = flow[s]
    BY <1>12, <1>t DEF EndStep, Typed
  <2>3. flow'[req.step].state = "Success" => flow'[req.step].sig = flow[req.step].sig
    <3>1. CASE ok
      <4>1. flow' = [flow EXCEPT ![req.step] = [flow[req.step] EXCEPT !.state = "Success"]]
        BY <1>12, <3>1 DEF EndStep
      <4> QED BY <1>t, <2>1, <4>1 DEF Typed, StepOK
    <3>2. CASE ~ok
      <4>1. flow' = [flow EXCEPT ![req.step] = [state |-> "Incomplete", sig |-> None]]
        BY <1>12, <3>2 DEF EndStep
      <4> QED BY <1>t, <2>1, <4>1 DEF Typed
    <3> QED BY <3>1, <3>2
  <2>4. Announced => req.next \in Steps /\ req.step = req.next
    BY <2>1 DEF Announced
  <2>5. \A s \in Steps : s < req.step => flow'[s] = flow[s]
    BY <2>1, <2>2, StepOrder
  <2>6. \A s \in Steps : s > Prepare /\ s <= req.step => s - 1 \in Steps /\ s - 1 < req.step
    BY <2>1, StepOrder
  <2>7. ASSUME Untouched, Announced, NEW s \in Steps, s < req.next PROVE ~Outdated(flow', s)
    <3>1. flow'[s] = flow[s] /\ (s > Prepare => flow'[s - 1] = flow[s - 1])
      BY <2>1, <2>4, <2>5, <2>6, <2>7, StepOrder
    <3>2. ~Outdated(flow, s)
      BY <2>1, <2>7 DEF ProgressInv
    <3> QED BY <3>1, <3>2, SignatureOfBoth
  <2>8. ASSUME Untouched, Announced PROVE ~Outdated(flow', req.next)
    <3>1. flow[req.next].sig = Signature(flow, req.next)
      BY <2>1, <2>8 DEF ProgressInv, Tool
    <3>2. req.step > Prepare => flow'[req.step - 1] = flow[req.step - 1]
      BY <2>1, <2>5, <2>6, StepOrder
    <3>3. Signature(flow', req.step) = Signature(flow, req.step)
      BY <3>2 DEF Signature, Upstream
    <3> QED BY <2>3, <2>4, <2>8, <3>1, <3>3 DEF Outdated
  <2> QED BY <1>9, <2>1, <2>4, <2>5, <2>7, <2>8 DEF Busy, Tool
<1>13. CASE Report /\ pc' = "choosing"
  <2>1. /\ UNCHANGED <<source, suite, manifest, flow>> /\ pc = "reporting" /\ req.step = req.next
        /\ req'.began = req.began /\ req'.next = req.next + 1 /\ req'.from = req.from
        /\ req'.refreshed = req.refreshed /\ flow[req.next].state = "Success"
    BY <1>13, <1>t DEF Report, Answer, Refreshing, Typed, RequestTypes
  <2>2. Announced /\ ~Announced' /\ Untouched' = Untouched /\ pc # "idle"
    BY <1>13, <2>1 DEF Announced, Untouched, Busy, Tool
  <2>3. req.next \in Steps /\ req.from <= req.next
    BY <1>s, <1>t, <2>1, <2>2 DEF Busy, Placed
  <2>4. \A t : (Outdated(flow, t)' <=> Outdated(flow, t))
    BY <2>1 DEF Outdated, Signature, Upstream
  <2>5. \A s \in Steps : s < req.next + 1 => s < req.next \/ s = req.next
    BY <2>3, StepOrder
  <2>6. Untouched => \A t \in Steps : t < req.next + 1 => ~Outdated(flow, t)
    BY <2>1, <2>2, <2>5 DEF ProgressInv
  <2>7. Untouched => \A s \in Steps : req.from <= s /\ s < req.next + 1 => flow[s].state = "Success"
    BY <2>1, <2>5 DEF ProgressInv
  <2>8. Untouched => req.refreshed \/ PreparedCurrent
    <3>1. CASE req.next # Prepare
      BY <2>2, <3>1 DEF ProgressInv
    <3>2. CASE Untouched /\ req.next = Prepare
      <4>1. \A t \in 1..Prepare : t \in Steps /\ t < req.next + 1
        BY <2>3, <3>2, StepsType DEF Prepare
      <4>2. Cached(Prepare)
        BY <2>1, <2>6, <3>2, <4>1 DEF Cached, Stale
      <4>3. built[Prepare].text = source.listed
        <5>1. built[Prepare] = Current(Prepare)
          BY <2>3, <3>2, <4>2 DEF CachedStepIsCurrent
        <5> QED BY <5>1 DEF Current
      <4> QED BY <2>1, <3>2, <4>3 DEF PreparedInv, Manifested, PreparedCurrent
    <3> QED BY <3>1, <3>2
  <2>9. (req.refreshed \/ PreparedCurrent) => (req.refreshed \/ PreparedCurrent)'
    BY <2>1 DEF PreparedCurrent
  <2> QED BY <1>13, <2>1, <2>2, <2>4, <2>6, <2>7, <2>8, <2>9 DEF ProgressInv, Busy, Tool
<1>14. CASE UNCHANGED vars
  <2>1. Untouched' = Untouched /\ Announced' = Announced /\ PreparedCurrent' = PreparedCurrent
    BY <1>14 DEF vars, data, Untouched, Announced, PreparedCurrent
  <2>2. \A t : (Outdated(flow, t)' <=> Outdated(flow, t)) /\ Signature(flow, t)' = Signature(flow, t)
    BY <1>14 DEF vars, data, Outdated, Signature, Upstream
  <2> QED BY <1>14, <2>1, <2>2 DEF vars, data, ProgressInv
<1>15. pc' = "idle" \/ ~(Load \/ ResetFlow \/ Create \/ Finish \/ Crash)
  BY DEF Load, ResetFlow, Create, Finish, Answer, Crash
<1>16. pc' \in {"idle", "choosing"} \/ ~(Report \/ AfterRefresh)
  BY DEF Report, AfterRefresh, Answer
<1>17. \A k \in Sources : Edit(k) => pc # "idle" \/ pc' = "idle"
  BY DEF Edit
<1> QED
  BY <1>1, <1>2, <1>3, <1>4, <1>5, <1>6, <1>7, <1>8, <1>10, <1>11, <1>12, <1>13, <1>14,
     <1>15, <1>16, <1>17 DEF Next, Service

\* When a request answers success and nothing was edited since it began, every
\* step it selected is a success of the sources, the prepared list and the
\* suite that are there, under the conditions of the theorem before: no step
\* that finishes makes an earlier step of the request stale.
THEOREM SuccessesAreUpToDate ==
    ASSUME ~EditsWhileCollecting, "header" \notin Editable
    PROVE  Spec => SuccessIsUpToDate
<1>1. TypeInv /\ CachedStepIsCurrent /\ ProgressInv /\ [Next]_vars =>
      [answer' # answer /\ answer' # None /\ answer'.response = "success" /\ req.began = source =>
          \A s \in req.from..req.last :
              flow[s].state = "Success" /\ built[s] = Current(s)]_vars
  <2> SUFFICES ASSUME TypeInv, CachedStepIsCurrent, ProgressInv, [Next]_vars,
                      answer' # answer, answer' # None, answer'.response = "success",
                      req.began = source, NEW s \in req.from..req.last
               PROVE  flow[s].state = "Success" /\ built[s] = Current(s)
    BY DEF vars
  <2>1. Finish
    BY DEF Next, Service, Load, ResetFlow, Create, RunFlow, RunStep, Refresh, Announce, ServeCached,
           StartStep, PrepareReads, PrepareWrites, PrepareRaises, ToolReads, EndStep, AfterRefresh,
           Report, Answer, Crash, Edit, vars
  <2>2. /\ req.next \in Int /\ req.last \in 0..NumSteps /\ req.from \in 1..NumSteps
        /\ req.next > req.last /\ NumSteps \in Int
    BY <2>1, RequestNumbers DEF Finish, TypeInv
  <2>3. Untouched
    BY <2>1 DEF Finish, Untouched
  <2>4. s \in Steps /\ req.from <= s /\ s < req.next /\ req.next > req.from
    BY <2>2 DEF Steps
  <2>5. \A t \in 1..s : t \in Steps /\ t < req.next
    BY <2>2, <2>4, StepsType DEF Steps
  <2>6. flow[s].state = "Success" /\ s \notin Stale(flow)
    BY <2>3, <2>4, <2>5 DEF ProgressInv, Stale
  <2> QED BY <2>4, <2>6 DEF CachedStepIsCurrent, Cached
<1> QED
  BY <1>1, InitType, TypeStep, DatedInit, DatedStep, CachedIsCurrent, PreparedInit, PreparedStep,
     ProgressInit, ProgressStep, PTL DEF Spec, SuccessIsUpToDate
=============================================================================
