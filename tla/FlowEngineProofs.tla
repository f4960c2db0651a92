-------------------------- MODULE FlowEngineProofs --------------------------
(***************************************************************************)
(* Theorems about FlowEngine, for any number of steps, outputs, operations *)
(* and edits: its type invariant, and that a cached result is fresh.       *)
(***************************************************************************)
EXTENDS FlowEngine, TLAPS

\* The points of run_step between the installation of its handlers and return.
RunPoints == TryPoints \cup {"raised"}

\* What types the local variables of run_step, each from where it is assigned.
RunTyped ==
    /\ pc \notin {"closed", "loaded", "recovering", "resetting"} => run.step \in Steps
    /\ pc \in RunPoints \cup {"starting"} => run.sig.env \in InputVersions
    /\ pc \in {"checked", "published"} => artifact[run.step] \in Outputs

TypeInv == TypeOK /\ RunTyped

LEMMA StepsInNat == Steps \subseteq Nat
BY NumStepsAssumption DEF Steps

\* A step that MarkStale leaves a Success is the step it was given.
LEMMA MarkStaleKeeps ==
    ASSUME NEW f, NEW S, NEW s \in Steps,
           DOMAIN f[s] = {"state", "prov", "stale", "marker"},
           MarkStale(f, S)[s].state = "Success"
    PROVE  MarkStale(f, S)[s] = f[s] /\ s \notin S
BY DEF MarkStale, NothingToInvalidate

LEMMA MarkStaleType ==
    ASSUME NEW f, NEW S, \A s \in Steps : StepOK(f[s])
    PROVE  /\ DOMAIN MarkStale(f, S) = Steps
           /\ \A s \in Steps : StepOK(MarkStale(f, S)[s])
<1>1. DOMAIN MarkStale(f, S) = Steps
  BY DEF MarkStale
<1>2. ASSUME NEW s \in Steps PROVE StepOK(MarkStale(f, S)[s])
  BY <1>2 DEF MarkStale, StepOK, States
<1> QED BY <1>1, <1>2

LEMMA SettleType ==
    ASSUME NEW r, StepOK(r)
    PROVE  StepOK(Settle(r))
BY DEF StepOK, Settle, States

LEMMA NewStepType == StepOK(NewStep) /\ \A k \in 0..NumSteps, s \in Steps : StepOK(LegacyFlow(k)[s])
<1>1. StepOK(NewStep)
  BY DEF StepOK, NewStep, States
<1>2. ASSUME NEW k \in 0..NumSteps, NEW s \in Steps PROVE StepOK(LegacyFlow(k)[s])
  BY <1>2 DEF StepOK, NewStep, LegacyFlow, States
<1> QED BY <1>1, <1>2

LEMMA InputsType ==
    ASSUME TypeOK, NEW s \in Steps
    PROVE  Inputs(s) \in InputVersions
BY DEF TypeOK, Inputs, InputVersions

LEMMA InitTypeInv == Init => TypeInv
<1> SUFFICES ASSUME Init PROVE TypeInv
  OBVIOUS
<1> USE DEF Init
<1>1. \A s \in Steps : StepOK(disk[s])
  BY NewStepType
<1>2. DOMAIN disk = Steps
  BY DEF LegacyFlow
<1>3. 0 \in Versions
  BY MaxEditsAssumption DEF Versions
<1>4. TypeOK
  BY <1>1, <1>2, <1>3 DEF TypeOK, NoRun, Unloaded, InputVersions
<1>5. RunTyped
  BY DEF RunTyped, RunPoints, TryPoints
<1> QED BY <1>4, <1>5 DEF TypeInv

LEMMA UnloadedType == Unloaded \in [Steps -> Versions]
BY MaxEditsAssumption DEF Unloaded, Versions

\* A crash or an interrupt leaves the torn flag a Boolean.
LEMMA TornType ==
    ASSUME torn \in BOOLEAN, torn' \in {torn, torn \/ Writing}
    PROVE  torn' \in BOOLEAN
<1>1. (torn \/ Writing) \in BOOLEAN
  OBVIOUS
<1> QED BY <1>1

LEMMA QorVerdictType ==
    \A sig : [pass |-> FALSE, sig |-> sig].pass \in BOOLEAN
<1> SUFFICES ASSUME NEW sig, NEW pass \in BOOLEAN
             PROVE  [pass |-> pass, sig |-> sig].pass \in BOOLEAN
  OBVIOUS
<1> QED OBVIOUS

LEMMA TypeStep == TypeInv /\ [Next]_vars => TypeInv'
<1> SUFFICES ASSUME TypeInv, [Next]_vars PROVE TypeInv'
  OBVIOUS
<1> USE DEF TypeInv, TypeOK, RunTyped, RunPoints, TryPoints, SavePoints, environment, results
<1>1. ASSUME EditSource PROVE TypeInv'
  BY <1>1, MaxEditsAssumption DEF EditSource, Versions
<1>2. ASSUME NEW s \in Steps, EditConfig(s) PROVE TypeInv'
  BY <1>2, MaxEditsAssumption DEF EditConfig, Versions
<1>3. ASSUME Open PROVE TypeInv'
  BY <1>3 DEF Open, NoRun
<1>4. ASSUME NEW S, Recover(S) PROVE TypeInv'
  BY <1>4, SettleType DEF Recover, NoRun
<1>5. ASSUME Reset PROVE TypeInv'
  BY <1>5, NewStepType DEF Reset
<1>6. ASSUME Close PROVE TypeInv'
  BY <1>6, MaxEditsAssumption DEF Close, Unloaded, Versions, NoRun
<1>7. ASSUME Save PROVE TypeInv'
  <2>1. pc' = AfterSave /\ pc \in SavePoints /\ disk' = flow /\ flow' = flow /\ torn' = FALSE
    BY <1>7 DEF Save
  <2>2. UNCHANGED <<source, config, qor, artifact, used, readUp>>
    BY <1>7 DEF Save
  <2>3. CASE pc' = "closed"
    <3>1. run' = NoRun /\ loaded' = Unloaded
      BY <1>7, <2>1, <2>3 DEF Save
    <3>2. TypeOK'
      BY <2>1, <2>2, <2>3, <3>1, UnloadedType DEF StepOK, NoRun
    <3>3. RunTyped'
      BY <2>3
    <3> QED BY <3>2, <3>3
  <2>4. CASE pc' # "closed"
    <3>1. run' = run /\ loaded' = loaded
      BY <1>7, <2>1, <2>4 DEF Save
    <3>2. /\ pc = "refreshing" => pc' = "refreshed"
          /\ pc = "marking" => pc' = "marked"
          /\ pc = "starting" => pc' = "running"
          /\ pc = "finishing" => pc' = "returning"
          /\ pc = "rejecting" => pc' = "rejected"
          /\ pc = "dropping" => pc' = "returning"
          /\ pc \in {"recovering", "resetting"} => pc' = "loaded"
      BY <2>1, <2>4 DEF AfterSave
    <3>3. TypeOK'
      BY <2>1, <2>2, <3>1, <3>2 DEF StepOK
    <3>4. RunTyped'
      BY <2>1, <2>2, <3>1, <3>2
    <3> QED BY <3>3, <3>4
  <2> QED BY <2>3, <2>4
<1>8. ASSUME NEW s \in Steps, NEW rerun \in BOOLEAN, NEW op \in Ops \cup {None}, RequestStep(s, rerun, op) PROVE TypeInv'
  BY <1>8, MarkStaleType DEF RequestStep, NoRun, Refreshed, WithoutStaleQor
<1>9. ASSUME ServeCached PROVE TypeInv'
  BY <1>9 DEF ServeCached, NoRun
<1>10. ASSUME MarkDownstream PROVE TypeInv'
  BY <1>10, MarkStaleType DEF MarkDownstream, WithoutStaleQor
<1>11. ASSUME StartStep PROVE TypeInv'
  <2>1. run.step \in Steps /\ run'.step = run.step /\ run'.op = run.op
        /\ DOMAIN run' = DOMAIN run
    BY <1>11 DEF StartStep, NoRun
  <2>2. run'.sig.env \in InputVersions
    BY <1>11, <2>1, InputsType DEF StartStep, Signature, NoRun
  <2>3. DOMAIN flow' = Steps /\ \A s \in Steps : StepOK(flow'[s])
    BY <1>11, <2>1 DEF StartStep, StepOK, States
  <2>4. TypeOK'
    BY <1>11, <2>1, <2>3 DEF StartStep
  <2>5. RunTyped'
    BY <1>11, <2>1, <2>2 DEF StartStep
  <2> QED BY <2>4, <2>5
<1>12. ASSUME ReadInputs PROVE TypeInv'
  <2>1. run.step \in Steps /\ Inputs(run.step) \in InputVersions
    BY <1>12, InputsType DEF ReadInputs
  <2>2. used' \in [Steps -> InputVersions]
    BY <1>12, <2>1 DEF ReadInputs
  <2>3. run.step # 1 => run.step - 1 \in Steps
    BY <2>1, NumStepsAssumption DEF Steps
  <2>4. readUp' \in [Steps -> Outputs \cup {None}]
    BY <1>12, <2>1, <2>3 DEF ReadInputs
  <2>5. TypeOK'
    BY <1>12, <2>2, <2>4 DEF ReadInputs
  <2>6. RunTyped'
    BY <1>12 DEF ReadInputs
  <2> QED BY <2>5, <2>6
<1>13. ASSUME NEW out \in Outputs, NEW ok \in BOOLEAN, WriteOutputs(out, ok) PROVE TypeInv'
  BY <1>13 DEF WriteOutputs, NoRun
<1>14. ASSUME NEW out \in Outputs, ToolRaises(out) PROVE TypeInv'
  BY <1>14 DEF ToolRaises, NoRun
<1>15. ASSUME NEW pass \in BOOLEAN, PublishQor(pass) PROVE TypeInv'
  BY <1>15 DEF PublishQor
<1>16. ASSUME PublishRaises PROVE TypeInv'
  BY <1>16 DEF PublishRaises
<1>17. ASSUME Accept PROVE TypeInv'
  BY <1>17 DEF Accept, StepOK, States
<1>18. ASSUME Reject PROVE TypeInv'
  BY <1>18, SettleType DEF Reject
<1>19. ASSUME SaveRaises PROVE TypeInv'
  BY <1>19 DEF SaveRaises
<1>20. ASSUME HandleException PROVE TypeInv'
  <2>1. run.step \in Steps /\ run'.step = run.step /\ run'.op = run.op /\ run'.sig = run.sig
    BY <1>20 DEF HandleException, NoRun
  <2>2. \A s \in Steps : StepOK(flow'[s])
    BY <1>20, <2>1, SettleType DEF HandleException
  <2>3. \A s \in Steps : qor'[s] # None =>
            qor'[s].pass \in BOOLEAN /\ qor'[s].sig.env \in InputVersions
    <3>1. PICK q \in {None, [pass |-> FALSE, sig |-> run.sig]} :
              qor' = [qor EXCEPT ![run.step] = q]
      BY <1>20 DEF HandleException
    <3>2. run.sig.env \in InputVersions
      BY <1>20 DEF HandleException
    <3>3. q # None => q = [pass |-> FALSE, sig |-> run.sig]
      BY <3>1
    <3>4. q # None => q.pass \in BOOLEAN
      BY <3>3, QorVerdictType
    <3>5. q # None => q.sig.env \in InputVersions
      BY <3>2, <3>3
    <3> QED BY <3>1, <3>4, <3>5, <2>1
  <2>4. TypeOK'
    BY <1>20, <2>1, <2>2, <2>3 DEF HandleException, NoRun
  <2>5. RunTyped'
    BY <1>20, <2>1 DEF HandleException
  <2> QED BY <2>4, <2>5
<1>21. ASSUME DropProvenance PROVE TypeInv'
  BY <1>21 DEF DropProvenance, StepOK
<1>22. ASSUME Return PROVE TypeInv'
  BY <1>22 DEF Return, NoRun
<1>23. ASSUME Interrupt PROVE TypeInv'
  <2>1. torn' \in BOOLEAN
    BY <1>23, TornType DEF Interrupt
  <2>2. run.step \in Steps /\ run'.step = run.step /\ run'.op = run.op /\ run'.sig = run.sig
    BY <1>23 DEF Interrupt, NoRun
  <2>3. \A s \in Steps : StepOK(flow'[s])
    BY <1>23, <2>2, SettleType DEF Interrupt
  <2>4. TypeOK'
    BY <1>23, <2>1, <2>2, <2>3 DEF Interrupt, NoRun
  <2>5. RunTyped'
    BY <1>23, <2>2 DEF Interrupt
  <2> QED BY <2>4, <2>5
<1>24. ASSUME Crash PROVE TypeInv'
  <2>1. torn' \in BOOLEAN
    BY <1>24, TornType DEF Crash
  <2>2. TypeOK'
    BY <1>24, <2>1, UnloadedType DEF Crash, NoRun
  <2>3. RunTyped'
    BY <1>24 DEF Crash
  <2> QED BY <2>2, <2>3
<1>25. CASE UNCHANGED vars
  BY <1>25 DEF vars, StepOK
<1>26. ASSUME RunStep PROVE TypeInv'
  BY <1>26, <1>9, <1>10, <1>11, <1>12, <1>13, <1>14, <1>15, <1>16, <1>17, <1>18, <1>19, <1>20, <1>21, <1>22 DEF RunStep
<1>27. ASSUME Request PROVE TypeInv'
  BY <1>27, <1>3, <1>4, <1>5, <1>6, <1>8 DEF Request, OpenAndRecover, RecoverInterrupted
<1>28. ASSUME Edit PROVE TypeInv'
  BY <1>28, <1>1, <1>2 DEF Edit
<1> QED
  BY <1>7, <1>23, <1>24, <1>25, <1>26, <1>27, <1>28 DEF Next

\* Type correctness of EngineFlow's durable and in-memory state, whatever is
\* requested, edited, interrupted or killed.
THEOREM TypeCorrect == Spec => []TypeOK
<1>1. TypeInv => TypeOK
  BY DEF TypeInv
<1> QED BY <1>1, InitTypeInv, TypeStep, PTL DEF Spec

-----------------------------------------------------------------------------
(* A cached result is fresh.  The provenance of a successful step is never *)
(* newer than the inputs its tool read, and what it read of its upstream   *)
(* step is still there, both in the engine's copy of the flow and on disk; *)
(* that needs every later Success to be gone from disk before a tool runs. *)

Dated(f) ==
    \A s \in Steps : f[s].state = "Success" /\ f[s].prov # None =>
        /\ f[s].prov.sig.env.src <= used[s].src
        /\ f[s].prov.sig.env.cfg = used[s].cfg

Sourced(f) ==
    \A s \in Steps : s > 1 /\ f[s].state = "Success" => readUp[s] = artifact[s - 1]

NoLaterSuccess(f) == \A t \in Steps : t > run.step => f[t].state # "Success"

SignatureDated ==
    pc \in RunPoints \cup {"starting"} =>
        run.sig.env.src <= source /\ run.sig.env.cfg = loaded[run.step]

ReadDated ==
    pc \in {"reading", "checked", "published"} =>
        /\ run.sig.env.src <= used[run.step].src
        /\ run.sig.env.cfg = used[run.step].cfg
        /\ run.step > 1 => readUp[run.step] = artifact[run.step - 1]

Invalidated ==
    /\ pc \in {"marking", "marked", "starting", "running", "reading"} =>
          NoLaterSuccess(flow)
    /\ pc \in {"starting", "running", "reading"} => flow[run.step].state # "Success"
    /\ pc \in {"running", "reading"} =>
          NoLaterSuccess(disk) /\ disk[run.step].state # "Success"

UsedOnce == \A s \in Steps : used[s].src <= source

FreshInv ==
    /\ UsedOnce
    /\ Dated(disk) /\ Dated(flow)
    /\ Sourced(disk) /\ Sourced(flow)
    /\ SignatureDated /\ ReadDated /\ Invalidated

\* A flow whose successes are all successes of another one inherits its dates
\* and its sources.
LEMMA SuccessKept ==
    ASSUME NEW f, NEW g, \A s \in Steps : g[s].state = "Success" => g[s] = f[s]
    PROVE  (Dated(f) => Dated(g)) /\ (Sourced(f) => Sourced(g))
BY DEF Dated, Sourced

LEMMA SettledKept ==
    ASSUME NEW f, NEW s \in Steps, DOMAIN f = Steps, StepOK(f[s])
    PROVE  \A t \in Steps : [f EXCEPT ![s] = Settle(@)][t].state = "Success" =>
               [f EXCEPT ![s] = Settle(@)][t] = f[t]
BY DEF Settle, StepOK

LEMMA MarkedKept ==
    ASSUME NEW f, NEW S, \A s \in Steps : StepOK(f[s])
    PROVE  \A s \in Steps : MarkStale(f, S)[s].state = "Success" =>
               MarkStale(f, S)[s] = f[s] /\ s \notin S
BY MarkStaleKeeps DEF StepOK

LEMMA InitFresh == Init => FreshInv
<1> SUFFICES ASSUME Init PROVE FreshInv
  OBVIOUS
<1>1. Dated(disk) /\ Dated(flow)
  BY DEF Init, Dated, LegacyFlow, NewStep
<1>2. Sourced(disk) /\ Sourced(flow)
  BY NumStepsAssumption DEF Init, Sourced, Steps
<1>3. UsedOnce
  BY DEF Init, UsedOnce
<1>4. SignatureDated /\ ReadDated /\ Invalidated
  BY DEF Init, SignatureDated, ReadDated, Invalidated, RunPoints, TryPoints
<1> QED BY <1>1, <1>2, <1>3, <1>4 DEF FreshInv

\* The actions that change neither what the tools read and wrote nor a flow,
\* other than by taking successes away.
LEMMA QuietFresh ==
    ASSUME TypeInv, FreshInv, UNCHANGED results,
           source' \in Versions, source <= source',
           \A s \in Steps : flow'[s].state = "Success" =>
               flow'[s] = flow[s] \/ flow'[s] = disk[s],
           \A s \in Steps : disk'[s].state = "Success" =>
               disk'[s] = disk[s] \/ disk'[s] = flow[s],
           SignatureDated', ReadDated', Invalidated'
    PROVE  FreshInv'
<1>1. UsedOnce'
  <2> SUFFICES ASSUME NEW s \in Steps PROVE used[s].src <= source'
    BY DEF UsedOnce, results
  <2>1. used[s].src \in Int /\ source \in Int /\ source' \in Int
    BY DEF TypeInv, TypeOK, Versions, InputVersions
  <2> QED BY <2>1 DEF FreshInv, UsedOnce
<1>2. Dated(flow)' /\ Dated(disk)'
  BY DEF FreshInv, Dated, results
<1>3. Sourced(flow)' /\ Sourced(disk)'
  BY DEF FreshInv, Sourced, results
<1> QED BY <1>1, <1>2, <1>3 DEF FreshInv

\* What is left of FreshInv to show when run_step is not inside its try
\* statement, or gets there with its flow saved.
LEMMA OutsideRun ==
    ASSUME pc' \in {"closed", "loaded", "refreshing", "refreshed", "recovering", "resetting"}
    PROVE  SignatureDated' /\ ReadDated' /\ Invalidated'
BY DEF SignatureDated, ReadDated, Invalidated, RunPoints, TryPoints

\* A step under the same run and the same inputs keeps the dates of the run.
LEMMA SameRun ==
    ASSUME TypeInv, FreshInv, run'.sig = run.sig, run'.step = run.step,
           UNCHANGED <<source, loaded, used, readUp>>,
           pc \in RunPoints \cup {"starting"},
           artifact' = artifact,
           pc' \in {"reading", "checked", "published"} => pc \in {"reading", "checked", "published"},
           pc' \notin {"marking", "marked", "starting", "running", "reading"}
    PROVE  SignatureDated' /\ ReadDated' /\ Invalidated'
BY DEF FreshInv, SignatureDated, ReadDated, Invalidated

LEMMA FreshRunStep == TypeInv /\ FreshInv /\ RunStep => FreshInv'
<1> SUFFICES ASSUME TypeInv, FreshInv, RunStep PROVE FreshInv'
  OBVIOUS
<1> USE DEF environment, results
<1>t. source \in Versions /\ source <= source
  BY DEF TypeInv, TypeOK, Versions
<1>1. ASSUME ServeCached PROVE FreshInv'
  <2>1. SignatureDated' /\ ReadDated' /\ Invalidated'
    BY <1>1, OutsideRun DEF ServeCached
  <2> QED BY <1>1, <1>t, <2>1, QuietFresh DEF ServeCached
<1>2. ASSUME MarkDownstream PROVE FreshInv'
  <2>1. \A s \in Steps : flow'[s].state = "Success" => flow'[s] = flow[s] /\ s \notin Downstream(run.step)
    BY <1>2, MarkedKept DEF MarkDownstream, TypeInv, TypeOK
  <2>2. SignatureDated' /\ ReadDated'
    BY <1>2 DEF MarkDownstream, SignatureDated, ReadDated, RunPoints, TryPoints
  <2>3. Invalidated'
    BY <1>2, <2>1 DEF MarkDownstream, Invalidated, NoLaterSuccess, Downstream
  <2> QED BY <1>2, <1>t, <2>1, <2>2, <2>3, QuietFresh DEF MarkDownstream
<1>3. ASSUME StartStep PROVE FreshInv'
  <2>1. run.step \in Steps /\ run'.step = run.step
    BY <1>3 DEF StartStep, TypeInv, TypeOK, RunTyped, NoRun
  <2>2. run'.sig = Signature(flow, run.step)
    BY <1>3 DEF StartStep, TypeInv, TypeOK, NoRun
  <2>3. flow'[run.step].state = "Ongoing" /\ \A s \in Steps : s # run.step => flow'[s] = flow[s]
    BY <1>3, <2>1 DEF StartStep, TypeInv, TypeOK, StepOK
  <2>4. \A s \in Steps : flow'[s].state = "Success" => flow'[s] = flow[s]
    BY <2>3
  <2>5. SignatureDated'
    BY <1>3, <1>t, <2>1, <2>2 DEF StartStep, SignatureDated, Signature, Inputs
  <2>6. ReadDated'
    BY <1>3 DEF StartStep, ReadDated
  <2>7. NoLaterSuccess(flow)
    BY <1>3 DEF StartStep, FreshInv, Invalidated
  <2>8. Invalidated'
    BY <1>3, <2>1, <2>3, <2>7 DEF StartStep, Invalidated, NoLaterSuccess
  <2> QED BY <1>3, <1>t, <2>4, <2>5, <2>6, <2>8, QuietFresh DEF StartStep
<1>4. ASSUME ReadInputs PROVE FreshInv'
  <2>1. run.step \in Steps
    BY <1>4 DEF ReadInputs, TypeInv, TypeOK, RunTyped
  <2>2. /\ NoLaterSuccess(disk) /\ disk[run.step].state # "Success"
        /\ NoLaterSuccess(flow) /\ flow[run.step].state # "Success"
    BY <1>4 DEF ReadInputs, FreshInv, Invalidated
  <2>3. used'[run.step] = Inputs(run.step) /\ \A s \in Steps : s # run.step => used'[s] = used[s]
    BY <1>4, <2>1 DEF ReadInputs, TypeInv, TypeOK
  <2>4. /\ readUp'[run.step] = IF run.step = 1 THEN None ELSE artifact[run.step - 1]
        /\ \A s \in Steps : s # run.step => readUp'[s] = readUp[s]
    BY <1>4, <2>1 DEF ReadInputs, TypeInv, TypeOK
  <2>5. UsedOnce'
    BY <1>4, <1>t, <2>3 DEF ReadInputs, FreshInv, UsedOnce, Inputs
  <2>6. Dated(disk)' /\ Dated(flow)'
    BY <1>4, <2>2, <2>3 DEF ReadInputs, FreshInv, Dated
  <2>7. Sourced(disk)' /\ Sourced(flow)'
    BY <1>4, <2>2, <2>4 DEF ReadInputs, FreshInv, Sourced
  <2>8. SignatureDated
    BY DEF FreshInv
  <2>9. run.sig.env.src <= source /\ run.sig.env.cfg = loaded[run.step]
    BY <1>4, <2>8 DEF ReadInputs, SignatureDated, RunPoints, TryPoints
  <2>10. SignatureDated'
    BY <1>4, <2>9 DEF ReadInputs, SignatureDated
  <2>11. ReadDated'
    BY <1>4, <2>1, <2>3, <2>4, <2>9, StepsInNat DEF ReadInputs, ReadDated, Inputs
  <2>12. Invalidated'
    BY <1>4, <2>2 DEF ReadInputs, Invalidated, NoLaterSuccess
  <2> QED BY <2>5, <2>6, <2>7, <2>10, <2>11, <2>12 DEF FreshInv
<1>5. ASSUME NEW out \in Outputs, pc = "reading",
             artifact' = [artifact EXCEPT ![run.step] = out],
             run'.sig = run.sig, run'.step = run.step, pc' \in {"checked", "raised"},
             UNCHANGED <<source, loaded, disk, flow, used, readUp>>
      PROVE  FreshInv'
  <2>1. run.step \in Steps
    BY <1>5 DEF TypeInv, TypeOK, RunTyped
  <2>2. NoLaterSuccess(disk) /\ NoLaterSuccess(flow)
    BY <1>5 DEF FreshInv, Invalidated
  <2>3. \A s \in Steps : s # run.step => artifact'[s] = artifact[s]
    BY <1>5, <2>1 DEF TypeInv, TypeOK
  <2>4. \A s \in Steps : s > 1 => s - 1 \in Steps
    BY NumStepsAssumption DEF Steps
  <2>5. Sourced(disk)' /\ Sourced(flow)'
    BY <1>5, <2>1, <2>2, <2>3, <2>4, StepsInNat DEF FreshInv, Sourced, NoLaterSuccess
  <2>6. UsedOnce' /\ Dated(disk)' /\ Dated(flow)'
    BY <1>5 DEF FreshInv, UsedOnce, Dated
  <2>7. SignatureDated'
    BY <1>5 DEF FreshInv, SignatureDated, RunPoints, TryPoints
  <2>8. ReadDated'
    <3>1. /\ run.sig.env.src <= used[run.step].src
          /\ run.sig.env.cfg = used[run.step].cfg
          /\ run.step > 1 => readUp[run.step] = artifact[run.step - 1]
      BY <1>5 DEF FreshInv, ReadDated
    <3>2. run.step > 1 => artifact'[run.step - 1] = artifact[run.step - 1]
      <4>1. run.step - 1 # run.step
        <5>1. \A n \in Nat : n - 1 # n
          OBVIOUS
        <5> QED BY <2>1, <5>1, StepsInNat
      <4>2. run.step > 1 => run.step - 1 \in Steps
        BY <2>1, <2>4
      <4> QED BY <2>3, <4>1, <4>2
    <3> QED BY <1>5, <3>1, <3>2 DEF ReadDated
  <2>9. Invalidated'
    BY <1>5 DEF Invalidated
  <2> QED BY <2>5, <2>6, <2>7, <2>8, <2>9 DEF FreshInv
<1>6. ASSUME NEW out \in Outputs, NEW ok \in BOOLEAN, WriteOutputs(out, ok) PROVE FreshInv'
  BY <1>5, <1>6 DEF WriteOutputs, TypeInv, TypeOK, NoRun
<1>7. ASSUME UNCHANGED <<source, loaded, artifact, used, readUp, disk>>,
             run'.sig = run.sig, run'.step = run.step,
             pc \in RunPoints, pc' \in RunPoints \ {"running", "reading"},
             pc' \in {"checked", "published"} => pc \in {"checked", "published"},
             \A s \in Steps : flow'[s].state = "Success" => flow'[s] = flow[s]
      PROVE  FreshInv'
  <2>1. SignatureDated' /\ ReadDated' /\ Invalidated'
    BY <1>7, SameRun DEF RunPoints, TryPoints
  <2> QED BY <1>7, <1>t, <2>1, QuietFresh
<1>8. ASSUME NEW out \in Outputs, ToolRaises(out) PROVE FreshInv'
  <2>1. CASE UNCHANGED <<artifact, run>>
    BY <1>7, <1>8, <2>1 DEF ToolRaises, RunPoints, TryPoints
  <2>2. CASE ~UNCHANGED <<artifact, run>>
    <3>1. pc = "reading" /\ artifact' = [artifact EXCEPT ![run.step] = out]
      BY <1>8, <2>2 DEF ToolRaises
    <3>2. run'.sig = run.sig /\ run'.step = run.step
      BY <1>8, <2>2 DEF ToolRaises, TypeInv, TypeOK, NoRun
    <3> QED BY <1>5, <1>8, <3>1, <3>2 DEF ToolRaises
  <2> QED BY <2>1, <2>2
<1>9. ASSUME NEW pass \in BOOLEAN, PublishQor(pass) PROVE FreshInv'
  BY <1>7, <1>9 DEF PublishQor, RunPoints, TryPoints
<1>10. ASSUME PublishRaises PROVE FreshInv'
  BY <1>7, <1>10 DEF PublishRaises, RunPoints, TryPoints
<1>11. ASSUME Accept PROVE FreshInv'
  <2>1. run.step \in Steps
    BY <1>11 DEF Accept, TypeInv, TypeOK, RunTyped
  <2>2. /\ flow'[run.step].prov = [sig |-> run.sig, out |-> artifact[run.step]]
        /\ \A s \in Steps : s # run.step => flow'[s] = flow[s]
    BY <1>11, <2>1 DEF Accept, TypeInv, TypeOK, StepOK
  <2>3. /\ run.sig.env.src <= used[run.step].src
        /\ run.sig.env.cfg = used[run.step].cfg
        /\ run.step > 1 => readUp[run.step] = artifact[run.step - 1]
    BY <1>11 DEF Accept, FreshInv, ReadDated
  <2>4. Dated(flow)' /\ Dated(disk)'
    <3>1. used' = used /\ disk' = disk /\ flow'[run.step].prov.sig = run.sig
      BY <1>11, <2>2 DEF Accept
    <3>2. ASSUME NEW s \in Steps, flow'[s].state = "Success", flow'[s].prov # None
          PROVE  /\ flow'[s].prov.sig.env.src <= used[s].src
                 /\ flow'[s].prov.sig.env.cfg = used[s].cfg
      <4>1. CASE s = run.step
        BY <4>1, <3>1, <2>3
      <4>2. CASE s # run.step
        BY <4>2, <3>2, <2>2 DEF FreshInv, Dated
      <4> QED BY <4>1, <4>2
    <3> QED BY <3>1, <3>2 DEF FreshInv, Dated
  <2>5. Sourced(flow)' /\ Sourced(disk)'
    BY <1>11, <2>1, <2>2, <2>3 DEF Accept, FreshInv, Sourced
  <2>6. SignatureDated' /\ ReadDated' /\ Invalidated'
    BY <1>11, SameRun DEF Accept, RunPoints, TryPoints
  <2>7. UsedOnce'
    BY <1>11 DEF Accept, FreshInv, UsedOnce
  <2> QED BY <2>4, <2>5, <2>6, <2>7 DEF FreshInv
<1>12. ASSUME run.step \in Steps, flow' = [flow EXCEPT ![run.step] = Settle(@)]
       PROVE  \A s \in Steps : flow'[s].state = "Success" => flow'[s] = flow[s]
  BY <1>12, SettledKept DEF TypeInv, TypeOK
<1>13. ASSUME Reject PROVE FreshInv'
  <2>1. run.step \in Steps
    BY <1>13 DEF Reject, TypeInv, TypeOK, RunTyped
  <2> QED BY <1>7, <1>12, <1>13, <2>1 DEF Reject, RunPoints, TryPoints
<1>14. ASSUME SaveRaises PROVE FreshInv'
  BY <1>7, <1>14 DEF SaveRaises, RunPoints, TryPoints
<1>15. ASSUME HandleException PROVE FreshInv'
  <2>1. run.step \in Steps
    BY <1>15 DEF HandleException, TypeInv, TypeOK, RunTyped
  <2>2. run'.sig = run.sig /\ run'.step = run.step
    BY <1>15 DEF HandleException, TypeInv, TypeOK, NoRun
  <2> QED BY <1>7, <1>12, <1>15, <2>1, <2>2 DEF HandleException, RunPoints, TryPoints
<1>16. ASSUME DropProvenance PROVE FreshInv'
  <2>1. run.step \in Steps
    BY <1>16 DEF DropProvenance, TypeInv, TypeOK, RunTyped
  <2>2. /\ flow'[run.step].prov = None /\ flow'[run.step].state = flow[run.step].state
        /\ \A s \in Steps : s # run.step => flow'[s] = flow[s]
    BY <1>16, <2>1 DEF DropProvenance, TypeInv, TypeOK, StepOK
  <2>3. Dated(flow)' /\ Dated(disk)'
    BY <1>16, <2>2 DEF DropProvenance, FreshInv, Dated
  <2>4. Sourced(flow)' /\ Sourced(disk)'
    BY <1>16, <2>2 DEF DropProvenance, FreshInv, Sourced
  <2>5. SignatureDated' /\ ReadDated' /\ Invalidated'
    BY <1>16, SameRun DEF DropProvenance, RunPoints, TryPoints
  <2>6. UsedOnce'
    BY <1>16 DEF DropProvenance, FreshInv, UsedOnce
  <2> QED BY <2>3, <2>4, <2>5, <2>6 DEF FreshInv
<1>17. ASSUME Return PROVE FreshInv'
  <2>1. SignatureDated' /\ ReadDated' /\ Invalidated'
    BY <1>17, OutsideRun DEF Return
  <2> QED BY <1>17, <1>t, <2>1, QuietFresh DEF Return
<1> QED
  BY <1>1, <1>2, <1>3, <1>4, <1>6, <1>8, <1>9, <1>10, <1>11, <1>13, <1>14, <1>15,
     <1>16, <1>17 DEF RunStep
LEMMA FreshStep == TypeInv /\ FreshInv /\ [Next]_vars => FreshInv'
<1> SUFFICES ASSUME TypeInv, FreshInv, [Next]_vars PROVE FreshInv'
  OBVIOUS
<1> USE DEF environment, results
<1>t. source \in Versions /\ source <= source
  BY DEF TypeInv, TypeOK, Versions
<1>1. ASSUME Save PROVE FreshInv'
  <2>1. /\ disk' = flow /\ flow' = flow /\ pc' = AfterSave /\ pc \in SavePoints
        /\ UNCHANGED <<source, artifact, used, readUp>>
    BY <1>1 DEF Save
  <2>2. CASE pc \in {"refreshing", "recovering", "resetting"} \/ pc' = "closed"
    <3>1. pc' \in {"closed", "loaded", "refreshed"}
      BY <2>1, <2>2 DEF AfterSave, SavePoints
    <3>2. SignatureDated' /\ ReadDated' /\ Invalidated'
      BY <3>1, OutsideRun
    <3> QED BY <1>t, <2>1, <3>2, QuietFresh
  <2>3. CASE pc \in {"marking", "starting", "finishing", "rejecting", "dropping"} /\ pc' # "closed"
    <3>1. /\ pc = "marking" => pc' = "marked"
          /\ pc = "starting" => pc' = "running"
          /\ pc = "finishing" => pc' = "returning"
          /\ pc = "rejecting" => pc' = "rejected"
          /\ pc = "dropping" => pc' = "returning"
      BY <2>1, <2>3 DEF AfterSave
    <3>2. run' = run /\ loaded' = loaded
      BY <1>1, <2>1, <2>3 DEF Save
    <3>3. SignatureDated' /\ ReadDated'
      BY <2>1, <2>3, <3>1, <3>2 DEF FreshInv, SignatureDated, ReadDated, RunPoints, TryPoints
    <3>4. Invalidated'
      BY <2>1, <2>3, <3>1, <3>2 DEF FreshInv, Invalidated, NoLaterSuccess
    <3> QED BY <1>t, <2>1, <3>3, <3>4, QuietFresh
  <2> QED BY <2>1, <2>2, <2>3 DEF SavePoints
<1>2. ASSUME NEW s \in Steps, NEW rerun \in BOOLEAN, NEW op \in Ops \cup {None},
             RequestStep(s, rerun, op)
      PROVE  FreshInv'
  <2>1. \A x \in Steps : flow'[x].state = "Success" => flow'[x] = flow[x]
    BY <1>2, MarkedKept DEF RequestStep, Refreshed, TypeInv, TypeOK
  <2>2. SignatureDated' /\ ReadDated' /\ Invalidated'
    BY <1>2, OutsideRun DEF RequestStep
  <2> QED BY <1>2, <1>t, <2>1, <2>2, QuietFresh DEF RequestStep
<1>3. ASSUME NEW S, Recover(S) PROVE FreshInv'
  <2>1. \A x \in Steps : flow'[x].state = "Success" => flow'[x] = disk[x]
    BY <1>3 DEF Recover, Settle, TypeInv, TypeOK, StepOK
  <2>2. SignatureDated' /\ ReadDated' /\ Invalidated'
    BY <1>3, OutsideRun DEF Recover
  <2> QED BY <1>3, <1>t, <2>1, <2>2, QuietFresh DEF Recover
<1>4. ASSUME Open PROVE FreshInv'
  <2>1. SignatureDated' /\ ReadDated' /\ Invalidated'
    BY <1>4, OutsideRun DEF Open
  <2> QED BY <1>4, <1>t, <2>1, QuietFresh DEF Open
<1>5. ASSUME Reset PROVE FreshInv'
  <2>1. \A x \in Steps : flow'[x].state # "Success"
    BY <1>5 DEF Reset, NewStep
  <2>2. SignatureDated' /\ ReadDated' /\ Invalidated'
    BY <1>5, OutsideRun DEF Reset
  <2> QED BY <1>5, <1>t, <2>1, <2>2, QuietFresh DEF Reset
<1>6. ASSUME Close PROVE FreshInv'
  <2>1. SignatureDated' /\ ReadDated' /\ Invalidated'
    BY <1>6, OutsideRun DEF Close
  <2> QED BY <1>6, <1>t, <2>1, QuietFresh DEF Close
<1>7. ASSUME EditSource PROVE FreshInv'
  <2>1. source' \in Versions /\ source <= source'
    BY <1>7, MaxEditsAssumption DEF EditSource, TypeInv, TypeOK, Versions
  <2>2. ReadDated' /\ Invalidated'
    BY <1>7 DEF EditSource, FreshInv, ReadDated, Invalidated, NoLaterSuccess
  <2>3. pc \in RunPoints \cup {"starting"} => run.sig.env.src \in Versions
    BY DEF TypeInv, RunTyped, InputVersions
  <2>4. SignatureDated'
    BY <1>7, <1>t, <2>1, <2>3 DEF EditSource, FreshInv, SignatureDated, Versions
  <2> QED BY <1>7, <2>1, <2>2, <2>4, QuietFresh DEF EditSource
<1>8. ASSUME NEW s \in Steps, EditConfig(s) PROVE FreshInv'
  <2>1. SignatureDated' /\ ReadDated' /\ Invalidated'
    BY <1>8 DEF EditConfig, FreshInv, SignatureDated, ReadDated, Invalidated, NoLaterSuccess
  <2> QED BY <1>8, <1>t, <2>1, QuietFresh DEF EditConfig
<1>9. ASSUME Interrupt PROVE FreshInv'
  <2>1. run.step \in Steps /\ run'.step = run.step /\ run'.sig = run.sig
    BY <1>9 DEF Interrupt, TypeInv, TypeOK, RunTyped, TryPoints, NoRun
  <2>2. \A s \in Steps : flow'[s].state = "Success" => flow'[s] = flow[s]
    BY <1>9, <2>1, SettledKept DEF Interrupt, TypeInv, TypeOK
  <2>3. SignatureDated' /\ ReadDated' /\ Invalidated'
    BY <1>9, <2>1, SameRun DEF Interrupt, RunPoints
  <2> QED BY <1>9, <1>t, <2>2, <2>3, QuietFresh DEF Interrupt
<1>10. ASSUME Crash PROVE FreshInv'
  <2>1. SignatureDated' /\ ReadDated' /\ Invalidated'
    BY <1>10, OutsideRun DEF Crash
  <2> QED BY <1>10, <1>t, <2>1, QuietFresh DEF Crash
<1>11. CASE UNCHANGED vars
  <2>1. SignatureDated' /\ ReadDated' /\ Invalidated'
    BY <1>11 DEF vars, FreshInv, SignatureDated, ReadDated, Invalidated, NoLaterSuccess
  <2> QED BY <1>11, <1>t, <2>1, QuietFresh DEF vars
<1> QED
  BY <1>1, <1>2, <1>3, <1>4, <1>5, <1>6, <1>7, <1>8, <1>9, <1>10, <1>11, FreshRunStep
  DEF Next, Request, Edit, OpenAndRecover, RecoverInterrupted

\* What refresh_stale_states leaves a Success carries the signature of the
\* inputs that are there now.
LEMMA CachedIsCurrent ==
    ASSUME TypeInv, NEW s \in Steps, Cached(flow, s), flow[s].prov # None
    PROVE  flow[s].state = "Success" /\ flow[s].prov.sig.env = Inputs(s)
<1>1. Refreshed(flow)[s] = flow[s] /\ s \notin StaleSteps(flow)
  BY MarkedKept DEF Cached, Refreshed, TypeInv, TypeOK
<1>2. ~Outdated(flow, s)
  BY <1>1, NumStepsAssumption DEF StaleSteps, Steps
<1>3. flow[s].prov.sig = Signature(flow, s)
  BY <1>1, <1>2 DEF Outdated, Cached
<1> QED BY <1>1, <1>3 DEF Signature, Cached

LEMMA FreshnessHolds == TypeInv /\ FreshInv => CachedResultIsFresh
<1> SUFFICES ASSUME TypeInv, FreshInv, NEW s \in Steps,
                    Cached(flow, s), flow[s].prov # None
             PROVE  used[s] = Inputs(s) /\ (s > 1 => readUp[s] = artifact[s - 1])
  BY DEF CachedResultIsFresh
<1>1. flow[s].state = "Success" /\ flow[s].prov.sig.env = Inputs(s)
  BY CachedIsCurrent
<1>2. source <= used[s].src /\ used[s].src <= source /\ used[s].cfg = loaded[s]
  BY <1>1 DEF FreshInv, Dated, UsedOnce, Inputs
<1>3. used[s] \in InputVersions /\ source \in Versions
  BY DEF TypeInv, TypeOK
<1>4. used[s].src = source
  BY <1>2, <1>3 DEF InputVersions, Versions
<1>5. used[s] = Inputs(s)
  BY <1>2, <1>3, <1>4 DEF Inputs, InputVersions
<1> QED BY <1>1, <1>5 DEF FreshInv, Sourced

\* A result served from the cache was computed from the inputs, and from the
\* upstream outputs, that are there when it is served.
THEOREM CachedResultsAreFresh == Spec => []CachedResultIsFresh
<1> QED
  BY InitTypeInv, TypeStep, InitFresh, FreshStep, FreshnessHolds, PTL DEF Spec

\* The tool of a step writes only after flow.json holds no Success for that step
\* or for a later one.
THEOREM InvalidationComesFirst == Spec => InvalidatedBeforeOverwritten
<1>1. TypeInv /\ FreshInv /\ [Next]_vars =>
          [\A s \in Steps : artifact'[s] # artifact[s] =>
              \A t \in s..NumSteps : disk[t].state # "Success"]_vars
  <2> SUFFICES ASSUME TypeInv, FreshInv, Next, NEW s \in Steps,
                      artifact'[s] # artifact[s], NEW t \in s..NumSteps
               PROVE  disk[t].state # "Success"
    OBVIOUS
  <2>1. pc = "reading" /\ s = run.step
    BY DEF Next, Save, RunStep, Request, Edit, Interrupt, Crash, ServeCached,
           MarkDownstream, StartStep, ReadInputs, WriteOutputs, ToolRaises, PublishQor,
           PublishRaises, Accept, Reject, SaveRaises, HandleException, DropProvenance,
           Return, Open, OpenAndRecover, RecoverInterrupted, Recover, Reset, Close,
           RequestStep, EditSource, EditConfig, results, TypeInv, TypeOK
  <2>2. NoLaterSuccess(disk) /\ disk[run.step].state # "Success"
    BY <2>1 DEF FreshInv, Invalidated
  <2>3. t \in Steps /\ t >= s
    BY NumStepsAssumption DEF Steps
  <2> QED BY <2>1, <2>2, <2>3, StepsInNat DEF NoLaterSuccess
<1> QED
  BY <1>1, InitTypeInv, TypeStep, InitFresh, FreshStep, PTL
  DEF Spec, InvalidatedBeforeOverwritten

-----------------------------------------------------------------------------
(* The published QoR and flow.json.  Whatever the engine's copy of the flow *)
(* says of a result is already true of the QoR on disk when it is saved,   *)
(* and the QoR of a step is only written while flow.json has it Ongoing.   *)

\* None stands for an absent provenance or triplet: it is not one itself.
NoneIsNoRecord ==
    /\ \A sig, out : [sig |-> sig, out |-> out] # None
    /\ \A pass, sig : [pass |-> pass, sig |-> sig] # None

\* QorMatchesProvenance and PassIsBacked, for flow.json and for the engine's copy.
Matched(f) ==
    \A s \in Steps : f[s].state = "Success" /\ qor[s] # None =>
        f[s].prov # None /\ f[s].prov.sig = qor[s].sig

Backed(f) ==
    \A s \in Steps : qor[s] # None /\ qor[s].pass => f[s].state \in {"Success", "Ongoing"}

\* What the next save will add to flow.json has its QoR.
Announced ==
    \A s \in Steps : flow[s].state = "Success" /\ flow[s] # disk[s] =>
        qor[s] # None /\ qor[s].sig = flow[s].prov.sig

\* What the step of the run is in the copy and on disk, at each point of run_step.
Started ==
    /\ pc \in {"starting", "running", "reading", "checked", "published"} =>
          flow[run.step].state = "Ongoing"
    /\ pc \in {"running", "reading", "checked", "published", "finishing", "raised"} =>
          disk[run.step].state = "Ongoing"
    /\ pc \in {"rejecting", "rejected", "dropping"} => flow[run.step].state = "Incomplete"

\* What write_step_qor has just published is the QoR of this run.
Published ==
    pc = "published" => /\ qor[run.step] # None /\ qor[run.step].sig = run.sig
                        /\ qor[run.step].pass => run.ok

QorTyped == DOMAIN qor = Steps

QorInv ==
    /\ Matched(disk) /\ Matched(flow)
    /\ Backed(disk) /\ Backed(flow)
    /\ Announced /\ Started /\ Published

LEMMA InitQor == Init => QorInv
<1> SUFFICES ASSUME Init PROVE QorInv
  OBVIOUS
<1>1. Matched(disk) /\ Matched(flow) /\ Backed(disk) /\ Backed(flow)
  BY DEF Init, Matched, Backed
<1>2. Announced
  BY DEF Init, Announced
<1>3. Started /\ Published
  BY DEF Init, Started, Published
<1> QED BY <1>1, <1>2, <1>3 DEF QorInv

\* QoR that is deleted, together with a result or under one that flow.json
\* never had, breaks nothing.
LEMMA QorDeleted ==
    ASSUME QorInv, disk' = disk,
           \A s \in Steps :
               \/ flow'[s] = flow[s] /\ qor'[s] = qor[s]
               \/ flow'[s] = disk[s] /\ qor'[s] \in {qor[s], None}
               \/ flow'[s].state # "Success" /\ qor'[s] = None
    PROVE  Matched(disk)' /\ Matched(flow)' /\ Backed(disk)' /\ Backed(flow)' /\ Announced'
<1>1. Matched(disk)' /\ Backed(disk)'
  BY DEF QorInv, Matched, Backed
<1>2. Matched(flow)' /\ Backed(flow)'
  BY DEF QorInv, Matched, Backed
<1>3. Announced'
  BY DEF QorInv, Announced
<1> QED BY <1>1, <1>2, <1>3

LEMMA NotStarted ==
    ASSUME pc' \in {"closed", "loaded", "refreshing", "refreshed", "marking", "marked",
                    "recovering", "resetting", "returning"}
    PROVE  Started' /\ Published'
BY DEF Started, Published

\* MarkStale and WithoutStaleQor invalidate a result and its QoR together.
LEMMA StaleQor ==
    ASSUME TypeInv, NEW S, flow' = MarkStale(flow, S), qor' = WithoutStaleQor(flow, S)
    PROVE  \A s \in Steps : \/ flow'[s] = flow[s] /\ qor'[s] = qor[s]
                            \/ flow'[s].state # "Success" /\ qor'[s] = None
<1> SUFFICES ASSUME NEW s \in Steps
             PROVE  \/ flow'[s] = flow[s] /\ qor'[s] = qor[s]
                    \/ flow'[s].state # "Success" /\ qor'[s] = None
  OBVIOUS
<1>1. StepOK(flow[s])
  BY DEF TypeInv, TypeOK
<1>2. CASE s \notin S \/ flow[s].state = "Ongoing"
  BY <1>2 DEF MarkStale, WithoutStaleQor
<1>3. CASE s \in S /\ flow[s].state # "Ongoing"
  <2>1. qor'[s] = None
    BY <1>3 DEF WithoutStaleQor
  <2>2. CASE NothingToInvalidate(flow[s])
    <3>1. flow'[s] = flow[s] /\ flow[s].state = "Unstart"
      BY <2>2 DEF MarkStale, NothingToInvalidate
    <3> QED BY <2>1, <3>1
  <2>3. CASE ~NothingToInvalidate(flow[s])
    <3>1. flow'[s] = [flow[s] EXCEPT !.state = "Unstart", !.prov = None, !.stale = TRUE]
      BY <1>3, <2>3 DEF MarkStale
    <3>2. flow'[s].state = "Unstart"
      BY <1>1, <3>1 DEF StepOK
    <3> QED BY <2>1, <3>2
  <2> QED BY <2>2, <2>3
<1> QED BY <1>2, <1>3

\* The step that runs is changed, the others are left alone.
LEMMA OneStep ==
    ASSUME TypeInv, NEW s \in Steps
    PROVE  /\ StepOK(flow[s]) /\ Settle(flow[s]).state = "Incomplete"
           /\ DOMAIN flow = Steps /\ DOMAIN disk = Steps
<1>1. StepOK(flow[s])
  BY DEF TypeInv, TypeOK
<1>2. Settle(flow[s]).state = "Incomplete"
  BY <1>1 DEF Settle, StepOK
<1> QED BY <1>1, <1>2 DEF TypeInv, TypeOK

LEMMA QorRunStep == NoneIsNoRecord /\ TypeInv /\ QorInv /\ QorTyped /\ RunStep => QorInv'
<1> SUFFICES ASSUME NoneIsNoRecord, TypeInv, QorInv, QorTyped, RunStep PROVE QorInv'
  OBVIOUS
<1> USE DEF environment, results, QorTyped
<1>s. pc \notin {"closed", "loaded", "recovering", "resetting"} => run.step \in Steps
  BY DEF TypeInv, TypeOK, RunTyped
<1>q. ASSUME UNCHANGED <<disk, flow, qor>>
      PROVE  Matched(disk)' /\ Matched(flow)' /\ Backed(disk)' /\ Backed(flow)' /\ Announced'
  BY <1>q, QorDeleted
<1>1. CASE ServeCached
  BY <1>1, <1>q, NotStarted DEF ServeCached, QorInv
<1>2. CASE MarkDownstream
  BY <1>2, StaleQor, QorDeleted, NotStarted DEF MarkDownstream, QorInv
<1>3. CASE StartStep
  <2>1. run.step \in Steps /\ run'.step = run.step /\ pc' = "starting"
    BY <1>3, <1>s DEF StartStep, TypeInv, TypeOK, NoRun
  <2>2. flow'[run.step].state = "Ongoing" /\ \A s \in Steps : s # run.step => flow'[s] = flow[s]
    BY <1>3, <2>1, OneStep DEF StartStep, StepOK
  <2>3. qor'[run.step] = None /\ \A s \in Steps : s # run.step => qor'[s] = qor[s]
    BY <1>3, <2>1 DEF StartStep
  <2>4. Matched(disk)' /\ Matched(flow)' /\ Backed(disk)' /\ Backed(flow)' /\ Announced'
    <3>1. disk' = disk
      BY <1>3 DEF StartStep
    <3> QED BY <2>2, <2>3, <3>1, QorDeleted
  <2>5. Started' /\ Published'
    BY <2>1, <2>2 DEF Started, Published
  <2> QED BY <2>4, <2>5 DEF QorInv
<1>4. CASE ReadInputs
  <2>1. UNCHANGED <<disk, flow, qor, run>> /\ pc = "running" /\ pc' = "reading"
    BY <1>4 DEF ReadInputs
  <2>2. Started' /\ Published'
    BY <2>1 DEF QorInv, Started, Published
  <2> QED BY <1>q, <2>1, <2>2 DEF QorInv
<1>5. ASSUME NEW out \in Outputs, NEW ok \in BOOLEAN, WriteOutputs(out, ok) PROVE QorInv'
  <2>1. UNCHANGED <<disk, flow, qor>> /\ run'.step = run.step /\ pc = "reading" /\ pc' = "checked"
    BY <1>5 DEF WriteOutputs, TypeInv, TypeOK, NoRun
  <2>2. Started' /\ Published'
    BY <2>1 DEF QorInv, Started, Published
  <2> QED BY <1>q, <2>1, <2>2 DEF QorInv
<1>6. ASSUME NEW out \in Outputs, ToolRaises(out) PROVE QorInv'
  <2>1. /\ UNCHANGED <<disk, flow, qor>> /\ run'.step = run.step
        /\ pc \in {"running", "reading"} /\ pc' = "raised"
    BY <1>6 DEF ToolRaises, TypeInv, TypeOK, NoRun
  <2>2. Started' /\ Published'
    BY <2>1 DEF QorInv, Started, Published
  <2> QED BY <1>q, <2>1, <2>2 DEF QorInv
<1>7. ASSUME NEW pass \in BOOLEAN, PublishQor(pass) PROVE QorInv'
  <2>1. /\ UNCHANGED <<disk, flow, run>> /\ pc = "checked" /\ pc' = "published"
        /\ pass => run.ok
        /\ run.step \in Steps
    BY <1>7, <1>s DEF PublishQor
  <2>2. /\ qor'[run.step] = [pass |-> pass, sig |-> run.sig]
        /\ \A s \in Steps : s # run.step => qor'[s] = qor[s]
    BY <1>7, <2>1 DEF PublishQor
  <2>3. flow[run.step].state = "Ongoing" /\ disk[run.step].state = "Ongoing"
    BY <2>1 DEF QorInv, Started
  <2>4. Matched(disk)' /\ Matched(flow)'
    BY <2>1, <2>2, <2>3 DEF QorInv, Matched
  <2>5. Backed(disk)' /\ Backed(flow)'
    BY <2>1, <2>2, <2>3 DEF QorInv, Backed
  <2>6. Announced'
    BY <2>1, <2>2, <2>3 DEF QorInv, Announced
  <2>7. Started'
    BY <2>1, <2>3 DEF Started
  <2>8. Published'
    BY <2>1, <2>2 DEF Published, NoneIsNoRecord
  <2> QED BY <2>4, <2>5, <2>6, <2>7, <2>8 DEF QorInv
<1>8. CASE PublishRaises
  <2>1. UNCHANGED <<disk, flow, qor, run>> /\ pc = "checked" /\ pc' = "raised"
    BY <1>8 DEF PublishRaises
  <2>2. Started' /\ Published'
    BY <2>1 DEF QorInv, Started, Published
  <2> QED BY <1>q, <2>1, <2>2 DEF QorInv
<1>9. CASE Accept
  <2>1. /\ UNCHANGED <<disk, qor, run>> /\ pc = "published" /\ pc' = "finishing"
        /\ run.step \in Steps
    BY <1>9, <1>s DEF Accept
  <2>2. /\ flow'[run.step].state = "Success"
        /\ flow'[run.step].prov = [sig |-> run.sig, out |-> artifact[run.step]]
        /\ \A s \in Steps : s # run.step => flow'[s] = flow[s]
    BY <1>9, <2>1, OneStep DEF Accept, StepOK
  <2>3. flow'[run.step].prov # None /\ flow'[run.step].prov.sig = run.sig
    BY <2>2 DEF NoneIsNoRecord
  <2>4. qor[run.step] # None /\ qor[run.step].sig = run.sig /\ disk[run.step].state = "Ongoing"
    BY <2>1 DEF QorInv, Published, Started
  <2>5. Matched(disk)' /\ Backed(disk)'
    BY <2>1 DEF QorInv, Matched, Backed
  <2>6. Matched(flow)'
    BY <2>1, <2>2, <2>3, <2>4 DEF QorInv, Matched
  <2>7. Backed(flow)'
    BY <2>1, <2>2 DEF QorInv, Backed
  <2>8. Announced'
    BY <2>1, <2>2, <2>3, <2>4 DEF QorInv, Announced
  <2>9. Started' /\ Published'
    BY <2>1, <2>4 DEF Started, Published
  <2> QED BY <2>5, <2>6, <2>7, <2>8, <2>9 DEF QorInv
<1>10. ASSUME run.step \in Steps, flow' = [flow EXCEPT ![run.step] = Settle(@)]
       PROVE  /\ flow'[run.step].state = "Incomplete"
              /\ \A s \in Steps : s # run.step => flow'[s] = flow[s]
  BY <1>10, OneStep
<1>11. CASE Reject
  <2>1. /\ UNCHANGED <<disk, qor, run>> /\ pc = "published" /\ pc' = "rejecting" /\ ~run.ok
        /\ run.step \in Steps
    BY <1>11, <1>s DEF Reject
  <2>2. /\ flow'[run.step].state = "Incomplete"
        /\ \A s \in Steps : s # run.step => flow'[s] = flow[s]
    BY <1>10, <1>11, <2>1 DEF Reject
  <2>3. ~qor[run.step].pass
    BY <2>1 DEF QorInv, Published
  <2>4. Matched(disk)' /\ Backed(disk)'
    BY <2>1 DEF QorInv, Matched, Backed
  <2>5. Matched(flow)' /\ Backed(flow)'
    BY <2>1, <2>2, <2>3 DEF QorInv, Matched, Backed
  <2>6. Announced'
    BY <2>1, <2>2 DEF QorInv, Announced
  <2>7. Started' /\ Published'
    BY <2>1, <2>2 DEF Started, Published
  <2> QED BY <2>4, <2>5, <2>6, <2>7 DEF QorInv
<1>12. CASE SaveRaises
  <2>1. UNCHANGED <<disk, flow, qor, run>> /\ pc = "finishing" /\ pc' = "raised"
    BY <1>12 DEF SaveRaises
  <2>2. Started' /\ Published'
    BY <2>1 DEF QorInv, Started, Published
  <2> QED BY <1>q, <2>1, <2>2 DEF QorInv
<1>13. CASE HandleException
  <2>1. /\ disk' = disk /\ run'.step = run.step /\ pc = "raised" /\ pc' = "rejecting"
        /\ run.step \in Steps
    BY <1>13, <1>s DEF HandleException, TypeInv, TypeOK, NoRun
  <2>2. /\ flow'[run.step].state = "Incomplete"
        /\ \A s \in Steps : s # run.step => flow'[s] = flow[s]
    BY <1>10, <1>13, <2>1 DEF HandleException
  <2>3. /\ qor'[run.step] = None \/ qor'[run.step] = [pass |-> FALSE, sig |-> run.sig]
        /\ \A s \in Steps : s # run.step => qor'[s] = qor[s]
    BY <1>13, <2>1 DEF HandleException
  <2>4. disk[run.step].state = "Ongoing"
    BY <2>1 DEF QorInv, Started
  <2>5. Matched(disk)' /\ Backed(disk)'
    BY <2>1, <2>3, <2>4 DEF QorInv, Matched, Backed
  <2>6. Matched(flow)'
    BY <2>2, <2>3 DEF QorInv, Matched
  <2>7. Backed(flow)'
    <3>1. qor'[run.step] # None => qor'[run.step].pass = FALSE
      BY <2>3
    <3> QED BY <2>2, <2>3, <3>1 DEF QorInv, Backed
  <2>8. Announced'
    BY <2>1, <2>2, <2>3 DEF QorInv, Announced
  <2>9. Started' /\ Published'
    BY <2>1, <2>2 DEF Started, Published
  <2> QED BY <2>5, <2>6, <2>7, <2>8, <2>9 DEF QorInv
<1>14. CASE DropProvenance
  <2>1. /\ UNCHANGED <<disk, qor, run>> /\ pc = "rejected" /\ pc' = "dropping"
        /\ run.step \in Steps /\ flow[run.step].state = "Incomplete"
    BY <1>14, <1>s DEF DropProvenance, QorInv, Started
  <2>2. /\ flow'[run.step].state = "Incomplete"
        /\ \A s \in Steps : s # run.step => flow'[s] = flow[s]
    BY <1>14, <2>1, OneStep DEF DropProvenance, StepOK
  <2>3. Matched(disk)' /\ Backed(disk)'
    BY <2>1 DEF QorInv, Matched, Backed
  <2>4. Matched(flow)' /\ Backed(flow)'
    BY <2>1, <2>2 DEF QorInv, Matched, Backed
  <2>5. Announced'
    BY <2>1, <2>2 DEF QorInv, Announced
  <2>6. Started' /\ Published'
    BY <2>1, <2>2 DEF Started, Published
  <2> QED BY <2>3, <2>4, <2>5, <2>6 DEF QorInv
<1>15. CASE Return
  BY <1>15, <1>q, NotStarted DEF Return, QorInv
<1> QED
  BY <1>1, <1>2, <1>3, <1>4, <1>5, <1>6, <1>7, <1>8, <1>9, <1>11, <1>12, <1>13, <1>14, <1>15
  DEF RunStep

LEMMA QorDomain == QorTyped /\ [Next]_vars => QorTyped'
<1> SUFFICES ASSUME QorTyped, [Next]_vars PROVE QorTyped'
  OBVIOUS
<1> USE DEF QorTyped
<1>1. CASE Edit
  BY <1>1 DEF Edit, EditSource, EditConfig
<1>2. CASE Request
  BY <1>2 DEF Request, Open, OpenAndRecover, RecoverInterrupted, Recover, Reset, Close, RequestStep,
              WithoutStaleQor
<1>3. CASE RunStep
  BY <1>3 DEF RunStep, ServeCached, MarkDownstream, WithoutStaleQor, StartStep, ReadInputs,
              WriteOutputs, ToolRaises, PublishQor, PublishRaises, Accept, Reject, SaveRaises,
              HandleException, DropProvenance, Return
<1>4. CASE Save \/ Interrupt \/ Crash \/ UNCHANGED vars
  BY <1>4 DEF Save, Interrupt, Crash, vars
<1> QED BY <1>1, <1>2, <1>3, <1>4 DEF Next

LEMMA QorStep ==
    ASSUME NoneIsNoRecord
    PROVE  TypeInv /\ QorInv /\ QorTyped /\ [Next]_vars => QorInv' /\ QorTyped'
<1> SUFFICES ASSUME TypeInv, QorInv, QorTyped, [Next]_vars PROVE QorInv'
  BY QorDomain
<1> USE DEF environment, results
<1>q. ASSUME UNCHANGED <<disk, flow, qor>>
      PROVE  Matched(disk)' /\ Matched(flow)' /\ Backed(disk)' /\ Backed(flow)' /\ Announced'
  BY <1>q, QorDeleted
<1>1. CASE Save
  <2>1. /\ disk' = flow /\ flow' = flow /\ qor' = qor /\ pc' = AfterSave /\ pc \in SavePoints
    BY <1>1 DEF Save
  <2>2. Matched(disk)' /\ Matched(flow)' /\ Backed(disk)' /\ Backed(flow)' /\ Announced'
    BY <2>1 DEF QorInv, Matched, Backed, Announced
  <2>3. CASE pc \in {"starting", "rejecting"}
    <3>1. /\ pc = "starting" => pc' = "running"
          /\ pc = "rejecting" => pc' = "rejected"
          /\ run' = run
      BY <1>1, <2>1, <2>3 DEF Save, AfterSave
    <3>2. Started' /\ Published'
      BY <2>1, <2>3, <3>1 DEF QorInv, Started, Published
    <3> QED BY <2>2, <3>2 DEF QorInv
  <2>4. CASE pc \notin {"starting", "rejecting"}
    <3>1. pc' \in {"closed", "loaded", "refreshed", "marked", "returning"}
      BY <2>1, <2>4 DEF AfterSave, SavePoints
    <3> QED BY <2>2, <3>1, NotStarted DEF QorInv
  <2> QED BY <2>3, <2>4
<1>2. ASSUME NEW s \in Steps, NEW rerun \in BOOLEAN, NEW op \in Ops \cup {None},
             RequestStep(s, rerun, op)
      PROVE  QorInv'
  BY <1>2, StaleQor, QorDeleted, NotStarted DEF RequestStep, Refreshed, QorInv
<1>3. ASSUME NEW S, Recover(S) PROVE QorInv'
  <2>1. \A s \in Steps : \/ flow'[s] = disk[s] /\ qor'[s] \in {qor[s], None}
                         \/ flow'[s].state # "Success" /\ qor'[s] = None
    <3> SUFFICES ASSUME NEW s \in Steps
                 PROVE  \/ flow'[s] = disk[s] /\ qor'[s] \in {qor[s], None}
                        \/ flow'[s].state # "Success" /\ qor'[s] = None
      OBVIOUS
    <3>1. Settle(disk[s]).state = "Incomplete"
      BY DEF Settle, TypeInv, TypeOK, StepOK
    <3> QED BY <1>3, <3>1 DEF Recover
  <2> QED BY <1>3, <2>1, QorDeleted, NotStarted DEF Recover, QorInv
<1>4. CASE Open
  BY <1>4, QorDeleted, NotStarted DEF Open, QorInv
<1>5. CASE Reset
  <2>1. \A s \in Steps : flow'[s].state # "Success" /\ qor'[s] = None
    BY <1>5 DEF Reset, NewStep
  <2> QED BY <1>5, <2>1, QorDeleted, NotStarted DEF Reset, QorInv
<1>6. CASE Close
  BY <1>6, <1>q, NotStarted DEF Close, QorInv
<1>7. CASE Edit
  <2>1. UNCHANGED <<disk, flow, qor, pc, run>>
    BY <1>7 DEF Edit, EditSource, EditConfig
  <2>2. Started' /\ Published'
    BY <2>1 DEF QorInv, Started, Published
  <2> QED BY <1>q, <2>1, <2>2 DEF QorInv
<1>8. CASE Interrupt
  <2>1. run.step \in Steps /\ run'.step = run.step /\ pc' = "rejecting" /\ disk' = disk
    BY <1>8 DEF Interrupt, TypeInv, TypeOK, RunTyped, TryPoints, NoRun
  <2>2. /\ flow'[run.step].state = "Incomplete" /\ qor'[run.step] = None
        /\ \A s \in Steps : s # run.step => flow'[s] = flow[s] /\ qor'[s] = qor[s]
    BY <1>8, <2>1, OneStep DEF Interrupt, QorTyped
  <2>3. Started' /\ Published'
    BY <2>1, <2>2 DEF Started, Published
  <2> QED BY <2>1, <2>2, <2>3, QorDeleted DEF QorInv
<1>9. CASE Crash
  BY <1>9, QorDeleted, NotStarted DEF Crash, QorInv
<1>10. CASE UNCHANGED vars
  <2>1. UNCHANGED <<disk, flow, qor, pc, run>>
    BY <1>10 DEF vars
  <2>2. Started' /\ Published'
    BY <2>1 DEF QorInv, Started, Published
  <2> QED BY <1>q, <2>1, <2>2 DEF QorInv
<1>11. CASE RunStep
  BY <1>11, QorRunStep
<1> QED
  BY <1>1, <1>2, <1>3, <1>4, <1>5, <1>6, <1>7, <1>8, <1>9, <1>10, <1>11
  DEF Next, Request, OpenAndRecover, RecoverInterrupted

LEMMA QorInvariant ==
    ASSUME NoneIsNoRecord
    PROVE  Spec => [](TypeInv /\ QorInv /\ QorTyped)
<1>1. Init => QorTyped
  BY DEF Init, QorTyped
<1>2. TypeInv /\ QorInv /\ QorTyped /\ [Next]_vars
      => TypeInv' /\ QorInv' /\ QorTyped'
  BY TypeStep, QorStep
<1> QED BY <1>1, <1>2, InitTypeInv, InitQor, PTL DEF Spec

\* The QoR triplet next to a successful step is that of the run which flow.json
\* records for it, whichever write of write_step_qor, clear_step_qor and save a
\* crash, an interrupt or a failure cuts off.
THEOREM QorIsOfTheRecordedRun ==
    ASSUME NoneIsNoRecord
    PROVE  Spec => []QorMatchesProvenance
<1>1. QorInv => QorMatchesProvenance
  BY DEF QorInv, Matched, QorMatchesProvenance
<1> QED BY <1>1, QorInvariant, PTL

\* A QoR that says "pass" is never left behind by a step that failed, was
\* interrupted, invalidated or reset.
THEOREM PassesAreBacked ==
    ASSUME NoneIsNoRecord
    PROVE  Spec => []PassIsBacked
<1>1. QorInv => PassIsBacked
  BY DEF QorInv, Backed, PassIsBacked
<1> QED BY <1>1, QorInvariant, PTL

\* flow.json records a Success only after the QoR of the same run is published.
THEOREM SuccessesHaveQor ==
    ASSUME NoneIsNoRecord
    PROVE  Spec => SuccessNeedsQor
<1>1. TypeInv /\ QorInv /\ [Next]_vars =>
          [\A s \in Steps : disk'[s].state = "Success" /\ disk'[s] # disk[s] =>
              qor[s] # None /\ qor[s].sig = disk'[s].prov.sig]_vars
  <2> SUFFICES ASSUME QorInv, Next, NEW s \in Steps,
                      disk'[s].state = "Success", disk'[s] # disk[s]
               PROVE  qor[s] # None /\ qor[s].sig = disk'[s].prov.sig
    OBVIOUS
  <2>1. disk' = flow
    BY DEF Next, Save, RunStep, Request, Edit, Interrupt, Crash, ServeCached,
           MarkDownstream, StartStep, ReadInputs, WriteOutputs, ToolRaises, PublishQor,
           PublishRaises, Accept, Reject, SaveRaises, HandleException, DropProvenance,
           Return, Open, OpenAndRecover, RecoverInterrupted, Recover, Reset, Close,
           RequestStep, EditSource, EditConfig
  <2> QED BY <2>1 DEF QorInv, Announced
<1> QED BY <1>1, QorInvariant, PTL DEF Spec, SuccessNeedsQor
=============================================================================
